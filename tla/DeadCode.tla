------------------------------- MODULE DeadCode -------------------------------
(***************************************************************************)
(* Dead code elimination (src/src/ir/dce): one run of eliminate_dead_code  *)
(* over one module of the intermediate representation.                     *)
(*                                                                         *)
(* The run has five parts, in the order of the code: collapse the branches *)
(* of constant conditions, remove the local bindings nothing reads, remove *)
(* the private module bindings nothing reads until none is left, then in   *)
(* rounds mark every definition something refers to and remove the others, *)
(* rewriting every id that names a survivor.                               *)
(*                                                                         *)
(* Ids are positions, as in the code (from 1 here, from 0 there), so each  *)
(* removal moves them.  Every definition carries its original position in  *)
(* "was" and every reference the original position of what it names in     *)
(* "means": the program has neither, the properties compare them.          *)
(***************************************************************************)
EXTENDS Integers, Sequences, FiniteSets, Ranks

CONSTANT Modules        \* the modules a run may start from

Kinds == {"struct", "trait", "enum"}

\* A reference to a definition, a bound on a trait, the static call of an impl,
\* and a read of a local or of a module binding (id 0: by its name only).
Ref == [kind : Kinds, id : Nat, means : Nat]
Bound == [trait : Ref, args : SUBSET Ref]
Call == [id : Nat, means : Nat]
Read == [name : STRING, id : Nat, means : Nat]

Branch == [at : Nat, types : SUBSET Ref, calls : SUBSET Call, reads : SUBSET Read,
           effect : BOOLEAN]
Expr == [test : {"none", "true", "false", "open"}, branches : Seq(Branch) \ {<<>>}]
Statement == [form : {"let", "assign", "do"}, name : STRING, value : Expr]
Block == Seq(Statement)

Def == [was : Nat, pub : BOOLEAN, types : SUBSET Ref, bounds : SUBSET Bound,
        composed : SUBSET Ref, default : Block]
Impl == [was : Nat, target : SUBSET Ref, trait : SUBSET Bound, sig : SUBSET Ref,
         bounds : SUBSET Bound, body : Block, default : Block]
Function == [sig : SUBSET Ref, bounds : SUBSET Bound, body : Block, default : Block]
LetDef == [was : Nat, pub : BOOLEAN, name : STRING, type : SUBSET Ref, value : Block]
Module == [defs : [Kinds -> Seq(Def)], impls : Seq(Impl), functions : Seq(Function),
           lets : Seq(LetDef)]

ASSUME ModulesAreTyped == Modules \subseteq Module

VARIABLES pc,        \* the part of eliminate_dead_code that runs next
          source,    \* the module given to the pass
          all,       \* remove_unused_structs: remove definitions too
          ir,        \* the module being rewritten
          used,      \* the definitions the analysis marked, as <<kind, id>>
          rounds     \* rounds of mark and remove the loop may still take

vars == <<pc, source, all, ir, used, rounds>>

Elements(s) == {s[i] : i \in DOMAIN s}

(***************************************************************************)
(* Expressions.  A body, a default or a value is a block: a sequence of    *)
(* statements, the last of which is its result.  A statement's value has   *)
(* one branch, or the branches of an "if"; a branch holds the types it     *)
(* names, the impls it calls statically, what it reads, and whether it can *)
(* have an effect or a fault.                                              *)
(***************************************************************************)
Branches(e) == UNION {Elements(e[i].value.branches) : i \in DOMAIN e}
TypesIn(e)  == UNION {b.types : b \in Branches(e)}
CallsIn(e)  == UNION {b.calls : b \in Branches(e)}
ReadsIn(e)  == UNION {b.reads : b \in Branches(e)}

\* An expression with each branch b replaced by F(b).
OnBranches(e, F(_)) ==
    [i \in DOMAIN e |->
        [e[i] EXCEPT !.value.branches =
            [j \in DOMAIN e[i].value.branches |-> F(e[i].value.branches[j])]]]

\* The roots of the module: every expression that is not inside another one.
RootsOf(m) ==
    (UNION {{f.body, f.default} : f \in Elements(m.functions)})
    \cup (UNION {{i.body, i.default} : i \in Elements(m.impls)})
    \cup {d.default : d \in UNION {Elements(m.defs[k]) : k \in Kinds}}
    \cup {l.value : l \in Elements(m.lets)}

Reads(m) == UNION {ReadsIn(e) : e \in RootsOf(m)}

\* A bound: a conformance or a constraint on a type parameter.
OfBounds(bounds) == {b.trait : b \in bounds} \cup UNION {b.args : b \in bounds}

RefsOf(m) ==
    LET defs == UNION {Elements(m.defs[k]) : k \in Kinds}
        functions == Elements(m.functions) \cup Elements(m.impls)
    IN  (UNION {TypesIn(e) : e \in RootsOf(m)})
        \cup (UNION {d.types \cup d.composed \cup OfBounds(d.bounds) : d \in defs})
        \cup (UNION {f.sig \cup OfBounds(f.bounds) : f \in functions})
        \cup (UNION {i.target \cup OfBounds(i.trait) : i \in Elements(m.impls)})
        \cup (UNION {l.type : l \in Elements(m.lets)})

\* Whether position "id" of a sequence holds the item that was at "means".
Names(s, id, means) == id \in DOMAIN s /\ s[id].was = means

RefOK(m, r)  == Names(m.defs[r.kind], r.id, r.means)
CallOK(m, c) == Names(m.impls, c.id, c.means)
ReadOK(m, r) ==
    \/ r.means = 0
    \/ r.id # 0 /\ Names(m.lets, r.id, r.means)
    \/ r.id = 0 /\ \E l \in Elements(m.lets) : l.was = r.means

\* Each id names the definition, the impl or the binding that it means.
IdsAreRight(m) ==
    /\ \A r \in RefsOf(m) : RefOK(m, r)
    /\ \A e \in RootsOf(m) : \A c \in CallsIn(e) : CallOK(m, c)
    /\ \A r \in Reads(m) : ReadOK(m, r)

\* At the start, items are where they are, ids mean what they name, and what
\* reads a binding by its name has its name.
Numbered(items) == \A i \in DOMAIN items : items[i].was = i
IsResolved(m) ==
    /\ \A k \in Kinds : Numbered(m.defs[k])
    /\ Numbered(m.impls) /\ Numbered(m.lets)
    /\ IdsAreRight(m)
    /\ \A r \in Reads(m) : r.means # 0 /\ r.id = 0 => r.name = m.lets[r.means].name

\* What monomorphisation leaves: no bound has arguments, no function is
\* generic, impls are of structs and enums, and what calls an impl names the
\* type that the impl is for.
BoundsAreClosed(bounds) == \A b \in bounds : b.args = {} /\ b.trait.kind = "trait"
IsMonomorphic(m) ==
    /\ \A k \in Kinds : \A d \in Elements(m.defs[k]) :
          BoundsAreClosed(d.bounds) /\ \A r \in d.composed : r.kind = "trait"
    /\ \A f \in Elements(m.functions) \cup Elements(m.impls) : f.bounds = {}
    /\ \A i \in Elements(m.impls) :
          BoundsAreClosed(i.trait) /\ \A t \in i.target : t.kind # "trait"
    /\ \A e \in RootsOf(m) : \A b \in Branches(e) : \A c \in b.calls :
          m.impls[c.id].target \subseteq b.types

\* A parameter default that calls a method keeps the id of the impl when impls
\* move; EveryIdIsRewritten holds of the modules that have none.
DefaultsCallNothing(m) ==
    \A f \in Elements(m.functions) \cup Elements(m.impls) : CallsIn(f.default) = {}

ASSUME ModulesAreResolved == \A m \in Modules : IsResolved(m)
ASSUME ModulesAreMonomorphic == \A m \in Modules : IsMonomorphic(m)

\* The last statement of a block is its result: lowering puts the result of a
\* block behind its statements.
ASSUME BlocksHaveResults ==
    \A m \in Modules : \A e \in RootsOf(m) : e # <<>> => e[Len(e)].form = "do"

\* A module with each body, parameter default, field default and binding value
\* rewritten by the operator given for it.  Only structs have field defaults:
\* lowering gives none to the fields of enums and traits.
OnRoots(m, Body(_), Param(_), Field(_), Value(_)) ==
    LET OnFunction(f) == [f EXCEPT !.body = Body(@), !.default = Param(@)]
        OnDef(d) == [d EXCEPT !.default = Field(@)]
        OnLet(l) == [l EXCEPT !.value = Value(@)]
    IN  [defs |-> [k \in Kinds |-> [i \in DOMAIN m.defs[k] |-> OnDef(m.defs[k][i])]],
         impls |-> [i \in DOMAIN m.impls |-> OnFunction(m.impls[i])],
         functions |-> [i \in DOMAIN m.functions |-> OnFunction(m.functions[i])],
         lets |-> [i \in DOMAIN m.lets |-> OnLet(m.lets[i])]]

Same(e) == e

(***************************************************************************)
(* Branches of a constant condition.  An "if false" with no else stays.    *)
(***************************************************************************)
Collapse(v) ==
    LET taken == CASE v.test = "true" -> 1
                   [] v.test = "false" /\ Len(v.branches) = 2 -> 2
                   [] OTHER -> 0
    IN  IF taken = 0 THEN v ELSE [test |-> "none", branches |-> <<v.branches[taken]>>]

eliminate_dead_code_expr(e) ==
    [i \in DOMAIN e |-> [e[i] EXCEPT !.value = Collapse(@)]]

(***************************************************************************)
(* Local bindings, walked from the end of the block.                       *)
(***************************************************************************)
names_in(v) == {r.name : r \in UNION {b.reads : b \in Elements(v.branches)}}
effect_free(v) == \A b \in Elements(v.branches) : ~b.effect

\* Mutant: the names a binding reads are added before its own is taken out.
BeforeSwapped(e, i, after) ==
    LET s == e[i]
    IN  IF s.form = "let" /\ s.name \notin after.used /\ effect_free(s.value)
        THEN after
        ELSE [used |-> (after.used \cup names_in(s.value))
                         \ (IF s.form = "let" THEN {s.name} ELSE {}),
              keep |-> after.keep \cup {i}]

\* What the walk knows in front of statement i, from what it knows behind it:
\* the names read from there on, and the statements kept.
Before(e, i, after) ==
    LET s == e[i]
        needed == s.name \in after.used \/ ~effect_free(s.value)
        keep == after.keep \cup {i}
    IN  CASE s.form = "let" /\ ~needed -> after
          [] s.form = "let" /\ needed ->
               [used |-> (after.used \ {s.name}) \cup names_in(s.value), keep |-> keep]
          [] s.form = "assign" ->
               [used |-> after.used \cup {s.name} \cup names_in(s.value), keep |-> keep]
          [] s.form = "do" ->
               [used |-> after.used \cup names_in(s.value), keep |-> keep]

WalkFromEnd(e) ==
    LET walk[i \in 1..Len(e) + 1] ==
          IF i > Len(e) THEN [used |-> {}, keep |-> {}] ELSE Before(e, i, walk[i + 1])
    IN  walk[1]

remove_unused_locals(e) == Kept(e, WalkFromEnd(e).keep)

(***************************************************************************)
(* Private module bindings.                                                *)
(***************************************************************************)
UnreadLets(m) ==
    {i \in DOMAIN m.lets :
        /\ ~m.lets[i].pub
        /\ \A r \in Reads(m) : r.name # m.lets[i].name /\ r.id # i
        /\ \A s \in Elements(m.lets[i].value) : effect_free(s.value)}

remap_let_ids(e, keep) ==
    LET Moved(r) == IF r.id \in keep THEN [r EXCEPT !.id = Rank(keep, r.id)] ELSE r
        OnBranch(b) == [b EXCEPT !.reads = {Moved(r) : r \in @}]
    IN  OnBranches(e, OnBranch)

remap_roots(m, keep) ==
    LET Moved(e) == remap_let_ids(e, keep) IN OnRoots(m, Moved, Moved, Moved, Moved)

RemoveLets(m, gone) ==
    LET keep == DOMAIN m.lets \ gone
    IN  remap_roots([m EXCEPT !.lets = Kept(@, keep)], keep)

(***************************************************************************)
(* The analysis: mark everything something refers to.                      *)
(***************************************************************************)
Mark(r) == <<r.kind, r.id>>
MarkAll(refs) == {Mark(r) : r \in refs}

\* Mutant: a public definition is like any other.
PublicIsNotMarked == {}

mark_public_definitions ==
    UNION {{<<k, i>> : i \in {j \in DOMAIN ir.defs[k] : ir.defs[k][j].pub}} : k \in Kinds}

mark_used_in_functions ==
    MarkAll(UNION {f.sig \cup TypesIn(f.body) \cup TypesIn(f.default) :
                      f \in Elements(ir.functions) \cup Elements(ir.impls)})

mark_used_in_lets ==
    MarkAll(UNION {l.type \cup TypesIn(l.value) : l \in Elements(ir.lets)})

mark_used_in_definitions ==
    MarkAll(UNION {d.types \cup d.composed \cup OfBounds(d.bounds) \cup TypesIn(d.default) :
                      d \in UNION {Elements(ir.defs[k]) : k \in Kinds}})

\* The one step that asks whether something is live already: the impls are
\* walked once, in order, each against what is marked when its turn comes.
mark_used_in_impl(n, marked) ==
    IF \A t \in ir.impls[n].target : Mark(t) \in marked
    THEN marked \cup MarkAll(OfBounds(ir.impls[n].trait)) ELSE marked

mark_used_in_impl_traits(marked) ==
    LET upTo[n \in 0..Len(ir.impls)] ==
          IF n = 0 THEN marked ELSE mark_used_in_impl(n, upTo[n - 1])
    IN  upTo[Len(ir.impls)]

Analyzed ==
    mark_used_in_impl_traits(
        mark_public_definitions \cup mark_used_in_functions
            \cup mark_used_in_lets \cup mark_used_in_definitions)

(***************************************************************************)
(* The removal and the rewriting of ids.  An id whose definition goes is   *)
(* left as it is; a bound whose trait goes is dropped, except an impl's.   *)
(***************************************************************************)
build_remap == [k \in Kinds |-> {i \in DOMAIN ir.defs[k] : <<k, i>> \in used}]

build_impl_index_remap(keep) ==
    {n \in DOMAIN ir.impls : \A t \in ir.impls[n].target : t.id \in keep[t.kind]}

remap_type(r, keep) ==
    IF r.id \in keep[r.kind] THEN [r EXCEPT !.id = Rank(keep[r.kind], r.id)] ELSE r

remap_types(refs, keep) == {remap_type(r, keep) : r \in refs}

remap_expr(e, keep) ==
    LET OnBranch(b) == [b EXCEPT !.types = remap_types(@, keep)]
    IN  OnBranches(e, OnBranch)

remap_bound(b, keep) ==
    [trait |-> remap_type(b.trait, keep), args |-> remap_types(b.args, keep)]

retain_trait_ref(bounds, keep) ==
    {remap_bound(b, keep) : b \in {c \in bounds : c.trait.id \in keep["trait"]}}

retain_trait_id(refs, keep) == remap_types({r \in refs : r.id \in keep["trait"]}, keep)

remap_definition(d, keep) ==
    [d EXCEPT !.types = remap_types(@, keep), !.composed = retain_trait_id(@, keep),
              !.bounds = retain_trait_ref(@, keep), !.default = remap_expr(@, keep)]

remap_function(f, keep) ==
    [f EXCEPT !.sig = remap_types(@, keep), !.body = remap_expr(@, keep),
              !.default = remap_expr(@, keep)]

remap_impl(imp, keep) ==
    [remap_function(imp, keep) EXCEPT
        !.target = remap_types(@, keep),
        !.trait = {IF b.trait.id \in keep["trait"] THEN remap_bound(b, keep) ELSE b : b \in @}]

remap_let(l, keep) ==
    [l EXCEPT !.type = remap_types(@, keep), !.value = remap_expr(@, keep)]

remap_module(m, keep) ==
    [defs |-> [k \in Kinds |-> [i \in DOMAIN m.defs[k] |-> remap_definition(m.defs[k][i], keep)]],
     impls |-> [i \in DOMAIN m.impls |-> remap_impl(m.impls[i], keep)],
     functions |-> [i \in DOMAIN m.functions |-> remap_function(m.functions[i], keep)],
     lets |-> [i \in DOMAIN m.lets |-> remap_let(m.lets[i], keep)]]

rewrite_static_impl_ids(e, keep) ==
    LET Moved(c) == IF c.id \in keep THEN [c EXCEPT !.id = Rank(keep, c.id)] ELSE c
        OnBranch(b) == [b EXCEPT !.calls = {Moved(c) : c \in @}]
    IN  OnBranches(e, OnBranch)

\* Mutant: the bodies of functions and the bindings only.
CallsOfFunctionsOnly(m, keep) ==
    [m EXCEPT !.functions = [i \in DOMAIN @ |->
                  [@[i] EXCEPT !.body = rewrite_static_impl_ids(@, keep)]]]

\* The parameter defaults are not among the expressions it rewrites.
apply_impl_index_remap(m, keep) ==
    LET Moved(e) == rewrite_static_impl_ids(e, keep)
    IN  OnRoots(m, Moved, Same, Moved, Moved)

remove_unused_definitions ==
    LET keep == build_remap
        impls == build_impl_index_remap(keep)
        left == [ir EXCEPT !.defs = [k \in Kinds |-> Kept(@[k], keep[k])],
                           !.impls = Kept(@, impls)]
    IN  apply_impl_index_remap(remap_module(left, keep), impls)

(***************************************************************************)
(* The pass.                                                               *)
(***************************************************************************)
Count(m) == [k \in Kinds |-> Len(m.defs[k])]
TotalOf(m) == Len(m.defs["struct"]) + Len(m.defs["trait"]) + Len(m.defs["enum"])

Init ==
    /\ source \in Modules
    /\ all \in BOOLEAN
    /\ pc = "branches"
    /\ ir = source
    /\ used = {}
    /\ rounds = 0

CollapseBranches ==
    /\ pc = "branches"
    /\ ir' = OnRoots(ir, eliminate_dead_code_expr, Same,
                     eliminate_dead_code_expr, eliminate_dead_code_expr)
    /\ pc' = "locals"
    /\ UNCHANGED <<source, all, used, rounds>>

RemoveLocals ==
    /\ pc = "locals"
    /\ ir' = OnRoots(ir, remove_unused_locals, remove_unused_locals,
                     remove_unused_locals, remove_unused_locals)
    /\ pc' = IF all THEN "lets" ELSE "done"
    /\ UNCHANGED <<source, all, used, rounds>>

RemoveUnreadLets ==
    /\ pc = "lets"
    /\ UnreadLets(ir) # {}
    /\ ir' = RemoveLets(ir, UnreadLets(ir))
    /\ UNCHANGED <<pc, source, all, used, rounds>>

NoUnreadLets ==
    /\ pc = "lets"
    /\ UnreadLets(ir) = {}
    /\ rounds' = TotalOf(ir) + 1
    /\ pc' = "mark"
    /\ UNCHANGED <<source, all, ir, used>>

Analyze ==
    /\ pc = "mark"
    /\ used' = Analyzed
    /\ pc' = "remove"
    /\ UNCHANGED <<source, all, ir, rounds>>

\* Mutants: one round only; a round that does not ask what it changed.
RemoveInOneRound ==
    /\ pc = "remove"
    /\ ir' = remove_unused_definitions
    /\ rounds' = rounds - 1
    /\ pc' = "done"
    /\ UNCHANGED <<source, all, used>>
RemoveForEver ==
    /\ pc = "remove"
    /\ ir' = remove_unused_definitions
    /\ pc' = "mark"
    /\ UNCHANGED <<source, all, used, rounds>>

Remove ==
    /\ pc = "remove"
    /\ ir' = remove_unused_definitions
    /\ rounds' = rounds - 1
    /\ pc' = IF Count(ir') = Count(ir) \/ rounds = 1 THEN "done" ELSE "mark"
    /\ UNCHANGED <<source, all, used>>

Next == \/ CollapseBranches \/ RemoveLocals \/ RemoveUnreadLets
        \/ NoUnreadLets \/ Analyze \/ Remove

Spec == Init /\ [][Next]_vars /\ WF_vars(Next)

(***************************************************************************)
(* Properties.                                                             *)
(***************************************************************************)
Survivors(k) == {d.was : d \in Elements(ir.defs[k])}

\* The shape of the state: the part that runs next, a module whose items
\* are items of the source, in its order, and marks on what the module has.
InOrder(items, sources) ==
    /\ \A i \in DOMAIN items : items[i].was \in DOMAIN sources
    /\ \A i, j \in DOMAIN items : i < j => items[i].was < items[j].was
TypeOK ==
    /\ pc \in {"branches", "locals", "lets", "mark", "remove", "done"}
    /\ all \in BOOLEAN
    /\ \A k \in Kinds : InOrder(ir.defs[k], source.defs[k])
    /\ InOrder(ir.impls, source.impls) /\ InOrder(ir.lets, source.lets)
    /\ pc = "remove" => used \subseteq {<<k, i>> : k \in Kinds, i \in 1..TotalOf(ir)}
    /\ rounds \in 0..TotalOf(source) + 1

\* After every part of the pass, each id in the module names the definition,
\* the impl or the binding it named at the start (docs/developer/architecture/
\* passes.md: "After a removal, it rewrites each id in the module").
EveryIdIsRewritten == IdsAreRight(ir)

\* A definition, an impl or a signature that stays still names all it named:
\* no bound, no composed trait and no field is dropped because its trait or
\* its type was thought unused.
Meant(refs) == {<<r.kind, r.means>> : r \in refs}
MeantBy(bounds) == {<<b.trait.means, Meant(b.args)>> : b \in bounds}
SameSignature(f, g) == Meant(f.sig) = Meant(g.sig) /\ MeantBy(f.bounds) = MeantBy(g.bounds)
ContentsAreKept ==
    /\ \A k \in Kinds : \A d \in Elements(ir.defs[k]) :
          LET s == source.defs[k][d.was]
          IN  /\ Meant(d.types) = Meant(s.types)
              /\ Meant(d.composed) = Meant(s.composed)
              /\ MeantBy(d.bounds) = MeantBy(s.bounds)
    /\ \A i \in Elements(ir.impls) :
          LET s == source.impls[i.was]
          IN  SameSignature(i, s) /\ MeantBy(i.trait) = MeantBy(s.trait)
    /\ \A n \in DOMAIN ir.functions : SameSignature(ir.functions[n], source.functions[n])

\* Removal moves what stays and changes nothing of it: each part is where its
\* order in the source puts it, and every id, bound and target still means
\* what it meant.
IdsKeepTheirMeaning == TypeOK /\ EveryIdIsRewritten /\ ContentsAreKept

\* The contract of the module stays: public definitions and bindings,
\* functions, bindings whose value can have an effect, and the impls of
\* every type that stays.  Impls of a type that goes do not stay behind.
NothingNeededGoes ==
    /\ \A k \in Kinds : \A i \in DOMAIN source.defs[k] :
          source.defs[k][i].pub => i \in Survivors(k)
    /\ Len(ir.functions) = Len(source.functions)
    /\ \A i \in DOMAIN source.lets :
          source.lets[i].pub \/ (\E s \in Elements(source.lets[i].value) :
                                    s.value.test = "none" /\ ~effect_free(s.value))
          => i \in {l.was : l \in Elements(ir.lets)}
    /\ \A i \in DOMAIN source.impls :
          (\A t \in source.impls[i].target : t.means \in Survivors(t.kind))
              <=> (i \in {m.was : m \in Elements(ir.impls)})

\* What a block does: the effects it has, in order, each with the values it
\* is computed from, and the value of its last statement.  "open" decides
\* the conditions the compiler does not know; an "if" takes its first branch
\* or its second, if it has one.
Nothing == [at |-> 0, from |-> {}]
Taken(v, open) ==
    LET n == IF v.test \in {"none", "true"} \/ (v.test = "open" /\ open) THEN 1 ELSE 2
    IN  {v.branches[j] : j \in DOMAIN v.branches \cap {n}}
ValueOf(taken, env) ==
    IF taken = {} THEN Nothing
    ELSE LET b == CHOOSE b \in taken : TRUE
         IN  [at |-> b.at, from |-> {<<r.name, env[r.name]>> : r \in b.reads}]
Execute(s, open, before) ==
    LET taken == Taken(s.value, open)
        value == ValueOf(taken, before.env)
    IN  [env |-> IF s.form = "do" THEN before.env ELSE [before.env EXCEPT ![s.name] = value],
         effects |-> IF \E b \in taken : b.effect THEN Append(before.effects, value)
                     ELSE before.effects,
         value |-> value]
NamesOf(e) == {r.name : r \in ReadsIn(e)} \cup {e[i].name : i \in DOMAIN e}
AtFirst(e) == [env |-> [n \in NamesOf(e) |-> Nothing], effects |-> <<>>, value |-> Nothing]
Outcome(e, open) ==
    LET run[i \in 0..Len(e)] ==
          IF i = 0 THEN AtFirst(e) ELSE Execute(e[i], open, run[i - 1])
    IN  [effects |-> run[Len(e)].effects, value |-> run[Len(e)].value]

\* Every body and every default that stays does what it did, whatever the
\* open conditions give.
SameOutcome(e, f) == \A open \in BOOLEAN : Outcome(e, open) = Outcome(f, open)
SameBehaviour ==
    /\ \A n \in DOMAIN ir.functions :
          /\ SameOutcome(ir.functions[n].body, source.functions[n].body)
          /\ SameOutcome(ir.functions[n].default, source.functions[n].default)
    /\ \A i \in Elements(ir.impls) : SameOutcome(i.body, source.impls[i.was].body)
    /\ \A d \in Elements(ir.defs["struct"]) :
          SameOutcome(d.default, source.defs["struct"][d.was].default)
    /\ \A l \in Elements(ir.lets) : SameOutcome(l.value, source.lets[l.was].value)

\* The rounds end because nothing more goes, never because the bound on them
\* is reached: one more analysis of the result marks every definition.
NoUnusedDefinitionStays ==
    (pc = "done" /\ all) => \A k \in Kinds : \A i \in DOMAIN ir.defs[k] : <<k, i>> \in Analyzed

\* The pass ends: the loop over bindings and the loop of rounds both do.
Terminates == <>(pc = "done")
=============================================================================
