---------------------------- MODULE MonoMeaning ----------------------------
(***************************************************************************)
(* What the source program means, read with type arguments passed along,   *)
(* and what the module that monomorphisation gives must have in common     *)
(* with it.  The pass never sees this reading: it goes by the source, the  *)
(* closed types and the callee every call was written for.                 *)
(***************************************************************************)
EXTENDS Monomorphise

Merge(a, b) == [n \in DOMAIN a \cup DOMAIN b |-> IF n \in DOMAIN a THEN a[n] ELSE b[n]]

Source(from) ==
  CASE from.item = "fn"     -> program.fns[from.id]
    [] from.item = "method" -> program.impls[from.id].methods[from.idx]
    [] from.item = "let"    -> program.lets[from.id]

OwnerParams(from) ==
  IF from.item = "method" THEN program.types[program.impls[from.id].target].params ELSE <<>>

Env(from) == Merge(Bound(Source(from).params, from.args), Bound(OwnerParams(from), from.self))

ReadTypes(ts, env) == MapSeq(ts, LAMBDA t : Substitute(t, env))

(* The impl and the method that a call through a bound means.              *)
Chosen(n, receiver, env) ==
  CHOOSE c \in {<<i, j>> : i \in DOMAIN program.impls, j \in 1..2} :
    LET imp == program.impls[c[1]]
    IN  /\ imp.target = receiver.id
        /\ c[2] \in DOMAIN imp.methods
        /\ imp.methods[c[2]].name = n.name
        /\ \E r \in ToSet(imp.trait) :
             /\ r.id = n.id
             /\ ReadTypes(r.args, Bound(program.types[imp.target].params, receiver.args))
                  = ReadTypes(n.args, env)

(* The definition a call means, with its closed type arguments; ts are the *)
(* closed types of the call's kids.                                        *)
Callee(n, ts, env) ==
  LET own(f, given) == LET subs == UnifyArgs(f.args, given, NoSubs)
                       IN  [i \in DOMAIN f.params |-> subs[f.params[i].name]]
      bound == Chosen(n, ts[1], env)
      at(i, j) == LET f    == program.impls[i].methods[j]
                      self == Bound(program.types[program.impls[i].target].params, ts[1].args)
                  IN  From("method", i, j, ts[1].args,
                           own([f EXCEPT !.args = ReadTypes(@, self)], Tail(ts)))
  IN  CASE n.kind = "call" -> From("fn", n.means, 0, <<>>, own(program.fns[n.means], ts))
        [] n.kind = "method" /\ n.dispatch = "static"  -> at(n.id, n.idx)
        [] n.kind = "method" /\ n.dispatch = "virtual" -> at(bound[1], bound[2])

(* The closed type of every expression of a body.                          *)
ClosedTypes(from) ==
  LET body == Source(from).body
      env  == Env(from)
      T[p \in DOMAIN body] ==
        LET n  == body[p]
            ts == [i \in DOMAIN n.kids |-> T[n.kids[i]]]
            c  == Callee(n, ts, env)
        IN  IF n.kind \in {"call", "method"}
            THEN Substitute(Source(c).ret, Env(c))
            ELSE Substitute(n.ty, env)
  IN  [p \in DOMAIN body |-> T[p]]

CalleeAt(from, types, p) ==
  LET n == Source(from).body[p]
  IN  Callee(n, [i \in DOMAIN n.kids |-> types[n.kids[i]]], Env(from))

(***************************************************************************)
(* Everything a program needs, up to the depth limit: the items reached    *)
(* from what is not generic, and the methods of every type in use.         *)
(***************************************************************************)
Calls(from) == {p \in DOMAIN Source(from).body : Source(from).body[p].kind \in {"call", "method"}}

RECURSIVE Parts(_)
Parts(t) == {t} \cup UNION {Parts(t.args[i]) : i \in DOMAIN t.args}

PartsOf(types) == UNION {Parts(t) : t \in types}

(* The prelude's carriers are not copied, and may nest as deep as they do. *)
IsCopied(t) == t.kind = "generic" /\ ~program.types[t.id].carrier

MethodsOn(t) ==
  {From("method", i, j, t.args, <<>>) :
     <<i, j>> \in {<<i, j>> \in (DOMAIN program.impls) \X (1..3) :
                     /\ t.kind \in {"def", "generic"}
                     /\ program.impls[i].target = t.id
                     /\ j \in DOMAIN program.impls[i].methods
                     /\ program.impls[i].methods[j].params = <<>>
                     /\ program.impls[i].methods[j].body # <<>>}}

Shallow(args) == \A i \in DOMAIN args : Depth(args[i], NoSubs) <= MaxDepth

NeededBy(from) ==
  LET types == ClosedTypes(from)
  IN  {CalleeAt(from, types, p) : p \in Calls(from)}
        \cup UNION {MethodsOn(t) : t \in PartsOf(ToSet(types))}

RECURSIVE Needed(_)
Needed(items) ==
  LET more == items \cup {c \in UNION {NeededBy(f) : f \in items} :
                            Shallow(c.args) /\ Shallow(c.self)}
  IN  IF more = items THEN items ELSE Needed(more)

Roots ==
  {From("let", i, 0, <<>>, <<>>) : i \in DOMAIN program.lets}
    \cup {From("fn", i, 0, <<>>, <<>>) : i \in {k \in DOMAIN program.fns :
                                                  program.fns[k].params = <<>>}}

NeedsTooDeep ==
  \E f \in Needed(Roots) :
    \/ \E c \in NeededBy(f) : ~Shallow(c.args) \/ ~Shallow(c.self)
    \/ \E t \in PartsOf(ToSet(ClosedTypes(f))) : IsCopied(t) /\ ~Shallow(t.args)

(***************************************************************************)
(* The instances that a module spells out, with those in their fields, and *)
(* how many stand one inside the other.  A prelude carrier stays generic,  *)
(* but for one that a field of such an instance holds: it is copied too,   *)
(* and its name is that copy everywhere, if no copy is inside it.          *)
(***************************************************************************)
FieldTypes(t) ==
  ToSet(ReadTypes(program.types[t.id].fields, Bound(program.types[t.id].params, t.args)))

RECURSIVE WithFields(_)
WithFields(types) ==
  LET more == types \cup PartsOf(UNION {FieldTypes(t) : t \in {t \in types : IsCopied(t)}})
  IN  IF more = types THEN types ELSE WithFields(more)

Written == WithFields({t \in PartsOf(TypesOf(program)) : ~HoldsParam(t)})

NeededTypes == WithFields(PartsOf(UNION {ToSet(ClosedTypes(f)) : f \in Needed(Roots)}))

HeldCarriers ==
  {u \in PartsOf(UNION {FieldTypes(t) : t \in {t \in Written : IsCopied(t)}}) :
     /\ u.kind = "generic"
     /\ program.types[u.id].carrier
     /\ \A v \in Parts(u) \ {u} : v.kind # "generic"}

RECURSIVE Levels(_, _)
Levels(t, held) ==
  (IF IsCopied(t) \/ t \in held THEN 1 ELSE 0)
    + Max({0} \cup {Levels(t.args[i], held) : i \in DOMAIN t.args})

(* Every type is rewritten twice, and what only a copied body spells out   *)
(* once: one level of instances each time.                                 *)
NeedsStack ==
  LET held    == HeldCarriers
      written == Written
  IN  \/ \E t \in NeededTypes : Levels(t, held) > 2
      \/ \E f \in Needed(Roots) : \E p \in DOMAIN Source(f).body :
           /\ Levels(Source(f).body[p].ty, held) > 1
           /\ ClosedTypes(f)[p] \notin written

-----------------------------------------------------------------------------
CarriersInUse ==
  {t \in PartsOf(CheckedTypes(m)) : LET source == Meaning(m, t)
                                    IN  source.kind = "generic" /\ program.types[source.id].carrier}

Items(mod) ==
  ToSet(mod.fns) \cup ToSet(mod.lets) \cup UNION {ToSet(i.methods) : i \in ToSet(mod.impls)}

(* Dispatch through a bound keeps the method's place in the trait until    *)
(* the references are resolved by name; every other call names its place.  *)
CopyAt(mod, n, was) ==
  LET block == mod.impls[n.id].methods
  IN  CASE n.kind = "call" -> mod.fns[n.id].from
        [] n.kind = "method" /\ was.dispatch = "static" -> block[n.idx].from
        [] n.kind = "method" /\ was.dispatch = "virtual" ->
             (CHOOSE f \in ToSet(block) : f.name = n.name).from

(* After the pass every expression has the type it had for the type        *)
(* arguments its copy stands for, and an instance names the definition of  *)
(* its type; of the carriers in use, the pass has copied exactly those     *)
(* that a field of a written instance holds (rewrite.rs, specialise.rs,    *)
(* compact.rs, instance_ids.rs, mod.rs:324).                               *)
TypesKeepTheirMeaning ==
  pc = "done" =>
    /\ \A f \in Items(m) :
         LET types == ClosedTypes(f.from)
         IN  \A p \in DOMAIN f.body :
               /\ Meaning(m, f.body[p].ty) = types[p]
               /\ f.body[p].kind = "make" => f.body[p].id = f.body[p].ty.id
    /\ \A t \in CarriersInUse : t.kind = "def" <=> Meaning(m, t) \in HeldCarriers

(* After the pass every call leads, by its id, to the copy of the function *)
(* or method it was written for, made for the type arguments the call      *)
(* gives (functions.rs, methods.rs, call_ids.rs, compact.rs).              *)
CallsReachTheirCopies ==
  pc = "done" =>
    \A f \in Items(m) :
      LET types == ClosedTypes(f.from)
      IN  \A p \in DOMAIN f.body :
            f.body[p].kind \in {"call", "method"} =>
              /\ f.body[p].dispatch # "virtual"
              /\ CopyAt(m, f.body[p], Source(f.from).body[p]) = CalleeAt(f.from, types, p)

(* One type has one form: two types in use that mean the same are equal;   *)
(* no function is copied twice for the same types, and no type has the     *)
(* same method twice (Origins::canonical, specialise_impls and the tables  *)
(* of copies).                                                             *)
OneCopyEach ==
  pc = "done" =>
    /\ \A t, u \in CheckedTypes(m) : Meaning(m, t) = Meaning(m, u) => t = u
    /\ \A i, j \in DOMAIN m.fns : m.fns[i].from = m.fns[j].from => i = j
    /\ \A i, j \in DOMAIN m.impls :
         m.impls[i].target = m.impls[j].target =>
           \A a \in DOMAIN m.impls[i].methods, b \in DOMAIN m.impls[j].methods :
             m.impls[i].methods[a].from = m.impls[j].methods[b].from => <<i, a>> = <<j, b>>

(* The pass fails for two reasons, and then always: a type nested too deep *)
(* is refused, and else instances stacked higher than the rewriting goes   *)
(* end in an internal error.  A generic that calls itself with a larger    *)
(* type is stopped by the depth, not by the ids running out (origins.rs,   *)
(* rewrite.rs:116-159, leftover.rs).                                       *)
VerdictIsExact ==
  /\ pc \in {"done", "failed"} => (pc = "failed" <=> NeedsTooDeep \/ NeedsStack)
  /\ pc = "failed" => errors = {IF NeedsTooDeep THEN "deep" ELSE "internal"}

-----------------------------------------------------------------------------
(* What mod.rs:18-24 and docs/developer/architecture/passes.md:58 say: the *)
(* prelude's carriers stay generic.                                        *)
CarriersStayGeneric == pc = "done" => \A t \in CarriersInUse : t.kind = "generic"

(* What docs/user/generics.md:197 and passes.md:64 say: only the depth of  *)
(* a type is a reason to refuse it.                                        *)
OnlyDeepTypesAreRefused == pc = "failed" => NeedsTooDeep
=============================================================================
