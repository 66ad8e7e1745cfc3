---------------------------- MODULE Monomorphise ----------------------------
(***************************************************************************)
(* The monomorphisation pass: every generic definition is replaced by one  *)
(* concrete copy for each use.  Types are copied from a queue, functions   *)
(* and methods from a stack, and what their copies bring up is copied in a *)
(* second round; then the generic originals are dropped and every id is    *)
(* moved.                                                                  *)
(*                                                                         *)
(* A body is the sequence of its expressions, children before parents:     *)
(* kids are positions of the same body.  Every walk of the code is then a  *)
(* map over the positions.  Defaults of fields and parameters are walked   *)
(* as bodies are and are left out.  Every definition carries, as from,     *)
(* what of the source it is a copy of: the pass never reads it.            *)
(***************************************************************************)
EXTENDS GenericTypes

CONSTANTS Programs,   \* modules as lowering gives them
          MaxDepth,   \* MAX_INSTANTIATION_DEPTH
          MaxItems    \* how many definitions of a kind an id can count

ASSUME MonomorphiseAssumption == MaxDepth \in Nat /\ MaxItems \in Nat

VARIABLES program,   \* the module before the pass
          m,         \* the module
          pc,        \* the phase
          work,      \* what is still to copy
          mapping,   \* instantiation -> copy
          early,     \* the instantiations of the first round
          copies,    \* function or method with type arguments -> its copy
          errors

vars == <<program, m, pc, work, mapping, early, copies, errors>>

(***************************************************************************)
(* Names.  A source name is its segments; a copy's name adds the type      *)
(* arguments, and a number when that name is taken.                        *)
(***************************************************************************)
Name(segments) == [segments |-> segments, args |-> <<>>, n |-> 1]

Mangled(name, args, taken) ==
  LET with(n) == [segments |-> name.segments, args |-> args, n |-> n]
  IN  with(CHOOSE n \in 1..Cardinality(taken) + 1 :
             /\ with(n) \notin taken
             /\ \A k \in 1..n - 1 : with(k) \in taken)

LastSegment(name) ==
  IF name.args = <<>> THEN Name(<<Last(name.segments)>>) ELSE name

(* The copied definition and the closed types it was copied for.           *)
From(item, id, idx, self, args) ==
  [item |-> item, id |-> id, idx |-> idx, self |-> self, args |-> args]

(***************************************************************************)
(* The parts of a module.                                                  *)
(***************************************************************************)
TypeDef(id, params, fields, carrier) ==
  [params |-> params, fields |-> fields, carrier |-> carrier, from |-> Def(id)]

(* A trait, by the types in the signatures of its methods.                 *)
TraitDef(params, sigs) == [params |-> params, sigs |-> sigs]

(* An expression; kids are its children.  A call carries its path in name  *)
(* and its function in id; a method call its impl block or its trait in    *)
(* id, by its dispatch, and the place of the method in idx; an instance    *)
(* its definition in id.  means is the function the source calls.          *)
Node(kind, ty, kids) ==
  [kind |-> kind, ty |-> ty, kids |-> kids, name |-> Name(<<"">>), dispatch |-> "",
   id |-> 0, args |-> <<>>, idx |-> 0, means |-> 0]

Fn(id, name, params, args, ret, body) ==
  [name |-> Name(<<name>>), params |-> params, args |-> args, ret |-> ret, body |-> body,
   from |-> From("fn", id, 0, <<>>, <<>>)]

Method(i, j, name, params, args, ret, body) ==
  [Fn(0, name, params, args, ret, body) EXCEPT !.from = From("method", i, j, <<>>, <<>>)]

Impl(target, trait, methods) == [target |-> target, trait |-> trait, methods |-> methods]
Ref(id, args) == [id |-> id, args |-> args]

Let(i, body) ==
  [name |-> Name(<<"let">>), params |-> <<>>, args |-> <<>>, ret |-> Last(body).ty, body |-> body,
   from |-> From("let", i, 0, <<>>, <<>>)]

Module(types, traits, impls, fns, lets) ==
  [types |-> types, traits |-> traits, impls |-> impls, fns |-> fns, lets |-> lets]

(* What a type of module mod means in the source; an id that is not in the *)
(* table means nothing.                                                    *)
RECURSIVE Meaning(_, _)
Meaning(mod, t) ==
  LET inside == [i \in DOMAIN t.args |-> Meaning(mod, t.args[i])]
      named  == t.kind \in {"def", "generic"}
  IN  CASE named /\ t.id \notin DOMAIN mod.types -> Prim("no type")
        [] t.kind = "def" /\ t.id \in DOMAIN mod.types -> mod.types[t.id].from
        [] t.kind = "generic" /\ t.id \in DOMAIN mod.types ->
             Generic(mod.types[t.id].from.id, inside)
        [] OTHER -> [t EXCEPT !.args = inside]

Meanings(mod, ts) == [i \in DOMAIN ts |-> Meaning(mod, ts[i])]

(***************************************************************************)
(* Walks over the module.                                                  *)
(***************************************************************************)
MapSeq(s, F(_)) == [i \in DOMAIN s |-> F(s[i])]

(* An expression holds its type and, when it dispatches through a generic  *)
(* trait, the arguments of the trait.                                      *)
NodeTypes(n) == <<n.ty>> \o n.args

FunctionTypes(f) == Append(f.args, f.ret) \o FlattenSeq(MapSeq(f.body, NodeTypes))

ImplTypes(imp) == FlattenSeq([j \in DOMAIN imp.methods |-> FunctionTypes(imp.methods[j])])

ModuleTypes(mod) ==
  FlattenSeq([i \in DOMAIN mod.types |-> mod.types[i].fields])
    \o FlattenSeq([i \in DOMAIN mod.traits |-> mod.traits[i].sigs])
    \o FlattenSeq([i \in DOMAIN mod.impls |-> ImplTypes(mod.impls[i])])
    \o FlattenSeq([i \in DOMAIN mod.fns |-> FunctionTypes(mod.fns[i])])
    \o FlattenSeq([i \in DOMAIN mod.lets |-> FunctionTypes(mod.lets[i])])

TypesIn(f) == ToSet(FunctionTypes(f))
TypesOf(mod) == ToSet(ModuleTypes(mod))

BodiesOf(mod) ==
  {f.body : f \in ToSet(mod.fns) \cup ToSet(mod.lets)
                    \cup UNION {ToSet(imp.methods) : imp \in ToSet(mod.impls)}}

(* Every type of a function, of a module, becomes its image.               *)
MapFunction(f, image) ==
  [f EXCEPT !.args = [i \in DOMAIN @ |-> image[@[i]]], !.ret = image[@],
            !.body = MapSeq(@, LAMBDA n : [n EXCEPT !.ty = image[@],
                                                    !.args = MapSeq(@, LAMBDA t : image[t])])]

MapTypes(mod, image) ==
  LET all(ts) == [i \in DOMAIN ts |-> image[ts[i]]]
      fn(f)   == MapFunction(f, image)
  IN  [mod EXCEPT
         !.types  = MapSeq(@, LAMBDA d : [d EXCEPT !.fields = all(@)]),
         !.traits = MapSeq(@, LAMBDA d : [d EXCEPT !.sigs = all(@)]),
         !.impls  = MapSeq(@, LAMBDA d : [d EXCEPT !.methods = MapSeq(@, fn)]),
         !.fns    = MapSeq(@, fn),
         !.lets   = MapSeq(@, fn)]

(* Every body becomes its image.                                           *)
MapBodies(mod, image) ==
  LET fn(f) == [f EXCEPT !.body = image[@]]
  IN  [mod EXCEPT
         !.impls = [i \in DOMAIN @ |-> [@[i] EXCEPT !.methods = MapSeq(@, fn)]],
         !.fns   = MapSeq(@, fn),
         !.lets  = MapSeq(@, fn)]

ArgTypes(body, n) == [i \in DOMAIN n.kids |-> body[n.kids[i]].ty]

(* The trait references outside types: the bounds of type parameters and   *)
(* the trait of an impl block.                                             *)
BoundsOf(params) == FlattenSeq([i \in DOMAIN params |-> params[i].bounds])

TraitRefs(mod) ==
  FlattenSeq([i \in DOMAIN mod.types |-> BoundsOf(mod.types[i].params)])
    \o FlattenSeq([i \in DOMAIN mod.traits |-> BoundsOf(mod.traits[i].params)])
    \o FlattenSeq([i \in DOMAIN mod.impls |-> mod.impls[i].trait])
    \o FlattenSeq([i \in DOMAIN mod.fns |-> BoundsOf(mod.fns[i].params)])

(***************************************************************************)
(* Collecting instantiations.                                              *)
(***************************************************************************)
Distinct(s) ==
  FoldLeft(LAMBDA out, x : IF x \in ToSet(out) THEN out ELSE Append(out, x), <<>>, s)

FoundIn(types) == Distinct(FlattenSeq(MapSeq(types, InstancesIn)))

FoundInRefs(refs) ==
  LET of(r) == IF r.args = <<>> THEN <<>>
               ELSE <<Inst(TRUE, r.id, r.args)>> \o FlattenSeq(MapSeq(r.args, InstancesIn))
  IN  FlattenSeq(MapSeq(refs, of))

CollectAll(mod) == Distinct(FoundIn(ModuleTypes(mod)) \o FoundInRefs(TraitRefs(mod)))

IsCarrier(mod, inst) == ~inst.onTrait /\ mod.types[inst.id].carrier

(* Carriers are never copied; an instantiation with a type parameter in it *)
(* belongs to a generic body, which is copied later.                       *)
Worth(mod, insts) ==
  SelectSeq(insts, LAMBDA k : /\ ~IsCarrier(mod, k)
                              /\ \A i \in DOMAIN k.args : ~HoldsParam(k.args[i]))

(***************************************************************************)
(* Copying a struct, enum or trait.                                        *)
(***************************************************************************)
Template(mod, inst) == IF inst.onTrait THEN mod.traits[inst.id] ELSE mod.types[inst.id]

CopyType(mod, inst) ==
  LET src   == mod.types[inst.id]
      subs  == Bound(src.params, inst.args)
      field == MapSeq(src.fields, LAMBDA t : Substitute(t, subs))
  IN  [mod EXCEPT !.types = Append(@, [src EXCEPT !.params = <<>>, !.fields = field,
                                         !.carrier = FALSE,
                                         !.from = Generic(src.from.id, Meanings(mod, inst.args))])]

CopyTrait(mod, inst) ==
  LET src  == mod.traits[inst.id]
      subs == Bound(src.params, inst.args)
  IN  [mod EXCEPT !.traits = Append(@, [src EXCEPT !.params = <<>>,
                                          !.sigs = MapSeq(@, LAMBDA t : Substitute(t, subs))])]

(***************************************************************************)
(* Rewriting to the copies.                                                *)
(***************************************************************************)
RewriteRef(r, table) ==
  LET inner == [r EXCEPT !.args = MapSeq(@, LAMBDA t : RewriteType(t, table))]
      key   == Inst(TRUE, r.id, inner.args)
  IN  IF r.args # <<>> /\ key \in DOMAIN table
      THEN [id |-> table[key], args |-> <<>>]
      ELSE inner

RewriteParams(params, table) ==
  MapSeq(params, LAMBDA p : [p EXCEPT !.bounds = MapSeq(@, LAMBDA r : RewriteRef(r, table))])

(* A dispatch through a generic trait is looked up by the arguments that   *)
(* the walk over the types has rewritten.                                  *)
RewriteVirtual(body, table) ==
  MapSeq(body, LAMBDA n :
           IF /\ n.dispatch = "virtual"
              /\ n.args # <<>>
              /\ Inst(TRUE, n.id, n.args) \in DOMAIN table
           THEN [n EXCEPT !.id = table[Inst(TRUE, n.id, n.args)], !.args = <<>>]
           ELSE n)

RewriteModule(mod, table) ==
  LET typed == MapTypes(mod, [t \in TypesOf(mod) |-> RewriteType(t, table)])
      items(s) == MapSeq(s, LAMBDA d : [d EXCEPT !.params = RewriteParams(@, table)])
      refs  == [typed EXCEPT
                  !.types  = items(@), !.traits = items(@), !.fns = items(@),
                  !.impls  = MapSeq(@, LAMBDA i :
                               [i EXCEPT !.trait = MapSeq(@, LAMBDA r : RewriteRef(r, table))])]
  IN  MapBodies(refs, [body \in BodiesOf(refs) |-> RewriteVirtual(body, table)])

(* Mutant: the late round copies the blocks of the first round again.      *)
CopiesForAllTargets(imp, table, isNew) ==
  SetToSortSeq({k \in DOMAIN table : ~k.onTrait /\ k.id = imp.target /\ table[k] # NoCopy},
               LAMBDA a, b : table[a] < table[b])

(* One copy of an impl block for each new copy of its target, in the order *)
(* of the copies.  Its trait reference is taken over as it is.             *)
CopiesOfTarget(imp, table, isNew) ==
  SetToSortSeq({k \in isNew : /\ ~k.onTrait
                              /\ k.id = imp.target
                              /\ table[k] # NoCopy},
               LAMBDA a, b : table[a] < table[b])

CopyImpl(mod, i, inst, table) ==
  LET imp    == mod.impls[i]
      subs   == Bound(mod.types[imp.target].params, inst.args)
      self   == Meanings(mod, inst.args)
      at(f)  == MapFunction(f, [t \in TypesIn(f) |-> RewriteType(Substitute(t, subs), table)])
  IN  [imp EXCEPT !.target  = table[inst],
                  !.methods = MapSeq(@, LAMBDA f : [at(f) EXCEPT !.from.self = self])]

ImplCopies(mod, table, isNew) ==
  FlattenSeq([i \in DOMAIN mod.impls |->
                IF mod.types[mod.impls[i].target].params = <<>> THEN <<>>
                ELSE MapSeq(CopiesOfTarget(mod.impls[i], table, isNew),
                            LAMBDA k : [of |-> i, inst |-> k])])

(* Method calls on a copied type go to the copy of the impl block.         *)
ReceiverBase(t) == IF t.kind \in {"def", "generic"} THEN t.id ELSE NoCopy

SpecialiseImpls(mod, table, isNew) ==
  LET new   == ImplCopies(mod, table, isNew)
      grown == [mod EXCEPT !.impls = @ \o MapSeq(new, LAMBDA c : CopyImpl(mod, c.of, c.inst, table))]
      moved(body) ==
        MapSeq(body, LAMBDA n :
          LET to == {c \in DOMAIN new : /\ n.dispatch = "static"
                                        /\ new[c].of = n.id
                                        /\ table[new[c].inst] = ReceiverBase(body[n.kids[1]].ty)}
          IN  IF to = {} THEN n
              ELSE [n EXCEPT !.id = Len(mod.impls) + CHOOSE c \in to : TRUE])
  IN  MapBodies(grown, [body \in BodiesOf(grown) |-> moved(body)])

(***************************************************************************)
(* Generic functions and methods.                                          *)
(***************************************************************************)
FunctionsNamed(mod, name) == {i \in DOMAIN mod.fns : mod.fns[i].name = name}

FirstFunction(mod, name) == Min(FunctionsNamed(mod, name))

GenericNames(mod) == {mod.fns[i].name : i \in {j \in DOMAIN mod.fns : mod.fns[j].params # <<>>}}

(* The whole path first, then its last segment.                            *)
MatchingGenericName(mod, path) ==
  CASE path \in GenericNames(mod) -> {path}
    [] path \notin GenericNames(mod) -> {LastSegment(path)} \cap GenericNames(mod)

IsTemplate(f) == f.params # <<>> /\ f.body # <<>>

Spec(kind, name, impl, idx, args) ==
  [kind |-> kind, name |-> name, impl |-> impl, idx |-> idx, args |-> args]

(* What the call at position p of a body asks for: at most one copy.       *)
CallSpec(mod, body, p, table) ==
  LET n      == body[p]
      named  == IF n.kind = "call" THEN MatchingGenericName(mod, n.name) ELSE {}
      isTemplate == /\ n.kind = "method"
                    /\ n.dispatch = "static"
                    /\ n.id \in DOMAIN mod.impls
                    /\ n.idx \in DOMAIN mod.impls[n.id].methods
                    /\ IsTemplate(mod.impls[n.id].methods[n.idx])
      asSpec(r, name, impl, idx) == Spec(r.found, name, impl, idx, r.args)
  IN  {asSpec(InferTypeArgs(mod.fns[FirstFunction(mod, name)], ArgTypes(body, n), table),
              name, 0, 0) : name \in named}
        \cup (IF isTemplate
              THEN {asSpec(InferTypeArgs(mod.impls[n.id].methods[n.idx],
                                         Tail(ArgTypes(body, n)), table),
                           n.name, n.id, n.idx)}
              ELSE {})

Asked(mod, body, p, table) == {s \in CallSpec(mod, body, p, table) : s.kind # "none"}

Discover(mod, body, table) ==
  FlattenSeq([i \in DOMAIN body |->
                SetToSeq({IF s.kind = "args" /\ Deepest(s.args, table) > MaxDepth
                          THEN [s EXCEPT !.kind = "deep"] ELSE s
                          : s \in Asked(mod, body, Len(body) + 1 - i, table)})])

DiscoverAll(mod, table) ==
  FlattenSeq([i \in DOMAIN mod.fns |-> Discover(mod, mod.fns[i].body, table)]
       \o FlattenSeq([i \in DOMAIN mod.impls |->
                        MapSeq(mod.impls[i].methods, LAMBDA f : Discover(mod, f.body, table))])
       \o [i \in DOMAIN mod.lets |-> Discover(mod, mod.lets[i].body, table)])

CopyFunction(f, name, args, closed) ==
  LET subs == Bound(f.params, args)
  IN  [MapFunction(f, [t \in TypesIn(f) |-> Substitute(t, subs)]) EXCEPT
         !.name = name, !.params = <<>>, !.from.args = closed]

(* Calls of a copied function take its name as their whole path, and their *)
(* type is read with the type arguments.  An inner call is done before the *)
(* call that it is an argument of.                                         *)
RewriteCalls(mod, table, made) ==
  LET toCopy(n, s) ==
        IF n.kind = "call"
        THEN [n EXCEPT !.name = mod.fns[made[s]].name,
                       !.ty = Substitute(@, Bound(mod.fns[FirstFunction(mod, s.name)].params, s.args))]
        ELSE [n EXCEPT !.name = mod.impls[s.impl].methods[made[s]].name, !.idx = made[s]]
      toFirst(n, asked) == IF asked = {} THEN n ELSE toCopy(n, CHOOSE s \in asked : TRUE)
      rewritten(body) ==
        LET new[p \in DOMAIN body] ==
              toFirst(body[p],
                {s \in CallSpec(mod, [k \in DOMAIN body |-> IF k < p THEN new[k] ELSE body[k]], p, table) :
                   s.kind = "args" /\ s \in DOMAIN made})
        IN  [p \in DOMAIN body |-> new[p]]
  IN  MapBodies(mod, [body \in BodiesOf(mod) |-> rewritten(body)])

(* After the rewrite: a method call that still names a template, though    *)
(* none of its arguments holds a type parameter.                           *)
HasCallWithoutCopy(mod) ==
  \E body \in BodiesOf(mod) : \E p \in DOMAIN body :
    LET n == body[p]
    IN  /\ n.kind = "method"
        /\ n.dispatch = "static"
        /\ n.id \in DOMAIN mod.impls
        /\ n.idx \in DOMAIN mod.impls[n.id].methods
        /\ IsTemplate(mod.impls[n.id].methods[n.idx])
        /\ \A k \in ToSet(Tail(n.kids)) : ~HoldsParam(body[k].ty)

(* The generic methods go, and the calls into their blocks move up.        *)
DropTemplates(mod) ==
  LET kept(i)    == {j \in DOMAIN mod.impls[i].methods : ~IsTemplate(mod.impls[i].methods[j])}
      rank(i, j) == Cardinality({k \in kept(i) : k <= j})
      moved(body) ==
        MapSeq(body, LAMBDA n :
          IF n.dispatch = "static" /\ n.id \in DOMAIN mod.impls /\ n.idx \in kept(n.id)
          THEN [n EXCEPT !.idx = rank(n.id, n.idx)] ELSE n)
      rest == [mod EXCEPT !.impls = [i \in DOMAIN @ |->
                 [@[i] EXCEPT !.methods = SelectSeq(@, LAMBDA f : ~IsTemplate(f))]]]
  IN  MapBodies(rest, [body \in BodiesOf(rest) |-> moved(body)])

(***************************************************************************)
(* Dispatch through a bound becomes a call of the one impl of the receiver *)
(* for that trait; a generic trait stands for all of its copies.           *)
(***************************************************************************)
Devirtualised(mod, table) ==
  LET same(t, v) == \/ t = v
                    \/ \E k \in DOMAIN table : k.onTrait /\ table[k] = t /\ k.id = v
      fits(imp, base, n) ==
        /\ imp.target = base
        /\ \E r \in ToSet(imp.trait) : same(r.id, n.id)
        /\ \E f \in ToSet(imp.methods) : f.name = n.name
      at(body) ==
        MapSeq(body, LAMBDA n :
          LET base == ReceiverBase(body[n.kids[1]].ty)
              found == {i \in DOMAIN mod.impls : fits(mod.impls[i], base, n)}
          IN  IF n.dispatch = "virtual" /\ base # NoCopy /\ Cardinality(found) = 1
              THEN [n EXCEPT !.dispatch = "static", !.id = CHOOSE i \in found : TRUE, !.args = <<>>]
              ELSE n)
  IN  MapBodies(mod, [body \in BodiesOf(mod) |-> at(body)])

(***************************************************************************)
(* Compaction.                                                             *)
(***************************************************************************)
(* The new place of every kept element of s, NoCopy for the others *)
Places(s, kept) ==
  [i \in DOMAIN s |-> IF i \in kept THEN Cardinality({k \in kept : k <= i}) ELSE NoCopy]

StaysType(d) == d.params = <<>> \/ d.carrier

TypePlaces(mod)  == Places(mod.types, {i \in DOMAIN mod.types : StaysType(mod.types[i])})
TraitPlaces(mod) == Places(mod.traits, {i \in DOMAIN mod.traits : mod.traits[i].params = <<>>})
ImplPlaces(mod)  ==
  Places(mod.impls, {i \in DOMAIN mod.impls : StaysType(mod.types[mod.impls[i].target])})

Moved(places, id) == IF id \in DOMAIN places /\ places[id] # NoCopy THEN places[id] ELSE id

(* Mutant: the types inside keep their ids.                                *)
RemapOuterType(t, places) ==
  [t EXCEPT !.id = IF t.kind \in {"def", "generic"} THEN Moved(places, @) ELSE @]

RECURSIVE RemapType(_, _)
RemapType(t, places) ==
  [t EXCEPT !.id = IF t.kind \in {"def", "generic"} THEN Moved(places, @) ELSE @,
            !.args = [i \in DOMAIN @ |-> RemapType(@[i], places)]]

(* The generic functions and impl blocks go first, then every id moves.    *)
DropGenerics(mod) ==
  [mod EXCEPT !.impls = SelectSeq(@, LAMBDA i : StaysType(mod.types[i.target])),
              !.fns   = SelectSeq(@, LAMBDA f : f.params = <<>>)]

(* A trait reference or a dispatch that still names a dropped trait.       *)
StaleTraits(mod, places) ==
  {r \in UNION {ToSet(imp.trait) : imp \in ToSet(mod.impls)} : places[r.id] = NoCopy}
    \cup {n \in UNION {ToSet(body) : body \in BodiesOf(mod)} :
            n.dispatch = "virtual" /\ places[n.id] = NoCopy}

ApplyRemaps(mod, types, traits, impls) ==
  LET refs == [MapTypes(mod, [t \in TypesOf(mod) |-> RemapType(t, types)]) EXCEPT
                 !.impls = MapSeq(@, LAMBDA i :
                    [i EXCEPT !.target = Moved(types, @),
                              !.trait  = MapSeq(@, LAMBDA r : [r EXCEPT !.id = Moved(traits, @)])])]
      node(n) == CASE n.dispatch = "static"  -> [n EXCEPT !.id = Moved(impls, @)]
                   [] n.dispatch = "virtual" -> [n EXCEPT !.id = Moved(traits, @)]
                   [] OTHER -> n
  IN  MapBodies(refs, [body \in BodiesOf(refs) |-> MapSeq(body, node)])

Compacted(mod) ==
  LET moved == ApplyRemaps(DropGenerics(mod), TypePlaces(mod), TraitPlaces(mod), ImplPlaces(mod))
  IN  [moved EXCEPT !.types  = SelectSeq(@, StaysType),
                    !.traits = SelectSeq(@, LAMBDA d : d.params = <<>>)]

(* Mutant: an id that names some function is left alone.                   *)
ResyncMissingCall(mod, n) ==
  LET found == FunctionsNamed(mod, n.name)
  IN  IF n.kind = "call" /\ n.id \notin DOMAIN mod.fns /\ Cardinality(found) = 1
      THEN [n EXCEPT !.id = CHOOSE i \in found : TRUE]
      ELSE n

(* A call's id is repaired when its name picks out one function.           *)
ResyncCall(mod, n) ==
  LET whole == FunctionsNamed(mod, n.name)
      found == IF whole # {} THEN whole ELSE FunctionsNamed(mod, LastSegment(n.name))
  IN  IF n.kind = "call" /\ Cardinality(found) = 1
      THEN [n EXCEPT !.id = CHOOSE i \in found : TRUE]
      ELSE n

ResyncInstance(n) ==
  IF n.kind = "make" /\ n.ty.kind \in {"def", "generic"} THEN [n EXCEPT !.id = n.ty.id] ELSE n

Resynced(mod) ==
  MapBodies(mod, [body \in BodiesOf(mod) |->
                    MapSeq(body, LAMBDA n : ResyncInstance(ResyncCall(mod, n)))])

(***************************************************************************)
(* The last check: no type parameter, no generic but the carriers, no      *)
(* generic trait, no dispatch through a trait on a concrete receiver.      *)
(***************************************************************************)
RECURSIVE IsLeftover(_, _)
IsLeftover(mod, t) ==
  \/ t.kind = "param"
  \/ t.kind = "generic" /\ ~mod.types[t.id].carrier
  \/ \E i \in DOMAIN t.args : IsLeftover(mod, t.args[i])

CheckedTypes(mod) ==
  UNION {ToSet(d.fields) : d \in {x \in ToSet(mod.types) : ~x.carrier}}
    \cup UNION {ToSet(d.sigs) : d \in ToSet(mod.traits)}
    \cup UNION {ToSet(ImplTypes(i)) : i \in {x \in ToSet(mod.impls) : ~mod.types[x.target].carrier}}
    \cup UNION {ToSet(FunctionTypes(f)) : f \in ToSet(mod.fns) \cup ToSet(mod.lets)}

HasLeftover(mod) ==
  \/ \E t \in CheckedTypes(mod) : IsLeftover(mod, t)
  \/ \E d \in ToSet(mod.traits) : d.params # <<>>
  \/ \E body \in BodiesOf(mod) : \E p \in DOMAIN body :
       body[p].dispatch = "virtual" /\ ReceiverBase(body[body[p].kids[1]].ty) # NoCopy

-----------------------------------------------------------------------------
Init ==
  /\ program \in Programs
  /\ m = program
  /\ pc = "collect"
  /\ work = <<>>
  /\ mapping = NoSubs
  /\ early = {}
  /\ copies = NoSubs
  /\ errors = {}

Collect ==
  /\ pc = "collect"
  /\ work' = Worth(m, CollectAll(m))
  /\ pc' = "types"
  /\ UNCHANGED <<program, m, mapping, early, copies, errors>>

(***************************************************************************)
(* The queue of instantiations, in the first round and in the late one.    *)
(***************************************************************************)
InRound == pc \in {"types", "late"} /\ work # <<>>

With(table, key, value) == [k \in DOMAIN table \cup {key} |-> IF k = key THEN value ELSE table[k]]

Table(mod, inst) == IF inst.onTrait THEN mod.traits ELSE mod.types

(* Mutant: the deepest types that are allowed are refused.                 *)
RefusalAtLimit(mod, inst, table) ==
  CASE Deepest(inst.args, table) >= MaxDepth -> {"deep"}
    [] Len(Template(mod, inst).params) # Len(inst.args) -> {"arity"}
    [] Len(Table(mod, inst)) >= MaxItems -> {"full"}
    [] OTHER -> {}

(* Why an instantiation is not made: too deep, the wrong count of type     *)
(* arguments, no free id.                                                  *)
Refusal(mod, inst, table) ==
  CASE Deepest(inst.args, table) > MaxDepth -> {"deep"}
    [] Len(Template(mod, inst).params) # Len(inst.args) -> {"arity"}
    [] Len(Table(mod, inst)) >= MaxItems -> {"full"}
    [] OTHER -> {}

SkipKnown ==
  /\ InRound
  /\ Head(work) \in DOMAIN mapping
  /\ work' = Tail(work)
  /\ UNCHANGED <<program, m, pc, mapping, early, copies, errors>>

Refuse ==
  /\ InRound
  /\ Head(work) \notin DOMAIN mapping
  /\ LET why == Refusal(m, Head(work), mapping)
     IN  /\ why # {}
         /\ errors' = errors \cup why
  /\ mapping' = With(mapping, Head(work), NoCopy)
  /\ work' = Tail(work)
  /\ UNCHANGED <<program, m, pc, early, copies>>

(* What the fields of a copy bring up joins the queue: in the first round  *)
(* all of it, in the late one what is worth a copy.                        *)
Specialise ==
  /\ InRound
  /\ Head(work) \notin DOMAIN mapping
  /\ Refusal(m, Head(work), mapping) = {}
  /\ LET inst == Head(work)
         mod  == IF inst.onTrait THEN CopyTrait(m, inst) ELSE CopyType(m, inst)
         copy == Last(Table(mod, inst))
         more == FoundIn(IF inst.onTrait THEN copy.sigs ELSE copy.fields)
     IN  /\ m' = mod
         /\ mapping' = With(mapping, inst, Len(Table(mod, inst)))
         /\ work' = Tail(work) \o (IF pc = "types" THEN more ELSE Worth(m, more))
  /\ UNCHANGED <<program, pc, early, copies, errors>>

(***************************************************************************)
(* All types have their copies: rewrite to them, copy the impl blocks, and *)
(* collect the calls of generic functions and methods.                     *)
(***************************************************************************)
RewriteTypes ==
  /\ pc = "types" /\ work = <<>>
  /\ IF errors # {}
     THEN pc' = "failed" /\ UNCHANGED <<m, work, early>>
     ELSE LET continue(mod) == m' = mod /\ work' = DiscoverAll(mod, mapping)
          IN  /\ continue(SpecialiseImpls(RewriteModule(m, mapping), mapping, DOMAIN mapping))
              /\ early' = DOMAIN mapping
              /\ pc' = "calls"
  /\ UNCHANGED <<program, mapping, copies, errors>>

(***************************************************************************)
(* The stack of functions and methods to copy.                             *)
(***************************************************************************)
SkipCopied ==
  /\ pc = "calls" /\ work # <<>>
  /\ Last(work) \in DOMAIN copies
  /\ work' = Front(work)
  /\ UNCHANGED <<program, m, pc, mapping, early, copies, errors>>

RefuseCall ==
  /\ pc = "calls" /\ work # <<>>
  /\ Last(work) \notin DOMAIN copies
  /\ Last(work).kind # "args" \/ Len(m.fns) >= MaxItems
  /\ errors' = errors \cup {IF Last(work).kind = "args" THEN "full" ELSE Last(work).kind}
  /\ work' = Front(work)
  /\ UNCHANGED <<program, m, pc, mapping, early, copies>>

SpecialiseFunction ==
  /\ pc = "calls" /\ work # <<>>
  /\ LET s == Last(work)
     IN  /\ s.kind = "args" /\ s.impl = 0 /\ s \notin DOMAIN copies
         /\ Len(m.fns) < MaxItems
         /\ LET f    == m.fns[FirstFunction(m, s.name)]
                name == Mangled(f.name, s.args, {g.name : g \in ToSet(m.fns)})
                copy == CopyFunction(f, name, s.args, Meanings(m, s.args))
                mod  == [m EXCEPT !.fns = Append(@, copy)]
            IN  /\ m' = mod
                /\ copies' = With(copies, s, Len(mod.fns))
                /\ work' = Front(work) \o Discover(mod, copy.body, mapping)
  /\ UNCHANGED <<program, pc, mapping, early, errors>>

SpecialiseMethod ==
  /\ pc = "calls" /\ work # <<>>
  /\ LET s == Last(work)
     IN  /\ s.kind = "args" /\ s.impl # 0 /\ s \notin DOMAIN copies
         /\ Len(m.fns) < MaxItems
         /\ LET block == m.impls[s.impl].methods
                f     == block[s.idx]
                name  == Mangled(f.name, s.args, {g.name : g \in ToSet(block)})
                copy  == CopyFunction(f, name, s.args, Meanings(m, s.args))
                mod   == [m EXCEPT !.impls[s.impl].methods = Append(@, copy)]
            IN  /\ m' = mod
                /\ copies' = With(copies, s, Len(block) + 1)
                /\ work' = Front(work) \o Discover(mod, copy.body, mapping)
  /\ UNCHANGED <<program, pc, mapping, early, errors>>

(* Calls name their copies, the generic methods go, and the types of the   *)
(* copied bodies are collected.                                            *)
RewriteToCopies ==
  LET fail == /\ pc' = "failed"
              /\ errors' = IF errors # {} THEN errors ELSE {"internal"}
              /\ UNCHANGED <<m, work>>
      continue(mod) ==
        /\ pc' = "late"
        /\ m' = mod
        /\ work' = SelectSeq(Worth(mod, CollectAll(mod)), LAMBDA k : k \notin DOMAIN mapping)
        /\ UNCHANGED errors
      take(mod) == IF errors # {} \/ HasCallWithoutCopy(mod) THEN fail ELSE continue(DropTemplates(mod))
  IN  /\ pc = "calls" /\ work = <<>>
      /\ take(RewriteCalls(m, mapping, copies))
      /\ UNCHANGED <<program, mapping, early, copies>>

(* The late copies: their types, their impl blocks, and the dispatch that  *)
(* can now be resolved.                                                    *)
Devirtualise ==
  /\ pc = "late" /\ work = <<>>
  /\ IF errors # {}
     THEN pc' = "failed" /\ UNCHANGED m
     ELSE /\ m' = Devirtualised(SpecialiseImpls(RewriteModule(m, mapping), mapping,
                                                DOMAIN mapping \ early),
                                mapping)
          /\ pc' = "compact"
  /\ UNCHANGED <<program, work, mapping, early, copies, errors>>

Compact ==
  /\ pc = "compact"
  /\ IF StaleTraits(DropGenerics(m), TraitPlaces(m)) # {}
     THEN pc' = "failed" /\ errors' = {"internal"} /\ UNCHANGED m
     ELSE pc' = "check" /\ m' = Resynced(Compacted(m)) /\ UNCHANGED errors
  /\ UNCHANGED <<program, work, mapping, early, copies>>

Check ==
  /\ pc = "check"
  /\ IF HasLeftover(m)
     THEN pc' = "failed" /\ errors' = {"internal"}
     ELSE pc' = "done" /\ UNCHANGED errors
  /\ UNCHANGED <<program, m, work, mapping, early, copies>>

(* The call has returned; in every other state the pass has a next step.   *)
Stop == pc \in {"done", "failed"} /\ UNCHANGED vars

Next ==
  \/ Collect
  \/ SkipKnown
  \/ Refuse
  \/ Specialise
  \/ RewriteTypes
  \/ SkipCopied
  \/ RefuseCall
  \/ SpecialiseFunction
  \/ SpecialiseMethod
  \/ RewriteToCopies
  \/ Devirtualise
  \/ Compact
  \/ Check
  \/ Stop

MonomorphiseSpec == Init /\ [][Next]_vars
=============================================================================
