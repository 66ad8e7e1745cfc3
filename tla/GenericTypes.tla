---------------------------- MODULE GenericTypes ----------------------------
(***************************************************************************)
(* The resolved types of the IR, and what lowering and monomorphisation    *)
(* do to them: replace type parameters, match a declared type against the  *)
(* type of an argument, and look up the copy that was made of a generic    *)
(* type.                                                                   *)
(*                                                                         *)
(* Structs and enums share one table here, since the code handles them     *)
(* with two copies of the same lines; a tuple and a closure type are both  *)
(* a "tuple" of types.  Every type is a record of one shape, so that types *)
(* compare:  id is the definition (or the base of a generic), name the     *)
(* primitive or the type parameter, args the types inside.                 *)
(***************************************************************************)
EXTENDS Integers, Sequences, FiniteSets, SequencesExt

Type(kind, id, name, args) ==
  [kind |-> kind, id |-> id, name |-> name, args |-> args]

Prim(name)        == Type("prim", 0, name, <<>>)
Def(id)           == Type("def", id, "", <<>>)
Param(name)       == Type("param", 0, name, <<>>)
Generic(id, args) == Type("generic", id, "", args)
Tuple(args)       == Type("tuple", 0, "", args)

(* One instantiation: the key of the table of copies. *)
Inst(onTrait, id, args) == [onTrait |-> onTrait, id |-> id, args |-> args]

NoSubs == [x \in {} |-> x]

Bound(params, args) ==
  [n \in {params[i].name : i \in DOMAIN params} |->
     args[CHOOSE i \in DOMAIN params : params[i].name = n]]

RECURSIVE HoldsParam(_)
HoldsParam(t) ==
  t.kind = "param" \/ \E i \in DOMAIN t.args : HoldsParam(t.args[i])

(* All parameters are replaced at once: what comes in is not looked at     *)
(* again.                                                                  *)
RECURSIVE Substitute(_, _)
Substitute(t, subs) ==
  IF t.kind = "param" /\ t.name \in DOMAIN subs
  THEN subs[t.name]
  ELSE [t EXCEPT !.args = [i \in DOMAIN @ |-> Substitute(@[i], subs)]]

(***************************************************************************)
(* Lowering: the type a call gets.  The first binding of a parameter wins  *)
(* and a generic matches a generic whatever their bases.                   *)
(***************************************************************************)
RECURSIVE UnifyFirst(_, _, _)
UnifyFirst(declared, found, subs) ==
  CASE declared.kind = "param" ->
         [n \in {declared.name} \cup DOMAIN subs |->
            IF n \in DOMAIN subs THEN subs[n] ELSE found]
    [] declared.kind \in {"tuple", "generic"} /\ found.kind = declared.kind ->
         FoldLeftDomain(LAMBDA s, i : IF i \in DOMAIN found.args
                                      THEN UnifyFirst(declared.args[i], found.args[i], s)
                                      ELSE s,
                        subs, declared.args)
    [] OTHER -> subs

UnifyArgs(declared, found, subs) == UnifyFirst(Tuple(declared), Tuple(found), subs)

(* The substitution is used only when it is complete and concrete; else    *)
(* the call keeps the names of the callee's own type parameters.           *)
InferFromValues(f, argTypes) ==
  LET subs == UnifyArgs(f.args, argTypes, NoSubs)
  IN  IF \A i \in DOMAIN f.params : /\ f.params[i].name \in DOMAIN subs
                                    /\ ~HoldsParam(subs[f.params[i].name])
      THEN subs ELSE NoSubs

(* written: the type arguments the call spells out, <<>> for none.         *)
LoweredCallType(f, argTypes, written) ==
  Substitute(f.ret, CASE written = <<>> -> InferFromValues(f, argTypes)
                      [] Len(written) = Len(f.params) -> Bound(f.params, written)
                      [] OTHER -> NoSubs)

(* A method's own parameters take fresh names first, so that the caller's  *)
(* parameter of the same name stays apart.                                 *)
Fresh(name) == name \o "'"

LoweredMethodType(owner, receiver, method, argTypes) ==
  LET view == [n \in {owner.params[i].name : i \in DOMAIN owner.params}
                     \cup {method.params[i].name : i \in DOMAIN method.params} |->
                 IF \E i \in DOMAIN method.params : method.params[i].name = n
                 THEN Param(Fresh(n))
                 ELSE Bound(owner.params, receiver.args)[n]]
      slots == [i \in DOMAIN method.args |-> Substitute(method.args[i], view)]
      found == UnifyArgs(slots, argTypes, NoSubs)
      own   == [n \in DOMAIN found \cap
                      {Fresh(method.params[i].name) : i \in DOMAIN method.params} |-> found[n]]
  IN  Substitute(Substitute(method.ret, view), own)

(***************************************************************************)
(* Monomorphisation.  mapping: from an instantiation to the id of its      *)
(* copy.                                                                   *)
(***************************************************************************)
NoCopy == 0

(* Inner types first, then the whole: the key that is looked up holds      *)
(* rewritten types.                                                        *)
RECURSIVE RewriteType(_, _)
RewriteType(t, mapping) ==
  LET copied(inner, key) ==
        IF t.kind = "generic" /\ key \in DOMAIN mapping THEN Def(mapping[key]) ELSE inner
      outer(inner) == copied(inner, Inst(FALSE, inner.id, inner.args))
  IN  outer([t EXCEPT !.args = [i \in DOMAIN @ |-> RewriteType(@[i], mapping)]])

(* The instantiation a copy was made from: a set of one, or empty.         *)
OriginOf(t, mapping) ==
  IF t.kind = "def"
  THEN {k \in DOMAIN mapping : ~k.onTrait /\ mapping[k] = t.id}
  ELSE {}

(* How deep type arguments nest.  A copy is as deep as the instantiation   *)
(* it was made from.                                                       *)
RECURSIVE Depth(_, _)
Depth(t, mapping) ==
  LET inside == t.args \o FlattenSeq(SetToSeq({k.args : k \in OriginOf(t, mapping)}))
  IN  1 + Max({0} \cup {Depth(inside[i], mapping) : i \in DOMAIN inside})

Deepest(args, mapping) == Max({0} \cup {Depth(args[i], mapping) : i \in DOMAIN args})

(* The parts of a type that are instantiations, inner ones first.          *)
RECURSIVE InstancesIn(_)
InstancesIn(t) ==
  FlattenSeq([i \in DOMAIN t.args |-> InstancesIn(t.args[i])])
    \o IF t.kind = "generic" THEN <<Inst(FALSE, t.id, t.args)>> ELSE <<>>

(* Never and the types with a parameter in them fit in any place.          *)
IsFixed(t) == ~HoldsParam(t) /\ t # Prim("Never")

(***************************************************************************)
(* Match a declared type against an argument type.  A copy stands for the  *)
(* instantiation behind it.  b: what is bound so far, and whether a        *)
(* parameter had to be two types.                                          *)
(***************************************************************************)
RECURSIVE Unify(_, _, _, _)
Unify(declared, found, b, mapping) ==
  LET origin == OriginOf(found, mapping)
      exact  == RewriteType(found, mapping)
      n      == declared.name
      pairs(args, others) ==
        FoldLeftDomain(LAMBDA acc, i : IF i \in DOMAIN others
                                       THEN Unify(args[i], others[i], acc, mapping)
                                       ELSE acc,
                       b, args)
  IN  CASE b.conflict -> b
        [] declared.kind = "generic" /\ origin # {} ->
             LET k == CHOOSE k \in origin : TRUE
             IN  Unify(declared, Generic(k.id, k.args), b, mapping)
        [] declared.kind = "param" /\ n \notin DOMAIN b.subs ->
             [b EXCEPT !.subs = [x \in DOMAIN @ \cup {n} |->
                                   IF x = n THEN exact ELSE @[x]]]
        [] declared.kind = "param" /\ n \in DOMAIN b.subs ->
             [b EXCEPT !.conflict = /\ b.subs[n] # exact
                                    /\ IsFixed(b.subs[n])
                                    /\ IsFixed(exact)]
        [] declared.kind = "tuple" /\ found.kind = "tuple" ->
             pairs(declared.args, found.args)
        [] declared.kind = "generic" /\ found.kind = "generic" /\ declared.id = found.id ->
             pairs(declared.args, found.args)
        [] OTHER -> b

(* What the arguments give to the type parameters of a callee: their       *)
(* types in order, or a reason why there are none.                         *)
InferTypeArgs(f, argTypes, mapping) ==
  LET known(p, subs) == p.name \in DOMAIN subs /\ ~HoldsParam(subs[p.name])
      bound(b) ==
        CASE b.conflict -> [found |-> "conflict", args |-> <<>>]
          [] ~b.conflict /\ \A i \in DOMAIN f.params : known(f.params[i], b.subs) ->
               [found |-> "args", args |-> [i \in DOMAIN f.params |-> b.subs[f.params[i].name]]]
          [] OTHER -> [found |-> "none", args |-> <<>>]
  IN  IF Len(argTypes) < Len(f.args)
      THEN [found |-> "none", args |-> <<>>]
      ELSE bound(FoldLeftDomain(LAMBDA acc, i : Unify(f.args[i], argTypes[i], acc, mapping),
                                [subs |-> NoSubs, conflict |-> FALSE], f.args))
=============================================================================
