------------------------------- MODULE CallForms -------------------------------
(***************************************************************************)
(* The rules by which a call means one of several definitions of a name    *)
(* (src/src/ir/overload.rs, src/src/semantic/validation/invocation,        *)
(* src/src/semantic/validation/method_call).                               *)
(*                                                                         *)
(* A parameter is [name, label, type, default], its label "" when it has   *)
(* no external one.  An argument is [label, type, literal, value]: literal *)
(* says it is a number with no suffix, which takes its type from where it  *)
(* stands.  A value, and a default, is [tag, reads]: what is written, with *)
(* the binding it reads, "" when it reads none.                            *)
(***************************************************************************)
EXTENDS Naturals, Sequences, FiniteSets, SequencesExt

Types == {"I32", "I64", "String"}
Numbers == {"I32", "I64"}

Value(tag, reads) == [tag |-> tag, reads |-> reads]
NoDefault == Value("", "")

Param(name, label, type, default) ==
    [name |-> name, label |-> label, type |-> type, default |-> default]
HasDefault(p) == p.default # NoDefault

Arg(label, type, literal, value) ==
    [label |-> label, type |-> type, literal |-> literal, value |-> value]

FirstIndex(s, Good(_)) ==
    IF \E i \in DOMAIN s : Good(s[i]) THEN CHOOSE i \in DOMAIN s :
        Good(s[i]) /\ \A j \in 1..(i - 1) : ~Good(s[j]) ELSE 0

------------------------------------------------------------------------------
(* Which parameter an argument fills. *)

\* A parameter answers to its name and to its external label.
Answers(p, label) == label \in {p.name, p.label} \ {""}

\* The parameter that the i-th argument fills, 0 for none.
SlotOf(params, args, i) ==
    IF args[i].label # "" THEN FirstIndex(params, LAMBDA p : Answers(p, args[i].label))
    ELSE IF i \in DOMAIN params THEN i ELSE 0

\* The declared type the argument is held against; "" when there is none.
ExpectedArgument(params, args, i) ==
    LET slot == SlotOf(params, args, i) IN IF slot = 0 THEN "" ELSE params[slot].type

------------------------------------------------------------------------------
(* The labels and the count. *)

Required(params) == Cardinality({i \in DOMAIN params : ~HasDefault(params[i])})

Fits(params, args) ==
    /\ \A i \in DOMAIN args : args[i].label # "" => SlotOf(params, args, i) # 0
    /\ Len(args) \in Required(params)..Len(params)

DefaultsFired(params, args) ==
    IF Len(params) > Len(args) THEN Len(params) - Len(args) ELSE 0

FewestFired(pool, args) ==
    {c \in pool : \A d \in pool : DefaultsFired(c.params, args) <= DefaultsFired(d.params, args)}

\* Among candidates, a sequence of definitions, the index of the one the call
\* means; 0 when it fits none.  A tie goes to the first.
Choose(candidates, args) ==
    LET fitting == {i \in DOMAIN candidates : Fits(candidates[i].params, args)}
        best == {i \in fitting : \A j \in fitting :
                    DefaultsFired(candidates[i].params, args) <= DefaultsFired(candidates[j].params, args)}
    IN  IF best = {} THEN 0 ELSE CHOOSE i \in best : \A j \in best : i <= j

\* Whether no argument is given twice, none is unknown, and none is missing.
RepeatedLabel(args) ==
    \E i, j \in DOMAIN args : i # j /\ args[i].label # "" /\ args[i].label = args[j].label

ShapeFits(params, args) ==
    /\ ~RepeatedLabel(args)
    /\ Len(args) <= Len(params)
    /\ \A i \in DOMAIN args : SlotOf(params, args, i) # 0
    /\ \A i, j \in DOMAIN args : i # j => SlotOf(params, args, i) # SlotOf(params, args, j)
    /\ \A p \in DOMAIN params : HasDefault(params[p]) \/ \E i \in DOMAIN args : SlotOf(params, args, i) = p

------------------------------------------------------------------------------
(* The types of the arguments. *)

\* An unsuffixed literal takes the expected type when that is a number's.
ContextualType(arg, expected) ==
    IF arg.literal /\ expected \in Numbers THEN expected ELSE arg.type

LiteralFits(arg, declared) == arg.literal /\ declared \in Numbers

ArgumentTypesFit(params, args, lenient) ==
    \A i \in DOMAIN args :
        LET declared == ExpectedArgument(params, args, i)
        IN  declared \in {"", args[i].type} \/ (lenient /\ LiteralFits(args[i], declared))

\* Lowered arguments have their final types: no leniency is left.
TypesFit(params, args) == ArgumentTypesFit(params, args, FALSE)

\* Mutant: a literal of either width fits from the start.
TypedPoolLenient(overloads, args) ==
    SelectSeq(overloads, LAMBDA o : ArgumentTypesFit(o.params, args, TRUE))

\* The members of a sequence of definitions the types of the call fit: exactly
\* when one does, else with a literal of either width.
TypedPool(overloads, args) ==
    LET exact == SelectSeq(overloads, LAMBDA o : ArgumentTypesFit(o.params, args, FALSE))
    IN  IF exact # <<>> THEN exact
        ELSE SelectSeq(overloads, LAMBDA o : ArgumentTypesFit(o.params, args, TRUE))

\* The overloads of a function that fit a call best; the call means one of
\* them when it is the only one.
MostSpecific(overloads, args) ==
    FewestFired(Range(TypedPool(SelectSeq(overloads, LAMBDA o : Fits(o.params, args)), args)), args)

------------------------------------------------------------------------------
(* Methods of one name. *)

\* The method the analyzer reads the call against, 0 when there is none of the
\* name: the best of those whose types fit, else the likeliest for a message.
ChooseMethod(overloads, args) ==
    LET typed == TypedPool(overloads, args)
        pool == IF typed # <<>> THEN typed ELSE overloads
        chosen == Choose(pool, args)
        counted == FirstIndex(overloads, LAMBDA o : Len(args) \in Required(o.params)..Len(o.params))
    IN  IF overloads = <<>> THEN 0
        ELSE IF chosen # 0 THEN FirstIndex(overloads, LAMBDA o : o = pool[chosen])
        ELSE IF counted # 0 THEN counted ELSE 1

\* A second method no call can tell from this one.
Signature(d) == [i \in DOMAIN d.params |->
                    <<IF d.params[i].label = "" THEN d.params[i].name ELSE d.params[i].label, d.params[i].type>>]
HasTwin(overloads, chosen) ==
    \E i \in DOMAIN overloads : i # chosen /\ Signature(overloads[i]) = Signature(overloads[chosen])

\* The position, among all the methods of a block, of the one a lowered call means.
MethodIndex(methods, name, args) ==
    LET Positions(Good(_)) == SelectSeq([i \in DOMAIN methods |-> i], Good)
        named == Positions(LAMBDA i : methods[i].name = name)
        typed == SelectSeq(named, LAMBDA i : TypesFit(methods[i].params, args))
        pool == IF typed = <<>> THEN named ELSE typed
        chosen == Choose([k \in DOMAIN pool |-> methods[pool[k]]], args)
    IN  CASE chosen # 0 -> pool[chosen]
          [] chosen = 0 /\ named # <<>> -> named[1]
          [] OTHER -> 0
===============================================================================
