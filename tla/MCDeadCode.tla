----------------------------- MODULE MCDeadCode -----------------------------
(***************************************************************************)
(* Two families of modules as monomorphisation leaves them: no bound has   *)
(* arguments and no function is generic.  In the first the definitions     *)
(* refer to each other in many ways; in the second the bodies and the      *)
(* bindings vary.  No parameter default calls a method.                    *)
(***************************************************************************)
EXTENDS DeadCode

RefTo(k, i) == [kind |-> k, id |-> i, means |-> i]
A == RefTo("struct", 1)
B == RefTo("struct", 2)
C == RefTo("struct", 3)
E == RefTo("enum", 1)
T1 == RefTo("trait", 1)
T2 == RefTo("trait", 2)
BoundOf(t) == [trait |-> t, args |-> {}]
CallOf(i) == [id |-> i, means |-> i]

Local(n) == [name |-> n, id |-> 0, means |-> 0]
\* A binding read by its name only, or by its id after ResolveReferences.
Global(n, i, resolved) == [name |-> n, id |-> IF resolved THEN i ELSE 0, means |-> i]

BranchOf(at, types, calls, reads, effect) ==
    [at |-> at, types |-> types, calls |-> calls, reads |-> reads, effect |-> effect]
Plain(b) == [test |-> "none", branches |-> <<b>>]
If(test, b, c) == [test |-> test, branches |-> <<b, c>>]
IfOnly(test, b) == [test |-> test, branches |-> <<b>>]
Let(n, v) == [form |-> "let", name |-> n, value |-> v]
Assign(n, v) == [form |-> "assign", name |-> n, value |-> v]
Do(v) == [form |-> "do", name |-> "", value |-> v]

DefOf(i, pub, types, bounds, composed, default) ==
    [was |-> i, pub |-> pub, types |-> types, bounds |-> bounds, composed |-> composed,
     default |-> default]
ImplWith(i, target, trait, body) ==
    [was |-> i, target |-> target, trait |-> trait, sig |-> {}, bounds |-> {},
     body |-> body, default |-> <<>>]
FunctionOf(sig, body, default) ==
    [sig |-> sig, bounds |-> {}, body |-> body, default |-> default]
LetOf(i, pub, name, type, v) ==
    [was |-> i, pub |-> pub, name |-> name, type |-> type, value |-> <<Do(v)>>]
ModuleOf(structs, traits, enums, impls, functions, lets) ==
    [defs |-> [struct |-> structs, trait |-> traits, enum |-> enums],
     impls |-> impls, functions |-> functions, lets |-> lets]

-----------------------------------------------------------------------------
(* Definitions: three structs, two traits, an enum, and impls of them in   *)
(* two orders, each called from the body of the other.                     *)

Structs(pub, ofA, ofB, boundA) ==
    <<DefOf(1, FALSE, ofA, boundA, {}, <<>>),
      DefOf(2, pub, ofB, {}, {}, <<Do(Plain(BranchOf(90, {C}, {}, {}, FALSE)))>>),
      DefOf(3, FALSE, {}, {}, {}, <<>>)>>
Traits(composes) ==
    <<DefOf(1, FALSE, {}, {}, IF composes THEN {T2} ELSE {}, <<>>),
      DefOf(2, FALSE, IF composes THEN {C} ELSE {}, {}, {}, <<>>)>>
Enums(ofE) == <<DefOf(1, FALSE, ofE, {}, {}, <<>>)>>

\* The impl of `t`, with a call of impl number n on a value of type `on`.
ImplOf(i, t, trait, on, n) ==
    ImplWith(i, t, trait,
         IF n = 0 THEN <<>> ELSE <<Do(Plain(BranchOf(i, {on}, {CallOf(n)}, {}, TRUE)))>>)
Impls(aFirst, traitA, traitE) ==
    IF aFirst
    THEN <<ImplOf(1, {A}, traitA, A, 0), ImplOf(2, {E}, traitE, A, 1),
           ImplOf(3, {}, {}, B, 4), ImplOf(4, {B}, {}, E, 0)>>
    ELSE <<ImplOf(1, {E}, traitE, A, 3), ImplOf(2, {B}, {}, E, 0),
           ImplOf(3, {A}, traitA, B, 2)>>

\* What the one function names and calls.
Bodies(implA) ==
    <<<<>>,
     <<Do(Plain(BranchOf(10, {A}, {CallOf(implA)}, {}, TRUE)))>>,
     <<Do(If("true", BranchOf(10, {E}, {}, {}, FALSE),
                     BranchOf(11, {A}, {CallOf(implA)}, {}, TRUE)))>>,
     <<Do(If("false", BranchOf(10, {A}, {}, {}, FALSE), BranchOf(11, {T1}, {}, {}, FALSE)))>>>>

ByDefinitions ==
    {ModuleOf(Structs(pub, ofA, ofB, boundA), Traits(composes), Enums(IF aFirst THEN ofE ELSE {}),
            Impls(aFirst, traitA, {BoundOf(T1)}),
            <<FunctionOf({}, Bodies(IF aFirst THEN 1 ELSE 3)[body], <<>>)>>, <<>>) :
        pub \in BOOLEAN, ofA \in {{}, {B}, {E}}, ofB \in {{}, {C}, {A}},
        boundA \in {{}, {BoundOf(T1)}}, composes \in BOOLEAN, ofE \in {{}, {B}},
        traitA \in {{}, {BoundOf(T2)}}, body \in 1..4,
        aFirst \in BOOLEAN}

-----------------------------------------------------------------------------
(* Bodies and bindings: three module bindings, and a function whose block  *)
(* binds, shadows, assigns and tests.                                      *)

X == Global("x", 1, FALSE)

Firsts ==
    {Let("p", Plain(BranchOf(1, {B}, {}, {X}, FALSE))),
     Let("y", Plain(BranchOf(1, {}, {}, {}, FALSE))),
     Let("p", IfOnly("false", BranchOf(1, {}, {}, {}, TRUE))),
     Let("p", Plain(BranchOf(1, {A}, {CallOf(1)}, {X}, TRUE)))}
Seconds ==
    {Let("p", Plain(BranchOf(2, {}, {}, {Local("p")}, FALSE))),
     Let("q", Plain(BranchOf(2, {}, {}, {Local("p")}, FALSE))),
     Let("p", Plain(BranchOf(2, {}, {}, {}, TRUE))),
     Assign("p", Plain(BranchOf(2, {}, {}, {X}, FALSE))),
     Do(Plain(BranchOf(2, {}, {}, {Local("p")}, TRUE))),
     Let("q", If("true", BranchOf(2, {}, {}, {Local("p")}, FALSE), BranchOf(3, {}, {}, {X}, TRUE))),
     Let("q", If("false", BranchOf(2, {B}, {}, {X}, TRUE), BranchOf(3, {}, {}, {Local("p")}, FALSE))),
     Let("p", If("open", BranchOf(2, {}, {}, {Local("p")}, FALSE), BranchOf(3, {}, {}, {X}, TRUE)))}
Thirds == {Let("q", Plain(BranchOf(4, {}, {}, {Local("p")}, FALSE))),
           Let("p", Plain(BranchOf(4, {}, {}, {Local("q")}, FALSE)))}
Result(reads) == Do(Plain(BranchOf(5, {}, {}, reads, FALSE)))
Results == {Result({}), Result({Local("p")}), Result({Local("q")})}

Blocks == {<<a, b, r>> : a \in Firsts, b \in Seconds, r \in Results}
        \cup {<<a, b, c, r>> : a \in Firsts, b \in Seconds, c \in Thirds,
                              r \in {Result({Local("p"), Local("q")})}}

\* y reads x or nothing; z is public, has an effect, or neither, and reads y.
Bindings(resolved, yReads, zPub, zEffect) ==
    <<LetOf(1, FALSE, "x", {}, Plain(BranchOf(6, {}, {}, {}, FALSE))),
      LetOf(2, FALSE, "y", {}, Plain(BranchOf(7, {}, {}, yReads, FALSE))),
      LetOf(3, zPub, "z", {B},
             Plain(BranchOf(8, {}, {}, {Global("y", 2, resolved)}, zEffect)))>>

\* y is read by its id in one half of the modules, and reads x in the other;
\* the parameter of the function has a default where z is public.
ByBodies ==
    {ModuleOf(<<DefOf(1, FALSE, {}, {}, {}, <<>>), DefOf(2, FALSE, {}, {}, {}, <<>>)>>, <<>>, <<>>,
            <<ImplOf(1, {A}, {}, A, 0)>>,
            <<FunctionOf({}, body,
                       IF z # "pub" THEN <<>>
                       ELSE <<Do(Plain(BranchOf(9, {}, {}, {Global("y", 2, resolved)}, FALSE)))>>)>>,
            Bindings(resolved, IF resolved THEN {} ELSE {Global("x", 1, FALSE)},
                     z = "pub", z = "effect")) :
        body \in Blocks, resolved \in BOOLEAN, z \in {"pub", "effect", "plain"}}

MCModules == ByDefinitions \cup ByBodies

\* For a look at what DefaultsCallNothing excludes: the first family with a
\* default that calls a method.  With Modules <- ModulesWithDefaultCalls,
\* IdsKeepTheirMeaning is violated when the impls of the method's struct move.
ModulesWithDefaultCalls ==
    {LET impl == CHOOSE i \in DOMAIN m.impls : m.impls[i].target = {B}
     IN  [m EXCEPT !.functions[1].default =
            <<Do(Plain(BranchOf(20, {B}, {CallOf(impl)}, {}, TRUE)))>>] :
        m \in ByDefinitions}

ASSUME MCDefaultsCallNothing == \A m \in MCModules : DefaultsCallNothing(m)
=============================================================================
