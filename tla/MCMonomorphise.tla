--------------------------- MODULE MCMonomorphise ---------------------------
(***************************************************************************)
(* A small library of generic types, traits, functions and methods, and    *)
(* lets over it.  The type of each call is what lowering gives it.         *)
(***************************************************************************)
EXTENDS MonoMeaning

I32 == Prim("I32")
P(name) == [name |-> name, bounds |-> <<>>]
Bounded(name, id, args) == [name |-> name, bounds |-> <<[id |-> id, args |-> args]>>]

(* ids of the types: the prelude comes first *)
Array == 1
Box == 2
Pair == 3
Point == 4
BoxOf(t) == Generic(Box, <<t>>)
PairOf(t, u) == Generic(Pair, <<t, u>>)
ArrayOf(t) == Generic(Array, <<t>>)

Types == << TypeDef(Array, <<P("E")>>, <<>>, TRUE),
            TypeDef(Box, <<P("T")>>, <<Param("T")>>, FALSE),
            TypeDef(Pair, <<P("A"), P("B")>>, <<Param("A"), BoxOf(Param("B"))>>, FALSE),
            TypeDef(Point, <<>>, <<I32>>, FALSE) >>

(* trait 1: Show, trait 2: Holder<H> *)
Traits == << TraitDef(<<>>, <<I32>>), TraitDef(<<P("H")>>, <<Param("H")>>) >>

Value(t) == Node("value", t, <<>>)
Make(t, kids) == [Node("make", t, kids) EXCEPT !.id = t.id]

(* The signatures come first: a call is lowered against them.              *)
SomeFn(name, params, args, ret) == Fn(0, name, params, args, ret, <<>>)
T1(n) == Param(n)
Signatures ==
  << SomeFn("id", <<P("X")>>, <<Param("X")>>, Param("X")),
     SomeFn("wrap", <<P("U")>>, <<Param("U")>>, BoxOf(Param("U"))),
     SomeFn("twice", <<P("V")>>, <<Param("V")>>, BoxOf(BoxOf(Param("V")))),
     SomeFn("shown", <<Bounded("W", 1, <<>>)>>, <<Param("W")>>, I32),
     SomeFn("grow", <<P("G")>>, <<Param("G")>>, I32),
     SomeFn("loop", <<P("L")>>, <<Param("L")>>, I32),
     SomeFn("unbox", <<P("C")>>, <<BoxOf(Param("C"))>>, Param("C")),
     SomeFn("plain", <<>>, <<I32>>, I32),
     SomeFn("held", <<Bounded("R", 2, <<I32>>)>>, <<Param("R")>>, I32),
     SomeFn("late", <<P("Y")>>, <<Param("Y")>>, I32),
     SomeFn("inner", <<P("D")>>, <<Param("D")>>, I32),
     SomeFn("heldBox", <<Bounded("R", 2, <<BoxOf(I32)>>)>>, <<Param("R")>>, I32),
     SomeFn("heldAny", <<P("Q"), Bounded("R", 2, <<Param("Q")>>)>>, <<Param("R"), Param("Q")>>, I32) >>

TypesAt(body, kids) == [i \in DOMAIN kids |-> body[kids[i]].ty]

(* body with a call of function f on its expressions kids *)
Call(body, f, kids, written) ==
  Append(body, [Node("call", LoweredCallType(Signatures[f], TypesAt(body, kids), written), kids)
                  EXCEPT !.name = Signatures[f].name, !.id = f, !.means = f])

MethodCall(body, sig, i, j, kids) ==
  Append(body, [Node("method", LoweredMethodType(Types[body[kids[1]].ty.id], body[kids[1]].ty, sig,
                                                 Tail(TypesAt(body, kids))), kids)
                  EXCEPT !.name = sig.name, !.dispatch = "static", !.id = i, !.idx = j])

BoundCall(body, name, trait, args, ty, kids) ==
  Append(body, [Node("method", ty, kids) EXCEPT !.name = Name(<<name>>),
                  !.dispatch = "virtual", !.id = trait, !.idx = 1, !.args = args])

(* impl 1: Box<T>; impl 2: Box<T>: Show; impl 3: Point: Show;              *)
(* impl 4: Point: Holder<I32>; impl 5: Point: Holder<Box<I32>>             *)
T == Param("T")
O == Param("O")
Get  == Method(1, 1, "get", <<>>, <<>>, T, <<Value(BoxOf(T)), Value(T)>>)
Both == Method(1, 2, "both", <<P("O")>>, <<O>>, PairOf(T, O),
               << Value(T), Value(O), Make(PairOf(T, O), <<1, 2>>) >>)
Same == Method(1, 3, "same", <<>>, <<BoxOf(T)>>, BoxOf(T), << Value(T), Make(BoxOf(T), <<1>>) >>)
Show(i) == Method(i, 1, "show", <<>>, <<>>, I32, <<Value(I32)>>)
Skip == Method(4, 1, "skip", <<>>, <<>>, I32, <<Value(I32)>>)
Read == Method(4, 2, "read", <<>>, <<>>, I32, Call(<<Value(I32)>>, 8, <<1>>, <<>>))

ReadBox == Method(5, 1, "read", <<>>, <<>>, I32, <<Value(I32)>>)
SkipBox == Method(5, 2, "skip", <<>>, <<>>, I32, <<Value(I32)>>)

Impls == << Impl(Box, <<>>, <<Get, Both, Same>>),
            Impl(Box, <<Ref(1, <<>>)>>, <<Show(2)>>),
            Impl(Point, <<Ref(1, <<>>)>>, <<Show(3)>>),
            Impl(Point, <<Ref(2, <<I32>>)>>, <<Skip, Read>>),
            Impl(Point, <<Ref(2, <<BoxOf(I32)>>)>>, <<ReadBox, SkipBox>>) >>

Bodies ==
  << <<Value(Param("X"))>>,
     << Value(Param("U")), Make(BoxOf(Param("U")), <<1>>) >>,
     Call(Call(<<Value(Param("V"))>>, 2, <<1>>, <<Param("V")>>), 2, <<2>>, <<BoxOf(Param("V"))>>),
     BoundCall(<<Value(Param("W"))>>, "show", 1, <<>>, I32, <<1>>),
     Call(<<Value(Param("G")), Make(BoxOf(Param("G")), <<1>>)>>, 5, <<2>>, <<BoxOf(Param("G"))>>),
     Call(<<Value(Param("L"))>>, 6, <<1>>, <<Param("L")>>),
     MethodCall(<<Value(BoxOf(Param("C")))>>, Get, 1, 1, <<1>>),
     Call(<<Value(I32)>>, 1, <<1>>, <<>>),
     BoundCall(<<Value(Param("R"))>>, "read", 2, <<I32>>, I32, <<1>>),
     << Value(Param("Y")), Make(PairOf(Param("Y"), Param("Y")), <<1, 1>>), Value(I32) >>,
     << Value(Param("D")), Make(BoxOf(Param("D")), <<1>>), Make(BoxOf(BoxOf(Param("D"))), <<2>>), Value(I32) >>,
     BoundCall(<<Value(Param("R"))>>, "read", 2, <<BoxOf(I32)>>, I32, <<1>>),
     BoundCall(<<Value(Param("R"))>>, "read", 2, <<Param("Q")>>, I32, <<1>>) >>

Functions == [f \in DOMAIN Signatures |->
                [Signatures[f] EXCEPT !.body = Bodies[f], !.from.id = f]]

(* The arguments of the lets.                                              *)
InBox(body) == Append(body, Make(BoxOf(Last(body).ty), <<Len(body)>>))
Boxed[n \in 0..4] == IF n = 0 THEN <<Value(I32)>> ELSE InBox(Boxed[n - 1])
Nested == Tuple(<<Tuple(<<I32>>)>>)
Args == { Boxed[n] : n \in 0..4 }
          \cup { <<Make(Def(Point), <<>>)>>, <<Value(ArrayOf(I32))>>, <<Value(ArrayOf(ArrayOf(I32)))>>,
                 <<Value(ArrayOf(ArrayOf(ArrayOf(ArrayOf(I32)))))>>,
                 <<Value(ArrayOf(BoxOf(I32)))>>,
                 <<Value(Nested)>>, <<Value(Tuple(<<Nested>>))>> }

Root(body) == <<Len(body)>>

Lets(a) ==
  { a } \cup { Call(a, f, Root(a), <<>>) : f \in {1, 2, 3, 5, 6, 10, 11} }
    \cup { MethodCall(InBox(a), Get, 1, 1, Root(InBox(a))),
           MethodCall(InBox(a), Both, 1, 2, <<Len(a) + 1, Len(a)>>),
           MethodCall(InBox(a), Same, 1, 3, <<Len(a) + 1, Len(a) + 1>>),
           Call(InBox(a), 4, Root(InBox(a)), <<>>) }

OnPoint == { Call(<<Make(Def(Point), <<>>)>>, f, <<1>>, <<>>) : f \in {4, 9} }
AllLets == OnPoint \cup UNION {Lets(a) : a \in Args}

(* Two impls of one generic trait, one for an instance that is copied too, *)
(* and the functions that tell them apart.                                 *)
HeldBy(a) == Call(a \o <<Make(Def(Point), <<>>)>>, 13, <<Len(a) + 1, Len(a)>>, <<>>)
TwoHolders == { Call(<<Make(Def(Point), <<>>)>>, f, <<1>>, <<>>) : f \in {9, 12} }
                \cup { HeldBy(Boxed[0]), HeldBy(Boxed[1]) }

(* The first impls and functions of the library, and lets over them.       *)
Library(impls, fns) ==
  Module(Types, Traits, SubSeq(Impls, 1, impls), SubSeq(Functions, 1, fns), <<>>)

ProgramOf(library, bodies) ==
  [library EXCEPT !.lets = [i \in DOMAIN bodies |-> Let(i, bodies[i])]]

(* Every let alone, and after one that makes copies of its own.            *)
FirstLets == { Call(<<Value(I32)>>, 2, <<1>>, <<>>), Call(<<Make(Def(Point), <<>>)>>, 4, <<1>>, <<>>) }

SomePrograms ==
  LET library == Library(4, 11)
      holders == Library(5, 13)
  IN  { ProgramOf(library, <<b>>) : b \in AllLets }
        \cup { ProgramOf(library, <<a, b>>) : a \in FirstLets, b \in AllLets }
        \cup { ProgramOf(holders, <<a, b>>) : a \in TwoHolders, b \in TwoHolders }
=============================================================================
