------------------------------- MODULE MCClosures -------------------------------
(***************************************************************************)
(* Programs for the closure passes.  "Shadowing" is a family: a function   *)
(* with a parameter x and a let y makes a closure over n whose body is     *)
(* every small expression over the three names that binds one of them      *)
(* again: in a block, in a loop, or in a closure of its own.  The others   *)
(* are one program for each way a closure value travels and for each name  *)
(* of the source that looks like a synthetic one.                          *)
(***************************************************************************)
EXTENDS ClosureMeaning

I == IntType
IntFn == ClosureType(<<I>>, I)
B(x) == Binding(x, I)
P(x) == Param(x, I, Absent)
FnParam(x) == Param(x, IntFn, Absent)
Lam(x, body) == Closure(<<B(x)>>, body)
Fun(stem, params, body) == Function(Plain(stem), params, I, body)
Maker(stem, params, body) == Function(Plain(stem), params, IntFn, body)
CallOf(stem, args) == Call(Plain(stem), args, I)
Only(functions) == Module(<<>>, functions, <<>>, <<>>, <<>>)

------------------------------------------------------------------------------
Names3 == {"x", "y", "n"}
Reads == {Name(x) : x \in Names3} \cup {Pair(Name(x), Name(y)) : x, y \in {"x", "n"}}

Bodies ==
    {Pair(Pair(Name("n"), Name("y")), Name("x"))}
    \cup {Block(<<LetStmt(v, r)>>, Pair(Name("x"), Name(v))) : v \in {"x", "y", "n", "t"}, r \in Reads}
    \cup {Pair(Name("y"), ForEach(v, r, Pair(Name("x"), Name(v)))) : v \in {"x", "n", "t"}, r \in Reads}
    \cup {Block(<<LetStmt("g", Lam(v, Pair(r, Name(v)))), LetStmt("y", Number("7"))>>,
                Pair(Apply(Name("g"), <<Name("y")>>), Name("x"))) : v \in {"k", "x", "n"}, r \in Reads}
    \cup {Block(<<LetStmt(v, Name("y")), LetStmt("g", Lam("k", Pair(r, Name("k"))))>>,
                Apply(Name("g"), <<Name("n")>>)) : v \in {"x", "n"}, r \in Reads}

Shadowing == {Only(<<Fun("probe", <<P("x")>>,
                         Block(<<LetStmt("y", Pair(Name("x"), Number("1"))),
                                 LetStmt("f", Lam("n", body))>>,
                               Apply(Name("f"), <<Number("5")>>)))>>) : body \in Bodies}

------------------------------------------------------------------------------
\* A closure returned from a closure: the inner one reads the outer one's capture.
Curried ==
    Only(<<Function(Plain("make"), <<P("a"), P("b")>>, ClosureType(<<I>>, IntFn),
                    Lam("m", Lam("n", Pair(Pair(Name("a"), Name("m")), Pair(Name("n"), Name("b")))))),
           Fun("probe", <<P("a")>>,
               Apply(Apply(Call(Plain("make"), <<Number("1"), Name("a")>>, ClosureType(<<I>>, IntFn)),
                           <<Number("2")>>), <<Number("3")>>))>>)

\* One function called with closures of two sites; a call that no closure of the module reaches.
Callbacks ==
    Only(<<Fun("apply", <<FnParam("f"), P("x")>>, Apply(Name("f"), <<Name("x")>>)),
           Fun("unused", <<Param("f", ClosureType(<<I, I>>, I), Absent)>>,
               Apply(Name("f"), <<Number("1"), Number("2")>>)),
           Fun("probe", <<P("a"), P("b")>>,
               Pair(CallOf("apply", <<Lam("n", Pair(Name("n"), Name("b"))), Number("1")>>),
                    CallOf("apply", <<Lam("n", Pair(Name("a"), Name("n"))), Number("2")>>)))>>)

\* A later assignment does not reach the copy the closure holds.
Reassigned ==
    Only(<<Fun("probe", <<P("x")>>,
               Block(<<LetStmt("v", Name("x")),
                       LetStmt("f", Lam("n", Pair(Name("n"), Name("v")))),
                       AssignStmt("v", Number("9"))>>,
                     Pair(Apply(Name("f"), <<Number("1")>>), Name("v"))))>>)

\* Closures in module lets, one of which a function calls; two arities.
InLets ==
    Module(<<Let("double", Lam("n", Pair(Name("n"), Name("n")))),
             Let("join", Closure(<<B("p"), B("q")>>, Pair(Name("q"), Name("p"))))>>,
           <<Fun("probe", <<P("x")>>,
                 Pair(Apply(Name("double"), <<Name("x")>>),
                      Apply(Name("join"), <<Number("1"), Number("2")>>)))>>,
           <<>>, <<>>, <<>>)

\* A closure that reads self outlives its method; one sits in the default of a field.
Counter == Struct(Plain("Counter"), <<Field("v", I, Absent), Field("w", I, Absent)>>)
Handler == Struct(Plain("Handler"), <<Field("h", IntFn, Lam("n", Pair(Name("n"), Number("0"))))>>)
Methods ==
    Module(<<>>,
           <<Fun("probe", <<P("x")>>,
                 Block(<<LetStmt("c", New(1, <<<<"v", Name("x")>>, <<"w", Number("4")>>>>)),
                         LetStmt("f", [Invoke(Name("c"), "adder", <<Number("3")>>) EXCEPT !.ty = IntFn]),
                         LetStmt("g", Lam("n", Pair(PathTo("c", "w"), Name("n"))))>>,
                       Pair(Apply(Name("f"), <<Number("2")>>), Apply(Name("g"), <<Number("1")>>))))>>,
           <<Function(Plain("adder"), <<Param("self", StructType(1), Absent), P("k")>>, IntFn,
                      Lam("n", Pair(Pair(SelfField("w"), Name("n")), Pair(SelfField("v"), Name("k")))))>>,
           <<Counter, Handler>>, <<>>)

\* Definitions of the source that carry names the passes make.
Lookalikes ==
    Module(<<>>,
           <<Function(Numbered("__call_Fn", 0), <<P("x")>>, I, Pair(Name("x"), Number("1000"))),
             Function(Numbered("__closure", 1), <<P("x")>>, I, Pair(Name("x"), Number("100"))),
             Fun("probe", <<P("__env")>>,
                 Block(<<LetStmt("f", Lam("n", Pair(Name("n"), Name("__env")))),
                         LetStmt("g", Closure(<<>>, Name("__env")))>>,
                       Pair(Pair(Apply(Name("f"), <<Number("1")>>), Apply(Name("g"), <<>>)),
                            Pair(Call(Numbered("__call_Fn", 0), <<Number("2")>>, I),
                                 Call(Numbered("__closure", 1), <<Number("3")>>, I)))))>>,
           <<>>, <<Struct(Numbered("__ClosureEnv", 3), <<Field("v", I, Absent)>>)>>,
           <<Enum(Numbered("__Fn", 1), <<>>)>>)

\* A closure of an inline module calls its neighbour, which hides a function of the file.
InModule ==
    Only(<<Fun("near", <<P("x")>>, Pair(Name("x"), Number("1"))),
           Function(Inside("m", Plain("near")), <<P("x")>>, I, Pair(Name("x"), Number("2"))),
           Function(Inside("m", Plain("probe")), <<P("x")>>, I,
                    Block(<<LetStmt("f", Lam("n", CallOf("near", <<Pair(Name("n"), Name("x"))>>)))>>,
                          Apply(Name("f"), <<Number("1")>>))),
           Fun("main", <<P("x")>>, CallOf("near", <<Name("x")>>))>>)

\* A call written before its callee gets the closure that is the callee's default.
Defaulted ==
    Only(<<Fun("probe", <<P("a")>>,
               Block(<<LetStmt("g", Lam("n", Pair(Name("n"), CallOf("late", <<Name("a")>>))))>>,
                     Apply(Name("g"), <<Number("1")>>))),
           Fun("late", <<P("x"), Param("h", IntFn, Lam("n", Pair(Name("n"), Number("8"))))>>,
               Apply(Name("h"), <<Name("x")>>))>>)

MCPrograms == Shadowing \cup {Curried, Callbacks, Reassigned, InLets, Methods, Lookalikes, InModule,
                              Defaulted}
==============================================================================
