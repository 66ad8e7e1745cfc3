-------------------------------- MODULE MCCalls --------------------------------
(* Small files for Calls: one to three definitions of a name, as functions or *)
(* as methods, before, after and around a caller, and the ways to call them.  *)
EXTENDS CallMeaning

Constant(name) == Value("the default of " \o name, "")
Reading(name, other) == Value("the default of " \o name, other)

X(type) == Param("x", "", type, NoDefault)
Y(default) == Param("y", "", "I32", default)

\* Signatures that differ in types, in labels, in count and in defaults.
Signatures == {
    <<X("I32")>>,
    <<X("I64")>>,
    <<X("String")>>,
    <<Y(NoDefault)>>,
    <<Param("y", "", "I64", NoDefault)>>,
    <<Param("x", "by", "I32", NoDefault)>>,
    <<X("I32"), Y(NoDefault)>>,
    <<X("I64"), Y(Constant("y"))>>,
    <<X("I32"), Y(Reading("y", "x"))>>,
    <<X("I32"), Y(Constant("y")), Param("z", "", "I32", Reading("z", "y"))>>,
    <<Param("x", "by", "I32", NoDefault), Y(Constant("y"))>> }

Literal(label, tag) == Arg(label, "I32", TRUE, Value(tag, ""))
Reads(label, x) == Arg(label, "I32", FALSE, Value("", x))

\* By position, by label, out of order, both, too few, too many, twice; the
\* caller's bindings have the names of parameters.
ArgumentLists == {
    <<>>,
    <<Literal("", "1")>>,
    <<Arg("", "I64", FALSE, Value("1I64", ""))>>,
    <<Arg("x", "String", FALSE, Value("s", ""))>>,
    <<Reads("", "y")>>,
    <<Literal("x", "1")>>,
    <<Literal("y", "1")>>,
    <<Literal("by", "1")>>,
    <<Literal("", "1"), Reads("", "x")>>,
    <<Reads("x", "y"), Reads("y", "x")>>,
    <<Reads("y", "x"), Reads("x", "y")>>,
    <<Literal("", "1"), Reads("y", "x")>>,
    <<Reads("x", "y"), Literal("z", "2")>>,
    <<Literal("", "1"), Literal("z", "2")>>,
    <<Literal("x", "1"), Literal("x", "2")>>,
    <<Literal("", "1"), Literal("", "2"), Literal("", "3")>> }

FCall(args) == Caller("main", Call(FALSE, "f", args))
MCall(args) == Caller("main", Call(TRUE, "f", args))
F(params) == Fn("f", params)
Other == Fn("g", <<X("I32")>>)

M(params) == [name |-> "f", params |-> params]
OtherMethod == [name |-> "g", params |-> <<X("I32")>>]

\* The definitions before the caller, after it, and around it; one definition
\* alone (then t says nothing), two, and functions or methods.
Layouts == 1..8
File(layout, args, s, t) ==
    CASE layout = 1 -> <<Other, F(s), F(t), FCall(args)>>
      [] layout = 2 -> <<F(s), FCall(args), Other, F(t)>>
      [] layout = 3 -> <<FCall(args), F(s), F(t)>>
      [] layout = 4 -> <<Other, F(s), FCall(args)>>
      [] layout = 5 -> <<FCall(args), Other, F(s)>>
      [] layout = 6 -> <<Impl(<<OtherMethod>>), Impl(<<M(s), OtherMethod, M(t)>>), MCall(args)>>
      [] layout = 7 -> <<MCall(args), Impl(<<OtherMethod>>), Impl(<<OtherMethod, M(s), M(t)>>)>>
      [] layout = 8 -> <<MCall(args), Impl(<<OtherMethod, M(s)>>)>>

\* Two overloads before the caller and one behind it: the recorded place counts
\* overloads that are not lowered yet.
FewSignatures == { <<X("I32")>>, <<X("I64")>>, <<Y(NoDefault)>>, <<X("I64"), Y(Constant("y"))>> }
FileOfThree(args, s, t, u) == <<F(s), F(t), FCall(args), F(u)>>

AllFiles ==
    {File(c[1], c[2], c[3], c[4]) : c \in Layouts \X ArgumentLists \X Signatures \X Signatures}
    \cup {FileOfThree(c[1], c[2], c[3], c[4]) :
              c \in ArgumentLists \X FewSignatures \X FewSignatures \X FewSignatures}

------------------------------------------------------------------------------
(* The calls on which the code and the documented rules part are left out:    *)
(* README.md lists them, and MCCallDivergences runs one.                      *)

CallerPlace(file) == CHOOSE i \in DOMAIN file : IsCaller(file[i])
CallIn(file) == file[CallerPlace(file)].call
ComesLater(file, d) == \A i \in 1..CallerPlace(file) : file[i] # d
DefsIn(file) == LET call == CallIn(file)
                IN  IF call.method THEN Range(MethodOverloads(file, call.name)) ELSE Range(FunctionOverloads(file, call.name))

TypesSuit(d, args, Typed(_, _)) ==
    \A i \in DOMAIN args, p \in DOMAIN d.params : FillsOne(d.params, args, i, p) => Typed(args[i], d.params[p].type)
LooseIn(file) == {d \in DefsIn(file) : Suits(d.params, CallIn(file).args, MayHaveType)}
ExactIn(file) == {d \in DefsIn(file) : Suits(d.params, CallIn(file).args, HasType)}
BestIn(file) == LET pool == IF ExactIn(file) # {} THEN ExactIn(file) ELSE LooseIn(file)
                IN  {d \in pool : \A e \in pool : Len(d.params) <= Len(e.params)}

\* Among methods a tie goes to the first, and a method whose types fit
\* exactly hides one that fits the labels with a literal's other type.
MethodsAgree(file) ==
    CallIn(file).method =>
        /\ Cardinality(BestIn(file)) <= 1
        /\ ExactIn(file) = {} /\ LooseIn(file) # {} =>
               ~\E d \in DefsIn(file) : TypesSuit(d, CallIn(file).args, HasType)

\* An overloaded function is called without a check that each parameter is given once.
ShapesAgree(file) ==
    ~CallIn(file).method => \A d \in BestIn(file) : ShapeFits(d.params, CallIn(file).args)

\* A call that leaves a default out has only the names of parameters as labels,
\* or only positions; before its callee, positions and a constant default.
DefaultsAgree(file) ==
    LET args == CallIn(file).args
        Label(i) == args[i].label
    IN  ~CallIn(file).method => \A d \in BestIn(file) :
            \/ Len(args) = Len(d.params)
            \/ /\ \A i \in DOMAIN args : Label(i) = ""
               /\ ComesLater(file, d) => \A p \in DOMAIN d.params : d.params[p].default.reads = ""
            \/ /\ ~ComesLater(file, d)
               /\ \A i \in DOMAIN args : \E p \in DOMAIN d.params : Label(i) = d.params[p].name

MCPrograms == {file \in AllFiles : MethodsAgree(file) /\ ShapesAgree(file) /\ DefaultsAgree(file)}
===============================================================================
