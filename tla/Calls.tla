--------------------------------- MODULE Calls ---------------------------------
(***************************************************************************)
(* A call from its check to its final form: the analyzer types its         *)
(* arguments and picks the overload (validate_expr_invocation,             *)
(* validate_expr_method_call), lowering looks the overload up again among  *)
(* the functions lowered so far and puts defaults in                       *)
(* (lower_function_invocation, lower_method_call), and                     *)
(* ResolveReferencesPass binds the calls that came before their callee.    *)
(*                                                                         *)
(* The file holds free functions, impl blocks of one struct and callers.   *)
(* A caller is a function with no parameters and a body of one call, whose *)
(* written arguments may read the caller's own bindings.  Inline modules   *)
(* and linked modules are Linking's; type parameters are Monomorphise's.   *)
(***************************************************************************)
EXTENDS CallForms

CONSTANT Programs   \* the files, each a sequence of items

VARIABLES
    program,        \* the file
    stage,          \* what happens next
    at,             \* the item it happens to
    typed,          \* the arguments of each call checked, with the types of their literals
    choices,        \* overload_choices, and the method the analyzer reads a call against
    errors,         \* what the analyzer reported
    functions,      \* IrModule.functions
    impls,          \* IrModule.impls
    lowered         \* the body of each caller lowered

vars == <<program, stage, at, typed, choices, errors, functions, impls, lowered>>

------------------------------------------------------------------------------
(* The items. *)

Call(method, name, args) == [method |-> method, name |-> name, args |-> args]
NoCall == Call(FALSE, "", <<>>)

Fn(name, params) == [kind |-> "fn", name |-> name, params |-> params, methods |-> <<>>, call |-> NoCall]
Impl(methods) == [kind |-> "impl", name |-> "", params |-> <<>>, methods |-> methods, call |-> NoCall]
Caller(name, call) == [kind |-> "caller", name |-> name, params |-> <<>>, methods |-> <<>>, call |-> call]

IsCaller(item) == item.kind = "caller"
IsFunction(item) == item.kind \in {"fn", "caller"}

\* The overloads of a name, in source order: its functions, or its methods on the type.
FunctionOverloads(file, name) == SelectSeq(file, LAMBDA item : IsFunction(item) /\ item.name = name)
MethodOverloads(file, name) ==
    SelectSeq(FlattenSeq([i \in DOMAIN file |-> file[i].methods]), LAMBDA d : d.name = name)

------------------------------------------------------------------------------
(* The analyzer. *)

\* Two definitions of one scope with a name and a signature in common.
RepeatsSignature(defs) ==
    \E i, j \in DOMAIN defs : i # j /\ defs[i].name = defs[j].name /\ Signature(defs[i]) = Signature(defs[j])

CheckSignatures ==
    /\ stage = "signatures"
    /\ stage' = "typing"
    /\ errors' = IF \/ RepeatsSignature(SelectSeq(program, IsFunction))
                    \/ \E i \in DOMAIN program : RepeatsSignature(program[i].methods)
                 THEN errors \cup {<<0, "DuplicateDefinition">>} ELSE errors
    /\ UNCHANGED <<program, at, typed, choices, functions, impls, lowered>>

\* The parameters a call's arguments are expected to fill, <<>> when the
\* callee is not known.
ExpectedParams(call) ==
    LET overloads == FunctionOverloads(program, call.name)
        best == MostSpecific(overloads, call.args)
        methods == MethodOverloads(program, call.name)
    IN  CASE call.method /\ methods # <<>> -> methods[ChooseMethod(methods, call.args)].params
          [] ~call.method /\ Len(overloads) = 1 -> overloads[1].params
          [] ~call.method /\ Len(overloads) > 1 /\ Cardinality(best) = 1 -> (CHOOSE o \in best : TRUE).params
          [] OTHER -> <<>>

\* Each argument is checked in the position it stands in: its literal takes a type.
TypeArgs(call) ==
    [i \in DOMAIN call.args |->
        LET expected == ExpectedArgument(ExpectedParams(call), call.args, i)
        IN  [call.args[i] EXCEPT !.type = ContextualType(call.args[i], expected)]]

TypeArguments ==
    /\ stage = "typing" /\ at \in DOMAIN program
    /\ IF IsCaller(program[at])
       THEN /\ stage' = "checking"
            /\ typed' = [typed EXCEPT ![at] = TypeArgs(program[at].call)]
            /\ choices' = IF program[at].call.method
                          THEN [choices EXCEPT ![at] =
                                    ChooseMethod(MethodOverloads(program, program[at].call.name), program[at].call.args)]
                          ELSE choices
            /\ UNCHANGED at
       ELSE at' = at + 1 /\ UNCHANGED <<stage, typed, choices>>
    /\ UNCHANGED <<program, errors, functions, impls, lowered>>

\* The literals have their types now: nothing but equality is left.
Mistyped(params, args) == ~ArgumentTypesFit(params, args, FALSE)

\* What validate_expr_invocation_function reports of a call of a function, and
\* the overload it records.
CheckFunctionCall(name, args) ==
    LET overloads == FunctionOverloads(program, name)
        best == MostSpecific(overloads, args)
        Chosen == FirstIndex(overloads, LAMBDA o : o \in best)
        Verdict(bad, choice) == [errors |-> bad, choice |-> choice]
    IN  CASE RepeatedLabel(args) -> Verdict({"DuplicateDefinition"}, 0)
          [] ~RepeatedLabel(args) /\ overloads = <<>> -> Verdict({"UndefinedReference"}, 0)
          [] ~RepeatedLabel(args) /\ Len(overloads) = 1 ->
                Verdict(CASE ~ShapeFits(overloads[1].params, args) -> {"ArgumentCountMismatch"}
                          [] ShapeFits(overloads[1].params, args) /\ Mistyped(overloads[1].params, args) ->
                                {"TypeMismatch"}
                          [] OTHER -> {}, 0)
          [] OTHER ->
                CASE best = {} -> Verdict({"NoMatchingOverload"}, 0)
                  [] Cardinality(best) > 1 -> Verdict({"AmbiguousCall"}, 0)
                  [] OTHER -> Verdict(IF Mistyped(overloads[Chosen].params, args) THEN {"TypeMismatch"} ELSE {}, Chosen)

\* What validate_expr_method_call reports of a call of the chosen method.
CheckMethodCall(name, args, chosen) ==
    LET overloads == MethodOverloads(program, name)
    IN  CASE overloads = <<>> -> {"UndefinedReference"}
          [] overloads # <<>> /\ HasTwin(overloads, chosen) -> {"AmbiguousCall"}
          [] OTHER -> (IF Mistyped(overloads[chosen].params, args) THEN {"TypeMismatch"} ELSE {})
                      \cup (IF ShapeFits(overloads[chosen].params, args) THEN {} ELSE {"ArgumentCountMismatch"})

CheckCall ==
    LET call == program[at].call
        verdict == CheckFunctionCall(call.name, typed[at])
        bad == IF call.method THEN CheckMethodCall(call.name, typed[at], choices[at]) ELSE verdict.errors
    IN  /\ stage = "checking"
        /\ errors' = errors \cup {<<at, e>> : e \in bad}
        /\ choices' = IF call.method THEN choices ELSE [choices EXCEPT ![at] = verdict.choice]
        /\ at' = at + 1
        /\ stage' = "typing"
        /\ UNCHANGED <<program, typed, functions, impls, lowered>>

FinishAnalysis ==
    /\ stage = "typing" /\ at = Len(program) + 1
    /\ IF errors = {} THEN stage' = "lowering" /\ at' = 1
       ELSE stage' = "rejected" /\ UNCHANGED at
    /\ UNCHANGED <<program, typed, choices, errors, functions, impls, lowered>>

------------------------------------------------------------------------------
(* Lowering: the callee again, and the defaults. *)

FunctionId(name) == FirstIndex(functions, LAMBDA f : f.name = name)

\* Mutant: the record is not read.
FindOverloadUnrecorded(name, args, choice) ==
    LET candidates == SelectSeq([id \in DOMAIN functions |-> id], LAMBDA id : functions[id].name = name)
        fits == Choose([k \in DOMAIN candidates |-> functions[candidates[k]]], args)
    IN  IF fits # 0 THEN candidates[fits] ELSE FunctionId(name)

\* The recorded overload among those lowered so far; without a record, the
\* labels and the count decide.
FindOverload(name, args, choice) ==
    LET candidates == SelectSeq([id \in DOMAIN functions |-> id], LAMBDA id : functions[id].name = name)
        fits == Choose([k \in DOMAIN candidates |-> functions[candidates[k]]], args)
    IN  CASE Len(candidates) <= 1 -> FunctionId(name)
          [] Len(candidates) > 1 /\ choice \in DOMAIN candidates -> candidates[choice]
          [] OTHER -> IF fits # 0 THEN candidates[fits] ELSE FunctionId(name)

AnyLabelled(args) == \E i \in DOMAIN args : args[i].label # ""

\* The argument a call wrote for the p-th parameter, as substitute_defaults
\* finds it: 0 for none.
WrittenFor(params, args, p) ==
    IF AnyLabelled(args) THEN FirstIndex(args, LAMBDA a : a.label = params[p].name)
    ELSE IF p \in DOMAIN args THEN p ELSE 0

ReadsAParameter(default, params) == \E p \in DOMAIN params : default.reads = params[p].name

\* The arguments of a call that leaves some out, each with whether the call
\* wrote it, up to the first parameter with neither an argument nor a default.
SubstituteDefaults(params, args) ==
    LET Missing(p) == WrittenFor(params, args, p) = 0
        gaps == {p \in DOMAIN params : Missing(p) /\ ~HasDefault(params[p])}
        upto == {p \in DOMAIN params : \A g \in gaps : p < g}
        Filled(p) == Arg(IF AnyLabelled(args) THEN params[p].name ELSE "", params[p].type, FALSE, params[p].default)
    IN  [args |-> [p \in 1..Cardinality(upto) |->
                      IF Missing(p) THEN Filled(p) ELSE args[WrittenFor(params, args, p)]],
         explicit |-> {p \in upto : ~Missing(p)},
         wrapped |-> \E p \in upto : Missing(p) /\ ReadsAParameter(params[p].default, params)]

Hidden(name) == "arg#" \o name
LetStmt(name, value) == [name |-> name, value |-> value]

\* Mutant: the written arguments are bound under the parameters' own names at once.
LetWrapperUnhidden(params, filled) ==
    [p \in DOMAIN filled.args |-> LetStmt(params[p].name, filled.args[p].value)]

\* The block around a call whose defaults read parameters: the written
\* arguments under hidden names first, then each parameter in order.
LetWrapper(params, filled) ==
    LET written == SelectSeq([p \in DOMAIN filled.args |-> p], LAMBDA p : p \in filled.explicit)
    IN  [k \in DOMAIN written |-> LetStmt(Hidden(params[written[k]].name), filled.args[written[k]].value)]
        \o [p \in DOMAIN filled.args |->
              LetStmt(params[p].name, IF p \in filled.explicit THEN Value("", Hidden(params[p].name))
                                      ELSE filled.args[p].value)]

Body(lets, callee, block, index, args) ==
    [lets |-> lets, callee |-> callee, block |-> block, index |-> index, args |-> args]
NoBody == Body(<<>>, 0, 0, 0, <<>>)

LowerFunctionCall(name, args, choice) ==
    LET id == FindOverload(name, args, choice)
        params == IF id = 0 THEN <<>> ELSE functions[id].params
        filled == SubstituteDefaults(params, args)
    IN  CASE id = 0 \/ Len(args) >= Len(params) -> Body(<<>>, id, 0, 0, args)
          [] OTHER ->
                IF filled.wrapped
                THEN Body(LetWrapper(params, filled), id, 0, 0,
                          [p \in DOMAIN filled.args |-> [filled.args[p] EXCEPT !.value = Value("", params[p].name)]])
                ELSE Body(<<>>, id, 0, 0, filled.args)

\* The impl block with a method of the name: the first lowered one, else the
\* first declared one, at the id it will take.
FindImpl(name) ==
    LET HasMethod(methods) == \E i \in DOMAIN methods : methods[i].name = name
        declared == SelectSeq(program, LAMBDA item : item.kind = "impl")
        found == FirstIndex(impls, HasMethod)
    IN  IF found # 0 THEN found ELSE FirstIndex(declared, LAMBDA item : HasMethod(item.methods))

\* Static dispatch on the struct; an unknown method gets the next block's id.
DispatchKind(name) == IF FindImpl(name) # 0 THEN FindImpl(name) ELSE Len(impls) + 1

\* The method's place in its block; in a block not lowered yet, the first.
MethodPlace(block, name, args) ==
    IF block \in DOMAIN impls /\ MethodIndex(impls[block], name, args) # 0
    THEN MethodIndex(impls[block], name, args) ELSE 1

LowerMethodCall(name, args) ==
    Body(<<>>, 0, DispatchKind(name), MethodPlace(DispatchKind(name), name, args), args)

LowerDefinition(item) ==
    /\ functions' = IF IsFunction(item)
                    THEN Append(functions, [name |-> item.name, params |-> item.params]) ELSE functions
    /\ impls' = IF item.kind = "impl" THEN Append(impls, item.methods) ELSE impls

LowerItem ==
    /\ stage = "lowering" /\ at \in DOMAIN program
    /\ LowerDefinition(program[at])
    /\ LET call == program[at].call
       IN  lowered' = CASE ~IsCaller(program[at]) -> lowered
                        [] IsCaller(program[at]) /\ call.method ->
                              [lowered EXCEPT ![at] = LowerMethodCall(call.name, typed[at])]
                        [] OTHER -> [lowered EXCEPT ![at] = LowerFunctionCall(call.name, typed[at], choices[at])]
    /\ at' = at + 1
    /\ stage' = IF at = Len(program) THEN "resolving" ELSE stage
    /\ UNCHANGED <<program, typed, choices, errors>>

------------------------------------------------------------------------------
(* ResolveReferencesPass. *)

\* The index again, now over the whole module.
LookupMethodIdx(body, name) ==
    IF body.block \in DOMAIN impls /\ MethodIndex(impls[body.block], name, body.args) # 0
    THEN MethodIndex(impls[body.block], name, body.args) ELSE body.index

\* A call with no id takes the first function of its name; a method call its
\* index anew.
ResolveCall(call, body) ==
    IF call.method
    THEN [body EXCEPT !.index = LookupMethodIdx(body, call.name)]
    ELSE [body EXCEPT !.callee = IF body.callee = 0 THEN FunctionId(call.name) ELSE body.callee]

ResolveReferences ==
    /\ stage = "resolving"
    /\ lowered' = [i \in DOMAIN program |->
                      IF IsCaller(program[i]) THEN ResolveCall(program[i].call, lowered[i]) ELSE lowered[i]]
    /\ stage' = "filling"
    /\ UNCHANGED <<program, at, typed, choices, errors, functions, impls>>

\* A call with positions only gets the defaults of the parameters it stops
\* before, as they are written, up to the first with none.
SubstituteForwardDefaults(body) ==
    LET params == functions[body.callee].params
        gaps == {p \in DOMAIN params : p > Len(body.args) /\ ~HasDefault(params[p])}
        upto == {p \in DOMAIN params : \A g \in gaps : p < g}
        Appended(p) == Arg("", params[p].type, FALSE, params[p].default)
    IN  IF body.callee = 0 \/ AnyLabelled(body.args) \/ Len(body.args) >= Len(params) THEN body
        ELSE [body EXCEPT !.args = [p \in 1..Cardinality(upto) |->
                                        IF p \in DOMAIN body.args THEN body.args[p] ELSE Appended(p)]]

SubstituteDefaultsLate ==
    /\ stage = "filling"
    /\ lowered' = [i \in DOMAIN program |->
                      IF IsCaller(program[i]) /\ ~program[i].call.method
                      THEN SubstituteForwardDefaults(lowered[i]) ELSE lowered[i]]
    /\ stage' = "done"
    /\ UNCHANGED <<program, at, typed, choices, errors, functions, impls>>

------------------------------------------------------------------------------
Init ==
    /\ program \in Programs
    /\ stage = "signatures" /\ at = 1 /\ errors = {}
    /\ typed = [i \in DOMAIN program |-> <<>>]
    /\ choices = [i \in DOMAIN program |-> 0]
    /\ functions = <<>> /\ impls = <<>>
    /\ lowered = [i \in DOMAIN program |-> NoBody]

\* The compiler answers and stops.
Stop == stage \in {"done", "rejected"} /\ UNCHANGED vars

Next == \/ CheckSignatures \/ TypeArguments \/ CheckCall \/ FinishAnalysis
        \/ LowerItem \/ ResolveReferences \/ SubstituteDefaultsLate \/ Stop

Spec == Init /\ [][Next]_vars
===============================================================================
