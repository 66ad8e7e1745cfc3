------------------------------ MODULE CallMeaning ------------------------------
(***************************************************************************)
(* What a call means, as docs/user/functions.md states it (Calls, Default  *)
(* Parameter Values, Function Overloading), and what the call that the     *)
(* passes leave in the module does.  None of this reads the operators by   *)
(* which the code chooses.                                                 *)
(***************************************************************************)
EXTENDS Calls

Callers == {i \in DOMAIN program : IsCaller(program[i])}
CallOf(i) == program[i].call

\* The definitions a call may mean: functions by their place in the file,
\* methods by their block and their place in it.
Candidates(call) ==
    IF call.method
    THEN {<<i, k>> \in (DOMAIN program) \X (1..4) : k \in DOMAIN program[i].methods /\ program[i].methods[k].name = call.name}
    ELSE {<<i, 0>> : i \in {i \in DOMAIN program : IsFunction(program[i]) /\ program[i].name = call.name}}

ParamsOf(d) == IF d[2] = 0 THEN program[d[1]].params ELSE program[d[1]].methods[d[2]].params

\* An argument fills the parameter its label names, or the one at its position.
FillsOne(params, args, i, p) ==
    IF args[i].label = "" THEN i = p ELSE args[i].label \in {params[p].name, params[p].label}

HasType(a, type) == a.type = type
MayHaveType(a, type) == a.type = type \/ (a.literal /\ type \in Numbers)

\* Each label names a parameter, the count is between the required and the
\* declared ones, and each argument has the type of its parameter.
Suits(params, args, Typed(_, _)) ==
    /\ \A i \in DOMAIN args : args[i].label # "" => \E p \in DOMAIN params : FillsOne(params, args, i, p)
    /\ Cardinality({p \in DOMAIN params : params[p].default = NoDefault}) <= Len(args)
    /\ Len(args) <= Len(params)
    /\ \A i \in DOMAIN args, p \in DOMAIN params : FillsOne(params, args, i, p) => Typed(args[i], params[p].type)

\* The best of the definitions that suit: the types exactly first, then the
\* fewest parameters left to their defaults.
BestFits(call) ==
    LET exact == {d \in Candidates(call) : Suits(ParamsOf(d), call.args, HasType)}
        pool == IF exact # {} THEN exact
                ELSE {d \in Candidates(call) : Suits(ParamsOf(d), call.args, MayHaveType)}
    IN  {d \in pool : \A e \in pool : Len(ParamsOf(d)) <= Len(ParamsOf(e))}

\* No label twice, no parameter twice, none missing.
WellFormed(call, d) ==
    LET params == ParamsOf(d)
    IN  /\ \A i, j \in DOMAIN call.args : i # j =>
              /\ call.args[i].label = "" \/ call.args[i].label # call.args[j].label
              /\ ~\E p \in DOMAIN params : FillsOne(params, call.args, i, p) /\ FillsOne(params, call.args, j, p)
        /\ \A p \in DOMAIN params : params[p].default # NoDefault \/ \E i \in DOMAIN call.args : FillsOne(params, call.args, i, p)

\* The analyzer takes a call exactly when one definition suits it best and the
\* call gives each parameter once, wherever in the file the definitions stand
\* (semantic/validation/invocation/resolution.rs, method_call/choice.rs).
CallVerdictIsExact ==
    stage \in {"done", "rejected"} /\ (\A e \in errors : e[1] # 0) =>
        \A i \in Callers :
            (\A e \in errors : e[1] # i) <=>
                \E d \in BestFits(CallOf(i)) : BestFits(CallOf(i)) = {d} /\ WellFormed(CallOf(i), d)

\* The id of a function, and of the block of a method, in the module.
PlaceOf(d) == Cardinality({i \in 1..d[1] : IF d[2] = 0 THEN IsFunction(program[i]) ELSE program[i].kind = "impl"})

\* Lowering reaches a function that stands before the call, and the first of
\* its name; it cannot mean a later one that stands behind the call.
Reached(i, d) == d[1] < i \/ \A e \in Candidates(CallOf(i)) : d[1] <= e[1]

\* The call in the module goes to the definition that suits the written call
\* best, and each literal has the type of its parameter: the choice the types
\* were given by, the recorded one and the one lowering makes are the same. A
\* function is called exactly when lowering reaches it, wherever the other
\* overloads stand (ir/lower/scope_lookup.rs, ir/lower/expr/method_choice.rs,
\* ir/resolve_refs).
TheBestFitIsCalled ==
    stage = "done" =>
        \A i \in Callers : \A d \in BestFits(CallOf(i)) :
            /\ IF CallOf(i).method THEN lowered[i].block = PlaceOf(d) /\ lowered[i].index = d[2]
               ELSE lowered[i].callee = PlaceOf(d) <=> Reached(i, d)
            /\ \A k \in DOMAIN CallOf(i).args, p \in DOMAIN ParamsOf(d) :
                  FillsOne(ParamsOf(d), CallOf(i).args, k, p) => typed[i][k].type = ParamsOf(d)[p].type

\* What docs/user/functions.md:330 says: each call gets the right overload.
TheBestFitIsAlwaysCalled ==
    stage = "done" =>
        \A i \in Callers : \A d \in BestFits(CallOf(i)) : ~CallOf(i).method => lowered[i].callee = PlaceOf(d)

------------------------------------------------------------------------------
(* The values. *)

\* The bindings of every caller; each is its own value.
CallerScope == [x \in {"x", "y"} |-> <<"the caller's", x>>]

Eval(v, env) ==
    (IF v.tag = "" THEN <<>> ELSE <<v.tag>>) \o
       (CASE v.reads = "" -> <<>>
          [] v.reads # "" /\ v.reads \in DOMAIN env -> env[v.reads]
          [] OTHER -> <<"unbound">>)

Extend(env, name, value) == [x \in DOMAIN env \cup {name} |-> IF x = name THEN value ELSE env[x]]

\* The parameters' values at the call, bound in order: given(p) is the value of
\* the argument for p, <<>> for a parameter left to its default.
Bound(params, given) ==
    FoldLeft(LAMBDA env, p : Extend(env, params[p].name,
                                    IF given[p] # <<>> THEN given[p] ELSE Eval(params[p].default, env)),
             [x \in {} |-> <<>>], [p \in DOMAIN params |-> p])

\* As written: every argument reads the caller's bindings.
Meant(call, d) ==
    LET params == ParamsOf(d)
        Fillers(p) == {i \in DOMAIN call.args : FillsOne(params, call.args, i, p)}
    IN  Bound(params, [p \in DOMAIN params |->
            IF Fillers(p) = {} THEN <<>>
            ELSE Eval(call.args[CHOOSE i \in Fillers(p) : TRUE].value, CallerScope)])

\* As lowered: the lets run first, and each parameter takes the argument with
\* its label, or the one without a label at its position.
Delivered(body) ==
    LET params == IF body.block = 0 THEN functions[body.callee].params ELSE impls[body.block][body.index].params
        env == FoldLeft(LAMBDA acc, s : Extend(acc, s.name, Eval(s.value, acc)), CallerScope, body.lets)
        For(p) == {i \in DOMAIN body.args : FillsOne(params, body.args, i, p)}
    IN  Bound(params, [p \in DOMAIN params |->
            IF For(p) = {} THEN <<>> ELSE Eval(body.args[CHOOSE i \in For(p) : TRUE].value, env)])

\* In a call of a function that lowering reaches, every parameter gets the
\* argument the call wrote for it, read where the call stands, and the module
\* writes an argument for each parameter the call leaves out: its own default,
\* over the values of the parameters before it (function_call.rs:
\* substitute_defaults, wrap_call_with_let_bindings; resolve_refs/mod.rs:
\* substitute_in_expr). A method call keeps its arguments as they are.
ArgumentsReachTheirParameters ==
    stage = "done" =>
        \A i \in Callers : \A d \in BestFits(CallOf(i)) : CallOf(i).method \/ Reached(i, d) =>
            /\ Delivered(lowered[i]) = Meant(CallOf(i), d)
            /\ ~CallOf(i).method => \A p \in DOMAIN ParamsOf(d) :
                  \E k \in DOMAIN lowered[i].args : FillsOne(ParamsOf(d), lowered[i].args, k, p)
===============================================================================
