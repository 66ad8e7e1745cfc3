----------------------------- MODULE ClosureMeaning -----------------------------
(***************************************************************************)
(* What a program means before and after its closures are taken apart, and *)
(* the properties of the passes.  The source is evaluated with lexical     *)
(* scopes: a closure keeps a copy of the bindings it can see when it is    *)
(* made (docs/user/closures.md).  The IR is evaluated as a backend would:  *)
(* a reference reads the binding its id names, a closure value is a lifted *)
(* function with its environment, a tag selects an arm of a dispatch       *)
(* function.  Values are symbolic: a sum of two values is the pair of      *)
(* them, so no two different programs give the same value by accident.     *)
(***************************************************************************)
EXTENDS Closures

Stuck == <<"stuck">>
NumberValue(k) == <<"number", k>>
PairValue(a, b) == IF Stuck \in {a, b} THEN Stuck ELSE <<"pair", a, b>>
ElementOf(coll) == IF coll = Stuck THEN Stuck ELSE <<"element", coll>>
LoopValue(v) == IF v = Stuck THEN Stuck ELSE <<"loop", v>>

------------------------------------------------------------------------------
(* The meaning of the source. *)

SetTo(env, x, v) == [y \in DOMAIN env \cup {x} |-> IF y = x THEN v ELSE env[y]]

\* A call gives its arguments; what is missing comes from the defaults.
\* at: the module and the inline module the expression is written in.
RECURSIVE Meaning(_, _, _)
Meaning(e, env, at) ==
    LET Value(k) == Meaning(k, env, at)
        CallBody(f, args, home) ==
            LET inner == FoldLeftDomain(
                    LAMBDA acc, i : SetTo(acc, f.params[i].name,
                                          IF i <= Len(args) THEN args[i]
                                          ELSE Meaning(f.params[i].default, acc, at)),
                    [x \in {} |-> Stuck], f.params)
            IN  Meaning(f.body, inner, [at EXCEPT !.home = home])
        Values(kids) == [i \in DOMAIN kids |-> Value(kids[i])]
        Lets == at.module.lets
        LetValue(x) == Meaning(Lets[IndexOf(Lets, x)].value, [y \in {} |-> Stuck], [at EXCEPT !.home = ""])
        Lookup(x) == IF x \in DOMAIN env THEN env[x] ELSE LetValue(x)
    IN
    CASE e.kind = "number" -> NumberValue(e.name)
      [] e.kind = "name" -> Lookup(e.name)
      [] e.kind = "path" -> Lookup(e.name)[3][e.kids[1].name]
      [] e.kind = "selffield" -> Lookup("self")[3][e.name]
      [] e.kind = "pair" -> PairValue(Value(e.kids[1]), Value(e.kids[2]))
      [] e.kind = "for" ->
            LoopValue(Meaning(e.kids[2], SetTo(env, e.name, ElementOf(Value(e.kids[1]))), at))
      [] e.kind = "block" ->
            LET after == FoldLeft(
                    LAMBDA acc, k :
                        CASE k.kind = "let" -> SetTo(acc, k.name, Meaning(k.kids[1], acc, at))
                          [] k.kind = "assign" -> SetTo(acc, k.kids[1].name, Meaning(k.kids[2], acc, at))
                          [] OTHER -> acc,
                    env, Front(e.kids))
            IN  Meaning(Last(e.kids), after, at)
      [] e.kind = "closure" -> <<"closure", e, env, at>>
      [] e.kind = "apply" ->
            LET f == Value(e.kids[1])
                args == Values(Tail(e.kids))
                inner == FoldLeftDomain(LAMBDA acc, i : SetTo(acc, f[2].binds[i].name, args[i]),
                                        f[3], f[2].binds)
            IN  Meaning(f[2].kids[1], inner, f[4])
      [] e.kind = "call" ->
            LET f == at.module.functions[FunctionIdOf(e.callee, at.home, at.module)]
            IN  CallBody(f, Values(e.kids), f.name.home)
      [] e.kind = "method" ->
            CallBody(at.module.methods[IndexOf(at.module.methods, e.callee)], Values(e.kids), "")
      [] e.kind = "struct" ->
            <<"struct", e.id, [x \in {b.name : b \in Range(e.binds)} |->
                Value(e.kids[CHOOSE i \in DOMAIN e.binds : e.binds[i].name = x])]>>

------------------------------------------------------------------------------
(* The meaning of the IR.  A frame lists the bindings made so far.  After  *)
(* defunctionalisation a closure value or an indirect call means nothing.  *)

Slot(b, value) == [name |-> b.name, id |-> b.id, value |-> value]

\* The newest binding with this id, or this name.
ById(frame, id) ==
    LET hits == {i \in DOMAIN frame : frame[i].id = id}
    IN  IF hits = {} THEN Stuck ELSE frame[MaxOf(hits)].value
ByName(frame, x) == {i \in DOMAIN frame : frame[i].name = x}

RECURSIVE Run(_, _, _)
Run(e, frame, m) ==
    LET Value(k) == Run(k, frame, m)
        Values(kids) == [i \in DOMAIN kids |-> Value(kids[i])]
        Enter(f, args) ==
            IF Len(args) # Len(f.params) THEN Stuck
            ELSE Run(f.body, [i \in DOMAIN f.params |-> Slot(f.params[i], args[i])], m)
        LetValue(i) == Run(m.lets[i].value, <<>>, m)
        Aggregate(tag, id) ==
            <<tag, id, [x \in {b.name : b \in Range(e.binds)} |->
                Value(e.kids[CHOOSE i \in DOMAIN e.binds : e.binds[i].name = x])]>>
    IN
    CASE e.kind = "number" -> NumberValue(e.name)
      [] e.kind = "ref" -> IF e.target = "let" THEN LetValue(e.id) ELSE ById(frame, e.id)
      [] e.kind = "letref" ->
            IF ByName(frame, e.name) # {} THEN frame[MaxOf(ByName(frame, e.name))].value
            ELSE LetValue(IndexOf(m.lets, e.name))
      [] e.kind = "selffield" ->
            LET self == frame[MaxOf(ByName(frame, "self"))].value IN self[3][e.name]
      [] e.kind = "field" ->
            LET object == Value(e.kids[1])
            IN  IF object[1] # "struct" THEN Stuck
                ELSE IF e.name \in DOMAIN object[3] THEN object[3][e.name] ELSE Stuck
      [] e.kind = "pair" -> PairValue(Value(e.kids[1]), Value(e.kids[2]))
      [] e.kind = "for" ->
            LoopValue(Run(e.kids[2],
                          Append(frame, Slot(e.binds[1], ElementOf(Value(e.kids[1])))), m))
      [] e.kind = "block" ->
            LET after == FoldLeft(
                    LAMBDA acc, k :
                        CASE k.kind = "let" -> Append(acc, Slot(k.binds[1], Run(k.kids[1], acc, m)))
                          [] k.kind = "assign" ->
                                Append(acc, Slot(k.kids[1], Run(k.kids[2], acc, m)))
                          [] OTHER -> acc,
                    frame, Front(e.kids))
            IN  Run(Last(e.kids), after, m)
      [] e.kind = "struct" -> Aggregate("struct", e.id)
      [] e.kind = "closureref" /\ stage # "done" -> <<"lifted", e.callee, Value(e.kids[1])>>
      [] e.kind = "apply" /\ stage # "done" ->
            LET f == Value(e.kids[1])
            IN  IF f[1] # "lifted" THEN Stuck
                ELSE Enter(m.functions[IndexOf(m.functions, f[2])], <<f[3]>> \o Values(Tail(e.kids)))
      [] e.kind = "tag" -> <<"tag", e.ty, e.callee, Value(e.kids[1])>>
      [] e.kind = "match" ->
            LET tag == Value(e.kids[1])
                arms == {k \in Range(Tail(e.kids)) : k.callee = tag[3]}
                arm == CHOOSE k \in arms : TRUE
            IN  IF tag = Stuck THEN Stuck
                ELSE IF arms = {} \/ tag[2] # e.kids[1].ty THEN Stuck
                ELSE Run(arm.kids[1], Append(frame, Slot(arm.binds[1], tag[4])), m)
      [] e.kind = "call" -> IF e.id = 0 THEN Stuck ELSE Enter(m.functions[e.id], Values(e.kids))
      [] e.kind = "method" -> Enter(m.methods[IndexOf(m.methods, e.callee)], Values(e.kids))
      [] OTHER -> Stuck

------------------------------------------------------------------------------
(* Properties. *)

Argument(i) == NumberValue(<<"a", "b", "c", "d">>[i])

\* The functions and lets of the source whose value is a number: the program's answers.
Probes == {i \in DOMAIN source.functions :
              /\ source.functions[i].result = IntType
              /\ \A j \in DOMAIN source.functions[i].params : source.functions[i].params[j].ty = IntType}

Arguments(i) == [j \in DOMAIN source.functions[i].params |-> Argument(j)]

SourceAnswer(i) ==
    LET f == source.functions[i]
    IN  Meaning(f.body, [x \in {p.name : p \in Range(f.params)} |->
                           Arguments(i)[CHOOSE j \in DOMAIN f.params : f.params[j].name = x]],
                [module |-> source, home |-> f.name.home])

FinalAnswer(i) ==
    LET f == module.functions[i]
    IN  Run(f.body, [j \in DOMAIN f.params |-> Slot(f.params[j], Arguments(i)[j])], module)

\* The passes accept every program they are given, and every function answers what it answers in
\* the source: once the closures are lifted, and once the calls of closures are direct.
SameAnswer ==
    /\ stage # "failed"
    /\ stage \in {"converted", "done"} =>
          \A i \in Probes : FinalAnswer(i) = SourceAnswer(i)

\* The names the passes invent meet no name of the source and no name of each other: every
\* definition of the source keeps its place and its name.
Names(defs) == [i \in DOMAIN defs |-> defs[i].name]

NamesStayApart ==
    stage \in {"converted", "rewrite", "done"} =>
        /\ \A kind \in {"functions", "structs", "enums"} :
              /\ Cardinality(Range(Names(module[kind]))) = Len(module[kind])
              /\ SubSeq(Names(module[kind]), 1, Len(source[kind])) = Names(source[kind])
==============================================================================
