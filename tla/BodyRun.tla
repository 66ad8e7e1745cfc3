------------------------------- MODULE BodyRun --------------------------------
(***************************************************************************)
(* An execution of a body: the meaning of the tokens that the walks of the *)
(* analyzer speak about (docs/user/functions.md "Sink", "Exclusive         *)
(* Access", docs/user/control-flow.md "A sequence is consumed exactly      *)
(* once", docs/user/closures.md).  Every binding is a cell of its own,     *)
(* each time it is made; branches and the number of passes are any.        *)
(***************************************************************************)
EXTENDS Bodies

CONSTANTS MaxPasses,    \* passes of a loop or of a closure argument
          Leaves        \* the parts of the values that paths reach, as paths

VARIABLES cells,    \* the bindings made so far
          env,      \* the scopes: [names, made], names to cells
          active,   \* the loops and closure bodies that are running
          faults    \* what went wrong: <<fault, token>>

runVars == <<cells, env, active, faults>>

Runs(op) == phase = "run" /\ At(op)
OpenerOf(j) == CHOOSE i \in 1..j : body[i].op \in Openers /\ EndOf(i) = j
RunsEndOf(op) == Runs("end") /\ body[OpenerOf(pos)].op = op

Cell(seq, owned) ==
    [seq |-> seq, owned |-> owned, gone |-> FALSE, uses |-> 0, at |-> 0, env |-> <<>>]
Fresh == Cell(FALSE, TRUE)
Frame(names, made) == [names |-> names, made |-> made]
Bind(scopes, n, c) ==
    [scopes EXCEPT ![Len(scopes)] =
        Frame([m \in DOMAIN @.names \cup {n} |-> IF m = n THEN c ELSE @.names[m]],
              @.made \cup {c})]

Holding(n) == {d \in DOMAIN env : n \in DOMAIN env[d].names}
CellOf(n) == env[CHOOSE d \in Holding(n) : \A e \in Holding(n) : e <= d].names[n]

Fault(fs) == faults' = faults \cup {<<f, pos>> : f \in fs}

\* A read of a binding that was given away, a second use of a sequence.
ReadFaults(n) ==
    LET c == cells[CellOf(n)]
    IN  IF c.seq THEN (IF c.uses > 0 THEN {"twice"} ELSE {})
        ELSE (IF c.gone THEN {"moved"} ELSE {})
Used(n) == [cells EXCEPT ![CellOf(n)].uses = IF cells[CellOf(n)].seq THEN 1 ELSE 0]

\* A value given away by one who does not own it: a parameter of the caller.
GiveFaults(n) ==
    ReadFaults(n) \cup IF cells[CellOf(n)].owned THEN {} ELSE {"borrowed"}

\* A closure that changes a binding from outside its body.
Outside(n) == \E i \in DOMAIN active : active[i].pure /\ CellOf(n) <= active[i].mark
ChangeFaults(n) == IF Outside(n) THEN {"impure"} ELSE {}

RunLet ==
    /\ Runs("let")
    /\ cells' = Append(cells, Cell(body[pos].seq, TRUE))
    /\ env' = Bind(env, body[pos].x, Len(cells) + 1)
    /\ Advance
    /\ UNCHANGED <<fn, phase, open, errors, active, faults>>

RunRead ==
    /\ Runs("read")
    /\ Fault(ReadFaults(body[pos].x))
    /\ cells' = Used(body[pos].x)
    /\ Advance
    /\ UNCHANGED <<fn, phase, open, errors, env, active>>

RunGive ==
    /\ Runs("give")
    /\ Fault(GiveFaults(body[pos].x))
    /\ cells' = [Used(body[pos].x) EXCEPT ![CellOf(body[pos].x)].gone = TRUE]
    /\ Advance
    /\ UNCHANGED <<fn, phase, open, errors, env, active>>

RunSet ==
    /\ Runs("set")
    /\ Fault(ChangeFaults(body[pos].x))
    /\ cells' = [cells EXCEPT ![CellOf(body[pos].x)].gone = FALSE]
    /\ Advance
    /\ UNCHANGED <<fn, phase, open, errors, env, active>>

\* The parts of the values that a path reaches.  An element that is passed on is
\* taken out of its container by value, and the container stays.
Reached(path) ==
    {l \in Leaves : Len(path) <= Len(l) /\ SubSeq(l, 1, Len(path)) = path}
RunPair ==
    /\ Runs("pair")
    /\ LET a == body[pos].a
           b == body[pos].b
           whole == {p \in {a, b} : \A i \in DOMAIN p.path : p.path[i] # "[]"}
           given == {p.path[1] : p \in {p \in whole : p.conv = "sink"}}
           changed == {p.path[1] : p \in {p \in {a, b} : p.conv = "mut"}}
       IN  /\ Fault(ReadFaults(a.path[1]) \cup ReadFaults(b.path[1])
                \cup UNION {GiveFaults(n) : n \in given}
                \cup UNION {ChangeFaults(n) : n \in changed}
                \cup IF /\ {a.conv, b.conv} # {"let"}
                        /\ Reached(a.path) \cap Reached(b.path) # {}
                     THEN {"overlap"} ELSE {})
           /\ cells' = [c \in DOMAIN cells |->
                           IF \E n \in given : CellOf(n) = c
                           THEN [cells[c] EXCEPT !.gone = TRUE] ELSE cells[c]]
    /\ Advance
    /\ UNCHANGED <<fn, phase, open, errors, env, active>>

RunBlock ==
    /\ Runs("block")
    /\ env' = Append(env, Frame(<<>>, {}))
    /\ Advance
    /\ UNCHANGED <<fn, phase, open, errors, cells, active, faults>>

\* A scope ends: the sequences made in it must have run.
Dropped(frame) ==
    IF \E c \in frame.made : cells[c].seq /\ cells[c].uses = 0 THEN {"dropped"} ELSE {}

RunEndBlock ==
    /\ RunsEndOf("block")
    /\ Fault(Dropped(env[Len(env)]))
    /\ env' = Pop(env)
    /\ Advance
    /\ UNCHANGED <<fn, phase, open, errors, cells, active>>

RunIf ==
    /\ Runs("if")
    /\ pos' \in {pos + 1, ElseOf(pos) + 1}
    /\ UNCHANGED <<fn, phase, open, errors, runVars>>

RunElse ==
    /\ Runs("else")
    /\ pos' = EndOf(CHOOSE i \in 1..pos : body[i].op = "if" /\ ElseOf(i) = pos)
    /\ UNCHANGED <<fn, phase, open, errors, runVars>>

RunEndIf ==
    /\ RunsEndOf("if")
    /\ Advance
    /\ UNCHANGED <<fn, phase, open, errors, runVars>>

\* A pass over the body at token i, with a binding of its own.
Pass(i, passes) ==
    /\ cells' = Append(cells, Fresh)
    /\ env' = Append(env, Frame([n \in Binds(i) |-> Len(cells) + 1], {}))
    /\ active' = Append(active, [pure |-> body[i].op = "arg", mark |-> Len(cells),
                                 passes |-> passes, pos |-> 0, env |-> <<>>])
    /\ pos' = i + 1

RunRepeat ==
    /\ \E op \in {"for", "arg"} : Runs(op)
    /\ \/ Pass(pos, 1)
       \/ pos' = EndOf(pos) + 1 /\ UNCHANGED <<cells, env, active>>
    /\ UNCHANGED <<fn, phase, open, errors, faults>>

RunEndRepeat ==
    /\ RunsEndOf("for") \/ RunsEndOf("arg")
    /\ env' = Pop(env)
    /\ active' = Pop(active)
    /\ Advance
    /\ UNCHANGED <<fn, phase, open, errors, cells, faults>>

\* The next element: the pass ends and another one begins.
RunAgain ==
    /\ RunsEndOf("for") \/ RunsEndOf("arg")
    /\ active[Len(active)].passes < MaxPasses
    /\ LET i == OpenerOf(pos)
       IN  /\ cells' = Append(cells, Fresh)
           /\ env' = [env EXCEPT ![Len(env)] = Frame([n \in Binds(i) |-> Len(cells) + 1], {})]
           /\ active' = [active EXCEPT ![Len(active)].passes = @ + 1,
                                       ![Len(active)].mark = Len(cells)]
           /\ pos' = i + 1
    /\ UNCHANGED <<fn, phase, open, errors, faults>>

\* A closure literal makes a value that remembers its scopes.
RunClosure ==
    /\ Runs("closure")
    /\ cells' = Append(cells, [Fresh EXCEPT !.at = pos, !.env = env])
    /\ env' = Bind(env, body[pos].x, Len(cells) + 1)
    /\ pos' = EndOf(pos) + 1
    /\ UNCHANGED <<fn, phase, open, errors, active, faults>>

RunCall ==
    /\ Runs("call")
    /\ Fault(ReadFaults(body[pos].x))
    /\ LET c == cells[CellOf(body[pos].x)]
       IN  /\ active' = Append(active, [pure |-> TRUE, mark |-> Len(cells), passes |-> 0,
                                        pos |-> pos + 1, env |-> env])
           /\ env' = c.env
           /\ pos' = c.at + 1
    /\ UNCHANGED <<fn, phase, open, errors, cells>>

RunReturn ==
    /\ RunsEndOf("closure")
    /\ env' = active[Len(active)].env
    /\ pos' = active[Len(active)].pos
    /\ active' = Pop(active)
    /\ UNCHANGED <<fn, phase, open, errors, cells, faults>>

\* The body has run; the scope of its parameters ends.
RunDone ==
    /\ phase = "run" /\ Hand("done")
    /\ Fault(Dropped(env[1]))
    /\ UNCHANGED <<errors, cells, env, active>>

\* The parameters are the first cells.  A plain parameter belongs to the caller.
ParamCells == CHOOSE s \in [1..Cardinality(DOMAIN Params) -> DOMAIN Params] :
                  {s[i] : i \in DOMAIN s} = DOMAIN Params
RunInit ==
    /\ cells = [i \in DOMAIN ParamCells |->
                   Cell(Params[ParamCells[i]].seq, Params[ParamCells[i]].sink)]
    /\ env = <<Frame([n \in DOMAIN Params |-> CHOOSE i \in DOMAIN ParamCells : ParamCells[i] = n],
                     DOMAIN ParamCells)>>
    /\ active = <<>>
    /\ faults = {}

RunNext ==
    \/ RunLet \/ RunRead \/ RunGive \/ RunSet \/ RunPair
    \/ RunBlock \/ RunEndBlock \/ RunIf \/ RunElse \/ RunEndIf
    \/ RunRepeat \/ RunEndRepeat \/ RunAgain
    \/ RunClosure \/ RunCall \/ RunReturn \/ RunDone
===============================================================================
