------------------------------ MODULE BodyChecks ------------------------------
(***************************************************************************)
(* A body goes through the walk of the sequences, then through validation, *)
(* in that order (validate_expressions, semantic/validation/mod.rs); then  *)
(* it is executed in every way.  The executions judge the walks.           *)
(***************************************************************************)
EXTENDS SequenceWalk, OwnershipWalk, BodyRun

vars == <<walkVars, linearVars, ownVars, runVars>>

Init ==
    /\ fn \in Functions
    /\ phase = "linear"
    /\ pos = 1
    /\ open = <<>>
    /\ errors = {}
    /\ SequenceInit
    /\ OwnershipInit
    /\ RunInit

Next ==
    \/ SequenceNext /\ UNCHANGED <<ownVars, runVars>>
    \/ OwnershipNext /\ UNCHANGED <<linearVars, runVars>>
    \/ RunNext /\ UNCHANGED <<linearVars, ownVars>>

Spec == Init /\ [][Next]_vars

Kinds(found) == {f[1] : f \in found}

-----------------------------------------------------------------------------

\* No body without an error reads, calls or gives away what an earlier step on
\* the same path gave away, gives away what it does not own, lets two arguments
\* reach one place when one of them may change or take it, or changes a binding
\* inside a closure that captures it, in whatever order its branches, passes and
\* closures run: the join of branches may report too much and never too little
\* (semantic/validation/expr/compound.rs).
NoUseAfterSink ==
    errors = {} => Kinds(faults) \cap {"moved", "borrowed", "overlap", "impure"} = {}

\* No body without an error uses a sequence twice or drops one, on any path.
SequencesRunOnce ==
    errors = {} => Kinds(faults) \cap {"twice", "dropped"} = {}

\* Where there is one path only and every name is bound once, the verdict is what
\* the execution does: nothing is refused without a cause.
Binding1(t) == t.op \in {"let", "for", "arg", "closure"}
OnePath ==
    /\ \A i \in DOMAIN body : body[i].op \notin {"if", "for", "arg", "closure"}
    /\ \A i, j \in DOMAIN body :
        Binding1(body[i]) /\ Binding1(body[j]) /\ body[i].x = body[j].x => i = j
    /\ \A i \in DOMAIN body : Binding1(body[i]) => body[i].x \notin DOMAIN Params
    /\ \A i \in DOMAIN body : body[i].op = "set" => Around(i) = {}
RefusedForACause ==
    phase = "done" /\ OnePath => (errors = {} <=> faults = {})
===============================================================================
