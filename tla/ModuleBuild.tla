---------------------------- MODULE ModuleBuild ----------------------------
(***************************************************************************)
(* What the analysis of a program of several files promises, whatever it   *)
(* caches and in whatever order it visits the files: a file is built once  *)
(* every file it needs is built, and the entry module is accepted only     *)
(* when everything it needs is.                                            *)
(***************************************************************************)
CONSTANTS Files,    \* the module files
          Root,     \* the entry module
          NoFile    \* what a module needs when a `use` names no file

VARIABLES needs,    \* for each module, the files that its `use`s name
          built,    \* the files whose analysis finished without an error
          verdict   \* "running", "ok" or "rejected"

vars == <<needs, built, verdict>>

Init ==
    /\ needs \in [Files \cup {Root} -> SUBSET (Files \cup {NoFile})]
    /\ built = {}
    /\ verdict = "running"

\* A file is built when all it needs is.
BuildFile(f) ==
    /\ verdict = "running"
    /\ f \in Files \ built
    /\ needs[f] \subseteq built
    /\ built' = built \cup {f}
    /\ UNCHANGED <<needs, verdict>>

Accept ==
    /\ verdict = "running"
    /\ needs[Root] \subseteq built
    /\ verdict' = "ok"
    /\ UNCHANGED <<needs, built>>

Reject ==
    /\ verdict = "running"
    /\ verdict' = "rejected"
    /\ UNCHANGED <<needs, built>>

Next == (\E f \in Files : BuildFile(f)) \/ Accept \/ Reject

Spec == Init /\ [][Next]_vars
=============================================================================
