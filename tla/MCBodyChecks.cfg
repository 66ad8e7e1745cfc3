SPECIFICATION Spec
CONSTANTS
    MaxPasses = 2
    Functions <- MCFunctions
    Leaves <- AllLeaves
CHECK_DEADLOCK FALSE
INVARIANTS
    NoUseAfterSink
    SequencesRunOnce
    RefusedForACause
