CONSTANTS
  Modules <- MCModules
  Inputs <- MCInputs
  Least <- MCLeast
  Greatest <- MCGreatest
  Step <- MCStep

SPECIFICATION Spec

INVARIANTS
  SameResult
  NothingIsLeft

\* The pass ends with the last place.
CHECK_DEADLOCK FALSE
