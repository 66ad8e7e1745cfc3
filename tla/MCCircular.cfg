CONSTANTS
  TypeNames <- MCTypeNames
  LetNames <- MCLetNames
  Files <- MCFiles

SPECIFICATION Spec

INVARIANTS
  CyclesAreReal
  AcceptedIsOrdered
  TypeVerdictIsExact
  LetVerdictIsExact

PROPERTIES
  SearchEnds

\* The analysis of a file ends: phase "done".
CHECK_DEADLOCK FALSE
