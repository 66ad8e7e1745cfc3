SPECIFICATION Spec
CONSTANTS
    Programs <- MCPrograms
INVARIANTS
    SameAnswer
    NamesStayApart
