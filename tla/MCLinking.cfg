SPECIFICATION Spec
CONSTANTS
    N = 2
    Segments <- MCSegments
    Sigs <- MCSigs
    Prelude <- MCPrelude
    Programs <- MCPrograms
INVARIANTS
    CopiesAreExact
    TypesKeepTheirMeaning
    CallsKeepTheirMeaning
    NamesStayUnique
CHECK_DEADLOCK FALSE
