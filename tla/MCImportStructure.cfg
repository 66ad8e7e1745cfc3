SPECIFICATION Spec
CONSTANTS
    a = a
    b = b
    c = c
    main = main
    none = none
    item = item
    Files <- MCFiles
    Root <- main
    Names <- MCNames
    Sigs = {}
    NoSig = NoSig
    NoFile <- none
    Paths <- MCPaths
    Programs <- MCPrograms
INVARIANTS
    EachFileOnce
    AcceptedIsSound
    RejectedHasCause
    CyclesAreReal
    EntryPathWins
PROPERTIES
    FinishedIsStable
    ErrorsAreKept
    Terminates
    BuildsInOrder
CHECK_DEADLOCK FALSE
