SPECIFICATION Spec
CONSTANTS
    a = a
    b = b
    c = c
    main = main
    none = none
    x = x
    y = y
    s1 = s1
    s2 = s2
    nosig = nosig
    Files <- MCFiles
    Root <- main
    Names <- MCNames
    Sigs <- MCSigs
    NoSig <- nosig
    NoFile <- none
    Paths <- MCPaths
    Programs <- MCPrograms
INVARIANTS
    ExportsMatchSource
    ImportedItemsLinked
    NoInternalError
CHECK_DEADLOCK FALSE
