SPECIFICATION MonomorphiseSpec
CONSTANTS
  Programs <- SomePrograms
  MaxDepth = 3
  MaxItems = 40
INVARIANTS
  TypesKeepTheirMeaning
  CallsReachTheirCopies
  OneCopyEach
  VerdictIsExact
