SPECIFICATION Spec
CONSTANTS
    Programs <- MCPrograms
INVARIANTS
    CallVerdictIsExact
    TheBestFitIsCalled
    ArgumentsReachTheirParameters
