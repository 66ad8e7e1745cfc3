SPECIFICATION Spec
CONSTANTS
    Programs <- LostArguments
INVARIANTS
    ArgumentsReachTheirParameters
