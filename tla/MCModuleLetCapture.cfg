SPECIFICATION Spec
CONSTANTS
    Programs <- MCModuleLetCaptures
INVARIANTS
    SameAnswer
