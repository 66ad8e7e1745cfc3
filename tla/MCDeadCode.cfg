SPECIFICATION Spec
CONSTANT Modules <- MCModules
INVARIANTS
    IdsKeepTheirMeaning
    NothingNeededGoes
    SameBehaviour
    NoUnusedDefinitionStays
PROPERTIES
    Terminates
CHECK_DEADLOCK FALSE
