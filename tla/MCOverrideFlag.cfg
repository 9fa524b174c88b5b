CONSTANTS
    Sources <- MCSources
    Lexicon <- Literals
    Programs <- FlagPrograms
    Located <- MCLocated
    Libraries <- MCLibraries
    Escaping = {"../up"}
SPECIFICATION Spec
INVARIANT OverridesLayOver
CHECK_DEADLOCK FALSE
