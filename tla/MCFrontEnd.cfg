CONSTANTS
    Sources <- MCSources
    Lexicon <- Literals
    Programs <- MCPrograms
    Located <- MCLocated
    Libraries <- MCLibraries
    Escaping = {"../up"}
SPECIFICATION Spec
INVARIANTS
    TypeOK
    BlocksFollowIndentation
    EvaluatesAsWritten
    OverridesLayOver
    CyclesAreDiagnosed
    TemplateReadsBack
PROPERTIES
    LoadsAsPromised
    LoadingEnds
CHECK_DEADLOCK FALSE
