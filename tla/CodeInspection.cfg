SPECIFICATION Spec
CONSTANTS
    None = "none"
    IgnoredNames = {"put"}
    MaxExcerptLines = 4
    ScopeWindow = 2
    Inspections <- MCInspections
    Denied = {"token.yml"}
    StopTerms = {"the"}
    Weight <- MCWeight
    MaxTerms = 2
    MaxMatchedTerms = 1
    MaxLineNumbers = 3
    MaxSymbols = 2
    MaxCallEdges = 2
    MaxResolved = 2
    ContextSymbols = 1
INVARIANTS
    EvidenceIsAllowed
    ExcerptShowsTheFinding
    CallersEnclose
    EdgesAreInScope
    HitsAreBounded
    ContextRepeatsNothing
CHECK_DEADLOCK FALSE
