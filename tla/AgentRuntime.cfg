SPECIFICATION Spec
CONSTANTS
    Providers <- MCProviders
    Position <- MCPosition
    Findings <- MCFindings
    Peers = {"peer"}
    ListLimit = 1
    Loop = "loop"
    Threads = {"get"}
    Preferred = "codex"
    PlatformLLM = TRUE
    AdvisorDisabled = FALSE
    None = "none"
INVARIANTS
    TypeOK
    TwoAgentsNeedALapse
    EnabledWasAsked
PROPERTIES
    FlagsChangeOnRequest
