SPECIFICATION Spec
CONSTANTS
    Messages <- MCMessages
    MaxMessages = 2
    LLMAnswers <- MCLLMAnswers
    Catalogues <- MCCatalogues
    KnowledgeBases <- MCKnowledgeBases
    Advices <- MCAdvices
    Confidences <- MCConfidences
    MaxToolCalls = 2
    MaxToolFailures = 2
    AdvisorDisabled = FALSE
INVARIANTS
    TypeOK
    VerifiedPlan
    RulesReuseNoStaleExperience
    ObservationsFollowPlan
    FailuresAreObserved
    ConfidenceIsEarned
PROPERTIES
    EntitiesAreWriteOnce
    ImplementsRound
