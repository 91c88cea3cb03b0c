SPECIFICATION Spec
CONSTANTS
    r1 = r1
    r2 = r2
    Requests = {r1, r2}
    c1 = c1
    Cases = {c1}
    ChannelCases = {}
    NoCase = NoCase
    Modes = {"async"}
    Faults = {"crash", "db"}
    MaxToolCalls = 2
    MaxToolFailures = 2
SYMMETRY RequestSymmetry
INVARIANTS
    TypeOK
    UnsettledCaseHasOwner
    CompletedRunIsClosed
    ConfirmationHasReply
    ToolBudgetKept
PROPERTY DeletedCaseIsFrozen
