SPECIFICATION FairSpec
CONSTANTS
    r1 = r1
    r2 = r2
    Requests = {r1, r2}
    c1 = c1
    Cases = {c1}
    ChannelCases = {c1}
    NoCase = NoCase
    Modes = {"async", "channel"}
    Faults = {}
    MaxToolCalls = 1
    MaxToolFailures = 1
PROPERTY CaseGetsSettled
