SPECIFICATION CallSpec
CONSTANTS
    a1 = a1
    a2 = a2
    a3 = a3
    t1 = t1
    k1 = k1
    Admins = {a1, a2, a3}
    Tools = {t1}
    Calls = {k1}
    BuiltIn = {t1}
    Scopes = {"s1", "s2"}
    Granted = {"s1", "builtin"}
    Boot = Boot
    Nobody = Nobody
    Faults = {"restart", "unreachable"}
SYMMETRY ActorSymmetry
INVARIANTS
    CallTypeOK
    AuditTellsWhatRan
    OnlyPublishedRuns
    OnlyPublishedServed
    PublishedIsServed
