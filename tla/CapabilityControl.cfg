SPECIFICATION FairSpec
CONSTANTS
    a1 = a1
    a2 = a2
    t1 = t1
    t2 = t2
    Admins = {a1, a2}
    Tools = {t1, t2}
    BuiltIn = {t1}
    Scopes = {"s1"}
    Boot = Boot
    Nobody = Nobody
    Faults = {"restart", "store", "unreachable"}
INVARIANTS
    TypeOK
    PublishedIsServed
    RegisteredAreDynamic
PROPERTY ReloadIsAnswered
