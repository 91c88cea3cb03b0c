SPECIFICATION Spec
CONSTANTS
    a1 = a1
    a2 = a2
    t1 = t1
    t2 = t2
    Admins = {a1, a2}
    Tools = {t1, t2}
    BuiltIn = {}
    Scopes = {"s1"}
    Boot = Boot
    Nobody = Nobody
    Faults = {}
PROPERTY SuccessfulReloadDropsDisabled
