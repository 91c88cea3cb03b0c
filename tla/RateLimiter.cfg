SPECIFICATION Spec
CONSTANTS
    k1 = k1
    k2 = k2
    k3 = k3
    k4 = k4
    Calls = {k1, k2, k3, k4}
    Identities <- MCIdentities
    Limit <- MCLimit
    Window = 2
    MaxDelay = 1
    MaxTime = 4
SYMMETRY CallSymmetry
INVARIANTS
    TypeOK
    BurstIsBounded
    RefusalIsDeserved
