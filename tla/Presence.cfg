CONSTANTS
    Instances = {i1, i2}
    CallIds = {k1, k2}
    MaxConns = 2
    PresenceTTL = 6
    RefreshPeriod = 2
    MaxEvents = 2
    CacheTime = 1
    Horizon = 10

SPECIFICATION Spec
SYMMETRY Symmetry
INVARIANTS
    TypeOK
    GoneIsForgotten
    HeldKeyLasts
