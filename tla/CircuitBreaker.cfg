\* Three goroutines; two failures open the breaker, two successes close it, and
\* two permits are fewer than the goroutines that ask for it.
CONSTANTS
    Procs = {p1, p2, p3}
    FailureThreshold = 2
    SuccessThreshold = 2
    HalfOpenMaxCalls = 2
SPECIFICATION FairSpec
INVARIANTS
    TypeOK
    PermitsReturned
PROPERTIES
    DownIsNoticed
    RecoversWhenHealthy
