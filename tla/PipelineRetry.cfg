CONSTANTS
    Msgs = {m1}
    GroupMsgs = {m1}
    Instances = {i1, i2}
    NoInstance = NoInstance
    MaxAttempts = 1
    EnableDLQ = TRUE
    DLQReturnSuccesses = TRUE
    InitMayFail = TRUE
    MaxResends = 1
    MaxDisruptions = 2

SPECIFICATION FairSpec
INVARIANTS
    TypeOK
    AcceptedIsDurable
    PushedOnceAfterStored
PROPERTIES
    AttemptsAreBounded
    RecordsGetCommitted
\* Every message may be sent and every record handled: the model then stops.
CHECK_DEADLOCK FALSE
