CONSTANTS
    Msgs = {m1, m2}
    GroupMsgs = {}
    Instances = {i1, i2}
    NoInstance = NoInstance
    MaxAttempts = 1
    EnableDLQ = TRUE
    DLQReturnSuccesses = FALSE
    InitMayFail = FALSE
    MaxResends = 1
    MaxDisruptions = 1

SPECIFICATION Spec
SYMMETRY Symmetry
INVARIANTS
    CommittedIsSettled
    SettledInOrder
PROPERTY ImplementsContract
\* Every message may be sent and every record handled: the model then stops.
CHECK_DEADLOCK FALSE
