CONSTANTS
    Msgs = {m1}
    GroupMsgs = {}
    Instances = {i1, i2}
    NoInstance = NoInstance
    MaxAttempts = 3
    EnableDLQ = TRUE
    DLQReturnSuccesses = FALSE
    InitMayFail = FALSE
    MaxResends = 0
    MaxDisruptions = 0

SPECIFICATION Spec
INVARIANT NoMessageLoss
CHECK_DEADLOCK FALSE
