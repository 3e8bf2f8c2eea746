CONSTANTS
    Users = {u1}
    Msgs = {1, 2}
    NoMsg = NoMsg
    ServerTS <- MessageTS
    Calls = {a, b}
    InOrder = TRUE
    SyncUsers = {u1}
    DbMayFail = TRUE
    MaxTime = 1
    MaxCrashes = 1
    MaxCleanups = 0

SPECIFICATION Spec
SYMMETRY Symmetry
INVARIANTS
    OneReceipt
    RetryAddsNothing
PROPERTIES
    UnreadNeverGrows
    ImplementsBook
