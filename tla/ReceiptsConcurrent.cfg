CONSTANTS
    Users = {u1}
    Msgs = {1}
    NoMsg = NoMsg
    ServerTS <- MessageTS
    Calls = {a, b}
    InOrder = FALSE
    SyncUsers = {}
    DbMayFail = FALSE
    MaxTime = 2
    MaxCrashes = 0
    MaxCleanups = 1

SPECIFICATION Spec
SYMMETRY Symmetry
INVARIANTS
    TypeOK
    DuplicatesBounded
    AnsweredIsStored
