CONSTANTS
    Conns = {c1, c2}
    Users = {u1}
    NoUser = NoUser
    NewUsers = {u1}
    TokenUsers = {u1}
    Pushers = {p1}
    SendCap = 1

SPECIFICATION FairSpec
PROPERTIES
    PushReturns
    HubServes
\* The process ends when a goroutine panics.
CHECK_DEADLOCK FALSE
