CONSTANTS
    Conns = {c1, c2}
    Users = {u1}
    NoUser = NoUser
    NewUsers = {NoUser, u1}
    TokenUsers = {u1}
    Pushers = {p1}
    SendCap = 1

SPECIFICATION Spec
SYMMETRY Symmetry
INVARIANTS
    TypeOK
    IndexesAgree
    ClosedOnce
    OwnRepliesSafe
\* The process ends when a goroutine panics.
CHECK_DEADLOCK FALSE
