CONSTANTS
    Conns = {c1}
    Users = {u1}
    NoUser = NoUser
    NewUsers = {NoUser}
    TokenUsers = {u1}
    Pushers = {p1}
    SendCap = 1

SPECIFICATION Spec
\* The process ends when a goroutine panics.
CHECK_DEADLOCK FALSE
INVARIANT AuthenticationCompletes
