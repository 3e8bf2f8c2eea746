\* The owner and one more user, two requests at a time, one message.
CONSTANTS
    Users = {o, u}
    Owner = o
    Reqs = {r1, r2}
    Msgs = {m}
    NoReq = none
SPECIFICATION Spec
SYMMETRY Symmetry
INVARIANTS
    TypeOK
    OwnerStays
    OncePerMember
    LeavingIsFinal
    BroadcastReaches
    PrivateOnce
