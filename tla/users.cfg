CONSTANTS
    Ids = {u1, u2, u3}
    Requests = {r1, r2}
    NoUser = NoUser
    NoAuth = NoAuth
    Keep = Keep
SPECIFICATION Spec
CHECK_DEADLOCK FALSE
SYMMETRY Symmetry
INVARIANTS
    TypeOK
PROPERTIES
    AuthorisedRequestsKeepAnAdmin
    OnlyDeactivationLocksOut
    LostRightStaysLost
