\* Two sign-ups, an edit, a removal and a reservation; messages get lost, one
\* restart.
SPECIFICATION FairSpec
CONSTANTS
    Email = {e1, e2}
    Badge = {b1}
    Empty = empty
    NoBadge = nobadge
    SignUp = {k1, k2}
    Editor = {d1}
    Remover = {x1}
    Reserver = {r1}
    MayLose = TRUE
    MaxRestarts = 1
INVARIANTS
    TypeOK
    RightBadge
    SignUpsAwaited
    ReservationsKeepUser

    
CHECK_DEADLOCK FALSE
