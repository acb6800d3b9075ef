\* Nothing fails, and a card fetched at the touch display is not booked.
SPECIFICATION Spec
CONSTANTS
    Card = {c1}
    User = {u1}
    Stranger = stranger
    NoBadge = nobadge
    Blank = {}
    Edited = {}
    Mobile = {m1}
    Terminal = {t1}
    HonestUnit = TRUE
    MayLose = FALSE
    DBMayFail = FALSE
    Rewrite = {}
    MaxCrashes = 0
INVARIANT
    TerminalReleaseIsBooked
CHECK_DEADLOCK FALSE
