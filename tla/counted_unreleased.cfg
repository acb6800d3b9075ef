\* The confirmation overtakes the unit's own index entry.
SPECIFICATION Spec
CONSTANTS
    Card = {c1}
    User = {u1}
    Stranger = stranger
    NoBadge = nobadge
    Blank = {}
    Edited = {}
    Mobile = {m1}
    Terminal = {t1}
    HonestUnit = TRUE
    MayLose = FALSE
    DBMayFail = FALSE
    Rewrite = {}
    MaxCrashes = 0
INVARIANT
    CountedWasReleased
CHECK_DEADLOCK FALSE
