\* A reservation for later writes back the row it read before the fetch.
SPECIFICATION Spec
CONSTANTS
    Card = {c1}
    User = {u1}
    Stranger = stranger
    NoBadge = nobadge
    Blank = {}
    Edited = {}
    Mobile = {m1}
    Terminal = {t1}
    HonestUnit = TRUE
    MayLose = FALSE
    DBMayFail = FALSE
    Rewrite = {"keep"}
    MaxCrashes = 0
INVARIANT
    UseIsRecorded
CHECK_DEADLOCK FALSE
