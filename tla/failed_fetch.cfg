\* The unit reports a failed fetch, and the card stays withdrawn.
SPECIFICATION Spec
CONSTANTS
    Card = {c1}
    User = {u1}
    Stranger = stranger
    NoBadge = nobadge
    Blank = {}
    Edited = {}
    Mobile = {m1}
    Terminal = {t1}
    HonestUnit = TRUE
    MayLose = FALSE
    DBMayFail = FALSE
    Rewrite = {}
    MaxCrashes = 0
INVARIANT
    FailedFetchChangesNothing
CHECK_DEADLOCK FALSE
