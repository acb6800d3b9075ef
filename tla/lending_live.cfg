\* No loss, no failure: every handler that started comes to its end.
SPECIFICATION FairSpec
CONSTANTS
    Card = {c1}
    User = {u1}
    Stranger = stranger
    NoBadge = nobadge
    Blank = {nobadge}
    Edited = {c1, u1}
    Mobile = {m1}
    Terminal = {t1}
    HonestUnit = FALSE
    MayLose = FALSE
    DBMayFail = FALSE
    Rewrite = {"free", "block", "keep"}
    MaxCrashes = 0
INVARIANTS
    AuthorisedRelease
    
PROPERTIES
    
    RequestsConclude
CHECK_DEADLOCK FALSE
