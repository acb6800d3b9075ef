\* Two mobile fetches and a terminal fetch compete for one card.
SPECIFICATION Spec
CONSTANTS
    Card = {c1}
    User = {u1}
    Stranger = stranger
    NoBadge = nobadge
    Blank = {}
    Edited = {c1, u1}
    Mobile = {m1, m2}
    Terminal = {t1}
    HonestUnit = TRUE
    MayLose = TRUE
    DBMayFail = TRUE
    Rewrite = {"block"}
    MaxCrashes = 1
SYMMETRY RequestSymmetry
INVARIANTS
    TypeOK
    LendingInv
    ReleaseAtMostOnce
    BookedWasReleased
    ReleasedIsUnavailable
    NeverOvercounted
    RefusedReleasesNothing
PROPERTIES
    ImplementsLoan
CHECK_DEADLOCK FALSE
