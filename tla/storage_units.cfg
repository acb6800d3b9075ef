\* Administrators on the same units; one restart, one broken connection.
SPECIFICATION FairSpec
CONSTANTS
    Name <- MCName
    Location <- MCLocation
    Creator = {k1, k2}
    Focuser = {f1}
    Updater = {u1}
    Deleter = {d1}
    Pinger = {p1}
    MayLose = TRUE
    MaxRestarts = 1
    MaxBreaks = 1
INVARIANTS
    TypeOK
    Reachable
    NoStaleSubscription
    TopicNamesUnit
    PingsAwaited
PROPERTIES
    PingsClose
CHECK_DEADLOCK FALSE
