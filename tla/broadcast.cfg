\* Two websockets, handlers that publish up to four messages.
SPECIFICATION FairSpec
CONSTANTS
    Handler = {h1, h2}
    Socket = {s1, s2}
INVARIANTS
    TypeOK
    BroadcastInv
PROPERTIES
    ImplementsFeed
    WaitersAreTold
    HandlersAnswer
CHECK_DEADLOCK FALSE
