\* Two websockets that have both got a message; one of them misses the next.
SPECIFICATION FairSpec
CONSTANTS
    Handler = {h1, h2}
    Socket = {s1, s2}
INVARIANT
    SameDataForAll
CHECK_DEADLOCK FALSE
