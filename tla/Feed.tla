--------------------------------- MODULE Feed --------------------------------
(***************************************************************************)
(* What a log websocket promises its client: messages come in the order in *)
(* which the handlers published them, never one older than the last but    *)
(* one, and none more than twice.  Messages may be skipped.                *)
(***************************************************************************)
EXTENDS Naturals

CONSTANT Socket    \* the clients of the feed

VARIABLES log,     \* how many messages have been published
          seen,    \* the number of the last message each client got
          times    \* how often it got that one

Init == /\ log = 0
        /\ seen = [s \in Socket |-> 0]
        /\ times = [s \in Socket |-> 0]

Publish == /\ log' = log + 1
           /\ UNCHANGED <<seen, times>>

Get(s) ==
    /\ \E i \in {log, log - 1} :
          \/ /\ seen[s] < i
             /\ seen' = [seen EXCEPT ![s] = i]
             /\ times' = [times EXCEPT ![s] = 1]
          \/ /\ seen[s] = i /\ times[s] = 1
             /\ times' = [times EXCEPT ![s] = 2]
             /\ UNCHANGED seen
    /\ UNCHANGED log

Next == Publish \/ \E s \in Socket : Get(s)

Spec == Init /\ [][Next]_<<log, seen, times>>
=============================================================================
