---------------------------- MODULE LogBroadcast ----------------------------
(***************************************************************************)
(* One of the five log channels of the server.  Handlers publish on an     *)
(* unbuffered channel; one goroutine drains it into a slot guarded by the  *)
(* mutex of a condition variable and wakes the websockets, each of which   *)
(* writes whatever the slot holds when it gets the mutex.                  *)
(*                                                                         *)
(* Messages are numbered in the order in which the channel hands them      *)
(* over; number 0 is the empty string the slot starts with.                *)
(***************************************************************************)
EXTENDS Naturals, FiniteSets

CONSTANTS Handler,   \* REST requests and MQTT messages that are handled
          Socket     \* websocket connections

VARIABLES offers,    \* messages each handler has still to hand over
          pc,        \* progress of each handler
          drain,     \* what the draining goroutine does next
          taken,     \* how many messages the channel has handed over
          slot,      \* the message in the slot
          sock,      \* progress of the goroutine of each websocket
          last,      \* history: the last message written to each websocket
          times      \* history: how often it was written there

handlerVars == <<offers, pc>>
slotVars    == <<drain, taken, slot>>
history     == <<last, times>>
vars == <<handlerVars, slotVars, sock, history>>

SockPc == {"away", "lock", "held", "waiting", "woken", "writing", "gone"}

(* Every variable has its type; a message is written at most twice.        *)
TypeOK ==
    /\ offers \in [Handler -> 0 .. 2]
    /\ pc \in [Handler -> {"new", "busy", "done"}]
    /\ drain \in {"receive", "lock", "broadcast"}
    /\ taken \in Nat
    /\ slot \in Nat
    /\ sock \in [Socket -> SockPc]
    /\ last \in [Socket -> Nat]
    /\ times \in [Socket -> 0 .. 2]

Init ==
    /\ offers = [h \in Handler |-> 0]
    /\ pc = [h \in Handler |-> "new"]
    /\ drain = "receive"
    /\ taken = 0
    /\ slot = 0
    /\ sock = [s \in Socket |-> "away"]
    /\ last = [s \in Socket |-> 0]
    /\ times = [s \in Socket |-> 0]

-----------------------------------------------------------------------------
(* The reporters.  A REST handler publishes its error before it answers    *)
(* the client, and no success; the handler of an MQTT message publishes    *)
(* its result, the one of a fetch also the answer it is about to book.     *)
Begin(h) ==
    /\ pc[h] = "new"
    /\ pc' = [pc EXCEPT ![h] = "busy"]
    /\ \E n \in 0 .. 2 : offers' = [offers EXCEPT ![h] = n]
    /\ UNCHANGED <<slotVars, sock, history>>

Answer(h) ==
    /\ pc[h] = "busy"
    /\ offers[h] = 0
    /\ pc' = [pc EXCEPT ![h] = "done"]
    /\ UNCHANGED <<offers, slotVars, sock, history>>

(* The drain: message = msg under the mutex, Broadcast outside of it.      *)
(* Faults: the error path of a websocket leaves without Unlock; the drain  *)
(* takes the next message before it has announced this one; Signal for     *)
(* Broadcast; a wait that ends at once if the slot is not empty.           *)
BrokenKeepLock == \A s \in Socket : sock[s] \notin {"held", "writing", "gone"}

LockFree == \A s \in Socket : sock[s] \notin {"held", "writing"}

ReceiveAhead(h) ==
    /\ drain \in {"receive", "lock"}
    /\ offers[h] > 0
    /\ offers' = [offers EXCEPT ![h] = @ - 1]
    /\ taken' = taken + 1
    /\ drain' = "lock"
    /\ UNCHANGED <<pc, slot, sock, history>>

Receive(h) ==
    /\ drain = "receive"
    /\ offers[h] > 0
    /\ offers' = [offers EXCEPT ![h] = @ - 1]
    /\ taken' = taken + 1
    /\ drain' = "lock"
    /\ UNCHANGED <<pc, slot, sock, history>>

Store ==
    /\ drain = "lock"
    /\ LockFree
    /\ slot' = taken
    /\ drain' = "broadcast"
    /\ UNCHANGED <<handlerVars, taken, sock, history>>

Signal ==
    /\ drain = "broadcast"
    /\ \/ \E s \in Socket : /\ sock[s] = "waiting"
                             /\ sock' = [sock EXCEPT ![s] = "woken"]
       \/ /\ \A s \in Socket : sock[s] # "waiting"
          /\ UNCHANGED sock
    /\ drain' = "receive"
    /\ UNCHANGED <<handlerVars, taken, slot, history>>

Broadcast ==
    /\ drain = "broadcast"
    /\ sock' = [s \in Socket |-> IF sock[s] = "waiting" THEN "woken" ELSE sock[s]]
    /\ drain' = "receive"
    /\ UNCHANGED <<handlerVars, taken, slot, history>>

-----------------------------------------------------------------------------
(* The goroutine of a websocket: lock, wait, write, unlock, for ever.  It  *)
(* holds the mutex while it writes.                                        *)
Step(s, from, to) == sock[s] = from /\ sock' = [sock EXCEPT ![s] = to]

Connect(s) ==
    /\ Step(s, "away", "lock")
    /\ UNCHANGED <<handlerVars, slotVars, history>>

TakeLock(s) ==
    /\ LockFree
    /\ Step(s, "lock", "held")
    /\ UNCHANGED <<handlerVars, slotVars, history>>

WaitIfEmpty(s) ==
    /\ Step(s, "held", IF slot = 0 THEN "waiting" ELSE "writing")
    /\ UNCHANGED <<handlerVars, slotVars, history>>

Wait(s) ==
    /\ Step(s, "held", "waiting")
    /\ UNCHANGED <<handlerVars, slotVars, history>>

Relock(s) ==
    /\ LockFree
    /\ Step(s, "woken", "writing")
    /\ UNCHANGED <<handlerVars, slotVars, history>>

Deliver(s) ==
    /\ Step(s, "writing", "lock")
    /\ last' = [last EXCEPT ![s] = slot]
    /\ times' = [times EXCEPT ![s] = IF last[s] = slot THEN @ + 1 ELSE 1]
    /\ UNCHANGED <<handlerVars, slotVars>>

Break(s) ==
    /\ Step(s, "writing", "gone")
    /\ UNCHANGED <<handlerVars, slotVars, history>>

HandlerNext(h) == Begin(h) \/ Receive(h) \/ Answer(h)
Drain == Store \/ Broadcast
SocketNext(s) == \/ Connect(s) \/ TakeLock(s) \/ Wait(s) \/ Relock(s)
                 \/ Deliver(s) \/ Break(s)

Next == \/ \E h \in Handler : HandlerNext(h)
        \/ Drain
        \/ \E s \in Socket : SocketNext(s)

Spec == Init /\ [][Next]_vars

(* Handlers and the drain keep running.  Go's mutex is handed to whoever   *)
(* has waited for a millisecond, so nobody who keeps trying waits for      *)
(* ever.  The last conjunct is about the clients: no write has a deadline, *)
(* so they must read, or their connections break.                          *)
Fairness ==
    /\ \A h \in Handler : WF_vars(Receive(h) \/ Answer(h))
    /\ WF_vars(Broadcast)
    /\ SF_vars(Store)
    /\ \A s \in Socket :
          /\ SF_vars(TakeLock(s))
          /\ SF_vars(Relock(s))
          /\ WF_vars(Wait(s))
          /\ WF_vars(Deliver(s) \/ Break(s))

FairSpec == Spec /\ Fairness

-----------------------------------------------------------------------------
(* The drain is at most one message ahead of the slot.                     *)
DrainInv ==
    /\ drain = "lock" => taken = slot + 1
    /\ drain # "lock" => taken = slot
    /\ drain = "broadcast" => slot > 0

(* A websocket has written nothing newer than the slot, and it is woken    *)
(* for a message in the slot only.                                         *)
SocketInv ==
    \A s \in Socket :
        /\ last[s] <= slot
        /\ sock[s] \in {"woken", "writing"} => slot > 0
        /\ times[s] = 0 <=> last[s] = 0

(* A websocket that wrote the slot before the drain's Broadcast for it is  *)
(* woken for it once more, and then never again.                           *)
RepeatInv ==
    \A s \in Socket :
        last[s] = slot /\ slot > 0 =>
            /\ drain = "broadcast" => /\ times[s] = 1
                                      /\ sock[s] \notin {"woken", "writing"}
            /\ drain # "broadcast" /\ sock[s] \in {"woken", "writing"}
                  => times[s] = 1

(* The invariant behind the refinement: two goroutines and the mutex leave *)
(* a message two chances to reach a websocket, one before its Broadcast.   *)
BroadcastInv == DrainInv /\ SocketInv /\ RepeatInv

(* To a client, the slot, the mutex and the condition variable are a feed  *)
(* of the messages the channel has handed over.                            *)
FeedOf == INSTANCE Feed WITH log <- taken, seen <- last, times <- times

(* Whatever the interleaving of drain and websockets, a client never gets  *)
(* the empty slot, a message out of order, one older than the last but     *)
(* one, or one more than twice.                                            *)
ImplementsFeed == FeedOf!Spec

(* A websocket waiting when a message is announced gets this message or a  *)
(* later one: the window between Unlock and Broadcast loses no wake-up.    *)
WaitersAreTold ==
    \A s \in Socket, n \in 1 .. 2 * Cardinality(Handler) :
        drain = "broadcast" /\ slot = n /\ sock[s] = "waiting"
            ~> last[s] >= n \/ sock[s] = "gone"

(* Every REST client gets its answer and every MQTT message is handled to  *)
(* the end although all of them publish on one unbuffered channel.         *)
HandlersAnswer == \A h \in Handler : pc[h] = "busy" ~> pc[h] = "done"

-----------------------------------------------------------------------------
(* "It is ensured that all connections receive the same data": when all    *)
(* messages are handed over and announced, two websockets that wait, and   *)
(* that were there to write at least one message each, have got the same   *)
(* last message.                                                           *)
SameDataForAll ==
    (drain = "receive" /\ \A h \in Handler : offers[h] = 0) =>
        \A s, t \in Socket :
            sock[s] = "waiting" /\ sock[t] = "waiting" /\ last[s] > 0 /\ last[t] > 0
                => last[s] = last[t]
=============================================================================
