-------------------------- MODULE LogBroadcastProofs ------------------------
(***************************************************************************)
(* What module LogBroadcast promises, for any number of handlers and       *)
(* websockets: its type invariant, the invariant about the slot, and that  *)
(* it implements the feed of module Feed.                                  *)
(***************************************************************************)
EXTENDS LogBroadcast, TLAPS

(* The initial state satisfies every part of the invariant.                *)
LEMMA InitInv == Init => TypeOK /\ BroadcastInv
BY DEF Init, TypeOK, SockPc, BroadcastInv, DrainInv, SocketInv, RepeatInv

(* The steps of the handlers change nothing the websockets see but the     *)
(* message in the hands of the drain.                                      *)
LEMMA HandlerStep ==
    ASSUME TypeOK, BroadcastInv, NEW h \in Handler, HandlerNext(h)
    PROVE  TypeOK' /\ BroadcastInv'
<1> USE DEF TypeOK, SockPc, handlerVars, slotVars, history
<1>1. CASE Begin(h)
  <2>1. TypeOK'
    BY <1>1 DEF Begin
  <2>2. BroadcastInv'
    BY <1>1 DEF Begin, BroadcastInv, DrainInv, SocketInv, RepeatInv
  <2> QED BY <2>1, <2>2
<1>2. CASE Receive(h)
  <2>1. TypeOK'
    BY <1>2 DEF Receive
  <2>2. BroadcastInv'
    BY <1>2 DEF Receive, BroadcastInv, DrainInv, SocketInv, RepeatInv
  <2> QED BY <2>1, <2>2
<1>3. CASE Answer(h)
  <2>1. TypeOK'
    BY <1>3 DEF Answer
  <2>2. BroadcastInv'
    BY <1>3 DEF Answer, BroadcastInv, DrainInv, SocketInv, RepeatInv
  <2> QED BY <2>1, <2>2
<1> QED BY <1>1, <1>2, <1>3 DEF HandlerNext

(* The drain stores a message no websocket can have written yet, and wakes *)
(* those that have written it once at most.                                *)
LEMMA DrainStep ==
    ASSUME TypeOK, BroadcastInv, Drain
    PROVE  TypeOK' /\ BroadcastInv'
<1> USE DEF TypeOK, SockPc, handlerVars, slotVars, history
<1>1. CASE Store
  <2>1. TypeOK'
    BY <1>1 DEF Store
  <2>2. DrainInv'
    BY <1>1 DEF Store, BroadcastInv, DrainInv
  <2>3. ASSUME NEW s \in Socket PROVE last[s] < slot'
    BY <1>1 DEF Store, BroadcastInv, DrainInv, SocketInv
  <2>4. SocketInv'
    BY <1>1, <2>3 DEF Store, BroadcastInv, DrainInv, SocketInv
  <2>5. RepeatInv'
    BY <1>1, <2>3 DEF Store, RepeatInv
  <2> QED BY <2>1, <2>2, <2>4, <2>5 DEF BroadcastInv
<1>2. CASE Broadcast
  <2>1. TypeOK'
    BY <1>2 DEF Broadcast
  <2>2. DrainInv'
    BY <1>2 DEF Broadcast, BroadcastInv, DrainInv
  <2>3. SocketInv'
    BY <1>2 DEF Broadcast, BroadcastInv, DrainInv, SocketInv
  <2>4. RepeatInv'
    BY <1>2 DEF Broadcast, BroadcastInv, RepeatInv
  <2> QED BY <2>1, <2>2, <2>3, <2>4 DEF BroadcastInv
<1> QED BY <1>1, <1>2 DEF Drain

(* A websocket on its way to cond.Wait, or one that breaks, writes nothing *)
(* and is not woken; one that gets the mutex back was woken before.        *)
LEMMA MoveStep ==
    ASSUME TypeOK, BroadcastInv, NEW s \in Socket,
           Connect(s) \/ TakeLock(s) \/ Wait(s) \/ Relock(s) \/ Break(s)
    PROVE  TypeOK' /\ BroadcastInv'
<1> USE DEF TypeOK, SockPc, handlerVars, slotVars, history
<1>1. \E pc2 \in SockPc :
        /\ sock' = [sock EXCEPT ![s] = pc2]
        /\ pc2 \in {"woken", "writing"} => sock[s] \in {"woken", "writing"}
  BY DEF Connect, TakeLock, Wait, Relock, Break, Step
<1>2. UNCHANGED <<handlerVars, slotVars, history>>
  BY DEF Connect, TakeLock, Wait, Relock, Break
<1>3. TypeOK'
  BY <1>1, <1>2
<1>4. ASSUME NEW t \in Socket, sock'[t] \in {"woken", "writing"}
      PROVE  sock[t] \in {"woken", "writing"}
  BY <1>1, <1>4
<1>5. DrainInv'
  BY <1>2 DEF BroadcastInv, DrainInv
<1>6. SocketInv'
  BY <1>2, <1>4 DEF BroadcastInv, SocketInv
<1>7. RepeatInv'
  BY <1>2, <1>4 DEF BroadcastInv, RepeatInv
<1> QED BY <1>3, <1>5, <1>6, <1>7 DEF BroadcastInv

(* A websocket that writes what it wrote before does so after the drain's  *)
(* Broadcast, and had written it once.                                     *)
LEMMA DeliverStep ==
    ASSUME TypeOK, BroadcastInv, NEW s \in Socket, Deliver(s)
    PROVE  TypeOK' /\ BroadcastInv'
<1> USE DEF TypeOK, SockPc, handlerVars, slotVars, history, Deliver, Step
<1>1. last[s] = slot => times[s] = 1
  BY DEF BroadcastInv, SocketInv, RepeatInv
<1>2. slot > 0
  BY DEF BroadcastInv, SocketInv
<1>3. TypeOK'
  BY <1>1
<1>4. DrainInv'
  BY DEF BroadcastInv, DrainInv
<1>5. SocketInv'
  BY <1>1, <1>2 DEF BroadcastInv, SocketInv
<1>6. RepeatInv'
  BY <1>1, <1>2 DEF BroadcastInv, SocketInv, RepeatInv
<1> QED BY <1>3, <1>4, <1>5, <1>6 DEF BroadcastInv

(* The type invariant and the invariant about the slot hold in every state.*)
LEMMA NextStep == ASSUME TypeOK, BroadcastInv, [Next]_vars
                  PROVE  TypeOK' /\ BroadcastInv'
<1>1. CASE UNCHANGED vars
  BY <1>1 DEF vars, handlerVars, slotVars, history, TypeOK, SockPc,
              BroadcastInv, DrainInv, SocketInv, RepeatInv
<1>2. CASE Next
  BY <1>2, HandlerStep, DrainStep, MoveStep, DeliverStep DEF Next, SocketNext
<1> QED BY <1>1, <1>2

(* For any number of handlers and websockets every variable keeps its      *)
(* type; in particular no message is written to a client three times.      *)
THEOREM TypeCorrect == Spec => []TypeOK
BY InitInv, NextStep, PTL DEF Spec

(* For any number of handlers and websockets, the drain is at most one     *)
(* message ahead of the slot, and the slot of what was written.            *)
THEOREM SlotCorrect == Spec => []BroadcastInv
BY InitInv, NextStep, PTL DEF Spec

(* A step that only moves a websocket or announces a message is a stutter  *)
(* of the feed; handing a message over publishes it; writing one gets it.  *)
LEMMA FeedStep ==
    ASSUME TypeOK, BroadcastInv, [Next]_vars
    PROVE  [FeedOf!Next]_<<taken, last, times>>
<1> USE DEF handlerVars, slotVars, history
<1>1. ASSUME NEW h \in Handler, Receive(h) PROVE FeedOf!Publish
  BY <1>1 DEF Receive, FeedOf!Publish
<1>2. ASSUME NEW s \in Socket, Deliver(s) PROVE FeedOf!Get(s)
  <2>1. slot \in {taken, taken - 1}
    BY DEF TypeOK, BroadcastInv, DrainInv
  <2>2. CASE last[s] = slot
    <3>1. times[s] = 1
      BY <1>2, <2>2 DEF Deliver, Step, BroadcastInv, SocketInv, RepeatInv
    <3>2. last' = last /\ times' = [times EXCEPT ![s] = 2]
      BY <1>2, <2>2, <3>1 DEF Deliver, TypeOK
    <3> QED BY <1>2, <2>1, <2>2, <3>1, <3>2 DEF Deliver, FeedOf!Get
  <2>3. CASE last[s] # slot
    <3>1. last[s] < slot
      BY <2>3 DEF TypeOK, BroadcastInv, SocketInv
    <3>2. times' = [times EXCEPT ![s] = 1]
      BY <1>2, <2>3 DEF Deliver, TypeOK
    <3> QED BY <1>2, <2>1, <3>1, <3>2 DEF Deliver, FeedOf!Get
  <2> QED BY <2>2, <2>3
<1>3. CASE UNCHANGED vars
  BY <1>3 DEF vars
<1>4. CASE Next
  <2>1. ASSUME NEW h \in Handler, HandlerNext(h)
        PROVE  FeedOf!Publish \/ UNCHANGED <<taken, last, times>>
    BY <2>1, <1>1 DEF HandlerNext, Begin, Answer
  <2>2. ASSUME Drain PROVE UNCHANGED <<taken, last, times>>
    BY <2>2 DEF Drain, Store, Broadcast
  <2>3. ASSUME NEW s \in Socket, SocketNext(s)
        PROVE  FeedOf!Get(s) \/ UNCHANGED <<taken, last, times>>
    BY <2>3, <1>2 DEF SocketNext, Connect, TakeLock, Wait, Relock, Break
  <2> QED BY <1>4, <2>1, <2>2, <2>3 DEF Next, FeedOf!Next
<1> QED BY <1>3, <1>4

(* For any number of handlers and websockets, what a client reads is a     *)
(* feed: in order, never older than the last but one, never three times.   *)
THEOREM BroadcastImplementsFeed == Spec => ImplementsFeed
<1>1. Init => FeedOf!Init
  BY DEF Init, FeedOf!Init
<1> QED BY <1>1, InitInv, NextStep, FeedStep, PTL
        DEF Spec, ImplementsFeed, FeedOf!Spec
=============================================================================
