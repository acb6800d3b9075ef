-------------------------- MODULE CardLendingProofs --------------------------
(* Proofs about fetching a card, for any cards, people and requests, and   *)
(* whatever messages get lost, statements fail and processes restart.      *)
EXTENDS CardLending, FiniteSetTheorems, TLAPS

USE LendingAssumption DEF Request, Person, Bearer

(* The records that Init and the handlers build have their types.          *)
LEMMA InitialRecords ==
    /\ AnyCard \in Card
    /\ NewRow \in Row
    /\ IdleClerk \in Clerk
<1>1. AnyCard \in Card
  BY DEF AnyCard
<1>2. NewRow \in Row
  BY DEF NewRow, Row
<1>3. QED
  BY <1>1, <1>2 DEF IdleClerk, Clerk

(* The program starts with well-formed tables.                             *)
LEMMA InitType == Init => TypeOK
  BY InitialRecords DEF Init, TypeOK, Call, RestPc, AckPc

(* Both REST handlers read a row of the table, or refuse the request.      *)
LEMMA ReadCardType ==
    ASSUME TypeOK, NEW r \in Request, NEW c \in Card, NEW e \in Person,
           NEW allowed, ReadCard(r, c, e, allowed)
    PROVE  TypeOK'
<1>1. [card |-> c, who |-> e] \in Call
  BY DEF Call
<1>2. call' \in [Request -> Call]
  BY <1>1 DEF ReadCard, TypeOK
<1>3. pc' \in [Request -> RestPc]
  BY DEF ReadCard, Goto, TypeOK, RestPc
<1>4. read' \in [Request -> Row]
  BY DEF ReadCard, TypeOK
<1>5. QED
  BY <1>2, <1>3, <1>4
  DEF ReadCard, TypeOK, dbVars, ackVars, unitVars

(* The REST handlers keep every type: what they store is a row they read.  *)
LEMMA RestType ==
    ASSUME TypeOK, NEW r \in Request, RestStep(r)
    PROVE  TypeOK'
<1>1. CASE KnownRead(r)
  BY <1>1, ReadCardType DEF KnownRead
<1>2. CASE KnownSave(r)
  <2>1. call[r].card \in Card /\ Withdrawn(read[r]) \in Row
    <3>1. call[r] \in Call /\ read[r] \in Row
      BY DEF TypeOK
    <3>2. QED
      BY <3>1 DEF Call, Row, Withdrawn
  <2>2. row' \in [Card -> Row] /\ pc' \in [Request -> RestPc]
    BY <1>2, <2>1 DEF KnownSave, Goto, TypeOK, RestPc
  <2>3. QED
    BY <1>2, <2>2 DEF KnownSave, TypeOK, ackVars, unitVars
<1>3. CASE KnownDispatch(r)
  <2>1. Kickoff(r) \in Message
    BY DEF Kickoff, Message, TypeOK, Call
  <2>2. pc' \in [Request -> RestPc] /\ pending' \subseteq Request /\ msgs' \subseteq Message
    BY <1>3, <2>1 DEF KnownDispatch, Goto, TypeOK, RestPc
  <2>3. QED
    BY <1>3, <2>2 DEF KnownDispatch, TypeOK, dbVars, ackVars, unitVars
<1>4. CASE UnknownRead(r)
  BY <1>4, ReadCardType DEF UnknownRead
<1>5. CASE UnknownPublish(r)
  <2>1. Kickoff(r) \in Message
    BY DEF Kickoff, Message, TypeOK, Call
  <2>2. pc' \in [Request -> RestPc] /\ msgs' \subseteq Message
    BY <1>5, <2>1 DEF UnknownPublish, Goto, TypeOK, RestPc
  <2>3. QED
    BY <1>5, <2>2 DEF UnknownPublish, TypeOK, dbVars, ackVars, unitVars
<1>6. CASE UnknownStore(r)
  <2>1. pc' \in [Request -> RestPc] /\ pending' \subseteq Request
    BY <1>6 DEF UnknownStore, Goto, TypeOK, RestPc
  <2>2. QED
    BY <1>6, <2>1 DEF UnknownStore, TypeOK, dbVars, ackVars, unitVars
<1>7. QED
  BY <1>1, <1>2, <1>3, <1>4, <1>5, <1>6 DEF RestStep

(* The unit keeps every type: it answers with the message it got, changed. *)
LEMMA UnitType ==
    ASSUME TypeOK, UnitStep
    PROVE  TypeOK'
<1>1. ASSUME NEW m \in msgs, UnitFetch(m)
      PROVE  TypeOK'
  <2>1. m \in Message /\ m.req \in Request /\ m.who \in Bearer /\ call[m.req].card \in Card
    BY DEF TypeOK, Message, Call
  <2>2. PICK ok \in BOOLEAN :
           /\ GetCard(m, ok)
           /\ msgs' = (msgs \ {m})
                         \cup {[m EXCEPT !.to = "server", !.ok = Reported(ok)]}
    BY <1>1 DEF UnitFetch, Outcome
  <2>3. msgs' \subseteq Message
    <3>1. [m EXCEPT !.to = "server", !.ok = Reported(ok)] \in Message
      BY <2>1 DEF Message, Reported
    <3>2. QED
      BY <2>2, <3>1 DEF TypeOK
  <2>4. /\ inside' \in [Card -> BOOLEAN]
        /\ releases' \in [Request -> Nat]
        /\ holder' \in [Request -> Bearer]
    <3>1. CASE ok
      <4>1. /\ inside' = [inside EXCEPT ![call[m.req].card] = FALSE]
            /\ releases' = [releases EXCEPT ![m.req] = @ + 1]
            /\ holder' = [holder EXCEPT ![m.req] = m.who]
        BY <2>2, <3>1 DEF GetCard
      <4>2. inside' \in [Card -> BOOLEAN]
        BY <4>1, <2>1 DEF TypeOK
      <4>3. releases' \in [Request -> Nat]
        BY <4>1, <2>1 DEF TypeOK
      <4>4. holder' \in [Request -> Bearer]
        BY <4>1, <2>1 DEF TypeOK
      <4>5. QED
        BY <4>2, <4>3, <4>4
    <3>2. CASE ~ok
      BY <2>1, <2>2, <3>2 DEF GetCard, TypeOK
    <3>3. QED
      BY <3>1, <3>2
  <2>5. QED
    BY <1>1, <2>3, <2>4 DEF UnitFetch, TypeOK, dbVars, restVars, ackVars
<1>2. ASSUME NEW m \in msgs, UnitScan(m)
      PROVE  TypeOK'
  <2>1. m \in Message /\ m.req \in Request
    BY DEF TypeOK, Message
  <2>2. msgs' \subseteq Message
    <3>1. PICK badge \in Bearer :
             msgs' = (msgs \ {m})
                       \cup {[m EXCEPT !.to = "server", !.who = badge,
                                       !.ok = Reported(badge # NoBadge)]}
      BY <1>2 DEF UnitScan
    <3>2. [m EXCEPT !.to = "server", !.who = badge,
                    !.ok = Reported(badge # NoBadge)] \in Message
      BY <2>1 DEF Message, Reported
    <3>3. QED
      BY <3>1, <3>2 DEF TypeOK
  <2>3. QED
    BY <1>2, <2>1, <2>2 DEF UnitScan, TypeOK, dbVars, restVars, ackVars
<1>3. ASSUME NEW r \in Request, UnitMark(r)
      PROVE  TypeOK'
  BY <1>3 DEF UnitMark, TypeOK, dbVars, restVars, ackVars
<1>4. QED
  BY <1>1, <1>2, <1>3 DEF UnitStep

(* The handlers of the unit's answers keep every type.                     *)
LEMMA AnswerType ==
    ASSUME TypeOK, AnswerStep
    PROVE  TypeOK'
<1>1. ASSUME NEW m \in msgs, ScanReply(m)
      PROVE  TypeOK'
  <2>1. m \in Message /\ m.req \in Request
    BY DEF TypeOK, Message
  <2>2. [m EXCEPT !.to = "unit", !.exists = TRUE] \in Message
    BY <2>1 DEF Message
  <2>3. msgs' \subseteq Message /\ pending' \subseteq Request
    BY <1>1, <2>2 DEF ScanReply, TypeOK
  <2>4. QED
    BY <1>1, <2>3 DEF ScanReply, TypeOK, dbVars, restVars, ackVars, unitVars
<1>2. ASSUME NEW m \in msgs, AckRead(m)
      PROVE  TypeOK'
  <2>1. m \in Message /\ m.req \in Request /\ row[call[m.req].card] \in Row
    BY DEF TypeOK, Message, Call
  <2>2. ackPc' \in [Request -> AckPc] /\ ackRead' \in [Request -> Row]
    BY <1>2, <2>1 DEF AckRead, AckGoto, TypeOK, AckPc
  <2>3. QED
    BY <1>2, <2>2 DEF AckRead, TypeOK, dbVars, restVars, unitVars
<1>3. QED
  BY <1>1, <1>2 DEF AnswerStep

(* The acknowledging goroutines keep every type: a counter only grows.     *)
LEMMA AckType ==
    ASSUME TypeOK, NEW r \in Request, AckStep(r)
    PROVE  TypeOK'
<1>1. CASE AckSave(r)
  <2>1. Accessed(ackRead[r]) \in Row
    <3>1. ackRead[r] \in Row
      BY DEF TypeOK
    <3>2. QED
      BY <3>1 DEF Accessed, Row
  <2>2. row' \in [Card -> Row] /\ ackPc' \in [Request -> AckPc]
    BY <1>1, <2>1 DEF AckSave, AckGoto, TypeOK, AckPc
  <2>3. QED
    BY <1>1, <2>2 DEF AckSave, TypeOK, restVars, unitVars
<1>2. CASE AckBook(r)
  <2>1. ackPc' \in [Request -> AckPc] /\ borrowed' \subseteq Request
    BY <1>2 DEF AckBook, AckGoto, TypeOK, AckPc
  <2>2. QED
    BY <1>2, <2>1 DEF AckBook, TypeOK, restVars, unitVars
<1>3. QED
  BY <1>1, <1>2 DEF AckStep

(* So do other handlers, people with cards, losses and restarts.           *)
LEMMA EnvironmentType ==
    ASSUME TypeOK, Environment
    PROVE  TypeOK'
<1>1. CASE ClerkRead
  <2>1. clerk' \in Clerk
    <3>1. PICK c \in Card, d \in Rewrite :
             clerk' = [busy |-> TRUE, card |-> c, does |-> d, read |-> row[c]]
      BY <1>1 DEF ClerkRead
    <3>2. row[c] \in Row /\ d \in {"free", "block", "keep"}
      BY DEF TypeOK
    <3>3. QED
      BY <3>1, <3>2 DEF Clerk
  <2>2. QED
    BY <1>1, <2>1
    DEF ClerkRead, TypeOK, dbVars, restVars, ackVars, unitVars
<1>2. CASE ClerkSave
  <2>1. Rewritten(clerk.does, clerk.read) \in Row
    <3>1. clerk.read \in Row
      BY DEF TypeOK, Clerk
    <3>2. QED
      BY <3>1 DEF Row, Rewritten
  <2>2. row' \in [Card -> Row]
    BY <1>2, <2>1 DEF ClerkSave, TypeOK
  <2>3. QED
    BY <1>2, <2>2, InitialRecords
    DEF ClerkSave, TypeOK, restVars, ackVars, unitVars
<1>3. ASSUME NEW c \in Card, PutBack(c)
      PROVE  TypeOK'
  BY <1>3 DEF PutBack, TypeOK, dbVars, restVars, ackVars
<1>4. ASSUME NEW m \in msgs, Lose(m)
      PROVE  TypeOK'
  BY <1>4 DEF Lose, TypeOK, dbVars, restVars, ackVars, unitVars
<1>5. CASE ServerRestart
  <2>1. pc' \in [Request -> RestPc]
    BY <1>5 DEF ServerRestart, TypeOK, RestPc
  <2>2. ackPc' \in [Request -> AckPc]
    BY <1>5 DEF ServerRestart, TypeOK, AckPc
  <2>3. crashes' \in 0 .. MaxCrashes
    BY <1>5 DEF ServerRestart, TypeOK
  <2>4. QED
    BY <1>5, <2>1, <2>2, <2>3, InitialRecords
    DEF ServerRestart, TypeOK, dbVars, unitVars
<1>6. CASE UnitRestart
  <2>1. crashes' \in 0 .. MaxCrashes
    BY <1>6 DEF UnitRestart, TypeOK
  <2>2. QED
    BY <1>6, <2>1 DEF UnitRestart, TypeOK, dbVars, restVars, ackVars
<1>7. ASSUME NEW x \in Edited, Rename(x)
      PROVE  TypeOK'
  BY <1>7 DEF Rename, TypeOK, restVars, ackVars, unitVars
<1>8. QED
  BY <1>1, <1>2, <1>3, <1>4, <1>5, <1>6, <1>7 DEF Environment

(* Every variable keeps its type: handlers write whole, well-formed rows   *)
(* and messages back, whatever order their steps are taken in.             *)
THEOREM TypeCorrect == Spec => []TypeOK
<1>1. ASSUME TypeOK, Next
      PROVE  TypeOK'
  BY <1>1, RestType, AckType, UnitType, AnswerType, EnvironmentType DEF Next
<1>2. ASSUME TypeOK, UNCHANGED vars
      PROVE  TypeOK'
  BY <1>2 DEF TypeOK, vars, dbVars, restVars, ackVars, unitVars
<1>3. QED
  BY InitType, <1>1, <1>2, PTL DEF Spec
-----------------------------------------------------------------------------
(* The inductive invariant, one lemma per group of actions.                *)
USE DEF LendingInv

(* Nothing has happened yet.                                               *)
LEMMA InitInv == Init => LendingInv
  BY DEF Init, StartInv, CallerInv, UniqueInv, TransitInv, ReleaseInv, AckInv,
         BookInv

(* Steps of the REST handlers that publish nothing.                        *)
LEMMA ReadCardInv ==
    ASSUME TypeOK, LendingInv, NEW r \in Request, NEW c \in Card, NEW e \in Person,
           NEW allowed, ReadCard(r, c, e, allowed), r \in Mobile => allowed = User
    PROVE  LendingInv'
<1>0. /\ \A q \in Request : q # r => pc'[q] = pc[q] /\ call'[q] = call[q]
      /\ pc[r] = "new" /\ pc'[r] \in {"checked", "error"}
      /\ pc'[r] = "checked" => e \in allowed
      /\ call'[r].who = e
      /\ UNCHANGED <<borrowed, ackPc, msgs, index, marking, releases, holder>>
  BY DEF ReadCard, Goto, TypeOK, dbVars, ackVars, unitVars
<1>1. StartInv'
  BY <1>0 DEF StartInv
<1>2. CallerInv'
  BY <1>0 DEF CallerInv
<1>3. UniqueInv' /\ TransitInv' /\ ReleaseInv' /\ AckInv' /\ BookInv'
  BY <1>0 DEF UniqueInv, TransitInv, Final, ReleaseInv, AckInv, BookInv
<1>4. QED
  BY <1>1, <1>2, <1>3

(* A dispatcher starts the conversation of a request not heard of before.  *)
LEMMA KickoffInv ==
    ASSUME TypeOK, LendingInv, NEW r \in Request,
           pc[r] \in {"checked", "saved"},
           msgs' = msgs \cup {Kickoff(r)},
           NEW p \in {"published", "dispatched"}, pc' = [pc EXCEPT ![r] = p],
           UNCHANGED <<borrowed, call, ackPc, index, marking, releases, holder>>
    PROVE  LendingInv'
<1>1. /\ \A m \in msgs : m.req # r
      /\ r \notin index \cup marking /\ releases[r] = 0 /\ ackPc[r] = "none"
  BY DEF StartInv
<1>2. Kickoff(r).to = "unit" /\ Kickoff(r).req = r /\ Kickoff(r).who = call[r].who
      /\ ~Kickoff(r).exists
  BY DEF Kickoff
<1>3. \A q \in Request : q # r => pc'[q] = pc[q]
  BY DEF TypeOK
<1>4. pc'[r] = p
  BY DEF TypeOK
<1>5. StartInv'
  BY <1>2, <1>3, <1>4 DEF StartInv
<1>6. CallerInv'
  BY <1>3, <1>4 DEF CallerInv
<1>7. UniqueInv'
  BY <1>1, <1>2 DEF UniqueInv
<1>8. TransitInv'
  BY <1>1, <1>2 DEF TransitInv, CallerInv, Final
<1>9. ReleaseInv' /\ AckInv' /\ BookInv'
  BY DEF ReleaseInv, AckInv, BookInv
<1>10. QED
  BY <1>5, <1>6, <1>7, <1>8, <1>9

(* The REST handlers keep the invariant: they start conversations only.    *)
LEMMA RestInv ==
    ASSUME TypeOK, LendingInv, NEW r \in Request, RestStep(r)
    PROVE  LendingInv'
<1>1. CASE KnownRead(r)
  BY <1>1, ReadCardInv DEF KnownRead
<1>2. CASE UnknownRead(r)
  BY <1>2, ReadCardInv DEF UnknownRead
<1>3. ASSUME UNCHANGED <<borrowed, call, ackPc, msgs, index, marking, releases, holder>>,
             NEW p \in {"saved", "dispatched", "error"},
             pc' = [pc EXCEPT ![r] = p], p = "saved" => pc[r] = "checked"
      PROVE  LendingInv'
  <2>1. \A q \in Request : pc'[q] = IF q = r THEN p ELSE pc[q]
    BY <1>3 DEF TypeOK
  <2>2. StartInv' /\ CallerInv'
    BY <1>3, <2>1 DEF StartInv, CallerInv
  <2>3. UniqueInv' /\ TransitInv' /\ ReleaseInv' /\ AckInv' /\ BookInv'
    BY <1>3 DEF UniqueInv, TransitInv, Final, ReleaseInv, AckInv, BookInv
  <2>4. QED
    BY <2>2, <2>3
<1>4. CASE KnownSave(r)
  BY <1>3, <1>4 DEF KnownSave, Goto, ackVars, unitVars
<1>5. CASE KnownDispatch(r)
  BY <1>3, <1>5, KickoffInv DEF KnownDispatch, Goto, dbVars, ackVars, unitVars
<1>6. CASE UnknownPublish(r)
  BY <1>3, <1>6, KickoffInv DEF UnknownPublish, Goto, dbVars, ackVars, unitVars
<1>7. CASE UnknownStore(r)
  BY <1>3, <1>7 DEF UnknownStore, Goto, dbVars, ackVars, unitVars
<1>8. QED
  BY <1>1, <1>2, <1>4, <1>5, <1>6, <1>7 DEF RestStep
(* A message is answered, or passed on, by one message of its transaction. *)
LEMMA ReplyUnique ==
    ASSUME TypeOK, UniqueInv, NEW m \in msgs, NEW n, n.req = m.req,
           msgs' = (msgs \ {m}) \cup {n}
    PROVE  UniqueInv'
  BY DEF UniqueInv

(* The unit opens for a message that still finds its card unreleased.      *)
LEMMA UnitFetchInv ==
    ASSUME TypeOK, LendingInv, NEW m \in msgs, UnitFetch(m)
    PROVE  LendingInv'
<1>0. /\ m \in Message /\ m.req \in Request /\ m.to = "unit"
      /\ ackPc[m.req] = "none" /\ releases[m.req] = 0
      /\ m.who \in User \cup Mistaken
      /\ m.req \in Mobile \/ m.exists
      /\ \A n \in msgs : n.req = m.req => n = m
      /\ pc[m.req] \notin {"new", "checked", "saved"}
  <2>1. m \in Message /\ m.req \in Request /\ m.to = "unit" /\ m.req \in Mobile \cup index
    BY DEF TypeOK, Message, UnitFetch, MayOpen
  <2>2. ~Final(m)
    BY <2>1 DEF Final
  <2>3. m.req \in Mobile \/ m.exists
    BY <2>1 DEF TransitInv
  <2>4. QED
    BY <2>1, <2>2, <2>3 DEF TransitInv, UniqueInv, StartInv
<1>1. PICK ok \in BOOLEAN :
         /\ GetCard(m, ok)
         /\ msgs' = (msgs \ {m})
                       \cup {[m EXCEPT !.to = "server", !.ok = Reported(ok)]}
  BY DEF UnitFetch, Outcome
<1> DEFINE n == [m EXCEPT !.to = "server", !.ok = Reported(ok)]
<1>2. n.to = "server" /\ n.req = m.req /\ n.exists = m.exists /\ n.ok = Reported(ok)
  BY <1>0 DEF Message
<1>3. msgs' = (msgs \ {m}) \cup {n}
  BY <1>1
<1> HIDE DEF n
<1>4. /\ \A q \in Request : q # m.req =>
            releases'[q] = releases[q] /\ holder'[q] = holder[q]
      /\ ok => releases'[m.req] = 1 /\ holder'[m.req] \in User \cup Mistaken
      /\ ~ok => releases'[m.req] = 0
  <2>1. CASE ok
    <3>1. /\ releases' = [releases EXCEPT ![m.req] = @ + 1]
          /\ holder' = [holder EXCEPT ![m.req] = m.who]
      BY <1>1, <2>1 DEF GetCard
    <3>2. QED
      BY <1>0, <2>1, <3>1 DEF TypeOK
  <2>2. CASE ~ok
    BY <1>0, <1>1, <2>2 DEF GetCard
  <2>3. QED
    BY <2>1, <2>2
<1>5. UNCHANGED <<borrowed, call, pc, ackPc, index, marking>>
  BY DEF UnitFetch, dbVars, restVars, ackVars
<1>6. StartInv'
  BY <1>0, <1>2, <1>3, <1>4, <1>5 DEF StartInv
<1>7. CallerInv'
  BY <1>5 DEF CallerInv
<1>8. UniqueInv'
  BY <1>2, <1>3, ReplyUnique
<1>9. TransitInv'
  <2>1. \A k \in msgs : k # m => k.req # m.req /\ k.req \in Request
    BY <1>0 DEF TypeOK, Message
  <2>2. Final(n)
    BY <1>0, <1>2 DEF Final
  <2>3. QED
    BY <1>0, <1>2, <1>3, <1>4, <1>5, <2>1, <2>2 DEF TransitInv, Final, Reported
<1>10. ReleaseInv'
  BY <1>0, <1>4 DEF ReleaseInv
<1>11. AckInv' /\ BookInv'
  BY <1>0, <1>4, <1>5 DEF AckInv, BookInv, TypeOK
<1>12. QED
  BY <1>6, <1>7, <1>8, <1>9, <1>10, <1>11

(* A badge scan answers the first message of a terminal fetch, unopened.   *)
LEMMA UnitScanInv ==
    ASSUME TypeOK, LendingInv, NEW m \in msgs, UnitScan(m)
    PROVE  LendingInv'
<1>0. /\ m \in Message /\ m.req \in Terminal /\ m.req \notin Mobile
      /\ ackPc[m.req] = "none" /\ releases[m.req] = 0
      /\ \A k \in msgs : k # m => k.req # m.req /\ k.req \in Request
      /\ pc[m.req] \notin {"new", "checked", "saved"}
  <2>1. m \in Message /\ m.req \in Terminal /\ m.to = "unit"
    BY DEF TypeOK, Message, UnitScan
  <2>2. ~Final(m)
    BY <2>1 DEF Final
  <2>3. QED
    BY <2>1, <2>2 DEF TransitInv, UniqueInv, StartInv, TypeOK, Message
<1>1. PICK badge \in Bearer :
         msgs' = (msgs \ {m}) \cup {[m EXCEPT !.to = "server", !.who = badge,
                                              !.ok = Reported(badge # NoBadge)]}
  BY DEF UnitScan
<1> DEFINE n == [m EXCEPT !.to = "server", !.who = badge,
                          !.ok = Reported(badge # NoBadge)]
<1>2. /\ n.to = "server" /\ n.req = m.req
      /\ HonestUnit /\ n.ok => n.who # NoBadge
  BY <1>0 DEF Message, Reported
<1>3. msgs' = (msgs \ {m}) \cup {n}
  BY <1>1
<1> HIDE DEF n
<1>4. /\ UNCHANGED <<borrowed, call, pc, ackPc, index, releases, holder>>
      /\ marking' = marking \cup {m.req}
  BY DEF UnitScan, dbVars, restVars, ackVars
<1>5. StartInv'
  BY <1>0, <1>2, <1>3, <1>4 DEF StartInv
<1>6. UniqueInv'
  BY <1>2, <1>3, ReplyUnique
<1>7. TransitInv'
  BY <1>0, <1>2, <1>3, <1>4 DEF TransitInv, Final
<1>8. CallerInv' /\ ReleaseInv' /\ AckInv' /\ BookInv'
  BY <1>4 DEF CallerInv, ReleaseInv, AckInv, BookInv
<1>9. QED
  BY <1>5, <1>6, <1>7, <1>8

(* The unit keeps the invariant; an index entry alone concerns nobody.     *)
LEMMA UnitInv ==
    ASSUME TypeOK, LendingInv, UnitStep
    PROVE  LendingInv'
<1>1. ASSUME NEW r \in Request, UnitMark(r)
      PROVE  LendingInv'
  <2>1. /\ UNCHANGED <<borrowed, call, pc, ackPc, msgs, releases, holder>>
        /\ index' \cup marking' = index \cup marking
    BY <1>1 DEF UnitMark, dbVars, restVars, ackVars
  <2>2. QED
    BY <2>1 DEF StartInv, CallerInv, UniqueInv, TransitInv, Final, ReleaseInv,
                AckInv, BookInv
<1>2. QED
  BY <1>1, UnitFetchInv, UnitScanInv DEF UnitStep

(* The server confirms a scan only for a person with a row.                *)
LEMMA ScanReplyInv ==
    ASSUME TypeOK, LendingInv, NEW m \in msgs, ScanReply(m)
    PROVE  LendingInv'
<1>0. /\ m \in Message /\ m.req \in Terminal /\ m.req \notin Mobile
      /\ ackPc[m.req] = "none" /\ releases[m.req] = 0
      /\ \A k \in msgs : k # m => k.req # m.req /\ k.req \in Request
      /\ pc[m.req] \notin {"new", "checked", "saved"}
  <2>1. m \in Message /\ m.req \in Terminal /\ ~m.exists
    BY DEF TypeOK, Message, ScanReply, FirstAnswer
  <2>2. ~Final(m)
    BY <2>1 DEF Final
  <2>3. QED
    BY <2>1, <2>2 DEF TransitInv, UniqueInv, StartInv, TypeOK, Message
<1>1. UNCHANGED <<borrowed, call, pc, ackPc, index, marking, releases, holder>>
  BY DEF ScanReply, dbVars, restVars, ackVars, unitVars
<1>2. CallerInv' /\ ReleaseInv' /\ AckInv' /\ BookInv'
  BY <1>1 DEF CallerInv, ReleaseInv, AckInv, BookInv
<1>3. CASE msgs' = msgs \ {m}
  BY <1>0, <1>1, <1>2, <1>3 DEF StartInv, UniqueInv, TransitInv, Final
<1>4. CASE /\ msgs' = (msgs \ {m}) \cup {[m EXCEPT !.to = "unit", !.exists = TRUE]}
           /\ m.who \in User \cup Blank /\ m.ok
  <2> DEFINE n == [m EXCEPT !.to = "unit", !.exists = TRUE]
  <2>1. n.to = "unit" /\ n.req = m.req /\ n.who = m.who /\ n.exists
    BY <1>0 DEF Message
  <2>2. msgs' = (msgs \ {m}) \cup {n}
    BY <1>4
  <2> HIDE DEF n
  <2>3. StartInv'
    BY <1>0, <1>1, <2>1, <2>2 DEF StartInv
  <2>4. UniqueInv'
    BY <2>1, <2>2, ReplyUnique
  <2>5. n.who \in User \cup Mistaken
    <3>1. HonestUnit => m.who # NoBadge
      BY <1>0, <1>4 DEF TransitInv, ScanReply, FirstAnswer, Final
    <3>2. QED
      BY <1>4, <2>1, <3>1 DEF Mistaken
  <2>6. TransitInv'
    BY <1>0, <1>1, <2>1, <2>2, <2>5 DEF TransitInv, Final
  <2>7. QED
    BY <1>2, <2>3, <2>4, <2>6
<1>5. QED
  BY <1>3, <1>4 DEF ScanReply, Recognised, Succeeded

(* The final answer leaves the network and reports what was released.      *)
LEMMA AckReadInv ==
    ASSUME TypeOK, LendingInv, NEW m \in msgs, AckRead(m)
    PROVE  LendingInv'
<1>0. /\ m \in Message /\ m.req \in Request /\ Final(m)
      /\ ackPc[m.req] = "none"
      /\ \A k \in msgs : k # m => k.req # m.req /\ k.req \in Request
      /\ pc[m.req] \notin {"new", "checked", "saved"}
      /\ HonestUnit /\ m.ok /\ m.req \in Mobile => releases[m.req] = 1
  <2>1. m \in Message /\ m.req \in Request /\ Final(m)
    BY DEF TypeOK, Message, AckRead
  <2>2. QED
    BY <2>1 DEF TransitInv, UniqueInv, StartInv, TypeOK, Message
<1>1. /\ UNCHANGED <<borrowed, call, pc, index, marking, releases, holder>>
      /\ msgs' = msgs \ {m}
      /\ \A q \in Request : q # m.req => ackPc'[q] = ackPc[q]
      /\ \/ ackPc'[m.req] \in {"failed", "nocard"}
         \/ m.ok /\ ackPc'[m.req] = "read"
  BY <1>0 DEF AckRead, AckGoto, Succeeded, TypeOK, dbVars, restVars, unitVars
<1>2. StartInv' /\ UniqueInv' /\ TransitInv'
  BY <1>0, <1>1 DEF StartInv, UniqueInv, TransitInv, Final
<1>3. CallerInv' /\ ReleaseInv' /\ AckInv' /\ BookInv'
  BY <1>0, <1>1 DEF CallerInv, ReleaseInv, AckInv, BookInv, TypeOK
<1>4. QED
  BY <1>2, <1>3

(* An acknowledgement books the request it belongs to, and no other.       *)
LEMMA AckStepInv ==
    ASSUME TypeOK, LendingInv, NEW r \in Request, AckStep(r)
    PROVE  LendingInv'
<1>0. /\ UNCHANGED <<call, pc, msgs, index, marking, releases, holder>>
      /\ \A q \in Request : q # r => ackPc'[q] = ackPc[q]
      /\ ackPc[r] \in {"read", "saved"} /\ ackPc'[r] # "none"
      /\ ackPc'[r] # "read"
  BY DEF AckStep, AckSave, AckBook, AckGoto, TypeOK, restVars, unitVars
<1>1. StartInv' /\ CallerInv' /\ UniqueInv' /\ TransitInv' /\ ReleaseInv'
  BY <1>0 DEF StartInv, CallerInv, UniqueInv, TransitInv, Final, ReleaseInv,
              TypeOK, Message
<1>2. AckInv'
  BY <1>0 DEF AckInv
<1>3. BookInv'
  <2>1. CASE AckSave(r)
    BY <1>0, <2>1 DEF AckSave, BookInv, TypeOK
  <2>2. CASE AckBook(r)
    <3>1. \/ borrowed' = borrowed
          \/ /\ borrowed' = borrowed \cup {r} /\ ackPc'[r] = "done"
             /\ r \in Mobile
      BY <2>2 DEF AckBook, AckGoto, Borrower, TypeOK
    <3>2. QED
      BY <1>0, <3>1 DEF AckInv, BookInv, TypeOK
  <2>3. QED
    BY <2>1, <2>2 DEF AckStep
<1>4. QED
  BY <1>1, <1>2, <1>3

(* The environment takes messages and handlers away, and adds none.        *)
LEMMA EnvironmentInv ==
    ASSUME TypeOK, LendingInv, Environment
    PROVE  LendingInv'
<1>1. CASE UNCHANGED <<borrowed, call, pc, ackPc, msgs, index, marking, releases, holder>>
  BY <1>1 DEF StartInv, CallerInv, UniqueInv, TransitInv, Final, ReleaseInv,
              AckInv, BookInv
<1>2. CASE ClerkRead
  BY <1>1, <1>2 DEF ClerkRead, dbVars, restVars, ackVars, unitVars
<1>3. CASE ClerkSave
  BY <1>1, <1>3 DEF ClerkSave, restVars, ackVars, unitVars
<1>4. ASSUME NEW c \in Card, PutBack(c)
      PROVE  LendingInv'
  BY <1>1, <1>4 DEF PutBack, dbVars, restVars, ackVars
<1>5. ASSUME NEW m \in msgs, Lose(m)
      PROVE  LendingInv'
  BY <1>5 DEF Lose, dbVars, restVars, ackVars, unitVars, StartInv, CallerInv,
              UniqueInv, TransitInv, Final, ReleaseInv, AckInv, BookInv
<1>6. CASE ServerRestart
  <2>1. /\ UNCHANGED <<borrowed, call, index, marking, releases, holder>>
        /\ msgs' \subseteq msgs
        /\ \A q \in Request :
              /\ pc'[q] \in {"new", "checked", "saved"} => pc'[q] = pc[q]
              /\ pc'[q] = "new" \/ pc'[q] \notin {"checked", "saved"}
              /\ ackPc[q] = "none" => ackPc'[q] = "none"
              /\ ackPc'[q] \notin {"read", "saved"}
              /\ ackPc[q] = "done" => ackPc'[q] = "done"
    BY <1>6 DEF ServerRestart, dbVars, unitVars
  <2>2. StartInv' /\ CallerInv'
    BY <2>1 DEF StartInv, CallerInv
  <2>3. UniqueInv' /\ TransitInv'
    BY <2>1 DEF UniqueInv, TransitInv, Final, TypeOK, Message
  <2>4. ReleaseInv' /\ AckInv' /\ BookInv'
    BY <2>1 DEF ReleaseInv, AckInv, BookInv, TypeOK
  <2>5. QED
    BY <2>2, <2>3, <2>4
<1>7. CASE UnitRestart
  <2>1. /\ UNCHANGED <<borrowed, call, pc, ackPc, releases, holder>>
        /\ msgs' \subseteq msgs /\ index' = {} /\ marking' = {}
    BY <1>7 DEF UnitRestart, dbVars, restVars, ackVars
  <2>2. QED
    BY <2>1 DEF StartInv, CallerInv, UniqueInv, TransitInv, Final, ReleaseInv,
                AckInv, BookInv
<1>8. ASSUME NEW x \in Edited, Rename(x)
      PROVE  LendingInv'
  BY <1>1, <1>8 DEF Rename, restVars, ackVars, unitVars
<1>9. QED
  BY <1>2, <1>3, <1>4, <1>5, <1>6, <1>7, <1>8 DEF Environment

(* Every step keeps the invariant.                                         *)
LEMMA LendingInvStep ==
    ASSUME TypeOK, LendingInv, [Next]_vars
    PROVE  LendingInv'
<1>1. CASE Next
  BY <1>1, RestInv, AckStepInv, UnitInv, ScanReplyInv, AckReadInv, EnvironmentInv
  DEF Next, AnswerStep
<1>2. CASE UNCHANGED vars
  BY <1>2 DEF vars, dbVars, restVars, ackVars, unitVars, StartInv, CallerInv,
              UniqueInv, TransitInv, Final, ReleaseInv, AckInv, BookInv
<1>3. QED
  BY <1>1, <1>2

(* The inductive invariant: in every reachable state a transaction is one  *)
(* conversation whose message says how far it has come.                    *)
THEOREM LendingInvariant == Spec => []LendingInv
  BY TypeCorrect, InitInv, LendingInvStep, PTL DEF Spec

(* A unit gives a card only to a registered person: never to nobody, save  *)
(* for a unit that reports failed scans as successes, where a user's own   *)
(* sign-up failed.                                                         *)
THEOREM ReleaseIsAuthorised == Spec => []AuthorisedRelease
<1>1. LendingInv => AuthorisedRelease
  BY DEF ReleaseInv, AuthorisedRelease
<1>2. QED
  BY <1>1, LendingInvariant, PTL

(* One request never makes the unit give out a card twice.                 *)
THEOREM ReleaseIsUnique == Spec => []ReleaseAtMostOnce
<1>1. LendingInv => ReleaseAtMostOnce
  BY DEF ReleaseInv, ReleaseAtMostOnce
<1>2. QED
  BY <1>1, LendingInvariant, PTL

(* An honest unit's cards are booked only after they were given out.       *)
THEOREM BookingFollowsRelease == Spec => []BookedWasReleased
<1>1. LendingInv => BookedWasReleased
  BY DEF BookInv, BookedWasReleased
<1>2. QED
  BY <1>1, LendingInvariant, PTL
-----------------------------------------------------------------------------
(* A card given out for a mobile fetch stays unavailable.                  *)
(* The part of a transaction in which its card must be unavailable.        *)
Underway(r) == pc[r] = "saved" \/ releases[r] > 0 \/ \E m \in msgs : m.req = r

(* Rows only become unavailable, and no other transaction gets underway.   *)
LEMMA StaysWithdrawn ==
    ASSUME Rewrite \subseteq {"block"}, WithdrawnInv,
           clerk'.busy => clerk'.does = "block",
           \A c \in Card : ~row[c].available => ~row'[c].available,
           \A r \in Mobile : Underway(r)' =>
               Underway(r) /\ call'[r] = call[r] /\ call[r].card \in Card
    PROVE  WithdrawnInv'
  BY DEF WithdrawnInv, Underway

(* A mobile fetch gets underway by withdrawing its card.                   *)
LEMMA RestWithdrawn ==
    ASSUME TypeOK, LendingInv, WithdrawnInv, Rewrite \subseteq {"block"},
           NEW r \in Request, RestStep(r)
    PROVE  WithdrawnInv'
<1>0. /\ \A q \in Request : call[q].card \in Card
      /\ clerk.busy => clerk.does = "block"
  BY DEF TypeOK, Call, WithdrawnInv
<1>1. ASSUME NEW c \in Card, NEW e \in Person, NEW allowed, ReadCard(r, c, e, allowed)
      PROVE  WithdrawnInv'
  <2>1. /\ UNCHANGED <<row, msgs, releases, clerk>>
        /\ \A q \in Request : q # r => pc'[q] = pc[q] /\ call'[q] = call[q]
        /\ pc[r] = "new" /\ pc'[r] # "saved"
    BY <1>1 DEF ReadCard, Goto, TypeOK, dbVars, ackVars, unitVars
  <2>2. releases[r] = 0 /\ \A m \in msgs : m.req # r
    BY <2>1 DEF StartInv
  <2>3. QED
    BY <1>0, <2>1, <2>2, StaysWithdrawn DEF Underway
<1>2. CASE KnownSave(r)
  <2>1. /\ UNCHANGED <<call, msgs, releases, clerk>>
        /\ \A q \in Request : q # r => pc'[q] = pc[q]
    BY <1>2 DEF KnownSave, Goto, TypeOK, unitVars
  <2>2. CASE UNCHANGED row /\ pc'[r] # "saved"
    BY <1>0, <2>1, <2>2, StaysWithdrawn DEF Underway
  <2>3. CASE row' = [row EXCEPT ![call[r].card] = Withdrawn(read[r])]
    <3>1. /\ \A c \in Card : ~row[c].available => ~row'[c].available
          /\ ~row'[call[r].card].available
      <4>1. read[r] \in Row /\ ~Withdrawn(read[r]).available
        BY DEF TypeOK, Withdrawn, Row
      <4>2. QED
        BY <1>0, <2>3, <4>1 DEF TypeOK
    <3>2. QED
      BY <1>0, <2>1, <3>1 DEF WithdrawnInv
  <2>4. QED
    BY <1>2, <2>2, <2>3 DEF KnownSave, Goto, TypeOK
<1>3. CASE KnownDispatch(r) \/ UnknownPublish(r) \/ UnknownStore(r)
  <2>1. /\ UNCHANGED <<row, call, releases, clerk>>
        /\ \A q \in Request : pc'[q] = "saved" => pc[q] = "saved"
        /\ msgs' \subseteq msgs \cup {Kickoff(r)}
        /\ msgs' = msgs \/ pc[r] = "saved" \/ r \notin Mobile
    BY <1>3 DEF KnownDispatch, UnknownPublish, UnknownStore, Goto, TypeOK,
                dbVars, ackVars, unitVars
  <2>2. Kickoff(r).req = r
    BY DEF Kickoff
  <2>3. QED
    BY <1>0, <2>1, <2>2, StaysWithdrawn DEF Underway
<1>4. QED
  BY <1>1, <1>2, <1>3 DEF RestStep, KnownRead, UnknownRead

(* The unit writes no row, and answers only transactions underway.         *)
LEMMA UnitWithdrawn ==
    ASSUME TypeOK, WithdrawnInv, Rewrite \subseteq {"block"}, UnitStep
    PROVE  WithdrawnInv'
<1>0. /\ \A q \in Request : call[q].card \in Card
      /\ clerk.busy => clerk.does = "block"
  BY DEF TypeOK, Call, WithdrawnInv
<1>1. ASSUME NEW m \in msgs, UnitFetch(m) \/ UnitScan(m)
      PROVE  WithdrawnInv'
  <2>1. m \in Message /\ m.req \in Request
    BY DEF TypeOK, Message
  <2>2. PICK n : n.req = m.req /\ msgs' = (msgs \ {m}) \cup {n}
    BY <1>1, <2>1 DEF UnitFetch, UnitScan, Message
  <2>3. \A q \in Request : q # m.req => releases'[q] = releases[q]
    BY <1>1, <2>1 DEF UnitFetch, UnitScan, GetCard, TypeOK
  <2>4. UNCHANGED <<row, call, pc, clerk>>
    BY <1>1 DEF UnitFetch, UnitScan, dbVars, restVars
  <2>5. QED
    BY <1>0, <2>2, <2>3, <2>4, StaysWithdrawn DEF Underway
<1>2. ASSUME NEW r \in Request, UnitMark(r)
      PROVE  WithdrawnInv'
  BY <1>0, <1>2, StaysWithdrawn DEF UnitMark, Underway, dbVars, restVars
<1>3. QED
  BY <1>1, <1>2 DEF UnitStep

(* Answering handlers write no row in this step, and start nothing.        *)
LEMMA AnswerWithdrawn ==
    ASSUME TypeOK, WithdrawnInv, Rewrite \subseteq {"block"}, AnswerStep
    PROVE  WithdrawnInv'
<1>0. /\ \A q \in Request : call[q].card \in Card
      /\ clerk.busy => clerk.does = "block"
  BY DEF TypeOK, Call, WithdrawnInv
<1>1. PICK m \in msgs : ScanReply(m) \/ AckRead(m)
  BY DEF AnswerStep
<1>2. m \in Message
  BY DEF TypeOK
<1>3. \A n \in msgs' : n \in msgs \/ n.req = m.req
  <2>1. [m EXCEPT !.to = "unit", !.exists = TRUE].req = m.req
    BY <1>2 DEF Message
  <2>2. msgs' \subseteq msgs \cup {[m EXCEPT !.to = "unit", !.exists = TRUE]}
    BY <1>1 DEF ScanReply, AckRead
  <2>3. QED
    BY <2>1, <2>2
<1>4. UNCHANGED <<row, call, pc, releases, clerk>>
  BY <1>1 DEF ScanReply, AckRead, dbVars, restVars, unitVars
<1>5. QED
  BY <1>0, <1>3, <1>4, StaysWithdrawn DEF Underway

(* An acknowledgement writes its row back as unavailable.                  *)
LEMMA AckWithdrawn ==
    ASSUME TypeOK, WithdrawnInv, Rewrite \subseteq {"block"}, NEW r \in Request, AckStep(r)
    PROVE  WithdrawnInv'
<1>0. /\ \A q \in Request : call[q].card \in Card
      /\ clerk.busy => clerk.does = "block"
  BY DEF TypeOK, Call, WithdrawnInv
<1>1. UNCHANGED <<call, pc, msgs, releases, clerk>>
  BY DEF AckStep, AckSave, AckBook, restVars, unitVars
<1>2. \A c \in Card : ~row[c].available => ~row'[c].available
  <2>1. row' = row \/ row' = [row EXCEPT ![call[r].card] = Accessed(ackRead[r])]
    BY DEF AckStep, AckSave, AckBook
  <2>2. ~Accessed(ackRead[r]).available
    BY DEF Accessed
  <2>3. QED
    BY <1>0, <2>1, <2>2 DEF TypeOK
<1>3. QED
  BY <1>0, <1>1, <1>2, StaysWithdrawn DEF Underway

(* The other handlers at work only block cards.                            *)
LEMMA EnvironmentWithdrawn ==
    ASSUME TypeOK, WithdrawnInv, Rewrite \subseteq {"block"}, Environment
    PROVE  WithdrawnInv'
<1>0. /\ \A q \in Request : call[q].card \in Card
      /\ clerk.busy => clerk.does = "block"
  BY DEF TypeOK, Call, WithdrawnInv
<1>1. UNCHANGED <<call, releases>> /\ msgs' \subseteq msgs
  BY DEF Environment, ClerkRead, ClerkSave, Rename, PutBack, Lose,
         ServerRestart, UnitRestart, restVars, unitVars
<1>2. \A q \in Request : pc'[q] = "saved" => pc[q] = "saved"
  <2>1. CASE ServerRestart
    BY <2>1 DEF ServerRestart
  <2>2. CASE ~ServerRestart
    BY <2>2 DEF Environment, ClerkRead, ClerkSave, Rename, PutBack,
                Lose, UnitRestart, restVars
  <2>3. QED
    BY <2>1, <2>2
<1>3. clerk'.busy => clerk'.does = "block"
  <2>1. CASE ClerkRead
    <3>1. PICK c \in Card, d \in Rewrite :
             clerk' = [busy |-> TRUE, card |-> c, does |-> d, read |-> row[c]]
      BY <2>1 DEF ClerkRead
    <3>2. QED
      BY <3>1
  <2>2. CASE ~ClerkRead
    BY <1>0, <2>2 DEF Environment, ClerkSave, Rename, PutBack, Lose,
                      ServerRestart, UnitRestart, IdleClerk
  <2>3. QED
    BY <2>1, <2>2
<1>4. \A c \in Card : ~row[c].available => ~row'[c].available
  <2>1. CASE ClerkSave
    <3>1. /\ row' \in {row, [row EXCEPT ![clerk.card] =
                                        Rewritten(clerk.does, clerk.read)]}
          /\ clerk.does = "block" /\ clerk.card \in Card /\ clerk.read \in Row
      BY <1>0, <2>1 DEF ClerkSave, TypeOK, Clerk
    <3>2. ~Rewritten(clerk.does, clerk.read).available
      BY <3>1 DEF Row, Rewritten
    <3>3. QED
      BY <3>1, <3>2 DEF TypeOK
  <2>2. CASE ~ClerkSave
    BY <2>2 DEF Environment, ClerkRead, Rename, PutBack, Lose, ServerRestart,
                UnitRestart, dbVars
  <2>3. QED
    BY <2>1, <2>2
<1>5. QED
  BY <1>0, <1>1, <1>2, <1>3, <1>4, StaysWithdrawn DEF Underway

(* From its save on, a mobile fetch keeps its card unavailable, as long as *)
(* no handler outside fetching writes a row back as available.             *)
THEOREM WithdrawnInvariant == Spec => []WithdrawnInv
<1>1. Init => WithdrawnInv
  BY DEF Init, WithdrawnInv, IdleClerk
<1>2. ASSUME TypeOK, LendingInv, WithdrawnInv, [Next]_vars
      PROVE  WithdrawnInv'
  <2>1. CASE ~(Rewrite \subseteq {"block"})
    BY <2>1 DEF WithdrawnInv
  <2>2. CASE Rewrite \subseteq {"block"} /\ Next
    BY <1>2, <2>2, RestWithdrawn, UnitWithdrawn, AnswerWithdrawn, AckWithdrawn,
       EnvironmentWithdrawn DEF Next
  <2>3. CASE UNCHANGED vars
    BY <1>2, <2>3 DEF WithdrawnInv, vars, dbVars, restVars, unitVars
  <2>4. QED
    BY <1>2, <2>1, <2>2, <2>3
<1>3. QED
  BY <1>1, <1>2, TypeCorrect, LendingInvariant, PTL DEF Spec

(* A card given out for a mobile fetch is unavailable at every moment, as  *)
(* long as no administrator sets a card available.                         *)
THEOREM ReleaseWithdraws == Spec => []ReleasedIsUnavailable
<1>1. WithdrawnInv => ReleasedIsUnavailable
  BY DEF WithdrawnInv, ReleasedIsUnavailable
<1>2. QED
  BY <1>1, WithdrawnInvariant, PTL
-----------------------------------------------------------------------------
(* No handler writes back more accesses than were acknowledged.            *)
(* What is acknowledged stays so, and is finite.                           *)
LEMMA MoreAcknowledged ==
    ASSUME IsFiniteSet(Request),
           \A r \in Request : ackPc[r] \in Counted => ackPc'[r] \in Counted /\ call'[r] = call[r],
           NEW c \in Card
    PROVE  /\ Cardinality(Acknowledged(c)) \in Nat
           /\ Cardinality(Acknowledged(c)') \in Nat
           /\ Cardinality(Acknowledged(c)) <= Cardinality(Acknowledged(c)')
<1>1. IsFiniteSet(Acknowledged(c)) /\ IsFiniteSet(Acknowledged(c)')
  BY FS_Subset DEF Acknowledged
<1>2. Acknowledged(c) \subseteq Acknowledged(c)'
  BY DEF Acknowledged, Counted
<1>3. QED
  BY <1>1, <1>2, FS_Subset, FS_CardinalityType

(* The invariant survives a step that only forgets rows, copies rows out   *)
(* of the table, and writes rows that count no more than acknowledged.     *)
LEMMA CountKept ==
    ASSUME TypeOK, TypeOK', IsFiniteSet(Request), CountInv,
           \A r \in Request : ackPc[r] \in Counted => ackPc'[r] \in Counted /\ call'[r] = call[r],
           \A c \in Card : \/ row'[c] = row[c]
                           \/ row'[c].accessed <= Cardinality(Acknowledged(c)'),
           \A r \in Request : pc'[r] = "checked" =>
               \/ pc[r] = "checked" /\ call'[r] = call[r] /\ read'[r] = read[r]
               \/ read'[r] = row[call'[r].card],
           \A r \in Request : ackPc'[r] = "read" =>
               /\ call'[r] = call[r]
               /\ \/ ackPc[r] = "read" /\ ackRead'[r] = ackRead[r]
                  \/ ackRead'[r] = row[call[r].card],
           clerk'.busy => clerk' = clerk \/ clerk'.read = row[clerk'.card]
    PROVE  CountInv'
<1>1. \A c \in Card : /\ Cardinality(Acknowledged(c)) \in Nat
                      /\ Cardinality(Acknowledged(c)') \in Nat
                      /\ Cardinality(Acknowledged(c)) <= Cardinality(Acknowledged(c)')
  BY MoreAcknowledged
<1>2. /\ \A c \in Card : row[c].accessed \in Nat /\ row'[c].accessed \in Nat
      /\ \A r \in Request : /\ call[r].card \in Card /\ call'[r].card \in Card
                            /\ read[r].accessed \in Nat /\ ackRead[r].accessed \in Nat
      /\ clerk.card \in Card /\ clerk'.card \in Card /\ clerk.read.accessed \in Nat
  BY DEF TypeOK, Row, Call, Clerk
<1>3. \A c \in Card : row[c].accessed <= Cardinality(Acknowledged(c)')
  BY <1>1, <1>2 DEF CountInv, NeverOvercounted
<1>4. NeverOvercounted'
  BY <1>3 DEF NeverOvercounted
<1>5. ASSUME NEW r \in Request, pc'[r] = "checked"
      PROVE  (read[r].accessed <= Cardinality(Acknowledged(call[r].card)))'
  <2>1. CASE pc[r] = "checked" /\ call'[r] = call[r] /\ read'[r] = read[r]
    <3>1. read[r].accessed <= Cardinality(Acknowledged(call[r].card))
      BY <2>1 DEF CountInv
    <3>2. QED
      BY <1>1, <1>2, <2>1, <3>1
  <2>2. CASE read'[r] = row[call'[r].card]
    BY <1>2, <1>3, <2>2
  <2>3. QED
    BY <1>5, <2>1, <2>2
<1>6. ASSUME NEW r \in Request, ackPc'[r] = "read"
      PROVE  (ackRead[r].accessed <= Cardinality(Acknowledged(call[r].card)))'
  <2>1. CASE ackPc[r] = "read" /\ call'[r] = call[r] /\ ackRead'[r] = ackRead[r]
    <3>1. ackRead[r].accessed <= Cardinality(Acknowledged(call[r].card))
      BY <2>1 DEF CountInv
    <3>2. QED
      BY <1>1, <1>2, <2>1, <3>1
  <2>2. CASE call'[r] = call[r] /\ ackRead'[r] = row[call[r].card]
    BY <1>2, <1>3, <2>2
  <2>3. QED
    BY <1>6, <2>1, <2>2
<1>7. ASSUME clerk'.busy
      PROVE  (clerk.read.accessed <= Cardinality(Acknowledged(clerk.card)))'
  <2>1. CASE clerk' = clerk
    <3>1. clerk.read.accessed <= Cardinality(Acknowledged(clerk.card))
      BY <1>7, <2>1 DEF CountInv
    <3>2. QED
      BY <1>1, <1>2, <2>1, <3>1
  <2>2. CASE clerk'.read = row[clerk'.card]
    BY <1>2, <1>3, <2>2
  <2>3. QED
    BY <1>7, <2>1, <2>2
<1>8. QED
  BY <1>4, <1>5, <1>6, <1>7 DEF CountInv

(* A handler of a request reads a row, or writes back the one it has read. *)
LEMMA RestCounts ==
    ASSUME TypeOK, TypeOK', IsFiniteSet(Request), LendingInv, CountInv,
           NEW r \in Request, RestStep(r)
    PROVE  CountInv'
<1>1. call[r].card \in Card /\ read[r] \in Row
  BY DEF TypeOK, Call
<1>2. ASSUME NEW c \in Card, NEW e \in Person, NEW allowed, ReadCard(r, c, e, allowed)
      PROVE  CountInv'
  <2>1. /\ UNCHANGED <<row, ackPc, ackRead, clerk>>
        /\ ackPc[r] = "none"
        /\ \A q \in Request : q # r =>
               pc'[q] = pc[q] /\ call'[q] = call[q] /\ read'[q] = read[q]
    BY <1>2 DEF ReadCard, Goto, TypeOK, dbVars, ackVars, StartInv
  <2>2. call'[r].card = c /\ (pc'[r] = "checked" => read'[r] = row[c])
    BY <1>2 DEF ReadCard, Goto, TypeOK
  <2>3. QED
    BY <2>1, <2>2, CountKept DEF Counted
<1>3. CASE KnownSave(r)
  <2>1. /\ UNCHANGED <<call, read, ackPc, ackRead, clerk>>
        /\ \A q \in Request : pc'[q] = "checked" => pc[q] = "checked"
        /\ pc[r] = "checked"
    BY <1>3 DEF KnownSave, Goto, TypeOK, ackVars
  <2>2. ASSUME NEW c \in Card
        PROVE  row'[c] = row[c] \/ row'[c].accessed <= Cardinality(Acknowledged(c)')
    <3>1. Acknowledged(c)' = Acknowledged(c)
      BY <2>1 DEF Acknowledged
    <3>2. Withdrawn(read[r]).accessed <= Cardinality(Acknowledged(call[r].card))
      BY <1>1, <2>1 DEF CountInv, Withdrawn, Row
    <3>3. row'[c] = row[c] \/ (c = call[r].card /\ row'[c] = Withdrawn(read[r]))
      BY <1>1, <1>3 DEF KnownSave, TypeOK
    <3>4. QED
      BY <3>1, <3>2, <3>3
  <2>3. QED
    BY <2>1, <2>2, CountKept
<1>4. CASE KnownDispatch(r) \/ UnknownPublish(r) \/ UnknownStore(r)
  <2>1. /\ UNCHANGED <<row, call, read, ackPc, ackRead, clerk>>
        /\ \A q \in Request : pc'[q] = "checked" => pc[q] = "checked"
    BY <1>4 DEF KnownDispatch, UnknownPublish, UnknownStore, Goto, TypeOK,
                dbVars, ackVars
  <2>2. QED
    BY <2>1, CountKept
<1>5. QED
  BY <1>2, <1>3, <1>4 DEF RestStep, KnownRead, UnknownRead

(* An acknowledgement writes back one access more than it has read, and is *)
(* itself acknowledged with this very step.                                *)
LEMMA AckCounts ==
    ASSUME TypeOK, TypeOK', IsFiniteSet(Request), CountInv,
           NEW r \in Request, AckStep(r)
    PROVE  CountInv'
<1>1. call[r].card \in Card /\ ackRead[r] \in Row
  BY DEF TypeOK, Call
<1>2. /\ UNCHANGED <<call, pc, read, ackRead, clerk>>
      /\ \A q \in Request : q # r => ackPc'[q] = ackPc[q]
      /\ ackPc[r] \in {"read", "saved"} /\ ackPc'[r] # "read"
      /\ ackPc[r] = "saved" => ackPc'[r] \in Counted
  BY DEF AckStep, AckSave, AckBook, AckGoto, TypeOK, restVars, Counted
<1>3. ASSUME NEW c \in Card
      PROVE  row'[c] = row[c] \/ row'[c].accessed <= Cardinality(Acknowledged(c)')
  <2>1. SUFFICES ASSUME row'[c] # row[c]
                 PROVE  row'[c].accessed <= Cardinality(Acknowledged(c)')
    OBVIOUS
  <2>2. /\ c = call[r].card /\ row'[c] = Accessed(ackRead[r])
        /\ ackPc[r] = "read" /\ ackPc'[r] = "saved"
    BY <1>1, <2>1 DEF AckStep, AckSave, AckBook, AckGoto, TypeOK
  <2>3. Acknowledged(c)' = Acknowledged(c) \cup {r} /\ r \notin Acknowledged(c)
    BY <1>2, <2>2 DEF Acknowledged, Counted
  <2>4. IsFiniteSet(Acknowledged(c))
    BY FS_Subset DEF Acknowledged
  <2>5. /\ Cardinality(Acknowledged(c)') = Cardinality(Acknowledged(c)) + 1
        /\ Cardinality(Acknowledged(c)) \in Nat
    BY <2>3, <2>4, FS_AddElement, FS_CardinalityType
  <2>6. ackRead[r].accessed <= Cardinality(Acknowledged(c))
    BY <2>2 DEF CountInv
  <2>7. Accessed(ackRead[r]).accessed = ackRead[r].accessed + 1 /\ ackRead[r].accessed \in Nat
    BY <1>1 DEF Accessed, Row
  <2>8. QED
    BY <2>2, <2>5, <2>6, <2>7
<1>4. QED
  BY <1>2, <1>3, CountKept DEF Counted

(* The final answer of the unit is handled by reading the row.             *)
LEMMA AnswerCounts ==
    ASSUME TypeOK, TypeOK', IsFiniteSet(Request), CountInv, AnswerStep
    PROVE  CountInv'
<1>1. ASSUME NEW m \in msgs, ScanReply(m)
      PROVE  CountInv'
  BY <1>1, CountKept DEF ScanReply, dbVars, restVars, ackVars
<1>2. ASSUME NEW m \in msgs, AckRead(m)
      PROVE  CountInv'
  <2>1. m.req \in Request
    BY DEF TypeOK, Message
  <2>2. /\ UNCHANGED <<row, call, pc, read, clerk>>
        /\ ackPc[m.req] = "none"
        /\ \A q \in Request : q # m.req => ackPc'[q] = ackPc[q] /\ ackRead'[q] = ackRead[q]
        /\ ackPc'[m.req] = "read" => ackRead'[m.req] = row[call[m.req].card]
    BY <1>2, <2>1 DEF AckRead, AckGoto, TypeOK, dbVars, restVars
  <2>3. QED
    BY <2>1, <2>2, CountKept DEF Counted
<1>3. QED
  BY <1>1, <1>2 DEF AnswerStep

(* The handlers outside fetching keep the counter they have read, and a    *)
(* restart only makes handlers forget.                                     *)
LEMMA EnvironmentCounts ==
    ASSUME TypeOK, TypeOK', IsFiniteSet(Request), CountInv, Environment
    PROVE  CountInv'
<1>1. CASE ClerkRead
  <2>1. PICK c \in Card, d \in Rewrite :
           clerk' = [busy |-> TRUE, card |-> c, does |-> d, read |-> row[c]]
    BY <1>1 DEF ClerkRead
  <2>2. clerk'.read = row[clerk'.card]
    BY <2>1
  <2>3. QED
    BY <1>1, <2>2, CountKept DEF ClerkRead, dbVars, restVars, ackVars
<1>2. CASE ClerkSave
  <2>1. /\ UNCHANGED <<call, pc, read, ackPc, ackRead>> /\ ~clerk'.busy /\ clerk.busy
        /\ clerk.card \in Card /\ clerk.read \in Row
    BY <1>2 DEF ClerkSave, restVars, ackVars, IdleClerk, TypeOK, Clerk
  <2>2. ASSUME NEW c \in Card
        PROVE  row'[c] = row[c] \/ row'[c].accessed <= Cardinality(Acknowledged(c)')
    <3>1. Acknowledged(c)' = Acknowledged(c)
      BY <2>1 DEF Acknowledged
    <3>2. Rewritten(clerk.does, clerk.read).accessed = clerk.read.accessed
      BY <2>1 DEF Rewritten, Row
    <3>3. \/ row'[c] = row[c]
          \/ c = clerk.card /\ row'[c] = Rewritten(clerk.does, clerk.read)
      BY <1>2, <2>1 DEF ClerkSave, TypeOK
    <3>4. QED
      BY <2>1, <3>1, <3>2, <3>3 DEF CountInv
  <2>3. QED
    BY <2>1, <2>2, CountKept
<1>3. CASE (\E c \in Card : PutBack(c)) \/ (\E m \in msgs : Lose(m)) \/ UnitRestart
  BY <1>3, CountKept DEF PutBack, Lose, UnitRestart, dbVars, restVars, ackVars
<1>4. CASE ServerRestart
  <2>1. /\ UNCHANGED <<row, call, read, ackRead>> /\ ~clerk'.busy
        /\ \A q \in Request : /\ pc'[q] # "checked"
                              /\ ackPc'[q] # "read"
                              /\ ackPc[q] \in Counted => ackPc'[q] \in Counted
    BY <1>4 DEF ServerRestart, dbVars, IdleClerk, TypeOK, Counted
  <2>2. QED
    BY <2>1, CountKept
<1>5. ASSUME NEW x \in Edited, Rename(x)
      PROVE  CountInv'
  BY <1>5, CountKept DEF Rename, restVars, ackVars
<1>6. QED
  BY <1>1, <1>2, <1>3, <1>4, <1>5 DEF Environment

(* The invariant behind the counter, for a finite number of requests.      *)
LEMMA CountInvariant ==
    ASSUME IsFiniteSet(Request)
    PROVE  Spec => []CountInv
<1>1. Init => CountInv
  <2>1. SUFFICES ASSUME Init PROVE CountInv
    OBVIOUS
  <2>2. \A c \in Card : row[c].accessed = 0 /\ Acknowledged(c) = {}
    BY <2>1 DEF Init, NewRow, Acknowledged, Counted
  <2>3. \A c \in Card : row[c].accessed <= Cardinality(Acknowledged(c))
    BY <2>2, FS_EmptySet
  <2>4. QED
    BY <2>1, <2>3 DEF Init, CountInv, NeverOvercounted, IdleClerk
<1>2. TypeOK /\ TypeOK' /\ LendingInv /\ CountInv /\ [Next]_vars => CountInv'
  <2>1. SUFFICES ASSUME TypeOK, TypeOK', LendingInv, CountInv, [Next]_vars
                 PROVE  CountInv'
    OBVIOUS
  <2>2. CASE UnitStep
    BY <2>1, <2>2, CountKept
    DEF UnitStep, UnitFetch, UnitScan, UnitMark, dbVars, restVars, ackVars
  <2>3. CASE UNCHANGED vars
    BY <2>1, <2>3, CountKept DEF vars, dbVars, restVars, ackVars
  <2>4. QED
    BY <2>1, <2>2, <2>3, RestCounts, AckCounts, AnswerCounts, EnvironmentCounts DEF Next
<1>3. QED
  BY <1>1, <1>2, TypeCorrect, LendingInvariant, PTL DEF Spec

(* The access counter never exceeds the number of fetches acknowledged for *)
(* the card, however stale the rows are that handlers write back.          *)
THEOREM CounterIsBounded ==
    ASSUME IsFiniteSet(Request)
    PROVE  Spec => []NeverOvercounted
<1>1. CountInv => NeverOvercounted
  BY DEF CountInv
<1>2. QED
  BY <1>1, CountInvariant, PTL
-----------------------------------------------------------------------------
(* The protocol implements module Loan.                                    *)

(* A step that books nothing and gives nothing out is invisible in Loan.   *)
LEMMA Stutter ==
    ASSUME UNCHANGED <<borrowed, releases, holder>>
    PROVE  UNCHANGED <<loan, holder>>
  BY DEF loan

(* What the unit does is a hand-over to a registered person, or nothing.   *)
LEMMA FetchRefines ==
    ASSUME HonestUnit, TypeOK, LendingInv, NEW m \in msgs, UnitFetch(m)
    PROVE  LoanOf!Next \/ UNCHANGED <<loan, holder>>
<1>1. /\ m.req \in Request /\ releases[m.req] = 0 /\ m.who \in User
      /\ UNCHANGED borrowed
  <2>1. m.req \in Request /\ m.to = "unit" /\ m.req \in Mobile \cup index
    BY DEF TypeOK, Message, UnitFetch, MayOpen
  <2>2. ~Final(m)
    BY <2>1 DEF Final
  <2>3. m.req \in Mobile \/ m.exists
    BY <2>1 DEF TransitInv
  <2>4. QED
    BY <2>1, <2>2, <2>3 DEF TransitInv, UnitFetch, dbVars, Mistaken
<1>2. m.req \notin borrowed
  BY <1>1 DEF BookInv
<1>3. PICK ok \in BOOLEAN : GetCard(m, ok)
  BY DEF UnitFetch, Outcome
<1>4. CASE ~ok
  BY <1>1, <1>3, <1>4, Stutter DEF GetCard
<1>5. CASE ok
  <2>1. /\ releases' = [releases EXCEPT ![m.req] = @ + 1]
        /\ holder' = [holder EXCEPT ![m.req] = m.who]
    BY <1>3, <1>5 DEF GetCard
  <2>2. loan[m.req] = "asked"
    BY <1>1, <1>2 DEF loan
  <2>3. loan' = [loan EXCEPT ![m.req] = "out"]
    <3>1. \A q \in Request : releases'[q] = IF q = m.req THEN 1 ELSE releases[q]
      BY <1>1, <2>1 DEF TypeOK
    <3>2. \A q \in Request : loan'[q] = IF q = m.req THEN "out" ELSE loan[q]
      BY <1>1, <1>2, <3>1 DEF loan
    <3>3. loan = [q \in Request |-> loan[q]] /\ loan' = [q \in Request |-> loan'[q]]
      BY DEF loan
    <3>4. QED
      BY <3>2, <3>3
  <2>4. LoanOf!HandOver(m.req)
    BY <1>1, <2>1, <2>2, <2>3 DEF LoanOf!HandOver
  <2>5. QED
    BY <1>1, <2>4 DEF LoanOf!Next
<1>6. QED
  BY <1>4, <1>5

(* What an acknowledgement books was handed over, and not booked before.   *)
LEMMA BookRefines ==
    ASSUME HonestUnit, TypeOK, LendingInv, NEW r \in Request, AckBook(r)
    PROVE  LoanOf!Next \/ UNCHANGED <<loan, holder>>
<1>1. UNCHANGED <<releases, holder>> /\ ackPc[r] = "saved"
  BY DEF AckBook, unitVars
<1>2. CASE UNCHANGED borrowed
  BY <1>1, <1>2, Stutter
<1>3. CASE Borrower(r) /\ borrowed' = borrowed \cup {r}
  <2>1. releases[r] = 1 /\ r \notin borrowed
    BY <1>1, <1>3 DEF Borrower, AckInv, BookInv
  <2>2. loan[r] = "out"
    BY <2>1 DEF loan
  <2>3. loan' = [loan EXCEPT ![r] = "booked"]
    BY <1>1, <1>3 DEF loan
  <2>4. LoanOf!Book(r)
    BY <1>1, <2>2, <2>3 DEF LoanOf!Book
  <2>5. QED
    BY <2>4 DEF LoanOf!Next
<1>4. QED
  BY <1>2, <1>3 DEF AckBook

(* Every step of the protocol is one of Loan, or invisible in it.          *)
LEMMA StepRefines ==
    ASSUME HonestUnit, TypeOK, LendingInv, [Next]_vars
    PROVE  LoanOf!Next \/ UNCHANGED <<loan, holder>>
<1>1. ASSUME NEW r \in Request, RestStep(r) \/ AckSave(r)
      PROVE  UNCHANGED <<borrowed, releases, holder>>
  BY <1>1 DEF RestStep, KnownRead, KnownSave, KnownDispatch, UnknownRead,
              UnknownPublish, UnknownStore, ReadCard, AckSave, dbVars, unitVars
<1>2. CASE UnitStep
  <2>1. ASSUME NEW m \in msgs, UnitScan(m)
        PROVE  UNCHANGED <<borrowed, releases, holder>>
    BY <2>1 DEF UnitScan, dbVars
  <2>2. ASSUME NEW r \in Request, UnitMark(r)
        PROVE  UNCHANGED <<borrowed, releases, holder>>
    BY <2>2 DEF UnitMark, dbVars
  <2>3. QED
    BY <1>2, <2>1, <2>2, FetchRefines, Stutter DEF UnitStep
<1>3. CASE AnswerStep \/ Environment
  <2>1. UNCHANGED <<borrowed, releases, holder>>
    BY <1>3 DEF AnswerStep, ScanReply, AckRead, Environment, ClerkRead,
                ClerkSave, Rename, PutBack, Lose, ServerRestart, UnitRestart,
                dbVars, unitVars
  <2>2. QED
    BY <2>1, Stutter
<1>4. CASE UNCHANGED vars
  BY <1>4, Stutter DEF vars, dbVars, unitVars
<1>5. QED
  BY <1>1, <1>2, <1>3, <1>4, BookRefines, Stutter DEF Next, AckStep

(* With an honest unit, fetching a card keeps the promise of Loan: every   *)
(* behaviour is, seen through releases and reservation rows, one of Loan.  *)
THEOREM LendingImplementsLoan ==
    ASSUME HonestUnit
    PROVE  Spec => ImplementsLoan
<1>1. Init => LoanOf!Init
  BY DEF Init, LoanOf!Init, loan
<1>2. ASSUME TypeOK, LendingInv, [Next]_vars
      PROVE  [LoanOf!Next]_<<loan, holder>>
  BY <1>2, StepRefines
<1>3. QED
  BY <1>1, <1>2, TypeCorrect, LendingInvariant, PTL
  DEF Spec, ImplementsLoan, LoanOf!Spec
-----------------------------------------------------------------------------
(* A refused request.                                                      *)

(* A step that only takes messages away, and touches requests whose        *)
(* handler is through.                                                     *)
LEMMA RefusedKept ==
    ASSUME TypeOK, RefusedInv, UNCHANGED releases,
           \A r \in Request : pc'[r] # "dispatched" =>
               /\ pc[r] # "dispatched"
               /\ r \in pending' => r \in pending
               /\ ackPc[r] = "none" => ackPc'[r] = "none"
               /\ \A m \in msgs' : m.req = r => m \in msgs \/ (r \in Terminal /\ ~m.exists)
    PROVE  RefusedInv'
  BY DEF RefusedInv

LEMMA RefusedRest ==
    ASSUME TypeOK, RefusedInv, NEW r \in Request, RestStep(r)
    PROVE  RefusedInv'
<1>1. CASE KnownRead(r) \/ UnknownRead(r) \/ KnownSave(r)
  <2>1. UNCHANGED <<releases, pending, ackPc, msgs>>
    BY <1>1 DEF KnownRead, UnknownRead, KnownSave, ReadCard, ackVars, unitVars
  <2>2. pc[r] # "dispatched" /\ \A q \in Request : q # r => pc'[q] = pc[q]
    BY <1>1 DEF KnownRead, UnknownRead, KnownSave, ReadCard, Goto, TypeOK
  <2>3. QED
    BY <2>1, <2>2, RefusedKept
<1>2. CASE KnownDispatch(r)
  <2>1. /\ UNCHANGED <<releases, ackPc>> /\ pc[r] = "saved"
        /\ \A q \in Request : q # r => pc'[q] = pc[q]
    BY <1>2 DEF KnownDispatch, Goto, TypeOK, ackVars, unitVars
  <2>2. CASE UNCHANGED <<pending, msgs>>
    BY <2>1, <2>2, RefusedKept
  <2>3. CASE /\ pending' = pending \cup {r}
             /\ msgs' = msgs \cup {Kickoff(r)}
             /\ Goto(r, "dispatched")
    BY <2>1, <2>3, RefusedKept DEF Goto, TypeOK, Kickoff
  <2>4. QED
    BY <1>2, <2>2, <2>3 DEF KnownDispatch
<1>3. CASE UnknownPublish(r)
  <2>1. /\ UNCHANGED <<releases, ackPc, pending>> /\ pc[r] = "checked"
        /\ \A q \in Request : q # r => pc'[q] = pc[q]
    BY <1>3 DEF UnknownPublish, Goto, TypeOK, ackVars, unitVars
  <2>2. \A m \in msgs' : m \in msgs \/ (m.req = r /\ r \in Terminal /\ ~m.exists)
    BY <1>3 DEF UnknownPublish, Kickoff
  <2>3. QED
    BY <2>1, <2>2, RefusedKept
<1>4. CASE UnknownStore(r)
  BY <1>4, RefusedKept DEF UnknownStore, Goto, TypeOK, ackVars, unitVars
<1>5. QED
  BY <1>1, <1>2, <1>3, <1>4 DEF RestStep

(* A unit opens only at the message of a mobile fetch, or at one of a      *)
(* display's that confirms the badge: at none of a refused request.        *)
LEMMA RefusedUnit ==
    ASSUME TypeOK, LendingInv, RefusedInv, UnitStep
    PROVE  RefusedInv'
<1>1. ASSUME NEW m \in msgs, UnitFetch(m)
      PROVE  RefusedInv'
  <2>1. m \in Message
    BY DEF TypeOK
  <2>2. pc[m.req] = "dispatched"
    <3>1. m.req \in Request /\ m.to = "unit" /\ m.req \in Mobile \cup index
      BY <1>1, <2>1 DEF UnitFetch, MayOpen, Message
    <3>2. SUFFICES ASSUME pc[m.req] # "dispatched"
                   PROVE  FALSE
      OBVIOUS
    <3>3. m.req \in Terminal /\ ~m.exists
      BY <3>1, <3>2 DEF RefusedInv
    <3>4. m.req \notin index
      BY <3>1, <3>3 DEF TransitInv
    <3>5. QED
      BY <3>1, <3>3, <3>4, LendingAssumption
  <2>3. UNCHANGED <<pc, pending, ackPc>>
    BY <1>1 DEF UnitFetch, restVars, ackVars
  <2>4. \A r \in Request : r # m.req => releases'[r] = releases[r]
    BY <1>1 DEF UnitFetch, GetCard, TypeOK
  <2>5. \A k \in msgs' : k \in msgs \/ k.req = m.req
    BY <1>1, <2>1 DEF UnitFetch, Message
  <2>6. QED
    BY <2>2, <2>3, <2>4, <2>5 DEF RefusedInv
<1>2. ASSUME NEW m \in msgs, UnitScan(m)
      PROVE  RefusedInv'
  <2>1. m \in Message /\ m.req \in Terminal
    BY <1>2 DEF UnitScan, TypeOK
  <2>2. UNCHANGED <<pc, pending, ackPc, releases>>
    BY <1>2 DEF UnitScan, restVars, ackVars
  <2>3. \A k \in msgs' : k \in msgs \/ (k.req = m.req /\ k.exists = m.exists)
    BY <1>2, <2>1, ZenonT(30) DEF UnitScan, Message
  <2>4. QED
    BY <2>1, <2>2, <2>3 DEF RefusedInv
<1>3. ASSUME NEW r \in Request, UnitMark(r)
      PROVE  RefusedInv'
  BY <1>3 DEF UnitMark, restVars, ackVars, RefusedInv
<1>4. QED
  BY <1>1, <1>2, <1>3 DEF UnitStep

(* The server confirms a badge only for a request in the Map.              *)
LEMMA RefusedAnswer ==
    ASSUME TypeOK, RefusedInv, AnswerStep
    PROVE  RefusedInv'
<1>1. ASSUME NEW m \in msgs, ScanReply(m)
      PROVE  RefusedInv'
  <2>1. m \in Message
    BY DEF TypeOK
  <2>2. /\ UNCHANGED <<pc, ackPc, releases>> /\ pending' \subseteq pending
        /\ \A k \in msgs' : k \in msgs \/ (k.req = m.req /\ m.req \in pending)
    BY <1>1, <2>1 DEF ScanReply, restVars, ackVars, unitVars, Message
  <2>3. QED
    BY <2>2 DEF RefusedInv
<1>2. ASSUME NEW m \in msgs, AckRead(m)
      PROVE  RefusedInv'
  <2>1. m \in Message
    BY DEF TypeOK
  <2>2. /\ UNCHANGED <<pc, pending, releases>> /\ msgs' \subseteq msgs
        /\ \A r \in Request : r # m.req => ackPc'[r] = ackPc[r]
    BY <1>2 DEF AckRead, AckGoto, TypeOK, restVars, unitVars
  <2>3. pc[m.req] = "dispatched"
    BY <1>2, <2>1, LendingAssumption DEF AckRead, Final, RefusedInv, Message
  <2>4. QED
    BY <2>2, <2>3 DEF RefusedInv
<1>3. QED
  BY <1>1, <1>2 DEF AnswerStep

LEMMA RefusedStep ==
    ASSUME TypeOK, LendingInv, RefusedInv, [Next]_vars
    PROVE  RefusedInv'
<1>1. ASSUME NEW r \in Request, AckStep(r)
      PROVE  RefusedInv'
  <2>1. ackPc[r] # "none"
    BY <1>1 DEF AckStep, AckSave, AckBook
  <2>2. /\ UNCHANGED <<pc, pending, msgs, releases>>
        /\ \A q \in Request : q # r => ackPc'[q] = ackPc[q]
    BY <1>1 DEF AckStep, AckSave, AckBook, AckGoto, TypeOK, restVars, unitVars
  <2>3. QED
    BY <2>1, <2>2 DEF RefusedInv
<1>2. CASE Environment
  <2>1. CASE \/ ClerkRead \/ ClerkSave
             \/ \E c \in Card : PutBack(c)
             \/ \E x \in Edited : Rename(x)
    BY <2>1, RefusedKept DEF ClerkRead, ClerkSave, PutBack, Rename, restVars, ackVars, unitVars
  <2>2. ASSUME NEW m \in msgs, Lose(m)
        PROVE  RefusedInv'
    BY <2>2, RefusedKept DEF Lose, restVars, ackVars, unitVars
  <2>3. CASE ServerRestart
    BY <2>3, RefusedKept DEF ServerRestart, unitVars
  <2>4. CASE UnitRestart
    BY <2>4, RefusedKept DEF UnitRestart, restVars, ackVars
  <2>5. QED
    BY <1>2, <2>1, <2>2, <2>3, <2>4 DEF Environment
<1>3. CASE UNCHANGED vars
  BY <1>3, RefusedKept DEF vars, restVars, ackVars, unitVars
<1>4. QED
  BY <1>1, <1>2, <1>3, RefusedRest, RefusedUnit, RefusedAnswer DEF Next

(* Nobody gets a card, and nothing is acknowledged, for a request whose    *)
(* handler failed or was cut off by a restart.                             *)
THEOREM RefusalReleasesNothing == Spec => []RefusedReleasesNothing
<1>1. Init => RefusedInv
  BY DEF Init, RefusedInv
<1>2. TypeOK /\ LendingInv /\ RefusedInv /\ [Next]_vars => RefusedInv'
  BY RefusedStep
<1>3. RefusedInv => RefusedReleasesNothing
  BY DEF RefusedInv, RefusedReleasesNothing
<1>4. QED
  BY <1>1, <1>2, <1>3, TypeCorrect, LendingInvariant, PTL DEF Spec
-----------------------------------------------------------------------------
(* The booking of a card given out for a mobile fetch.                     *)

Booking(r) ==
    \/ r \in borrowed
    \/ ackPc[r] \in {"read", "saved"} \cup NotFound
    \/ \E m \in msgs : m.req = r /\ Final(m) /\ Succeeded(m)

(* Steps that give out nothing for r, and after which its booking is as    *)
(* far as it was.                                                          *)
LEMMA FollowUpKept ==
    ASSUME FollowUpInv,
           \A r \in Mobile : pc'[r] \in {"published", "dispatched"} => call'[r].who \in User,
           Faultless => \A r \in Mobile :
              /\ releases'[r] > 0 => releases[r] > 0 \/ Booking(r)'
              /\ releases[r] > 0 /\ Booking(r) => Booking(r)'
    PROVE  FollowUpInv'
  BY DEF FollowUpInv, ReleaseAwaitsBooking, Booking, Faultless

(* A request that starts, or is dispatched, has no card given out.         *)
LEMMA FollowUpRest ==
    ASSUME TypeOK, LendingInv, FollowUpInv, NEW r \in Request, RestStep(r)
    PROVE  FollowUpInv'
<1>1. /\ UNCHANGED <<borrowed, ackPc, releases>> /\ msgs \subseteq msgs'
      /\ \A q \in Request : q # r => pc'[q] = pc[q] /\ call'[q] = call[q]
  BY DEF RestStep, KnownRead, UnknownRead, ReadCard, KnownSave, KnownDispatch,
         UnknownPublish, UnknownStore, Goto, TypeOK, dbVars, ackVars, unitVars
<1>2. r \in Mobile =>
         /\ pc[r] = "new" \/ UNCHANGED call
         /\ pc'[r] \in {"published", "dispatched"} => call'[r].who \in User
  BY LendingAssumption
  DEF RestStep, KnownRead, UnknownRead, ReadCard, KnownSave, KnownDispatch,
      UnknownPublish, UnknownStore, Goto, TypeOK, FollowUpInv, CallerInv, restVars
<1>3. pc[r] = "new" => ~(releases[r] > 0)
  BY DEF StartInv
<1>4. ASSUME NEW q \in Mobile, releases[q] > 0, Booking(q)
      PROVE  Booking(q)'
  <2>1. call'[q] = call[q]
    BY <1>1, <1>2, <1>3, <1>4 DEF Request
  <2>2. QED
    BY <1>1, <1>4, <2>1 DEF Booking, Final, Succeeded
<1>5. \A q \in Mobile : pc'[q] \in {"published", "dispatched"} => call'[q].who \in User
  BY <1>1, <1>2 DEF FollowUpInv, Request
<1>6. QED
  BY <1>1, <1>4, <1>5, FollowUpKept

(* The unit's answer to the fetch it served says so.                       *)
LEMMA FollowUpUnit ==
    ASSUME TypeOK, LendingInv, FollowUpInv, UnitStep
    PROVE  FollowUpInv'
<1>1. UNCHANGED <<pc, call, borrowed, ackPc>>
  BY DEF UnitStep, UnitFetch, UnitScan, UnitMark, dbVars, restVars, ackVars
<1>2. ASSUME NEW m \in msgs, UnitFetch(m)
      PROVE  FollowUpInv'
  <2>1. m \in Message
    BY DEF TypeOK
  <2>2. PICK ok \in Outcome(call[m.req].card) :
           /\ GetCard(m, ok)
           /\ msgs' = (msgs \ {m}) \cup {[m EXCEPT !.to = "server", !.ok = Reported(ok)]}
    BY <1>2 DEF UnitFetch
  <2> DEFINE answer == [m EXCEPT !.to = "server", !.ok = Reported(ok)]
  <2>3. answer.to = "server" /\ answer.req = m.req /\ answer.ok = Reported(ok)
    BY <2>1 DEF Message
  <2>4. msgs' = (msgs \ {m}) \cup {answer}
    BY <2>2
  <2> HIDE DEF answer
  <2>5. \A q \in Mobile : q # m.req => releases'[q] = releases[q]
    BY <2>2 DEF GetCard, TypeOK, Request
  <2>6. m.to = "unit"
    BY <1>2 DEF UnitFetch
  <2>7. ASSUME NEW q \in Mobile, releases'[q] > 0
        PROVE  releases[q] > 0 \/ Booking(q)'
    <3>1. CASE q # m.req
      BY <2>5, <2>7, <3>1
    <3>2. CASE q = m.req /\ ok
      BY <2>3, <2>4, <3>2 DEF Booking, Final, Succeeded, Reported
    <3>3. CASE ~ok
      BY <2>2, <2>7, <3>3 DEF GetCard
    <3>4. QED
      BY <3>1, <3>2, <3>3
  <2>8. ASSUME NEW q \in Mobile, Booking(q)
        PROVE  Booking(q)'
    BY <1>1, <2>4, <2>6, <2>8 DEF Booking, Final, Succeeded
  <2>9. QED
    BY <1>1, <2>7, <2>8, FollowUpKept DEF FollowUpInv
<1>3. ASSUME NEW m \in msgs, UnitScan(m)
      PROVE  FollowUpInv'
  <2>1. m.to = "unit" /\ UNCHANGED releases /\ msgs \ {m} \subseteq msgs'
    BY <1>3 DEF UnitScan
  <2>2. ASSUME NEW q \in Mobile, Booking(q)
        PROVE  Booking(q)'
    BY <1>1, <2>1, <2>2 DEF Booking, Final, Succeeded
  <2>3. QED
    BY <1>1, <2>1, <2>2, FollowUpKept DEF FollowUpInv
<1>4. ASSUME NEW r \in Request, UnitMark(r)
      PROVE  FollowUpInv'
  <2>1. UNCHANGED <<releases, msgs>>
    BY <1>4 DEF UnitMark
  <2>2. QED
    BY <1>1, <2>1, FollowUpKept DEF FollowUpInv, Booking, Final, Succeeded
<1>5. QED
  BY <1>2, <1>3, <1>4 DEF UnitStep

(* A goroutine takes the answer over: it has read the card's row, or has   *)
(* not found it.                                                           *)
LEMMA FollowUpAnswer ==
    ASSUME TypeOK, LendingInv, FollowUpInv, AnswerStep
    PROVE  FollowUpInv'
<1>1. UNCHANGED <<pc, call, borrowed, releases>>
  BY DEF AnswerStep, ScanReply, AckRead, dbVars, restVars, unitVars
<1>2. ASSUME NEW m \in msgs, ScanReply(m)
      PROVE  FollowUpInv'
  <2>1. /\ UNCHANGED ackPc /\ msgs \ {m} \subseteq msgs'
        /\ m.req \notin Mobile
    BY <1>2, LendingAssumption DEF ScanReply, ackVars
  <2>2. ASSUME NEW q \in Mobile, Booking(q)
        PROVE  Booking(q)'
    BY <1>1, <2>1, <2>2 DEF Booking, Final, Succeeded
  <2>3. QED
    BY <1>1, <2>1, <2>2, FollowUpKept DEF FollowUpInv
<1>3. ASSUME NEW m \in msgs, AckRead(m)
      PROVE  FollowUpInv'
  <2>1. m \in Message
    BY DEF TypeOK
  <2>2. msgs' = msgs \ {m} /\ ackPc[m.req] = "none"
    BY <1>3 DEF AckRead
  <2>3. \A q \in Mobile : q # m.req => ackPc'[q] = ackPc[q]
    BY <1>3 DEF AckRead, AckGoto, TypeOK, Request
  <2>4. ASSUME Faultless, NEW q \in Mobile, Booking(q)
        PROVE  Booking(q)'
    <3>1. CASE q \in borrowed
      BY <1>1, <3>1 DEF Booking
    <3>2. CASE ackPc[q] \in {"read", "saved"} \cup NotFound
      <4>1. q # m.req
        BY <2>2, <3>2 DEF NotFound
      <4>2. QED
        BY <1>1, <2>3, <3>2, <4>1 DEF Booking
    <3>3. ASSUME NEW k \in msgs, k.req = q, Final(k), Succeeded(k)
          PROVE  Booking(q)'
      <4>1. CASE k # m
        BY <2>2, <3>3, <4>1 DEF Booking, Final, Succeeded
      <4>2. CASE k = m
        <5>1. m.req = q /\ Succeeded(m) /\ ~DBMayFail
          BY <2>4, <3>3, <4>2 DEF Faultless
        <5>2. ackPc'[q] \in {"read", "nocard"}
          BY <1>3, <5>1 DEF AckRead, AckGoto, TypeOK, Request
        <5>3. QED
          BY <5>2 DEF Booking, NotFound
      <4>3. QED
        BY <4>1, <4>2
    <3>4. QED
      BY <2>4, <3>1, <3>2, <3>3 DEF Booking
  <2>5. QED
    BY <1>1, <2>4, FollowUpKept DEF FollowUpInv
<1>4. QED
  BY <1>2, <1>3 DEF AnswerStep

(* It finds the borrower, or the borrower has been edited meanwhile:       *)
(* nobody was dispatched for whom there was none.                          *)
LEMMA FollowUpAck ==
    ASSUME TypeOK, RefusedInv, FollowUpInv, NEW r \in Request, AckStep(r)
    PROVE  FollowUpInv'
<1>1. /\ UNCHANGED <<pc, call, msgs, releases>> /\ borrowed \subseteq borrowed'
      /\ \A q \in Request : q # r => ackPc'[q] = ackPc[q]
  BY DEF AckStep, AckSave, AckBook, AckGoto, TypeOK, restVars, unitVars
<1>2. ASSUME Faultless, r \in Mobile
      PROVE  r \in borrowed' \/ ackPc'[r] \in {"saved", "nouser"}
  <2>1. CASE AckSave(r)
    BY <1>2, <2>1 DEF AckSave, AckGoto, TypeOK
  <2>2. CASE AckBook(r)
    <3>1. pc[r] = "dispatched"
      BY <2>2 DEF AckBook, RefusedInv
    <3>2. call[r].who \in User
      BY <1>2, <3>1 DEF FollowUpInv
    <3>3. Borrower(r) \/ call[r].who \in gone
      BY <1>2, <3>2 DEF Borrower
    <3>4. QED
      BY <1>2, <2>2, <3>3 DEF AckBook, AckGoto, TypeOK, Faultless
  <2>3. QED
    BY <2>1, <2>2 DEF AckStep
<1>3. ASSUME Faultless, NEW q \in Mobile, Booking(q)
      PROVE  Booking(q)'
  <2>1. CASE q = r
    BY <1>1, <1>2, <1>3, <2>1 DEF Booking, NotFound
  <2>2. CASE q # r
    BY <1>1, <1>3, <2>2 DEF Booking, Final, Succeeded, Request
  <2>3. QED
    BY <2>1, <2>2
<1>4. QED
  BY <1>1, <1>3, FollowUpKept DEF FollowUpInv

LEMMA FollowUpEnvironment ==
    ASSUME TypeOK, FollowUpInv, Environment
    PROVE  FollowUpInv'
<1>1. /\ UNCHANGED <<call, borrowed, releases>>
      /\ \A q \in Request : pc'[q] \in {"published", "dispatched"} => pc'[q] = pc[q]
  BY DEF Environment, ClerkRead, ClerkSave, Rename, PutBack, Lose, ServerRestart, UnitRestart,
         TypeOK, dbVars, restVars, unitVars
<1>2. Faultless => UNCHANGED <<ackPc, msgs>>
  BY DEF Environment, ClerkRead, ClerkSave, Rename, PutBack, Lose, ServerRestart, UnitRestart,
         TypeOK, ackVars, Faultless
<1>3. ASSUME Faultless, NEW q \in Mobile, Booking(q)
      PROVE  Booking(q)'
  BY <1>1, <1>2, <1>3 DEF Booking, Final, Succeeded
<1>4. \A q \in Mobile : pc'[q] \in {"published", "dispatched"} => call'[q].who \in User
  BY <1>1 DEF FollowUpInv, Request
<1>5. QED
  BY <1>1, <1>3, <1>4, FollowUpKept

(* A card given out for a mobile fetch is booked, or somebody is at it, or *)
(* the card or its borrower could not be found when the unit had answered: *)
(* the safety half of ReleasedIsBooked.                                    *)
THEOREM ReleasesAreFollowedUp == Spec => []ReleaseAwaitsBooking
<1>1. Init => RefusedInv /\ FollowUpInv
  BY DEF Init, RefusedInv, FollowUpInv, ReleaseAwaitsBooking, Request
<1>2. ASSUME TypeOK, LendingInv, RefusedInv, FollowUpInv, [Next]_vars
      PROVE  FollowUpInv'
  <2>1. CASE UNCHANGED vars
    <3>1. UNCHANGED <<pc, call, releases, borrowed, ackPc, msgs>>
      BY <2>1 DEF vars, dbVars, restVars, ackVars, unitVars
    <3>2. QED
      BY <1>2, <3>1, FollowUpKept DEF FollowUpInv, Booking, Final, Succeeded
  <2>2. QED
    BY <1>2, <2>1, FollowUpRest, FollowUpUnit, FollowUpAnswer, FollowUpAck,
       FollowUpEnvironment DEF Next
<1>3. FollowUpInv => ReleaseAwaitsBooking
  BY DEF FollowUpInv
<1>4. QED
  BY <1>1, <1>2, <1>3, RefusedStep, TypeCorrect, LendingInvariant, PTL DEF Spec
=============================================================================
