------------------------- MODULE CardInventoryProofs -------------------------
(* Theorems about CardInventory, for any number of names and requests.     *)
EXTENDS CardInventory, FiniteSetTheorems, WellFoundedInduction, TLAPS

USE InventoryAssumption DEF Request, Administrator, history

(* The largest value of a function on a finite set is one of its values.   *)
LEMMA LargestValue ==
    ASSUME NEW S, IsFiniteSet(S), S # {}, NEW f, \A n \in S : f[n] \in Nat
    PROVE  /\ Max({f[n] : n \in S}) \in Nat
           /\ \A n \in S : f[n] <= Max({f[k] : k \in S})
<1> DEFINE above(n) == {k \in S : f[k] > f[n]}
           T == {above(n) : n \in S}
<1>1. T \subseteq FiniteSubsetsOf(S) /\ T # {}
  <2>1. ASSUME NEW n \in S PROVE above(n) \in FiniteSubsetsOf(S)
    <3>1. above(n) \in SUBSET S
      OBVIOUS
    <3>2. IsFiniteSet(above(n))
      BY <3>1, FS_Subset
    <3>3. QED
      BY <3>1, <3>2 DEF FiniteSubsetsOf
  <2>2. QED
    <3> HIDE DEF above
    <3>1. QED
      BY <2>1
<1>2. PICK A \in T : \A B \in T : <<B, A>> \notin StrictSubsetOrdering(S)
  <2> HIDE DEF T
  <2>1. IsWellFoundedOn(StrictSubsetOrdering(S), FiniteSubsetsOf(S))
    BY FS_StrictSubsetOrderingWellFounded
  <2>2. QED
    BY <1>1, <2>1, WFMin
<1>3. PICK n \in S : A = above(n)
  BY <1>2
<1>4. \A k \in S : f[k] <= f[n]
  <2>1. SUFFICES ASSUME NEW k \in S, f[k] > f[n]
                 PROVE  FALSE
    OBVIOUS
  <2>2. above(k) \subseteq above(n) /\ k \in above(n) /\ k \notin above(k)
    BY <2>1
  <2>3. <<above(k), above(n)>> \in StrictSubsetOrdering(S)
    BY <2>2 DEF StrictSubsetOrdering
  <2>4. QED
    BY <1>2, <1>3, <2>3
<1> DEFINE V == {f[k] : k \in S}
<1>5. f[n] \in V /\ \A v \in V : f[n] >= v
  BY <1>4
<1>6. Max(V) \in V /\ \A v \in V : Max(V) >= v
  <2> HIDE DEF V
  <2>1. QED
    BY <1>5 DEF Max
<1>7. QED
  BY <1>6

-----------------------------------------------------------------------------
(* Type correctness.                                                       *)

(* The program starts with well-formed tables, and no rows.                *)
LEMMA InitType == Init => TypeOK
<1>1. AnyName \in Name /\ AnyRow \in Row
  BY DEF AnyName, AnyRow, Row
<1>2. IsFiniteSet({})
  BY FS_EmptySet
<1>3. ASSUME Init
      PROVE  card \in [DOMAIN card -> Row] /\ IsFiniteSet(DOMAIN card)
  BY <1>2, <1>3 DEF Init
<1>4. ASSUME Init
      PROVE  job \in [Writer -> Job]
  BY <1>1, <1>4 DEF Init, Job
<1>5. QED
  BY <1>3, <1>4 DEF Init, TypeOK

(* The position that is chosen for a new card is a natural number.         *)
LEMMA NextPositionType ==
    ASSUME TypeOK
    PROVE  NextPosition \in Nat
<1>1. CASE linked = {}
  BY <1>1 DEF NextPosition
<1>2. CASE linked # {}
  <2> DEFINE pos == [n \in linked |-> card[n].pos]
  <2>1. IsFiniteSet(linked)
    BY FS_Subset DEF TypeOK
  <2>2. \A n \in linked : pos[n] \in Nat
    BY DEF TypeOK, Row
  <2>3. {pos[n] : n \in linked} = {card[n].pos : n \in linked}
    OBVIOUS
  <2>4. Max({pos[n] : n \in linked}) \in Nat
    <3> HIDE DEF pos
    <3>1. QED
      BY <1>2, <2>1, <2>2, LargestValue
  <2>5. Max({card[n].pos : n \in linked}) \in Nat
    BY <2>3, <2>4
  <2>6. QED
    BY <1>2, <2>5 DEF NextPosition
<1>3. QED
  BY <1>1, <1>2

(* A row may be put under any name, and the table stays finite.            *)
LEMMA PutType ==
    ASSUME TypeOK, NEW n \in Name, NEW rw \in Row, Put(n, rw)
    PROVE  /\ card' \in [DOMAIN card' -> Row]
           /\ DOMAIN card' = DOMAIN card \cup {n}
           /\ IsFiniteSet(DOMAIN card')
<1>1. DOMAIN card' = DOMAIN card \cup {n}
  BY DEF Put
<1>2. IsFiniteSet(DOMAIN card \cup {n})
  BY FS_AddElement DEF TypeOK
<1>3. \A k \in DOMAIN card' : card'[k] \in Row
  BY DEF Put, TypeOK
<1>4. card' = [k \in DOMAIN card' |-> card'[k]]
  BY DEF Put
<1>5. QED
  BY <1>1, <1>2, <1>3, <1>4

(* A message to the unit is well-formed if its card and position are.      *)
LEMMA AskType ==
    ASSUME TypeOK, NEW r \in Request, NEW n \in Name, NEW p \in Nat, Ask(r, n, p)
    PROVE  msgs' \subseteq Message
<1>1. [to |-> "unit", req |-> r, card |-> n, pos |-> p, ok |-> FALSE] \in Message
  BY DEF Message
<1>2. QED
  BY <1>1 DEF Ask, TypeOK

(* An administrator's request asks the unit, or comes to its end.          *)
LEMMA AdministratorType ==
    ASSUME TypeOK, NEW r \in Creation \cup Deletion,
           CreateHandler(r) \/ DeleteHandler(r)
    PROVE  TypeOK'
<1>1. pc' \in [Request -> {"new", "read", "saved", "asked", "over"}]
  BY DEF CreateHandler, DeleteHandler, AskUnit, Ask, Goto, TypeOK
<1>2. msgs' \subseteq Message
  <2>1. CASE CreateHandler(r)
    BY <2>1, NextPositionType, AskType DEF CreateHandler, AskUnit, TypeOK
  <2>2. CASE DeleteHandler(r)
    <3>1. \A n \in linked : card[n].pos \in Nat
      BY DEF TypeOK, Row
    <3>2. QED
      BY <2>2, <3>1, AskType DEF DeleteHandler, AskUnit, MayDelete, TypeOK
  <2>3. QED
    BY <2>1, <2>2
<1>3. met' \subseteq SUBSET Administrator
  <2>1. Underway \subseteq Administrator
    BY DEF Underway
  <2>2. met' \subseteq met \cup {{r, q} : q \in Underway}
    BY DEF CreateHandler, DeleteHandler, AskUnit
  <2>3. QED
    BY <2>1, <2>2 DEF TypeOK
<1>4. QED
  BY <1>1, <1>2, <1>3 DEF CreateHandler, DeleteHandler, TypeOK, tables, unit

(* The unit answers with the message it got.                               *)
LEMMA UnitType ==
    ASSUME TypeOK, NEW m \in msgs, StoreCard(m) \/ GetCard(m)
    PROVE  TypeOK'
<1>1. m \in Message
  BY DEF TypeOK
<1>2. \A ok \in BOOLEAN : Answer(m, ok) \subseteq Message
  <2>1. ASSUME NEW ok \in BOOLEAN
        PROVE  [m EXCEPT !.to = "server", !.ok = ok] \in Message
    BY <1>1 DEF Message
  <2>2. \A ok \in BOOLEAN : (HonestUnit => ok) \in BOOLEAN
    OBVIOUS
  <2>3. msgs \subseteq Message
    BY DEF TypeOK
  <2>4. QED
    BY <2>1, <2>2, <2>3 DEF Answer
<1>3. msgs' \subseteq Message
  BY <1>2 DEF StoreCard, GetCard
<1>4. stored' \subseteq Creation \X Nat
  <2>1. m.pos \in Nat
    BY <1>1 DEF Message
  <2>2. CASE StoreCard(m)
    <3>1. <<m.req, m.pos>> \in Creation \X Nat
      BY <2>1, <2>2 DEF StoreCard
    <3>2. stored' \subseteq stored \cup {<<m.req, m.pos>>}
      BY <2>2 DEF StoreCard, unit
    <3>3. QED
      BY <3>1, <3>2 DEF TypeOK
  <2>3. CASE GetCard(m)
    BY <2>3 DEF GetCard, TypeOK, unit
  <2>4. QED
    BY <2>2, <2>3
<1>5. everStored' \subseteq Creation /\ lent' \subseteq Creation
  BY DEF StoreCard, GetCard, TypeOK, unit
<1>6. QED
  BY <1>3, <1>4, <1>5 DEF StoreCard, GetCard, TypeOK, tables

(* The handlers of the unit's answers insert a row with its links, or      *)
(* delete one with them.                                                   *)
LEMMA AnswerType ==
    ASSUME TypeOK, NEW m \in msgs,
           AddCardHandler(m) \/ DeleteCardHandler(m) \/ FetchHandler(m)
    PROVE  TypeOK'
<1>1. m \in Message /\ m.card \in Name /\ m.req \in Request
  BY DEF TypeOK, Message
<1>2. CASE AddCardHandler(m)
  <2>1. CASE UNCHANGED <<card, linked>>
    BY <1>1, <1>2, <2>1 DEF AddCardHandler, Goto, TypeOK, unit
  <2>2. CASE /\ Put(m.card, [id |-> m.req, pos |-> m.pos, available |-> TRUE])
             /\ linked' = linked \cup {m.card}
    <3>1. [id |-> m.req, pos |-> m.pos, available |-> TRUE] \in Row
      BY <1>1, <1>2 DEF AddCardHandler, Row, Message
    <3>2. /\ card' \in [DOMAIN card' -> Row]
          /\ DOMAIN card' = DOMAIN card \cup {m.card}
          /\ IsFiniteSet(DOMAIN card')
      BY <1>1, <2>2, <3>1, PutType
    <3>3. QED
      BY <1>1, <1>2, <2>2, <3>2 DEF AddCardHandler, Goto, TypeOK, unit
  <2>3. QED
    BY <1>2, <2>1, <2>2 DEF AddCardHandler
<1>3. CASE DeleteCardHandler(m)
  <2>1. CASE UNCHANGED tables
    BY <1>1, <1>3, <2>1 DEF DeleteCardHandler, Goto, TypeOK, unit, tables
  <2>2. CASE /\ card' = [n \in DOMAIN card \ {m.card} |-> card[n]]
             /\ linked' = Unlinked(m.card)
             /\ reserved' = reserved \ {m.card}
    <3>1. IsFiniteSet(DOMAIN card \ {m.card})
      BY FS_RemoveElement DEF TypeOK
    <3>2. /\ card' \in [DOMAIN card' -> Row]
          /\ DOMAIN card' = DOMAIN card \ {m.card}
      BY <2>2 DEF TypeOK
    <3>3. QED
      BY <1>1, <1>3, <2>2, <3>1, <3>2
      DEF DeleteCardHandler, Unlinked, Goto, TypeOK, unit
  <2>3. QED
    BY <1>3, <2>1, <2>2 DEF DeleteCardHandler
<1>4. CASE FetchHandler(m)
  <2>1. m.card \in DOMAIN card => card[m.card] \in Row
    BY DEF TypeOK
  <2>2. job' \in [Writer -> Job]
    BY <1>1, <1>4, <2>1 DEF FetchHandler, ReadRow, TypeOK, Job
  <2>3. QED
    BY <1>1, <1>4, <2>2 DEF FetchHandler, ReadRow, Goto, TypeOK, tables, unit
<1>5. QED
  BY <1>2, <1>3, <1>4

(* What a handler writes back is a row, also under a name with a new key.  *)
LEMMA SaveType ==
    ASSUME TypeOK, NEW w \in Writer, WriterSave(w)
    PROVE  TypeOK'
<1> DEFINE j == job[w]
<1>1. j \in Job /\ j.card \in Name /\ j.row \in Row
  BY DEF TypeOK, Job
<1>2. Availability(j) \subseteq BOOLEAN
  BY <1>1 DEF Availability, Row
<1>3. ASSUME NEW a \in BOOLEAN
      PROVE  /\ Written(j, a) \in Row
             /\ OtherKey(j) => [Written(j, a) EXCEPT !.id = card[j.card].id] \in Row
  <2>1. Written(j, a) \in Row
    BY <1>1 DEF Written, Row
  <2>2. QED
    BY <2>1 DEF OtherKey, TypeOK, Row
<1>4. /\ pc' \in [Request -> {"new", "read", "saved", "asked", "over"}]
      /\ clobbered' \in BOOLEAN
  BY DEF WriterSave, Goto, AfterSave, TypeOK
<1>5. CASE UNCHANGED card
  BY <1>4, <1>5 DEF WriterSave, TypeOK, unit
<1>6. CASE \E rw \in Row : Put(j.card, rw)
  <2>1. PICK rw \in Row : Put(j.card, rw)
    BY <1>6
  <2>2. /\ card' \in [DOMAIN card' -> Row]
        /\ DOMAIN card' = DOMAIN card \cup {j.card}
        /\ IsFiniteSet(DOMAIN card')
    BY <1>1, <2>1, PutType
  <2>3. QED
    BY <1>1, <1>4, <2>2 DEF WriterSave, TypeOK, unit
<1>7. QED
  BY <1>2, <1>3, <1>5, <1>6 DEF WriterSave

(* The other steps of a handler that writes rows back.                     *)
LEMMA WriterType ==
    ASSUME TypeOK, NEW w \in Writer,
           WriterRead(w) \/ WriterDispatch(w) \/ WriterAppend(w)
    PROVE  TypeOK'
<1>1. CASE WriterRead(w)
  <2>1. \A n \in DOMAIN card : card[n] \in Row /\ n \in Name
    BY DEF TypeOK
  <2>2. job' \in [Writer -> Job]
    BY <1>1, <2>1 DEF WriterRead, ReadRow, TypeOK, Job
  <2>3. QED
    BY <1>1, <2>2 DEF WriterRead, ReadRow, Goto, TypeOK, tables, unit
<1>2. CASE WriterDispatch(w)
  <2>1. msgs' \subseteq Message
    <3>1. job[w].card \in linked => card[job[w].card].pos \in Nat
      BY DEF TypeOK, Row
    <3>2. QED
      BY <1>2, <3>1, AskType DEF WriterDispatch, TypeOK, Job
  <2>2. QED
    BY <1>2, <2>1 DEF WriterDispatch, Ask, Goto, TypeOK, tables, unit
<1>3. CASE WriterAppend(w)
  BY <1>3 DEF WriterAppend, SameKey, Goto, TypeOK, unit
<1>4. QED
  BY <1>1, <1>2, <1>3

(* In every reachable state a link has its row, a position is a natural    *)
(* number and every message and row is well-formed.                        *)
THEOREM InventoryTypeCorrect == Spec => []TypeOK
<1>1. TypeOK /\ [Next]_vars => TypeOK'
  <2>1. SUFFICES ASSUME TypeOK, [Next]_vars
                 PROVE  TypeOK'
    OBVIOUS
  <2>2. ASSUME NEW m \in msgs, Lose(m)
        PROVE  TypeOK'
    BY <2>1, <2>2 DEF Lose, TypeOK, tables, unit
  <2>3. CASE UNCHANGED vars
    BY <2>1, <2>3 DEF vars, TypeOK, tables, unit
  <2>4. QED
    BY <2>1, <2>2, <2>3, AdministratorType, UnitType, AnswerType, SaveType,
       WriterType DEF Next
<1>2. QED
  BY InitType, <1>1, PTL DEF Spec
-----------------------------------------------------------------------------
(* Cards in the tables were stored.                                        *)

(* Keys appear where the unit reported them, or are passed on.             *)
LEMMA StoredStep ==
    ASSUME TypeOK, StoredInv, HonestUnit, [Next]_vars
    PROVE  StoredInv'
<1>0. /\ \A n \in DOMAIN card : card[n].id \in everStored
      /\ \A w \in Writer : pc[w] \in {"read", "saved"} => job[w].row.id \in everStored
      /\ \A m \in msgs :
            m.to = "server" /\ m.req \in Creation /\ m.ok => m.req \in everStored
  BY DEF StoredInv
<1>1. ASSUME NEW r \in Creation \cup Deletion, CreateHandler(r) \/ DeleteHandler(r)
      PROVE  StoredInv'
  <2>1. \A m \in msgs' : m \in msgs \/ m.to = "unit"
    BY <1>1 DEF CreateHandler, DeleteHandler, AskUnit, Ask
  <2>2. \A w \in Writer : pc'[w] = pc[w]
    BY <1>1 DEF CreateHandler, DeleteHandler, AskUnit, Ask, Goto, TypeOK
  <2>3. QED
    BY <1>0, <1>1, <2>1, <2>2
    DEF CreateHandler, DeleteHandler, StoredInv, tables, unit
<1>2. ASSUME NEW m \in msgs, StoreCard(m) \/ GetCard(m)
      PROVE  StoredInv'
  <2>1. everStored \subseteq everStored'
    BY <1>2 DEF StoreCard, GetCard, unit
  <2>2. ASSUME NEW n \in msgs', n \notin msgs, n.req \in Creation, n.ok
        PROVE  n.req \in everStored'
    <3>1. m \in Message
      BY DEF TypeOK
    <3>2. \A ok \in BOOLEAN : \A k \in Answer(m, ok) :
              k \in msgs \/ (k.req = m.req /\ k.ok = ok)
      BY <3>1 DEF Answer, Message
    <3>3. StoreCard(m)
      BY <1>2, <2>2, <3>1, <3>2 DEF GetCard
    <3>4. msgs' # Answer(m, FALSE)
      BY <2>2, <3>2
    <3>5. everStored' = everStored \cup {m.req} /\ msgs' = Answer(m, TRUE)
      BY <3>3, <3>4 DEF StoreCard
    <3>6. QED
      BY <2>2, <3>2, <3>5
  <2>3. QED
    BY <1>0, <1>2, <2>1, <2>2 DEF StoreCard, GetCard, StoredInv, tables
<1>3. ASSUME NEW m \in msgs, AddCardHandler(m)
      PROVE  StoredInv'
  <2>1. \A w \in Writer : pc'[w] = pc[w]
    BY <1>3 DEF AddCardHandler, Goto, TypeOK
  <2>2. \A n \in DOMAIN card' : card'[n].id \in everStored
    <3>1. CASE UNCHANGED card
      BY <1>0, <3>1
    <3>2. CASE /\ Succeeded(m)
               /\ Put(m.card, [id |-> m.req, pos |-> m.pos, available |-> TRUE])
      BY <1>0, <1>3, <3>2 DEF AddCardHandler, Put, Succeeded
    <3>3. QED
      BY <1>3, <3>1, <3>2 DEF AddCardHandler
  <2>3. QED
    BY <1>0, <1>3, <2>1, <2>2 DEF AddCardHandler, StoredInv, unit
<1>4. ASSUME NEW m \in msgs, DeleteCardHandler(m)
      PROVE  StoredInv'
  <2>1. \A w \in Writer : pc'[w] = pc[w]
    BY <1>4 DEF DeleteCardHandler, Goto, TypeOK
  <2>2. \A n \in DOMAIN card' : n \in DOMAIN card /\ card'[n] = card[n]
    BY <1>4 DEF DeleteCardHandler, tables
  <2>3. QED
    BY <1>0, <1>4, <2>1, <2>2 DEF DeleteCardHandler, StoredInv, unit
<1>5. ASSUME NEW m \in msgs, FetchHandler(m)
      PROVE  StoredInv'
  <2>1. \A w \in Writer : pc'[w] \in {"read", "saved"} => job'[w].row.id \in everStored
    BY <1>0, <1>5 DEF FetchHandler, ReadRow, Goto, TypeOK
  <2>2. QED
    BY <1>0, <1>5, <2>1 DEF FetchHandler, StoredInv, tables, unit
<1>6. ASSUME NEW v \in Writer, WriterSave(v)
      PROVE  StoredInv'
  <2> DEFINE j == job[v]
  <2>1. \A w \in Writer : pc'[w] \in {"read", "saved"} => job'[w].row.id \in everStored
    BY <1>0, <1>6 DEF WriterSave, Goto, TypeOK
  <2>2. j.row \in Row /\ j.row.id \in everStored
    BY <1>0, <1>6 DEF WriterSave, TypeOK, Job
  <2>3. \A a : Written(j, a).id = j.row.id
    BY <2>2 DEF Written, Row
  <2>4. \A n \in DOMAIN card' : card'[n].id \in everStored
    <3>1. CASE UNCHANGED card
      BY <1>0, <3>1
    <3>2. CASE \E a \in Availability(j) : Put(j.card, Written(j, a))
      BY <1>0, <2>2, <2>3, <3>2 DEF Put
    <3>3. ASSUME OtherKey(j), NEW a,
                 Put(j.card, [Written(j, a) EXCEPT !.id = card[j.card].id])
          PROVE  \A n \in DOMAIN card' : card'[n].id \in everStored
      BY <1>0, <2>2, <3>3 DEF Put, OtherKey, Written, Row
    <3>4. QED
      BY <1>6, <3>1, <3>2, <3>3 DEF WriterSave
  <2>5. QED
    BY <1>0, <1>6, <2>1, <2>4 DEF WriterSave, StoredInv, unit
<1>7. ASSUME NEW v \in Writer, WriterRead(v) \/ WriterDispatch(v) \/ WriterAppend(v)
      PROVE  StoredInv'
  <2>1. \A w \in Writer : pc'[w] \in {"read", "saved"} => job'[w].row.id \in everStored
    BY <1>0, <1>7
    DEF WriterRead, ReadRow, WriterDispatch, Ask, WriterAppend, Goto, TypeOK
  <2>2. \A m \in msgs' : m \in msgs \/ m.to = "unit"
    BY <1>7 DEF WriterRead, WriterDispatch, Ask, WriterAppend
  <2>3. QED
    BY <1>0, <1>7, <2>1, <2>2
    DEF WriterRead, WriterDispatch, WriterAppend, StoredInv, tables, unit
<1>8. ASSUME NEW m \in msgs, Lose(m)
      PROVE  StoredInv'
  BY <1>0, <1>8 DEF Lose, StoredInv, tables, unit
<1>9. CASE UNCHANGED vars
  BY <1>0, <1>9 DEF vars, StoredInv, tables, unit
<1>10. QED
  BY <1>1, <1>2, <1>3, <1>4, <1>5, <1>6, <1>7, <1>8, <1>9 DEF Next

LEMMA KeysStored == Spec => []StoredInv
<1>1. Init => StoredInv
  BY DEF Init, StoredInv
<1>2. TypeOK /\ StoredInv /\ [Next]_vars => StoredInv'
  BY StoredStep DEF StoredInv
<1>3. QED
  BY InventoryTypeCorrect, <1>1, <1>2, PTL DEF Spec

(* With an honest unit every card in the tables was put into it, for the   *)
(* request its row comes from.                                             *)
THEOREM TablesMatchUnit == Spec => []AddedWasStored
<1>1. TypeOK /\ StoredInv => AddedWasStored
  BY DEF TypeOK, StoredInv, AddedWasStored
<1>2. QED
  BY InventoryTypeCorrect, KeysStored, <1>1, PTL
-----------------------------------------------------------------------------
(* Positions and capacity.                                                 *)

(* The position that is chosen for a new card lies above all others.       *)
LEMMA NextPositionAbove ==
    ASSUME TypeOK
    PROVE  \A n \in linked : card[n].pos < NextPosition
<1>1. SUFFICES ASSUME linked # {}
               PROVE  \A n \in linked : card[n].pos < NextPosition
  OBVIOUS
<1> DEFINE pos == [n \in linked |-> card[n].pos]
<1>2. IsFiniteSet(linked)
  BY FS_Subset DEF TypeOK
<1>3. \A n \in linked : pos[n] \in Nat
  BY DEF TypeOK, Row
<1>4. {pos[n] : n \in linked} = {card[n].pos : n \in linked}
  OBVIOUS
<1>5. /\ Max({pos[n] : n \in linked}) \in Nat
      /\ \A n \in linked : pos[n] <= Max({pos[k] : k \in linked})
  <2> HIDE DEF pos
  <2>1. QED
    BY <1>1, <1>2, <1>3, LargestValue
<1>6. NextPosition = Max({pos[n] : n \in linked}) + 1
  BY <1>1, <1>4 DEF NextPosition
<1>7. \A n \in linked : card[n].pos = pos[n]
  OBVIOUS
<1>8. QED
  <2> HIDE DEF pos
  <2>1. QED
    BY <1>3, <1>5, <1>6, <1>7

(* Rows in the table and in hands keep their keys' positions as long as    *)
(* each has the key and the position of one that was there before.         *)
LEMMA CopiesStep ==
    ASSUME CopiesInv,
           \A a \in Copies' : \E b \in Copies : a.id = b.id,
           clobbered' \/ \A a \in Copies' : \E b \in Copies :
                             a.id = b.id /\ a.pos = b.pos,
           \A b \in Copies : pc'[b.id] = pc[b.id],
           clobbered => clobbered'
    PROVE  CopiesInv'
  BY DEF CopiesInv

(* While the links and the rows they lead to stay, so do the room and the  *)
(* positions of a creation under way.                                      *)
LEMMA LinksStep ==
    ASSUME TypeOK, RoomInv, CapacityRespected, PositionsDistinct,
           linked' = linked, met' = met, clobbered => clobbered',
           clobbered' \/ \A n \in linked : /\ card'[n].pos = card[n].pos
                                           /\ card'[n].id = card[n].id,
           \A m \in msgs' : m.req \in Creation =>
               \E k \in msgs : k.req = m.req /\ k.pos = m.pos
    PROVE  RoomInv' /\ CapacityRespected' /\ PositionsDistinct'
<1>1. RoomInv'
  <2>1. ASSUME NEW m \in msgs', m.req \in Creation
        PROVE  /\ met' = {} => Cardinality(linked') < Capacity
               /\ clobbered' \/ \A n \in linked' :
                      card'[n].pos < m.pos \/ {card'[n].id, m.req} \in met'
    <3>1. PICK k \in msgs : k.req = m.req /\ k.pos = m.pos
      BY <2>1
    <3>2. QED
      BY <2>1, <3>1 DEF RoomInv
  <2>2. QED
    BY <2>1 DEF RoomInv
<1>2. QED
  BY <1>1 DEF CapacityRespected, PositionsDistinct

(* An administrator's request meets those under way, and finds a position  *)
(* above all others, and room if there is no other.                        *)
LEMMA AdministratorTurn ==
    ASSUME TypeOK, TurnsInv, NEW r \in Creation \cup Deletion,
           CreateHandler(r) \/ DeleteHandler(r)
    PROVE  TurnsInv'
<1>1. /\ MetInv /\ RoomInv /\ CopiesInv
      /\ CapacityRespected /\ PositionsDistinct
  BY DEF TurnsInv
<1>2. /\ pc[r] = "new"
      /\ \A q \in Request : q # r => pc'[q] = pc[q]
      /\ UNCHANGED <<card, linked, job, clobbered>>
      /\ met \subseteq met'
  BY DEF CreateHandler, DeleteHandler, AskUnit, Ask, Goto, TypeOK, tables
<1>3. ASSUME NEW m \in msgs', m \notin msgs
      PROVE  /\ \A k \in msgs' : k \in msgs \/ k = m
             /\ m.req = r /\ pc'[r] = "asked"
             /\ \A k \in msgs : k.req \in Administrator => {r, k.req} \in met'
             /\ r \in Creation => ~Full /\ m.pos = NextPosition
  <2>1. PICK n, p : /\ AskUnit(r, n, p)
                    /\ r \in Creation => ~Full /\ p = NextPosition
    BY <1>3 DEF CreateHandler, DeleteHandler
  <2>2. m = [to |-> "unit", req |-> r, card |-> n, pos |-> p, ok |-> FALSE]
    BY <1>3, <2>1 DEF AskUnit, Ask
  <2>3. \A k \in msgs : k.req \in Administrator => k.req \in Underway
    BY DEF Underway
  <2>4. QED
    BY <2>1, <2>2, <2>3 DEF AskUnit, Ask, Goto, TypeOK
<1>4. \A m \in msgs : m.req \in Administrator => m.req # r
  BY <1>1, <1>2 DEF MetInv
<1>5. MetInv'
  <2>1. ASSUME NEW m \in msgs', m.req \in Administrator
        PROVE  pc'[m.req] = "asked"
    BY <1>1, <1>2, <1>3, <1>4, <2>1 DEF MetInv
  <2>2. ASSUME NEW m \in msgs', NEW k \in msgs', m # k,
               m.req \in Administrator, k.req \in Administrator
        PROVE  m.req # k.req /\ {m.req, k.req} \in met'
    <3>1. CASE m \in msgs /\ k \in msgs
      BY <1>1, <1>2, <2>2, <3>1 DEF MetInv
    <3>2. CASE m \notin msgs
      BY <1>3, <1>4, <2>2, <3>2
    <3>3. CASE k \notin msgs
      <4>1. m \in msgs /\ k.req = r /\ {r, m.req} \in met'
        BY <1>3, <2>2, <3>3
      <4>2. {r, m.req} = {m.req, r}
        OBVIOUS
      <4>3. QED
        BY <1>4, <2>2, <4>1, <4>2
    <3>4. QED
      BY <3>1, <3>2, <3>3
  <2>3. QED
    BY <2>1, <2>2 DEF MetInv
<1>6. CopiesInv'
  <2>1. Copies' = Copies
    BY <1>2 DEF Copies
  <2>2. \A a \in Copies : a.id \in Creation
    BY DEF Copies, TypeOK, Job, Row
  <2>3. QED
    BY <1>1, <1>2, <2>1, <2>2 DEF CopiesInv
<1>7. RoomInv'
  <2>1. ASSUME NEW m \in msgs', m.req \in Creation
        PROVE  /\ met' = {} => Cardinality(linked') < Capacity
               /\ clobbered' \/ \A n \in linked' :
                      card'[n].pos < m.pos \/ {card'[n].id, m.req} \in met'
    <3>1. CASE m \in msgs
      BY <1>1, <1>2, <2>1, <3>1 DEF RoomInv
    <3>2. CASE m \notin msgs
      <4>1. ~Full /\ m.pos = NextPosition
        BY <1>3, <2>1, <3>2
      <4>2. Cardinality(linked) \in Nat
        BY FS_Subset, FS_CardinalityType DEF TypeOK
      <4>3. met' = {} => Cardinality(linked) < Capacity
        BY <1>1, <1>2, <4>1, <4>2 DEF Full, CapacityRespected
      <4>4. QED
        BY <1>2, <4>1, <4>3, NextPositionAbove
    <3>3. QED
      BY <3>1, <3>2
  <2>2. QED
    BY <2>1 DEF RoomInv
<1>8. CapacityRespected' /\ PositionsDistinct'
  BY <1>1, <1>2 DEF CapacityRespected, PositionsDistinct
<1>9. QED
  BY <1>5, <1>6, <1>7, <1>8 DEF TurnsInv

(* The unit answers a message with its own request and position.           *)
LEMMA UnitTurn ==
    ASSUME TypeOK, TurnsInv, NEW m \in msgs, StoreCard(m) \/ GetCard(m)
    PROVE  TurnsInv'
<1>1. /\ MetInv /\ RoomInv /\ CopiesInv
      /\ CapacityRespected /\ PositionsDistinct
  BY DEF TurnsInv
<1>2. UNCHANGED <<card, linked, pc, job, clobbered, met>>
  BY DEF StoreCard, GetCard, tables
<1>3. PICK ok \in BOOLEAN : msgs' = Answer(m, ok)
  BY DEF StoreCard, GetCard
<1> DEFINE k == [m EXCEPT !.to = "server", !.ok = HonestUnit => ok]
<1>4. msgs' = (msgs \ {m}) \cup {k} /\ k.req = m.req /\ k.pos = m.pos
  BY <1>3 DEF Answer, TypeOK, Message
<1> HIDE DEF k
<1>5. MetInv'
  <2>1. \A l \in msgs' : l.req \in Administrator => pc'[l.req] = "asked"
    BY <1>1, <1>2, <1>4 DEF MetInv
  <2>2. ASSUME NEW l \in msgs', NEW q \in msgs', l # q,
               l.req \in Administrator, q.req \in Administrator
        PROVE  l.req # q.req /\ {l.req, q.req} \in met
    <3>1. PICK a \in msgs : a.req = l.req /\ (a = l \/ (a = m /\ l = k))
      BY <1>4, <2>2
    <3>2. PICK b \in msgs : b.req = q.req /\ (b = q \/ (b = m /\ q = k))
      BY <1>4, <2>2
    <3>3. CASE a = b
      BY <1>4, <2>2, <3>1, <3>2, <3>3
    <3>4. CASE a # b
      BY <1>1, <2>2, <3>1, <3>2, <3>4 DEF MetInv
    <3>5. QED
      BY <3>3, <3>4
  <2>3. QED
    BY <1>2, <2>1, <2>2 DEF MetInv
<1>6. RoomInv' /\ CapacityRespected' /\ PositionsDistinct'
  BY <1>1, <1>2, <1>4, LinksStep
<1>7. CopiesInv'
  BY <1>1, <1>2 DEF CopiesInv, Copies
<1>8. QED
  BY <1>5, <1>6, <1>7 DEF TurnsInv

(* A card that is in takes the position it was promised; another creation  *)
(* under way has met this one.                                             *)
LEMMA AddTurn ==
    ASSUME TypeOK, TurnsInv, NEW m \in msgs, AddCardHandler(m)
    PROVE  TurnsInv'
<1>1. /\ MetInv /\ RoomInv /\ CopiesInv
      /\ CapacityRespected /\ PositionsDistinct
  BY DEF TurnsInv
<1>2. /\ m \in Message /\ m.req \in Creation /\ m.req \notin Writer
      /\ msgs' = msgs \ {m} /\ UNCHANGED <<job, clobbered, met>>
      /\ pc' = [pc EXCEPT ![m.req] = "over"]
  BY DEF AddCardHandler, Goto, TypeOK
<1>3. \A k \in msgs' : k.req \in Administrator =>
          k \in msgs /\ k.req # m.req /\ {m.req, k.req} \in met
  BY <1>1, <1>2 DEF MetInv
<1>4. \A q \in Request : q # m.req => pc'[q] = pc[q]
  BY <1>2 DEF TypeOK
<1>5. pc'[m.req] = "over" /\ pc[m.req] = "asked"
  BY <1>1, <1>2 DEF TypeOK, MetInv
<1>10. MetInv'
  <2>1. \A k \in msgs' : k.req \in Administrator => pc'[k.req] = "asked"
    BY <1>1, <1>3, <1>4 DEF MetInv
  <2>2. QED
    BY <1>1, <1>2, <2>1 DEF MetInv
<1>6. \A a \in Copies : a.id \in Creation /\ a.id # m.req
  BY <1>1, <1>5 DEF CopiesInv, Copies, TypeOK, Job, Row
<1>7. CASE UNCHANGED <<card, linked>>
  <2>1. Copies' = Copies
    BY <1>2, <1>4, <1>7 DEF Copies
  <2>2. CopiesInv'
    BY <1>1, <1>2, <1>4, <1>6, <2>1 DEF CopiesInv
  <2>3. RoomInv'
    BY <1>1, <1>2, <1>7 DEF RoomInv
  <2>4. QED
    BY <1>1, <1>2, <1>10, <1>7, <2>2, <2>3
    DEF TurnsInv, CapacityRespected, PositionsDistinct
<1>8. CASE /\ m.card \notin DOMAIN card
           /\ Put(m.card, [id |-> m.req, pos |-> m.pos, available |-> TRUE])
           /\ linked' = linked \cup {m.card}
  <2> DEFINE new == [id |-> m.req, pos |-> m.pos, available |-> TRUE]
  <2>1. /\ DOMAIN card' = DOMAIN card \cup {m.card}
        /\ card'[m.card] = new
        /\ \A n \in DOMAIN card : card'[n] = card[n]
    BY <1>8 DEF Put
  <2>2. Copies' = Copies \cup {new}
    <3>1. {card'[n] : n \in DOMAIN card'} = {card[n] : n \in DOMAIN card} \cup {new}
      <4> HIDE DEF new
      <4>1. \A x \in {card'[n] : n \in DOMAIN card'} :
                x \in {card[n] : n \in DOMAIN card} \cup {new}
        BY <2>1
      <4>2. \A x \in {card[n] : n \in DOMAIN card} \cup {new} :
                x \in {card'[n] : n \in DOMAIN card'}
        BY <2>1
      <4>3. QED
        BY <4>1, <4>2
    <3>2. {v \in Writer : pc'[v] \in {"read", "saved"}}
              = {v \in Writer : pc[v] \in {"read", "saved"}}
      BY <1>2, <1>4
    <3>3. {job'[w].row : w \in {v \in Writer : pc'[v] \in {"read", "saved"}}}
              = {job[w].row : w \in {v \in Writer : pc[v] \in {"read", "saved"}}}
      BY <1>2, <3>2
    <3>4. QED
      BY <3>1, <3>3 DEF Copies
  <2>3. CopiesInv'
    BY <1>1, <1>2, <1>4, <1>5, <1>6, <2>2 DEF CopiesInv
  <2>4. CapacityRespected'
    <3>0. SUFFICES ASSUME met = {}
                   PROVE  Cardinality(linked') <= Capacity
      BY <1>2 DEF CapacityRespected
    <3>1. IsFiniteSet(linked)
      BY FS_Subset DEF TypeOK
    <3>2. Cardinality(linked \cup {m.card}) = Cardinality(linked) + 1
      <4>1. m.card \notin linked
        BY <1>8 DEF TypeOK
      <4>2. QED
        BY <3>1, <4>1, FS_AddElement
    <3>3. Cardinality(linked) < Capacity /\ Cardinality(linked) \in Nat
      BY <1>1, <1>2, <3>0, <3>1, FS_CardinalityType DEF RoomInv
    <3>4. QED
      BY <1>8, <3>2, <3>3
  <2>5. PositionsDistinct'
    <3>1. SUFFICES ASSUME ~clobbered, NEW a \in linked', NEW b \in linked',
                          card'[a].pos = card'[b].pos
                   PROVE  a = b \/ {card'[a].id, card'[b].id} \in met
      BY <1>2 DEF PositionsDistinct
    <3>2. \A n \in linked : n \in DOMAIN card /\ card'[n] = card[n] /\ card[n].pos \in Nat
      BY <2>1 DEF TypeOK, Row
    <3>3. \A n \in linked : card'[n].pos < m.pos \/ {card'[n].id, m.req} \in met
      BY <1>1, <1>2, <3>1, <3>2 DEF RoomInv
    <3>4. card'[m.card].pos = m.pos /\ card'[m.card].id = m.req
      BY <2>1
    <3>5. CASE a \in linked /\ b \in linked
      BY <1>1, <3>1, <3>2, <3>5 DEF PositionsDistinct
    <3>6. CASE a \in linked /\ b = m.card
      BY <3>1, <3>2, <3>3, <3>4, <3>6
    <3>7. CASE a = m.card /\ b \in linked
      <4>1. {card'[b].id, m.req} = {m.req, card'[b].id}
        OBVIOUS
      <4>2. QED
        BY <3>1, <3>2, <3>3, <3>4, <3>7, <4>1
    <3>8. QED
      BY <1>8, <3>1, <3>5, <3>6, <3>7
  <2>6. RoomInv'
    <3>1. \A n \in linked : n \in DOMAIN card /\ card'[n] = card[n]
      BY <2>1 DEF TypeOK
    <3>2. SUFFICES ASSUME NEW k \in msgs', k.req \in Creation
                   PROVE  /\ met' # {}
                          /\ clobbered' \/ \A n \in linked' :
                                 card'[n].pos < k.pos \/ {card'[n].id, k.req} \in met'
      BY DEF RoomInv
    <3>3. k \in msgs /\ {m.req, k.req} \in met
      BY <1>3, <3>2
    <3>4. clobbered \/ \A n \in linked :
              card[n].pos < k.pos \/ {card[n].id, k.req} \in met
      BY <1>1, <3>2, <3>3 DEF RoomInv
    <3>5. card'[m.card].id = m.req
      BY <2>1
    <3>6. QED
      BY <1>2, <1>8, <3>1, <3>3, <3>4, <3>5
  <2>7. QED
    BY <1>10, <2>3, <2>4, <2>5, <2>6 DEF TurnsInv
<1>9. QED
  BY <1>7, <1>8 DEF AddCardHandler

(* A deletion makes room, and leaves the other cards where they are.       *)
LEMMA DeleteTurn ==
    ASSUME TypeOK, TurnsInv, NEW m \in msgs, DeleteCardHandler(m)
    PROVE  TurnsInv'
<1>1. /\ MetInv /\ RoomInv /\ CopiesInv
      /\ CapacityRespected /\ PositionsDistinct
  BY DEF TurnsInv
<1>2. /\ m.req \in Deletion /\ m.req \notin Writer
      /\ msgs' = msgs \ {m} /\ UNCHANGED <<job, clobbered, met>>
      /\ \A q \in Request : q # m.req => pc'[q] = pc[q]
  BY DEF DeleteCardHandler, Goto, TypeOK
<1>3. MetInv'
  <2>1. \A k \in msgs' : k.req \in Administrator => pc'[k.req] = "asked"
    BY <1>1, <1>2 DEF MetInv, TypeOK, Message
  <2>2. QED
    BY <1>1, <1>2, <2>1 DEF MetInv
<1>4. /\ linked' \subseteq linked
      /\ \A n \in DOMAIN card' : n \in DOMAIN card /\ card'[n] = card[n]
      /\ \A n \in linked' : n \in DOMAIN card'
  BY DEF DeleteCardHandler, Unlinked, TypeOK, tables
<1>5. CopiesInv'
  <2>1. \A a \in Copies' : a \in Copies
    BY <1>2, <1>4 DEF Copies
  <2>2. \A a \in Copies : a.id \in Creation
    BY DEF Copies, TypeOK, Job, Row
  <2>3. \A b \in Copies : pc'[b.id] = pc[b.id]
    BY <1>2, <2>2
  <2>4. QED
    BY <1>1, <1>2, <2>1, <2>3, CopiesStep
<1>6. CapacityRespected' /\ RoomInv'
  <2>1. IsFiniteSet(linked) /\ Cardinality(linked) \in Nat
    BY FS_Subset, FS_CardinalityType DEF TypeOK
  <2>2. Cardinality(linked') <= Cardinality(linked) /\ Cardinality(linked') \in Nat
    BY <1>4, <2>1, FS_Subset, FS_CardinalityType
  <2>3. CapacityRespected'
    BY <1>1, <1>2, <2>1, <2>2 DEF CapacityRespected
  <2>4. RoomInv'
    <3>1. ASSUME NEW k \in msgs', k.req \in Creation
          PROVE  /\ met' = {} => Cardinality(linked') < Capacity
                 /\ clobbered' \/ \A n \in linked' :
                        card'[n].pos < k.pos \/ {card'[n].id, k.req} \in met'
      BY <1>1, <1>2, <1>4, <2>1, <2>2, <3>1 DEF RoomInv
    <3>2. QED
      BY <3>1 DEF RoomInv
  <2>5. QED
    BY <2>3, <2>4
<1>7. PositionsDistinct'
  BY <1>1, <1>2, <1>4 DEF PositionsDistinct
<1>8. QED
  BY <1>3, <1>5, <1>6, <1>7 DEF TurnsInv

(* A handler writes back the key and the position it has read, and below a *)
(* name that has no link, or whose link leads to a copy of the same row.   *)
LEMMA SaveTurn ==
    ASSUME TypeOK, TurnsInv, NEW w \in Writer, WriterSave(w)
    PROVE  TurnsInv'
<1> DEFINE j == job[w]
<1>1. /\ MetInv /\ RoomInv /\ CopiesInv
      /\ CapacityRespected /\ PositionsDistinct
  BY DEF TurnsInv
<1>2. /\ pc[w] = "read" /\ UNCHANGED <<linked, job, msgs, met>>
      /\ clobbered => clobbered'
      /\ \A q \in Request : q # w => pc'[q] = pc[q]
  BY DEF WriterSave, Goto, TypeOK, unit
<1>3. j.row \in Row /\ j.row \in Copies
  BY <1>2 DEF Copies, TypeOK, Job
<1>4. /\ \A n \in DOMAIN card' :
            \/ n \in DOMAIN card /\ card'[n] = card[n]
            \/ /\ n = j.card /\ ~OtherKey(j)
               /\ card'[n].id = j.row.id /\ card'[n].pos = j.row.pos
            \/ n = j.card /\ OtherKey(j) /\ clobbered' /\ card'[n].id = card[n].id
      /\ DOMAIN card \subseteq DOMAIN card'
  <2>1. \A a : /\ Written(j, a).id = j.row.id /\ Written(j, a).pos = j.row.pos
               /\ \A i : [Written(j, a) EXCEPT !.id = i].id = i
    BY <1>3 DEF Written, Row
  <2>2. CASE UNCHANGED card
    BY <2>2
  <2>3. CASE ~OtherKey(j) /\ \E a \in Availability(j) : Put(j.card, Written(j, a))
    BY <2>1, <2>3 DEF Put
  <2>4. CASE /\ OtherKey(j) /\ clobbered'
             /\ \E a \in Availability(j) :
                   Put(j.card, [Written(j, a) EXCEPT !.id = card[j.card].id])
    BY <2>1, <2>4 DEF Put, OtherKey
  <2>5. QED
    BY <2>2, <2>3, <2>4 DEF WriterSave
<1>5. clobbered' \/ \A n \in linked : /\ card'[n].pos = card[n].pos
                                      /\ card'[n].id = card[n].id
  <2>1. SUFFICES ASSUME ~clobbered', NEW n \in linked
                 PROVE  card'[n].pos = card[n].pos /\ card'[n].id = card[n].id
    OBVIOUS
  <2>2. n \in DOMAIN card /\ n \in DOMAIN card' /\ card[n] \in Copies
    BY <1>4 DEF TypeOK, Copies
  <2>3. CASE /\ n = j.card /\ ~OtherKey(j)
             /\ card'[n].id = j.row.id /\ card'[n].pos = j.row.pos
    BY <1>1, <1>2, <1>3, <2>1, <2>2, <2>3 DEF OtherKey, CopiesInv
  <2>4. QED
    BY <1>4, <2>1, <2>2, <2>3
<1>6. RoomInv' /\ CapacityRespected' /\ PositionsDistinct'
  BY <1>1, <1>2, <1>5, LinksStep
<1>7. CopiesInv'
  <2>1. ASSUME NEW a \in Copies'
        PROVE  \E b \in Copies : a.id = b.id /\ (clobbered' \/ a.pos = b.pos)
    <3>1. CASE \E n \in DOMAIN card' : a = card'[n]
      <4>1. PICK n \in DOMAIN card' : a = card'[n]
        BY <3>1
      <4>2. n \in DOMAIN card => card[n] \in Copies
        BY DEF Copies
      <4>3. OtherKey(j) => j.card \in DOMAIN card
        BY DEF OtherKey
      <4>4. QED
        BY <1>3, <1>4, <4>1, <4>2, <4>3
    <3>2. CASE \E v \in Writer : pc'[v] \in {"read", "saved"} /\ a = job'[v].row
      <4>1. PICK v \in Writer : pc'[v] \in {"read", "saved"} /\ a = job'[v].row
        BY <3>2
      <4>2. pc[v] \in {"read", "saved"} /\ job[v].row = a
        BY <1>2, <4>1
      <4>3. QED
        BY <4>2 DEF Copies
    <3>3. QED
      BY <3>1, <3>2 DEF Copies
  <2>2. \A b \in Copies : b.id \in Creation
    BY DEF Copies, TypeOK, Job, Row
  <2>3. \A b \in Copies : pc'[b.id] = pc[b.id]
    BY <1>2, <2>2
  <2>4. QED
    BY <1>1, <1>2, <2>1, <2>3, CopiesStep
<1>8. QED
  BY <1>1, <1>2, <1>6, <1>7 DEF TurnsInv, MetInv

(* The other steps of handlers that write rows back: they read a row, ask  *)
(* the unit to give a card, or end.                                        *)
LEMMA WriterTurn ==
    ASSUME TypeOK, TurnsInv,
           \/ \E w \in Writer : WriterRead(w) \/ WriterDispatch(w) \/ WriterAppend(w)
           \/ \E m \in msgs : FetchHandler(m) \/ Lose(m)
    PROVE  TurnsInv'
<1>1. /\ MetInv /\ RoomInv /\ CopiesInv
      /\ CapacityRespected /\ PositionsDistinct
  BY DEF TurnsInv
<1> DEFINE Reads ==
      \A v \in Writer : pc'[v] \in {"read", "saved"} =>
          \/ pc[v] \in {"read", "saved"} /\ job'[v].row = job[v].row
          \/ \E n \in DOMAIN card : job'[v].row = card[n]
<1> DEFINE Asks ==
      /\ UNCHANGED <<card, linked, clobbered, met>>
      /\ \A k \in msgs' : k \in msgs \/ k.req \in Writer
      /\ \A q \in Administrator : pc'[q] = pc[q]
<1>2. Asks /\ Reads
  <2>1. ASSUME NEW w \in Writer, NEW n \in DOMAIN card, NEW kind, ReadRow(w, kind, n)
        PROVE  (\A q \in Administrator : pc'[q] = pc[q]) /\ Reads
    <3>1. /\ w \notin Administrator /\ w \in Request
          /\ pc' = [pc EXCEPT ![w] = "read"]
          /\ job' = [job EXCEPT ![w] = [kind |-> kind, card |-> n, row |-> card[n]]]
      BY <2>1, InventoryAssumption DEF ReadRow, Goto, Request
    <3>2. \A v \in Writer : v # w => pc'[v] = pc[v] /\ job'[v] = job[v]
      BY <3>1 DEF TypeOK
    <3>3. job'[w].row = card[n]
      BY <3>1 DEF TypeOK
    <3>4. QED
      BY <3>1, <3>2, <3>3 DEF TypeOK
  <2>2. ASSUME NEW w \in Writer, NEW p, Goto(w, p), UNCHANGED job,
               p \in {"read", "saved"} => pc[w] \in {"read", "saved"}
        PROVE  (\A q \in Administrator : pc'[q] = pc[q]) /\ Reads
    BY <2>2, InventoryAssumption DEF Goto, TypeOK, Request
  <2>3. ASSUME NEW w \in Writer, WriterRead(w)
        PROVE  Asks /\ Reads
    <3>1. PICK n \in DOMAIN card, kind \in Kind : ReadRow(w, kind, n)
      BY <2>3 DEF WriterRead
    <3>2. UNCHANGED <<card, linked, msgs, clobbered, met>>
      BY <2>3 DEF WriterRead, tables
    <3>3. QED
      BY <2>1, <3>1, <3>2
  <2>4. ASSUME NEW w \in Writer, WriterDispatch(w)
        PROVE  Asks /\ Reads
    <3>1. /\ UNCHANGED <<card, linked, job, clobbered, met>>
          /\ Goto(w, "asked") \/ Goto(w, "over")
          /\ \A k \in msgs' : k \in msgs \/ k.req = w
      BY <2>4 DEF WriterDispatch, Ask, tables
    <3>2. QED
      BY <2>2, <3>1
  <2>5. ASSUME NEW w \in Writer, WriterAppend(w)
        PROVE  Asks /\ Reads
    <3>1. UNCHANGED <<card, linked, job, msgs, clobbered, met>> /\ Goto(w, "over")
      BY <2>5 DEF WriterAppend
    <3>2. QED
      BY <2>2, <3>1
  <2>6. ASSUME NEW m \in msgs, FetchHandler(m)
        PROVE  Asks /\ Reads
    <3>1. /\ UNCHANGED <<card, linked, clobbered, met>> /\ m.req \in Writer
          /\ \A k \in msgs' : k \in msgs
          /\ \/ m.card \in DOMAIN card /\ ReadRow(m.req, "ack", m.card)
             \/ Goto(m.req, "over") /\ UNCHANGED job
      BY <2>6 DEF FetchHandler, tables
    <3>2. QED
      BY <2>1, <2>2, <3>1
  <2>7. ASSUME NEW m \in msgs, Lose(m)
        PROVE  Asks /\ Reads
    BY <2>7 DEF Lose, tables
  <2>8. QED
    BY <2>3, <2>4, <2>5, <2>6, <2>7
<1>3. MetInv'
  <2>1. \A m \in msgs' : m.req \in Administrator => m \in msgs
    BY <1>2
  <2>2. QED
    BY <1>1, <1>2, <2>1 DEF MetInv
<1>4. RoomInv' /\ CapacityRespected' /\ PositionsDistinct'
  BY <1>1, <1>2, LinksStep
<1>5. CopiesInv'
  <2>2. \A a \in Copies' : a \in Copies
    BY <1>2 DEF Copies
  <2>3. \A b \in Copies : b.id \in Creation
    BY DEF Copies, TypeOK, Job, Row
  <2>4. QED
    BY <1>1, <1>2, <2>2, <2>3, CopiesStep
<1>6. QED
  BY <1>3, <1>4, <1>5 DEF TurnsInv

(* The invariant behind positions and capacity holds.                      *)
LEMMA TurnsInvariant == Spec => []TurnsInv
<1>1. Init => TurnsInv
  <2>1. Cardinality({}) = 0
    BY FS_EmptySet
  <2>2. QED
    BY <2>1 DEF Init, TurnsInv, MetInv, RoomInv, CopiesInv, Copies,
                CapacityRespected, PositionsDistinct
<1>2. TypeOK /\ TurnsInv /\ [Next]_vars => TurnsInv'
  <2>1. SUFFICES ASSUME TypeOK, TurnsInv, [Next]_vars
                 PROVE  TurnsInv'
    BY DEF TurnsInv
  <2>2. CASE UNCHANGED vars
    <3>1. Copies' = Copies
      BY <2>2 DEF vars, tables, Copies
    <3>2. QED
      BY <2>1, <2>2, <3>1
      DEF vars, tables, TurnsInv, MetInv, RoomInv, CopiesInv, CapacityRespected,
          PositionsDistinct
  <2>3. QED
    BY <2>1, <2>2, AdministratorTurn, UnitTurn, AddTurn, DeleteTurn, SaveTurn,
       WriterTurn DEF Next
<1>3. QED
  BY InventoryTypeCorrect, <1>1, <1>2, PTL DEF Spec

(* Only cards whose creations were under way at the same time get the same *)
(* position, as long as no row is overwritten with an earlier card's.      *)
THEOREM PositionsStayDistinct ==
    Spec => []PositionsDistinct
<1>1. TurnsInv => PositionsDistinct
  BY DEF TurnsInv
<1>2. QED
  BY TurnsInvariant, <1>1, PTL

(* The unit has more cards than its capacity only if requests of two       *)
(* administrators were under way at the same time.                         *)
THEOREM CapacityKept ==
    Spec => []CapacityRespected
<1>1. TurnsInv => CapacityRespected
  BY DEF TurnsInv
<1>2. QED
  BY TurnsInvariant, <1>1, PTL

-----------------------------------------------------------------------------
(* A card that is out is not deleted, if the unit reports what it did and  *)
(* no other administrator came between.                                    *)

(* A step that moves no card, no link and no row of a link, and asks the   *)
(* unit for no administrator, leaves everything in its place.              *)
LEMMA PlacesKept ==
    ASSUME TypeOK, OnceInv, clobbered \/ (PlaceInv /\ TakenInv),
           UNCHANGED unit, linked' = linked, met' = met, clobbered => clobbered',
           clobbered' \/ \A n \in linked : /\ card'[n].pos = card[n].pos
                                           /\ card'[n].id = card[n].id,
           \A m \in msgs' : m \in msgs \/ m.req \in Writer,
           \A q \in Creation : pc'[q] = pc[q]
    PROVE  OnceInv' /\ (clobbered' \/ (PlaceInv' /\ TakenInv'))
<1>1. \A m \in msgs' : m.req \in Creation \cup Deletion => m \in msgs
  BY InventoryAssumption
<1>2. UNCHANGED <<stored, everStored, lent>>
  BY DEF unit
<1>3. OnceInv'
  BY <1>1, <1>2 DEF OnceInv
<1>4. SUFFICES ASSUME ~clobbered'
               PROVE  PlaceInv' /\ TakenInv'
  BY <1>3
<1>5. PlaceInv'
  BY <1>1, <1>2, <1>4 DEF PlaceInv
<1>6. TakenInv'
  <2>1. \A q : Met(q)' = Met(q)
    BY DEF Met
  <2>2. SUFFICES ASSUME NEW m \in msgs', m.req \in Deletion, ~Met(m.req)
                 PROVE  /\ m.card \in linked'
                        /\ m.to = "unit" => m.pos = card'[m.card].pos
                        /\ m.to = "server" /\ m.ok =>
                              \/ Met(card'[m.card].id)
                              \/ /\ card'[m.card].id \notin lent
                                 /\ \A s \in stored : s[1] # card'[m.card].id
    BY <1>2, <2>1 DEF TakenInv
  <2>3. m \in msgs
    BY <1>1, <2>2
  <2>4. /\ m.card \in linked
        /\ m.to = "unit" => m.pos = card[m.card].pos
        /\ m.to = "server" /\ m.ok =>
              \/ Met(card[m.card].id)
              \/ /\ card[m.card].id \notin lent
                 /\ \A s \in stored : s[1] # card[m.card].id
    BY <1>4, <2>2, <2>3 DEF TakenInv
  <2>5. card'[m.card].pos = card[m.card].pos /\ card'[m.card].id = card[m.card].id
    BY <1>4, <2>4
  <2>6. QED
    BY <2>4, <2>5
<1>7. QED
  BY <1>5, <1>6

(* An administrator asks for a card that has not been in yet, or to take   *)
(* out the one at the position of a linked row.                            *)
LEMMA AdministratorAsks ==
    ASSUME TypeOK, OnceInv, clobbered \/ (PlaceInv /\ TakenInv),
           NEW r \in Creation \cup Deletion, CreateHandler(r) \/ DeleteHandler(r)
    PROVE  OnceInv' /\ (clobbered' \/ (PlaceInv' /\ TakenInv'))
<1>1. /\ pc[r] = "new" /\ pc'[r] # "new"
      /\ \A q \in Request : q # r => pc'[q] = pc[q]
      /\ UNCHANGED <<card, linked, stored, everStored, lent, clobbered>>
      /\ met \subseteq met'
  BY DEF CreateHandler, DeleteHandler, AskUnit, Ask, Goto, TypeOK, tables, unit
<1>2. ASSUME NEW m \in msgs', m \notin msgs
      PROVE  /\ m.to = "unit" /\ m.req = r
             /\ r \in Deletion => m.card \in linked /\ m.pos = card[m.card].pos
  <2>1. CASE CreateHandler(r)
    BY <1>2, <2>1 DEF CreateHandler, AskUnit, Ask
  <2>2. CASE DeleteHandler(r)
    BY <1>2, <2>2 DEF DeleteHandler, AskUnit, Ask, MayDelete
  <2>3. QED
    BY <2>1, <2>2
<1>3. OnceInv'
  BY <1>1, <1>2 DEF OnceInv
<1>4. PlaceInv => PlaceInv'
  BY <1>1, <1>2 DEF PlaceInv
<1>5. TakenInv => TakenInv'
  <2>0. \A q : Met(q) => Met(q)'
    BY <1>1 DEF Met
  <2>1. SUFFICES ASSUME TakenInv, NEW m \in msgs', m.req \in Deletion
                 PROVE  \/ Met(m.req)
                        \/ /\ m.card \in linked
                           /\ m.to = "unit" => m.pos = card[m.card].pos
                           /\ m.to = "server" /\ m.ok =>
                                 \/ Met(card[m.card].id)
                                 \/ /\ card[m.card].id \notin lent
                                    /\ \A s \in stored : s[1] # card[m.card].id
    BY <1>1, <2>0 DEF TakenInv
  <2>2. CASE m \in msgs
    BY <2>1, <2>2 DEF TakenInv
  <2>3. CASE m \notin msgs
    BY <1>2, <2>1, <2>3
  <2>4. QED
    BY <2>2, <2>3
<1>6. QED
  BY <1>1, <1>3, <1>4, <1>5

(* The unit's answer is its request, sent back.                            *)
LEMMA UnitReports ==
    ASSUME TypeOK, HonestUnit, NEW m \in msgs, NEW ok \in BOOLEAN,
           msgs' = Answer(m, ok)
    PROVE  \E k : /\ msgs' = (msgs \ {m}) \cup {k}
                  /\ k.req = m.req /\ k.card = m.card /\ k.pos = m.pos
                  /\ k.to = "server" /\ k.ok = ok
<1> DEFINE k == [m EXCEPT !.to = "server", !.ok = HonestUnit => ok]
<1>1. m \in Message
  BY DEF TypeOK
<1>2. msgs' = (msgs \ {m}) \cup {k}
  BY DEF Answer
<1>3. /\ k.req = m.req /\ k.card = m.card /\ k.pos = m.pos
      /\ k.to = "server" /\ k.ok = ok
  BY <1>1 DEF Message
<1> HIDE DEF k
<1>4. QED
  BY <1>2, <1>3

(* The unit puts a card where only cards it met have their position.       *)
LEMMA StorePlaces ==
    ASSUME TypeOK, HonestUnit, MetInv, RoomInv,
           OnceInv, clobbered \/ (PlaceInv /\ TakenInv),
           NEW m \in msgs, StoreCard(m)
    PROVE  OnceInv' /\ (clobbered' \/ (PlaceInv' /\ TakenInv'))
<1>1. /\ m \in Message /\ m.to = "unit" /\ m.req \in Creation /\ m.req \notin Writer
      /\ m.req \notin Deletion /\ pc[m.req] = "asked"
      /\ UNCHANGED <<card, linked, pc, clobbered, met>>
  BY InventoryAssumption DEF StoreCard, TypeOK, tables, MetInv
<1>2. \A l \in msgs : l # m /\ l.req \in Administrator =>
          l.req # m.req /\ {m.req, l.req} \in met
  BY <1>1 DEF MetInv
<1>3. CASE /\ \A s \in stored : s[2] # m.pos
           /\ stored' = stored \cup {<<m.req, m.pos>>}
           /\ everStored' = everStored \cup {m.req}
           /\ msgs' = Answer(m, TRUE)
           /\ UNCHANGED lent
  <2>1. PICK k : /\ msgs' = (msgs \ {m}) \cup {k}
                 /\ k.req = m.req /\ k.pos = m.pos /\ k.to = "server"
    BY <1>3, UnitReports
  <2>2. \A l \in msgs' : l # k /\ l.req \in Administrator =>
            l \in msgs /\ l.req # m.req /\ {m.req, l.req} \in met
    BY <1>2, <2>1
  <2>3. m.req \notin everStored
    BY <1>1 DEF OnceInv
  <2>4. \A s \in stored' : s \in stored \/ (s[1] = m.req /\ s[2] = m.pos)
    BY <1>3
  <2>5. OnceInv'
    <3>1. \A q \in Creation : q \in everStored' => pc'[q] # "new"
      BY <1>1, <1>3 DEF OnceInv
    <3>2. \A l \in msgs' : l.to = "unit" /\ l.req \in Creation => l.req \notin everStored'
      BY <1>3, <2>1, <2>2 DEF OnceInv
    <3>3. /\ lent' \subseteq everStored'
          /\ \A s \in stored' : s[1] \in everStored' \ lent'
      BY <1>3, <2>3, <2>4 DEF OnceInv
    <3>4. \A s, t \in stored' : s[1] = t[1] => s = t
      BY <1>3, <2>3 DEF OnceInv
    <3>5. QED
      BY <3>1, <3>2, <3>3, <3>4 DEF OnceInv
  <2>6. SUFFICES ASSUME ~clobbered
                 PROVE  PlaceInv' /\ TakenInv'
    BY <1>1, <2>5
  <2>7. TakenInv'
    <3>1. \A l \in msgs' : l.req \in Deletion => Met(l.req)
      <4>1. SUFFICES ASSUME NEW l \in msgs', l.req \in Deletion
                     PROVE  Met(l.req)
        OBVIOUS
      <4>2. l # k
        BY <1>1, <2>1, <4>1
      <4>3. {l.req, m.req} \in met
        <5>1. {l.req, m.req} = {m.req, l.req}
          OBVIOUS
        <5>2. QED
          BY <2>2, <4>1, <4>2, <5>1
      <4>4. QED
        BY <1>1, <4>3 DEF Met
    <3>2. QED
      BY <1>1, <3>1 DEF TakenInv, Met
  <2>8. PlaceInv'
    <3>1. \A n \in linked :
              card[n].pos = m.pos => {m.req, card[n].id} \in met
      <4>1. SUFFICES ASSUME NEW n \in linked, card[n].pos = m.pos
                     PROVE  {m.req, card[n].id} \in met
        OBVIOUS
      <4>2. card[n].pos \in Nat /\ ~(card[n].pos < m.pos)
        BY <4>1 DEF TypeOK, Row
      <4>3. {card[n].id, m.req} \in met
        BY <1>1, <2>6, <4>1, <4>2 DEF RoomInv
      <4>4. {card[n].id, m.req} = {m.req, card[n].id}
        OBVIOUS
      <4>5. QED
        BY <4>3, <4>4
    <3>2. \A n \in linked', s \in stored' : s[2] = card'[n].pos =>
              s[1] = card'[n].id \/ {s[1], card'[n].id} \in met'
      BY <1>1, <2>4, <2>6, <3>1 DEF PlaceInv
    <3>3. \A l \in msgs', s \in stored' :
             l.to = "server" /\ l.ok /\ l.req \in Creation /\ s[2] = l.pos =>
                 s[1] = l.req \/ {s[1], l.req} \in met'
      <4>1. SUFFICES ASSUME NEW l \in msgs', NEW s \in stored',
                            l.to = "server", l.ok, l.req \in Creation, s[2] = l.pos
                     PROVE  s[1] = l.req \/ {s[1], l.req} \in met
        BY <1>1
      <4>2. CASE l = k
        BY <1>3, <2>1, <2>4, <4>1, <4>2
      <4>3. CASE l # k /\ s \in stored
        BY <2>2, <2>6, <4>1, <4>3 DEF PlaceInv
      <4>4. CASE l # k /\ s[1] = m.req
        BY <2>2, <4>1, <4>4
      <4>5. QED
        BY <2>4, <4>2, <4>3, <4>4
    <3>4. QED
      BY <3>2, <3>3 DEF PlaceInv
  <2>9. QED
    BY <2>7, <2>8
<1>4. CASE msgs' = Answer(m, FALSE) /\ UNCHANGED unit
  <2>1. PICK k : /\ msgs' = (msgs \ {m}) \cup {k}
                 /\ k.req = m.req /\ k.to = "server" /\ ~k.ok
    BY <1>4, UnitReports
  <2>2. UNCHANGED <<stored, everStored, lent>>
    BY <1>4 DEF unit
  <2>3. OnceInv'
    BY <1>1, <2>1, <2>2 DEF OnceInv
  <2>4. PlaceInv => PlaceInv'
    BY <1>1, <2>1, <2>2 DEF PlaceInv
  <2>5. TakenInv => TakenInv'
    BY <1>1, <2>1, <2>2 DEF TakenInv, Met
  <2>6. QED
    BY <1>1, <2>3, <2>4, <2>5
<1>5. QED
  BY <1>3, <1>4 DEF StoreCard

(* The unit takes a card out, and it is in no other place.                 *)
LEMMA GetTakes ==
    ASSUME TypeOK, HonestUnit, MetInv,
           OnceInv, clobbered \/ (PlaceInv /\ TakenInv),
           NEW m \in msgs, GetCard(m)
    PROVE  OnceInv' /\ (clobbered' \/ (PlaceInv' /\ TakenInv'))
<1>1. /\ m \in Message /\ m.to = "unit" /\ m.req \in Deletion \cup Writer
      /\ m.req \notin Creation
      /\ UNCHANGED <<card, linked, pc, clobbered, met>>
  BY InventoryAssumption DEF GetCard, TypeOK, tables
<1>2. m.req \in Deletion => \A l \in msgs :
          l # m /\ l.req \in Deletion => {l.req, m.req} \in met
  BY <1>1 DEF MetInv
<1>3. ASSUME NEW c \in Creation,
             <<c, m.pos>> \in stored,
             stored' = stored \ {<<c, m.pos>>},
             lent' = IF m.req \in Writer THEN lent \cup {c} ELSE lent,
             msgs' = Answer(m, TRUE),
             UNCHANGED everStored
      PROVE  OnceInv' /\ (clobbered' \/ (PlaceInv' /\ TakenInv'))
  <2>1. PICK k : /\ msgs' = (msgs \ {m}) \cup {k}
                 /\ k.req = m.req /\ k.card = m.card /\ k.to = "server"
    BY <1>3, UnitReports
  <2>2. c \in everStored /\ c \notin lent
    BY <1>3 DEF OnceInv
  <2>3. \A s \in stored' : s \in stored /\ s[1] # c
    BY <1>3 DEF OnceInv
  <2>4. lent \subseteq lent' /\ lent' \subseteq lent \cup {c}
    BY <1>3
  <2>5. OnceInv'
    <3>1. \A l \in msgs' : l.req \in Creation => l \in msgs
      BY <1>1, <2>1
    <3>2. QED
      BY <1>1, <1>3, <2>2, <2>3, <2>4, <3>1 DEF OnceInv
  <2>6. PlaceInv => PlaceInv'
    BY <1>1, <2>1, <2>3 DEF PlaceInv
  <2>7. SUFFICES ASSUME PlaceInv, TakenInv
                 PROVE  TakenInv'
    BY <1>1, <2>5, <2>6
  <2>8. CASE m.req \in Writer
    <3>1. \A l \in msgs' : l.req \in Deletion => l \in msgs
      BY <2>1, <2>8, InventoryAssumption
    <3>2. SUFFICES ASSUME NEW l \in msgs', l.req \in Deletion
                   PROVE  \/ Met(l.req)
                          \/ /\ l.card \in linked
                             /\ l.to = "unit" => l.pos = card[l.card].pos
                             /\ l.to = "server" /\ l.ok =>
                                   \/ Met(card[l.card].id)
                                   \/ /\ card[l.card].id \notin lent'
                                      /\ \A s \in stored' : s[1] # card[l.card].id
      BY <1>1 DEF TakenInv, Met
    <3>3. l.to = "server" /\ l.ok =>
              Met(l.req) \/ Met(card[l.card].id) \/ card[l.card].id # c
      BY <1>3, <2>7, <3>1, <3>2 DEF TakenInv
    <3>4. QED
      BY <2>3, <2>4, <2>7, <3>1, <3>2, <3>3 DEF TakenInv
  <2>9. CASE m.req \in Deletion
    <3>1. \/ Met(m.req)
          \/ m.card \in linked /\ (card[m.card].id = c \/ Met(card[m.card].id))
      <4>1. SUFFICES ASSUME ~Met(m.req)
                     PROVE  /\ m.card \in linked
                            /\ card[m.card].id = c \/ Met(card[m.card].id)
        OBVIOUS
      <4>2. m.card \in linked /\ m.pos = card[m.card].pos
        BY <1>1, <2>7, <2>9, <4>1 DEF TakenInv
      <4>3. c = card[m.card].id \/ {c, card[m.card].id} \in met
        <5>1. <<c, m.pos>>[1] = c /\ <<c, m.pos>>[2] = m.pos
          OBVIOUS
        <5>2. QED
          BY <1>3, <2>7, <4>2, <5>1 DEF PlaceInv
      <4>4. {c, card[m.card].id} = {card[m.card].id, c}
        OBVIOUS
      <4>5. QED
        BY <4>2, <4>3, <4>4 DEF Met
    <3>2. lent' = lent
      BY <1>3, <2>9, InventoryAssumption
    <3>3. \A l \in msgs' : l.req \in Deletion => l = k \/ Met(l.req)
      BY <1>2, <2>1, <2>9 DEF Met
    <3>4. SUFFICES ASSUME NEW l \in msgs', l.req \in Deletion
                   PROVE  \/ Met(l.req)
                          \/ /\ l.card \in linked
                             /\ l.to = "unit" => l.pos = card[l.card].pos
                             /\ l.to = "server" /\ l.ok =>
                                   \/ Met(card[l.card].id)
                                   \/ /\ card[l.card].id \notin lent
                                      /\ \A s \in stored' : s[1] # card[l.card].id
      BY <1>1, <3>2 DEF TakenInv, Met
    <3>5. QED
      BY <2>1, <2>2, <2>3, <3>1, <3>3, <3>4
  <2>10. QED
    BY <1>1, <2>8, <2>9
<1>4. CASE msgs' = Answer(m, FALSE) /\ UNCHANGED unit
  <2>1. PICK k : /\ msgs' = (msgs \ {m}) \cup {k}
                 /\ k.req = m.req /\ k.card = m.card /\ k.to = "server" /\ ~k.ok
    BY <1>4, UnitReports
  <2>2. UNCHANGED <<stored, everStored, lent>>
    BY <1>4 DEF unit
  <2>3. OnceInv'
    BY <1>1, <2>1, <2>2 DEF OnceInv
  <2>4. PlaceInv => PlaceInv'
    BY <1>1, <2>1, <2>2 DEF PlaceInv
  <2>5. TakenInv => TakenInv'
    BY <1>1, <2>1, <2>2 DEF TakenInv, Met
  <2>6. QED
    BY <1>1, <2>3, <2>4, <2>5
<1>5. QED
  BY <1>3, <1>4 DEF GetCard

(* A new row has the position at which the unit has put its card.          *)
LEMMA AddPlaces ==
    ASSUME TypeOK, MetInv,
           OnceInv, clobbered \/ (PlaceInv /\ TakenInv),
           NEW m \in msgs, AddCardHandler(m)
    PROVE  OnceInv' /\ (clobbered' \/ (PlaceInv' /\ TakenInv'))
<1>1. /\ m \in Message /\ m.req \in Creation /\ m.req \notin Writer
      /\ m.to = "server" /\ msgs' = msgs \ {m}
      /\ UNCHANGED <<stored, everStored, lent, clobbered, met>>
      /\ pc' = [pc EXCEPT ![m.req] = "over"]
  BY InventoryAssumption DEF AddCardHandler, TypeOK, Goto, unit
<1>2. \A l \in msgs' : l.req \in Administrator => l \in msgs /\ {l.req, m.req} \in met
  BY <1>1 DEF MetInv
<1>3. \A q \in Creation : pc[q] # "new" => pc'[q] # "new"
  BY <1>1 DEF TypeOK
<1>4. OnceInv'
  BY <1>1, <1>3 DEF OnceInv
<1>5. TakenInv'
  BY <1>1, <1>2 DEF TakenInv, Met
<1>6. ASSUME PlaceInv
      PROVE  PlaceInv'
  <2>1. \A n \in linked' : \/ n \in linked /\ card'[n] = card[n]
                           \/ /\ m.ok
                              /\ card'[n].id = m.req /\ card'[n].pos = m.pos
    <3>1. CASE UNCHANGED <<card, linked>>
      BY <3>1
    <3>2. CASE /\ m.ok /\ m.card \notin DOMAIN card
               /\ Put(m.card, [id |-> m.req, pos |-> m.pos, available |-> TRUE])
               /\ linked' = linked \cup {m.card}
      BY <3>2 DEF Put, TypeOK
    <3>3. QED
      BY <3>1, <3>2 DEF AddCardHandler, Succeeded
  <2>2. \A n \in linked', s \in stored' : s[2] = card'[n].pos =>
            s[1] = card'[n].id \/ {s[1], card'[n].id} \in met'
    BY <1>1, <1>6, <2>1 DEF PlaceInv
  <2>3. QED
    BY <1>1, <1>2, <1>6, <2>2 DEF PlaceInv
<1>7. QED
  BY <1>1, <1>4, <1>5, <1>6

(* Another deletion under way has met the one that is answered.            *)
LEMMA DeletePlaces ==
    ASSUME TypeOK, MetInv,
           OnceInv, clobbered \/ (PlaceInv /\ TakenInv),
           NEW m \in msgs, DeleteCardHandler(m)
    PROVE  OnceInv' /\ (clobbered' \/ (PlaceInv' /\ TakenInv'))
<1>1. /\ m.req \in Deletion /\ m.req \notin Writer /\ m.req \notin Creation
      /\ msgs' = msgs \ {m}
      /\ UNCHANGED <<stored, everStored, lent, clobbered, met>>
      /\ \A q \in Creation : pc'[q] = pc[q]
  BY InventoryAssumption DEF DeleteCardHandler, TypeOK, Goto, unit
<1>2. \A l \in msgs' : l.req \in Administrator => l \in msgs /\ {l.req, m.req} \in met
  BY <1>1 DEF MetInv
<1>3. \A n \in linked' : n \in linked /\ card'[n] = card[n]
  BY DEF DeleteCardHandler, Unlinked, TypeOK, tables
<1>4. OnceInv'
  BY <1>1 DEF OnceInv
<1>5. TakenInv'
  BY <1>1, <1>2 DEF TakenInv, Met
<1>6. PlaceInv => PlaceInv'
  BY <1>1, <1>3 DEF PlaceInv
<1>7. QED
  BY <1>1, <1>4, <1>5, <1>6

(* A handler that writes a row back, reads one, or has the unit give a     *)
(* card moves nothing.                                                     *)
LEMMA WritersKeepPlaces ==
    ASSUME TypeOK, CopiesInv,
           OnceInv, clobbered \/ (PlaceInv /\ TakenInv),
           \/ \E w \in Writer : \/ WriterRead(w) \/ WriterSave(w)
                                \/ WriterDispatch(w) \/ WriterAppend(w)
           \/ \E m \in msgs : FetchHandler(m) \/ Lose(m)
    PROVE  OnceInv' /\ (clobbered' \/ (PlaceInv' /\ TakenInv'))
<1>1. ASSUME NEW w \in Writer, NEW p, Goto(w, p)
      PROVE  \A q \in Creation : pc'[q] = pc[q]
  BY <1>1, InventoryAssumption DEF Goto, TypeOK
<1>2. ASSUME NEW w \in Writer, WriterRead(w) \/ WriterDispatch(w) \/ WriterAppend(w)
      PROVE  /\ UNCHANGED <<card, linked, clobbered, unit, met>>
             /\ \A l \in msgs' : l \in msgs \/ l.req \in Writer
             /\ \E p : Goto(w, p)
  BY <1>2 DEF WriterRead, WriterDispatch, WriterAppend, ReadRow, Ask, tables
<1>3. ASSUME NEW m \in msgs, FetchHandler(m) \/ Lose(m)
      PROVE  /\ UNCHANGED <<card, linked, clobbered, unit, met>>
             /\ \A l \in msgs' : l \in msgs
             /\ \A q \in Creation : pc'[q] = pc[q]
  <2>1. CASE Lose(m)
    BY <2>1 DEF Lose, tables
  <2>2. CASE FetchHandler(m)
    <3>1. m.req \in Writer /\ \E p : Goto(m.req, p)
      BY <2>2 DEF FetchHandler, ReadRow
    <3>2. QED
      BY <1>1, <2>2, <3>1 DEF FetchHandler, tables
  <2>3. QED
    BY <1>3, <2>1, <2>2
<1>4. ASSUME NEW w \in Writer, WriterSave(w)
      PROVE  /\ UNCHANGED <<linked, unit, met>>
             /\ clobbered => clobbered'
             /\ clobbered' \/ \A n \in linked : /\ card'[n].pos = card[n].pos
                                                /\ card'[n].id = card[n].id
             /\ \A l \in msgs' : l \in msgs
             /\ \E p : Goto(w, p)
  <2> DEFINE j == job[w]
  <2>1. /\ pc[w] = "read" /\ UNCHANGED <<linked, unit, msgs, met>>
        /\ clobbered => clobbered'
        /\ \E p : Goto(w, p)
    BY <1>4 DEF WriterSave
  <2>2. SUFFICES ASSUME ~clobbered', NEW n \in linked
                 PROVE  card'[n].pos = card[n].pos /\ card'[n].id = card[n].id
    BY <2>1
  <2>3. j.row \in Row /\ j.row \in Copies
    BY <2>1 DEF Copies, TypeOK, Job
  <2>4. n \in DOMAIN card /\ card[n] \in Copies
    BY DEF TypeOK, Copies
  <2>5. CASE UNCHANGED card
    BY <2>5
  <2>6. CASE ~OtherKey(j) /\ \E a \in Availability(j) : Put(j.card, Written(j, a))
    <3>1. PICK a \in Availability(j) : Put(j.card, Written(j, a))
      BY <2>6
    <3>2. Written(j, a).id = j.row.id /\ Written(j, a).pos = j.row.pos
      BY <2>3 DEF Written, Row
    <3>3. card'[n] = IF n = j.card THEN Written(j, a) ELSE card[n]
      BY <2>4, <3>1 DEF Put
    <3>4. n = j.card => card[n].id = j.row.id
      BY <2>4, <2>6 DEF OtherKey
    <3>5. n = j.card => card[n].pos = j.row.pos
      BY <2>1, <2>2, <2>3, <2>4, <3>4 DEF CopiesInv
    <3>6. QED
      BY <3>2, <3>3, <3>4, <3>5
  <2>7. QED
    BY <1>4, <2>2, <2>5, <2>6 DEF WriterSave
<1>5. CASE \E w \in Writer : WriterSave(w)
  BY <1>1, <1>4, <1>5, PlacesKept
<1>6. CASE \E w \in Writer : WriterRead(w) \/ WriterDispatch(w) \/ WriterAppend(w)
  BY <1>1, <1>2, <1>6, PlacesKept
<1>7. CASE \E m \in msgs : FetchHandler(m) \/ Lose(m)
  BY <1>3, <1>7, PlacesKept
<1>8. QED
  BY <1>5, <1>6, <1>7

(* Each card is in one place, that of its row, and what was taken out for  *)
(* a deletion was not out before.                                          *)
LEMMA SparesInvariant == Spec => []SparesInv
<1>1. Init => SparesInv
  BY DEF Init, SparesInv, OnceInv, PlaceInv, TakenInv, Met
<1>2. TypeOK /\ TurnsInv /\ SparesInv /\ [Next]_vars => SparesInv'
  <2>1. SUFFICES ASSUME TypeOK, TurnsInv, SparesInv, [Next]_vars, HonestUnit
                 PROVE  OnceInv' /\ (clobbered' \/ (PlaceInv' /\ TakenInv'))
    BY DEF SparesInv
  <2>2. /\ MetInv /\ RoomInv /\ CopiesInv
        /\ OnceInv /\ (clobbered \/ (PlaceInv /\ TakenInv))
    BY <2>1 DEF TurnsInv, SparesInv
  <2>3. CASE UNCHANGED vars
    BY <2>1, <2>2, <2>3, PlacesKept DEF vars, tables
  <2>4. QED
    BY <2>1, <2>2, <2>3, AdministratorAsks, StorePlaces, GetTakes, AddPlaces,
       DeletePlaces, WritersKeepPlaces DEF Next
<1>3. QED
  BY InventoryTypeCorrect, TurnsInvariant, <1>1, <1>2, PTL DEF Spec

(* The row of a card that is out is not deleted, unless its creation or    *)
(* its deletion met a request of another administrator, or a row was       *)
(* overwritten with that of an earlier card.                               *)
THEOREM LentCardsSpared ==
    Spec => DeletionSparesLent
<1>1. TypeOK /\ SparesInv /\ [Next]_vars =>
          [HonestUnit =>
             \A n \in linked \ linked' :
                card[n].id \in lent =>
                    \/ clobbered \/ Met(card[n].id)
                    \/ \E m \in msgs \ msgs' : m.card = n /\ Met(m.req)]_vars
  <2>1. SUFFICES ASSUME TypeOK, SparesInv, Next, HonestUnit,
                        NEW n \in linked, n \notin linked', ~clobbered
                 PROVE  \/ card[n].id \notin lent \/ Met(card[n].id)
                        \/ \E m \in msgs \ msgs' : m.card = n /\ Met(m.req)
    OBVIOUS
  <2>2. PICK m \in msgs : DeleteCardHandler(m)
    BY <2>1 DEF Next, CreateHandler, DeleteHandler, WriterRead, WriterSave,
       WriterDispatch, WriterAppend, StoreCard, GetCard, AddCardHandler,
       FetchHandler, Lose, tables
  <2>3. /\ m.to = "server" /\ m.req \in Deletion /\ m.ok /\ n = m.card
        /\ m \in msgs \ msgs'
    BY <2>1, <2>2 DEF DeleteCardHandler, Succeeded, Unlinked, tables
  <2>4. QED
    BY <2>1, <2>3 DEF SparesInv, TakenInv
<1>2. QED
  BY InventoryTypeCorrect, SparesInvariant, <1>1, PTL DEF Spec, DeletionSparesLent
-----------------------------------------------------------------------------
(* The catalogue, whatever administrators do at once.                      *)

(* A save may change the key of a row or write back one that was deleted,  *)
(* but a row that is there keeps its key, and links change with the rows.  *)
SameListing == linked' = linked /\ \A n \in linked : card'[n].id = card[n].id

SameMessages ==
    /\ \A m \in msgs' : m \in msgs \/ m.req \notin Creation
    /\ \A k \in Creation : pc'[k] = pc[k]

LEMMA SaveKeepsKeys ==
    ASSUME TypeOK, NEW w \in Writer, WriterSave(w)
    PROVE  SameListing
<1> DEFINE j == job[w]
<1>1. linked' = linked /\ j.row \in Row
  BY DEF WriterSave, TypeOK, Job
<1>2. \A a : Written(j, a).id = j.row.id
  BY <1>1 DEF Written, Row
<1>3. CASE UNCHANGED card
  BY <1>1, <1>3 DEF SameListing
<1>4. ASSUME ~OtherKey(j), NEW a, Put(j.card, Written(j, a))
      PROVE  SameListing
  BY <1>1, <1>2, <1>4 DEF SameListing, Put, OtherKey, TypeOK
<1>5. ASSUME NEW a, Put(j.card, [Written(j, a) EXCEPT !.id = card[j.card].id])
      PROVE  SameListing
  BY <1>1, <1>5 DEF SameListing, Put, Written, Row, TypeOK
<1>6. QED
  BY <1>3, <1>4, <1>5 DEF WriterSave

(* Handlers that are not about a creation, except that of the answer to a  *)
(* deletion.                                                               *)
LEMMA OthersKeepListing ==
    ASSUME TypeOK,
           \/ \E r \in Deletion : DeleteHandler(r)
           \/ \E w \in Writer : \/ WriterRead(w) \/ WriterSave(w)
                                \/ WriterDispatch(w) \/ WriterAppend(w)
           \/ \E m \in msgs : GetCard(m) \/ FetchHandler(m) \/ Lose(m)
           \/ UNCHANGED vars
    PROVE  SameListing /\ SameMessages /\ UNCHANGED everStored
<1>1. ASSUME NEW r \in Deletion, DeleteHandler(r)
      PROVE  SameListing /\ SameMessages /\ UNCHANGED everStored
  BY <1>1 DEF DeleteHandler, AskUnit, Ask, Goto, TypeOK, SameListing, SameMessages, tables, unit
<1>2. ASSUME NEW w \in Writer,
             WriterRead(w) \/ WriterSave(w) \/ WriterDispatch(w) \/ WriterAppend(w)
      PROVE  SameListing /\ SameMessages /\ UNCHANGED everStored
  <2>1. SameMessages /\ UNCHANGED everStored
    BY <1>2, SMTT(30)
    DEF WriterRead, ReadRow, WriterSave, WriterDispatch, WriterAppend, Ask, Goto, TypeOK,
        SameMessages, unit
  <2>2. ~WriterSave(w) => SameListing
    BY <1>2 DEF WriterRead, WriterDispatch, WriterAppend, SameListing, tables
  <2>3. QED
    BY <2>1, <2>2, SaveKeepsKeys
<1>3. ASSUME NEW m \in msgs, GetCard(m) \/ FetchHandler(m) \/ Lose(m)
      PROVE  SameListing /\ SameMessages /\ UNCHANGED everStored
  <2>1. m \in Message
    BY DEF TypeOK
  <2>2. CASE GetCard(m)
    <3>1. \A n \in msgs' : n \in msgs \/ n.req = m.req
      <4>1. PICK ok \in BOOLEAN : msgs' = Answer(m, ok)
        BY <2>2 DEF GetCard
      <4>2. \A n \in Answer(m, ok) : n \in msgs \/ n.req = m.req
        BY <2>1 DEF Answer, Message
      <4>3. QED
        BY <4>1, <4>2
    <3>2. QED
      BY <2>2, <3>1 DEF GetCard, TypeOK, SameListing, SameMessages, tables, unit
  <2>3. CASE FetchHandler(m) \/ Lose(m)
    BY <2>3
    DEF FetchHandler, Lose, ReadRow, Goto, TypeOK, SameListing, SameMessages, tables, unit
  <2>4. QED
    BY <1>3, <2>2, <2>3
<1>4. CASE UNCHANGED vars
  BY <1>4 DEF vars, tables, unit, SameListing, SameMessages
<1>5. QED
  BY <1>1, <1>2, <1>3, <1>4

(* A creation's message is new when it is asked for, and is answered once. *)
LEMMA CreationMessages ==
    ASSUME TypeOK, LifeInv, NEW r \in Creation, CreateHandler(r)
    PROVE  /\ SameListing /\ UNCHANGED everStored
           /\ pc[r] = "new" /\ pc'[r] \in {"asked", "over"}
           /\ \A k \in Creation : k # r => pc'[k] = pc[k]
           /\ AskedOnceInv'
<1>1. /\ SameListing /\ UNCHANGED everStored /\ pc[r] = "new"
      /\ pc'[r] \in {"asked", "over"}
      /\ \A k \in Creation : k # r => pc'[k] = pc[k]
  BY DEF CreateHandler, AskUnit, Ask, Goto, TypeOK, SameListing, tables, unit
<1>2. \A m \in msgs : m.req # r
  BY <1>1 DEF LifeInv, AskedOnceInv
<1>3. CASE UNCHANGED msgs
  BY <1>1, <1>2, <1>3 DEF LifeInv, AskedOnceInv
<1>4. ASSUME NEW n \in Name, Ask(r, n, NextPosition)
      PROVE  AskedOnceInv'
  <2>1. PICK x : x.req = r /\ msgs' = msgs \cup {x}
    BY <1>4 DEF Ask
  <2>2. pc'[r] = "asked"
    BY <1>4 DEF Ask, Goto, TypeOK
  <2>3. QED
    BY <1>1, <1>2, <2>1, <2>2 DEF LifeInv, AskedOnceInv
<1>5. QED
  BY <1>1, <1>3, <1>4 DEF CreateHandler, AskUnit

LEMMA StoreMessages ==
    ASSUME TypeOK, LifeInv, NEW m \in msgs, StoreCard(m)
    PROVE  /\ SameListing /\ UNCHANGED pc
           /\ m.req \in Creation /\ pc[m.req] = "asked"
           /\ everStored' \in {everStored, everStored \cup {m.req}}
           /\ AskedOnceInv'
<1>1. /\ SameListing /\ UNCHANGED pc /\ m.req \in Creation /\ pc[m.req] = "asked"
      /\ everStored' \in {everStored, everStored \cup {m.req}}
  BY DEF StoreCard, LifeInv, AskedOnceInv, SameListing, tables, unit
<1>2. m \in Message
  BY DEF TypeOK
<1>3. PICK x : x.req = m.req /\ msgs' = (msgs \ {m}) \cup {x}
  BY <1>2 DEF StoreCard, Answer, Message
<1>4. AskedOnceInv'
  BY <1>1, <1>3 DEF LifeInv, AskedOnceInv
<1>5. QED
  BY <1>1, <1>4

LEMMA AddListing ==
    ASSUME TypeOK, LifeInv, NEW m \in msgs, AddCardHandler(m)
    PROVE  /\ UNCHANGED everStored
           /\ m.req \in Creation /\ pc[m.req] = "asked" /\ pc'[m.req] = "over"
           /\ \A k \in Creation : k # m.req => pc'[k] = pc[k]
           /\ AskedOnceInv'
           /\ \/ SameListing
              \/ /\ Succeeded(m) /\ m.to = "server"
                 /\ m.card \in Name \ linked /\ linked' = linked \cup {m.card}
                 /\ card'[m.card].id = m.req
                 /\ \A n \in linked : card'[n] = card[n]
<1>1. /\ UNCHANGED everStored /\ m.req \in Creation /\ pc[m.req] = "asked"
      /\ pc'[m.req] = "over" /\ m.card \in Name
      /\ \A k \in Creation : k # m.req => pc'[k] = pc[k]
  BY DEF AddCardHandler, Goto, TypeOK, Message, LifeInv, AskedOnceInv, unit
<1>2. AskedOnceInv'
  BY <1>1 DEF AddCardHandler, LifeInv, AskedOnceInv
<1>3. CASE UNCHANGED <<card, linked>>
  BY <1>1, <1>2, <1>3 DEF SameListing
<1>4. CASE /\ Succeeded(m)
           /\ m.card \notin DOMAIN card
           /\ Put(m.card, [id |-> m.req, pos |-> m.pos, available |-> TRUE])
           /\ linked' = linked \cup {m.card}
  BY <1>1, <1>2, <1>4 DEF AddCardHandler, Put, TypeOK
<1>5. QED
  BY <1>3, <1>4 DEF AddCardHandler

LEMMA DeleteListing ==
    ASSUME TypeOK, LifeInv, NEW m \in msgs, DeleteCardHandler(m)
    PROVE  /\ UNCHANGED everStored /\ SameMessages
           /\ \/ SameListing
              \/ /\ m.card \in linked /\ linked' = linked \ {m.card}
                 /\ \A n \in linked' : card'[n] = card[n]
<1>1. UNCHANGED everStored /\ SameMessages
  BY DEF DeleteCardHandler, Goto, TypeOK, SameMessages, unit
<1>2. CASE UNCHANGED tables
  BY <1>1, <1>2 DEF SameListing, tables
<1>3. CASE /\ card' = [n \in DOMAIN card \ {m.card} |-> card[n]]
           /\ linked' = Unlinked(m.card)
  BY <1>1, <1>3 DEF Unlinked, SameListing, TypeOK
<1>4. QED
  BY <1>2, <1>3 DEF DeleteCardHandler

LEMMA LifeStep ==
    ASSUME TypeOK, LifeInv, [Next]_vars
    PROVE  LifeInv'
<1>0. ListedOnceInv /\ AskedOnceInv
  BY DEF LifeInv
<1>1. \A n \in linked : card[n].id \in Creation
  BY DEF TypeOK, Row
<1>2. ASSUME SameListing, \A k \in Creation : pc[k] = "over" => pc'[k] = "over"
      PROVE  ListedOnceInv'
  BY <1>0, <1>1, <1>2 DEF SameListing, ListedOnceInv
<1>3. ASSUME SameMessages
      PROVE  AskedOnceInv'
  BY <1>0, <1>3 DEF SameMessages, AskedOnceInv
<1>4. ASSUME NEW r \in Creation, CreateHandler(r)
      PROVE  LifeInv'
  <2>1. \A k \in Creation : pc[k] = "over" => pc'[k] = "over"
    BY <1>4, CreationMessages
  <2>2. QED
    BY <1>2, <1>4, <2>1, CreationMessages DEF LifeInv
<1>5. ASSUME NEW m \in msgs, StoreCard(m)
      PROVE  LifeInv'
  BY <1>2, <1>5, StoreMessages DEF LifeInv
<1>6. ASSUME NEW m \in msgs, AddCardHandler(m)
      PROVE  LifeInv'
  <2>1. \A k \in Creation : pc[k] = "over" => pc'[k] = "over"
    BY <1>6, AddListing
  <2>2. CASE SameListing
    BY <1>2, <1>6, <2>1, <2>2, AddListing DEF LifeInv
  <2>3. CASE ~SameListing
    <3>1. /\ linked' = linked \cup {m.card} /\ card'[m.card].id = m.req
          /\ m.card \notin linked /\ m.req \in Creation
          /\ \A n \in linked : card'[n] = card[n]
          /\ pc'[m.req] = "over" /\ pc[m.req] = "asked"
      BY <1>6, <2>3, AddListing
    <3>2. \A n \in linked : card[n].id # m.req
      BY <1>0, <3>1 DEF ListedOnceInv
    <3>3. ListedOnceInv'
      BY <1>0, <1>1, <2>1, <3>1, <3>2 DEF ListedOnceInv
    <3>4. QED
      BY <1>6, <3>3, AddListing DEF LifeInv
  <2>4. QED
    BY <2>2, <2>3
<1>7. ASSUME NEW m \in msgs, DeleteCardHandler(m)
      PROVE  LifeInv'
  <2>1. SameMessages
    BY <1>7, DeleteListing
  <2>2. CASE SameListing
    BY <1>2, <1>3, <2>1, <2>2 DEF SameMessages, LifeInv
  <2>3. CASE ~SameListing
    <3>1. linked' \subseteq linked /\ \A n \in linked' : card'[n] = card[n]
      BY <1>7, <2>3, DeleteListing
    <3>2. ListedOnceInv'
      BY <1>0, <1>1, <2>1, <3>1 DEF ListedOnceInv, SameMessages
    <3>3. QED
      BY <1>3, <2>1, <3>2 DEF LifeInv
  <2>4. QED
    BY <2>2, <2>3
<1>8. ASSUME SameListing, SameMessages
      PROVE  LifeInv'
  BY <1>2, <1>3, <1>8 DEF SameMessages, LifeInv
<1>9. QED
  BY <1>4, <1>5, <1>6, <1>7, <1>8, OthersKeepListing DEF Next

LEMMA LifeInvariant == Spec => []LifeInv
<1>1. Init => LifeInv
  BY DEF Init, LifeInv, ListedOnceInv, AskedOnceInv
<1>2. TypeOK /\ LifeInv /\ [Next]_vars => LifeInv'
  BY LifeStep
<1>3. QED
  BY <1>1, <1>2, InventoryTypeCorrect, PTL DEF Spec

(* What a step means to the catalogue.                                     *)
Over == {k \in Creation : pc[k] = "over"}
Keys == {card[n].id : n \in linked}

LEMMA CatalogueStep ==
    ASSUME TypeOK, StoredInv, HonestUnit, LifeInv, [Next]_vars
    PROVE  [Promise!Next]_(Promise!vars)
<1>0. /\ ListedOnceInv /\ Keys \subseteq Over /\ Over \subseteq Creation
      /\ Ended = Over \ Keys /\ Promise!Listed = Keys
  BY DEF LifeInv, ListedOnceInv, TypeOK, Row, Over, Keys, Ended, Listing, Promise!Listed
<1>1. SameListing => UNCHANGED <<Listing, Keys>>
  BY DEF SameListing, Listing, Keys
<1>2. UNCHANGED <<Listing, Keys, Over, everStored>> => UNCHANGED Promise!vars
  BY DEF Promise!vars, Ended, Over, Keys
<1>3. ASSUME NEW k \in Creation, pc[k] # "over", UNCHANGED <<Listing, Keys, everStored>>,
             Over' = Over \cup {k}
      PROVE  Promise!GiveUp(k)
  <2>1. k \notin Keys /\ k \notin Ended
    BY <1>0, <1>3 DEF Over
  <2>2. Ended' = Over' \ Keys'
    BY DEF Ended, Over, Keys
  <2>3. QED
    BY <1>0, <1>3, <2>1, <2>2 DEF Promise!GiveUp
<1>4. ASSUME NEW r \in Creation, CreateHandler(r)
      PROVE  Promise!GiveUp(r) \/ UNCHANGED Promise!vars
  <2>1. UNCHANGED <<Listing, Keys, everStored>>
    BY <1>1, <1>4, CreationMessages
  <2>2. pc[r] = "new"
    BY <1>4, CreationMessages
  <2>3. Over' = Over \/ Over' = Over \cup {r}
    BY <1>4, CreationMessages DEF Over
  <2>4. QED
    BY <1>2, <1>3, <2>1, <2>2, <2>3
<1>5. ASSUME NEW m \in msgs, StoreCard(m)
      PROVE  Promise!PutIn(m.req) \/ UNCHANGED Promise!vars
  <2>1. UNCHANGED <<Listing, Keys, Over>> /\ m.req \notin Ended /\ UNCHANGED Ended
    BY <1>0, <1>1, <1>5, StoreMessages DEF Over, Ended, Keys
  <2>2. everStored' \in {everStored, everStored \cup {m.req}}
    BY <1>5, StoreMessages
  <2>3. CASE everStored' = everStored
    BY <1>2, <2>1, <2>3
  <2>4. CASE everStored' # everStored
    BY <2>1, <2>2, <2>4 DEF Promise!PutIn
  <2>5. QED
    BY <2>3, <2>4
<1>6. ASSUME NEW m \in msgs, AddCardHandler(m)
      PROVE  Promise!GiveUp(m.req) \/ \E n \in Name : Promise!List(n, m.req)
  <2>1. /\ m.req \in Creation /\ pc[m.req] # "over"
        /\ Over' = Over \cup {m.req} /\ UNCHANGED everStored
    BY <1>6, AddListing DEF Over
  <2>2. CASE SameListing
    BY <1>1, <1>3, <2>1, <2>2
  <2>3. CASE ~SameListing
    <3>1. /\ Succeeded(m) /\ m.to = "server"
          /\ m.card \in Name \ linked /\ linked' = linked \cup {m.card}
          /\ card'[m.card].id = m.req
          /\ \A n \in linked : card'[n] = card[n]
      BY <1>6, <2>3, AddListing
    <3>2. m.req \in everStored \ (Keys \cup Ended)
      BY <1>0, <2>1, <3>1 DEF StoredInv, Succeeded, Over
    <3>3. Keys' = Keys \cup {m.req}
      BY <3>1 DEF Keys
    <3>4. UNCHANGED Ended
      BY <1>0, <2>1, <3>2, <3>3 DEF Ended, Over, Keys
    <3>5. Listing' = [x \in linked \cup {m.card} |-> IF x = m.card THEN m.req ELSE Listing[x]]
      BY <3>1 DEF Listing
    <3>6. DOMAIN Listing = linked
      BY DEF Listing
    <3>7. QED
      BY <1>0, <2>1, <3>1, <3>2, <3>4, <3>5, <3>6 DEF Promise!List
  <2>4. QED
    BY <2>2, <2>3
<1>7. ASSUME NEW m \in msgs, DeleteCardHandler(m)
      PROVE  (\E n \in Name : Promise!Delete(n)) \/ UNCHANGED Promise!vars
  <2>1. UNCHANGED <<everStored, Over>>
    BY <1>7, DeleteListing DEF SameMessages, Over
  <2>2. CASE SameListing
    BY <1>1, <1>2, <2>1, <2>2
  <2>3. CASE ~SameListing
    <3>1. /\ m.card \in linked /\ linked' = linked \ {m.card}
          /\ \A n \in linked' : card'[n] = card[n]
      BY <1>7, <2>3, DeleteListing
    <3>2. Keys' = Keys \ {card[m.card].id}
      BY <1>0, <3>1 DEF Keys, ListedOnceInv
    <3>3. card[m.card].id \in Keys
      BY <3>1 DEF Keys
    <3>4. Ended' = Ended \cup {card[m.card].id}
      <4>1. Ended' = Over' \ Keys'
        BY DEF Ended, Over, Keys
      <4>2. QED
        BY <1>0, <2>1, <3>2, <3>3, <4>1
    <3>5. Listing' = [x \in linked \ {m.card} |-> Listing[x]]
      BY <3>1 DEF Listing
    <3>6. DOMAIN Listing = linked /\ Listing[m.card] = card[m.card].id /\ m.card \in Name
      BY <3>1 DEF Listing, TypeOK
    <3>7. QED
      BY <2>1, <3>1, <3>4, <3>5, <3>6 DEF Promise!Delete
  <2>4. QED
    BY <2>2, <2>3
<1>8. ASSUME SameListing, SameMessages, UNCHANGED everStored
      PROVE  UNCHANGED Promise!vars
  BY <1>1, <1>2, <1>8 DEF SameMessages, Over
<1>9. ASSUME NEW m \in msgs
      PROVE  m.req \in Request
  BY DEF TypeOK, Message
<1>10. CASE \E m \in msgs : StoreCard(m) \/ AddCardHandler(m)
  <2>1. PICK m \in msgs : StoreCard(m) \/ AddCardHandler(m)
    BY <1>10
  <2>2. m.req \in Creation
    BY <2>1 DEF StoreCard, AddCardHandler
  <2>3. QED
    BY <1>5, <1>6, <2>1, <2>2 DEF Promise!Next
<1>11. QED
  BY <1>4, <1>7, <1>8, <1>10, OthersKeepListing DEF Next, Promise!Next

(* Names keep their cards and nothing that is over begins again, whatever  *)
(* the unit reports and administrators do at once.                         *)
THEOREM CardsStayGone == Spec => NoCardReturns
<1>1. ASSUME TypeOK, LifeInv, [Next]_vars
      PROVE  /\ \A n \in linked \cap linked' : card'[n].id = card[n].id
             /\ Ended \subseteq Ended'
  <2>1. \A k \in Creation : pc[k] = "over" => pc'[k] = "over"
    <3>1. CASE SameMessages
      BY <3>1 DEF SameMessages
    <3>2. ASSUME NEW r \in Creation, CreateHandler(r)
          PROVE  \A k \in Creation : pc[k] = "over" => pc'[k] = "over"
      BY <1>1, <3>2, CreationMessages
    <3>3. ASSUME NEW m \in msgs, StoreCard(m) \/ AddCardHandler(m)
          PROVE  \A k \in Creation : pc[k] = "over" => pc'[k] = "over"
      BY <1>1, <3>3, StoreMessages, AddListing
    <3>4. \/ SameMessages \/ \E r \in Creation : CreateHandler(r)
          \/ \E m \in msgs : StoreCard(m) \/ AddCardHandler(m)
      <4>1. ASSUME NEW m \in msgs, DeleteCardHandler(m)
            PROVE  SameMessages
        BY <1>1, <4>1, DeleteListing
      <4>2. QED
        BY <1>1, <4>1, OthersKeepListing DEF Next
    <3>5. QED
      BY <3>1, <3>2, <3>3, <3>4
  <2>2. \/ SameListing
        \/ \E m \in msgs : AddCardHandler(m) \/ DeleteCardHandler(m)
    BY <1>1, CreationMessages, StoreMessages, OthersKeepListing DEF Next
  <2>3. \A n \in linked \cap linked' : card'[n].id = card[n].id
    BY <1>1, <2>2, AddListing, DeleteListing DEF SameListing
  <2>4. \A n \in linked' : pc[card'[n].id] = "over" => n \in linked
    BY <1>1, <2>2, AddListing, DeleteListing DEF SameListing
  <2>5. ASSUME NEW k \in Ended
        PROVE  k \in Ended'
    <3>1. k \in Creation /\ pc[k] = "over" /\ pc'[k] = "over"
      BY <2>1 DEF Ended
    <3>2. \A n \in linked' : card'[n].id # k
      BY <2>3, <2>4, <3>1 DEF Ended
    <3>3. QED
      BY <3>1, <3>2 DEF Ended
  <2>6. QED
    BY <2>3, <2>5
<1>2. QED
  BY <1>1, InventoryTypeCorrect, LifeInvariant, PTL DEF Spec, NoCardReturns

(* The inventory implements the catalogue: with an honest unit, a name     *)
(* stands for the card put in for it until it is deleted, and no card that *)
(* was deleted or given up comes back, whatever handlers write back.       *)
THEOREM InventoryImplementsCatalogue ==
    ASSUME HonestUnit
    PROVE  Spec => ImplementsCatalogue
<1>1. Init => Promise!Init
  BY DEF Init, Promise!Init, Listing, Ended
<1>2. TypeOK /\ StoredInv /\ LifeInv /\ [Next]_vars => [Promise!Next]_(Promise!vars)
  BY CatalogueStep
<1>3. Spec => []StoredInv
  BY KeysStored
<1>4. QED
  BY <1>1, <1>2, <1>3, InventoryTypeCorrect, LifeInvariant, PTL
  DEF Spec, ImplementsCatalogue, Promise!Spec
=============================================================================
