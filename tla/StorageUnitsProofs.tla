------------------------- MODULE StorageUnitsProofs -------------------------
(* Proofs about the storage-units of the server, for any names, locations  *)
(* and requests, whatever messages get lost, and however often connections *)
(* break and the server restarts.                                          *)
EXTENDS StorageUnits, TopicProofs

USE UnitsAssumption DEF Request, Admin

HoldingPc == {"inserted", "read", "subscribed", "deleted"}

Unique(table) == \A u, v \in table : u.id = v.id \/ u.name = v.name => u = v

(* The records of the start.                                               *)
LEMMA InitialRow == AnyRow \in Row
<1>1. (CHOOSE k \in Creator : TRUE) \in Creator
  BY Zenon
<1>2. (CHOOSE n \in Name : TRUE) \in Name
  BY Zenon
<1>3. (CHOOSE l \in Location : TRUE) \in Location
  BY Zenon
<1>4. QED
  BY <1>1, <1>2, <1>3 DEF AnyRow, Row

LEMMA RowTopic == \A u \in Row : TopicOf(u) \in Topics
  BY DEF Topics

LEMMA InitType == Init => TypeOK
<1>1. AnyRow.name \in Name
  BY InitialRow DEF Row
<1>2. QED
  BY <1>1, InitialRow DEF Init, TypeOK, Pc

(* What Save makes of a table of unique names: the row of the same key is  *)
(* replaced, or the one of the same name, or one is added.                 *)
LEMMA SavedUnits ==
    ASSUME NEW table \in SUBSET Row, Unique(table), NEW row \in Row,
           NEW after \in Saved(table, row, {u \in table : u.name = row.name})
    PROVE  /\ after \subseteq Row
           /\ Unique(after)
           /\ \A u \in after : \/ u \in table
                               \/ /\ u.name = row.name
                                  /\ \/ u.id = row.id
                                     \/ \E v \in table : v.id = u.id /\ v.name = row.name
           /\ \A u \in table : u \in after \/ u.id = row.id \/ u.name = row.name
<1> DEFINE same  == {u \in table : u.name = row.name}
           kept  == {u \in table : u.id = row.id}
           other == same \ kept
           rest  == {u \in table : u \notin kept \cup other}
<1>1. ~(kept # {} /\ other # {})
  BY DEF Saved
<1>2. after = rest \cup (IF other = {} THEN {row}
                         ELSE {[row EXCEPT !.id = u.id] : u \in other})
  BY <1>1 DEF Saved
<1>3. \A u \in rest : u \in table /\ u.id # row.id /\ u.name # row.name
  OBVIOUS
<1>4. CASE other = {}
  <2>1. after = rest \cup {row}
    BY <1>2, <1>4
  <2>2. \A u \in table : u \in rest \/ u.id = row.id
    BY <1>4
  <2>3. Unique(after)
    BY <1>3, <2>1 DEF Unique
  <2> HIDE DEF rest, same, kept, other
  <2>4. QED
    BY <1>3, <2>1, <2>2, <2>3
<1>5. CASE other # {}
  <2>1. PICK u \in table : u.name = row.name /\ u.id # row.id
    BY <1>5
  <2>2. other = {u} /\ kept = {}
    BY <1>1, <1>5, <2>1 DEF Unique
  <2> DEFINE new == [row EXCEPT !.id = u.id]
  <2>3. after = rest \cup {new}
    BY <1>2, <1>5, <2>2
  <2>4. new \in Row /\ new.id = u.id /\ new.name = row.name
    BY DEF Row
  <2> HIDE DEF new
  <2>5. \A v \in table : v \in rest \/ v = u
    BY <2>2
  <2>6. \A v \in rest : v.id # u.id
    BY <1>3, <2>1 DEF Unique
  <2>7. Unique(after)
    BY <1>3, <2>3, <2>4, <2>6 DEF Unique
  <2>8. QED
    BY <1>3, <2>1, <2>3, <2>4, <2>5, <2>7
<1>6. QED
  BY <1>4, <1>5

-----------------------------------------------------------------------------
(* Types, and the keys of rows.                                            *)

(* A handler that only works with a row of the table.                      *)
LEMMA HandlerType ==
    ASSUME TypeOK, KeyInv, NEW r \in Request,
           NEW from, NEW to \in Pc \ {"new"}, Goto(r, from, to),
           r \in Admin /\ to \in HoldingPc =>
               job'[r] \in rows \/ (Holding(r) /\ job'[r] = job[r]),
           job' \in [Request -> Row],
           \A q \in Request : q # r => job'[q] = job[q],
           target' \in [Updater -> Name],
           rows' \subseteq rows,
           unfocused' \subseteq Name,
           subs' \subseteq Topics,
           adrift' \subseteq Creator,
           contended' \subseteq Name,
           pending' \subseteq Pinger,
           msgs' \subseteq Message,
           UNCHANGED <<up, unheard, leftover, faults>>
    PROVE  TypeOK' /\ KeyInv'
<1>1. /\ pc' = [pc EXCEPT ![r] = to]
      /\ pc' \in [Request -> Pc]
      /\ \A q \in Request : pc'[q] = "new" => pc[q] = "new"
  BY DEF Goto, TypeOK
<1>2. TypeOK'
  BY <1>1 DEF TypeOK, faults
<1>3. ASSUME NEW q \in Admin, Holding(q)'
      PROVE  pc'[job'[q].id] # "new"
  <2>1. job'[q] \in Row /\ job'[q].id \in Request
    BY DEF Row
  <2>2. CASE q = r
    <3>1. pc[job'[q].id] # "new"
      BY <1>1, <1>3, <2>2 DEF KeyInv, Holding, HoldingPc, TypeOK
    <3>2. QED
      BY <1>1, <2>1, <3>1
  <2>3. CASE q # r
    BY <1>1, <1>3, <2>1, <2>3 DEF KeyInv, Holding, TypeOK
  <2>4. QED
    BY <2>2, <2>3
<1>4. \A u \in rows' : pc'[u.id] # "new"
  BY <1>1 DEF KeyInv, TypeOK, Row
<1>5. QED
  BY <1>2, <1>3, <1>4 DEF KeyInv

(* The row a handler finds or already has, and the one it leaves.          *)
LEMMA WorkType ==
    ASSUME TypeOK, NEW r \in Request, NEW row \in Row, Work(r, row)
    PROVE  /\ job' \in [Request -> Row]
           /\ job'[r] = row
           /\ \A q \in Request : q # r => job'[q] = job[q]
  BY DEF Work, TypeOK

LEMMA FinishType ==
    ASSUME TypeOK, NEW r \in Request, NEW from, Finish(r, from)
    PROVE  /\ job' \in [Request -> Row]
           /\ Goto(r, from, "done")
           /\ \A q \in Request : q # r => job'[q] = job[q]
  BY InitialRow, WorkType DEF Finish

LEMMA ReadType ==
    ASSUME TypeOK, NEW r \in Request, NEW n, ReadRow(r, n)
    PROVE  /\ job' \in [Request -> Row]
           /\ job'[r] \in rows /\ job'[r].name = n
           /\ \A q \in Request : q # r => job'[q] = job[q]
<1>1. PICK u \in rows : u.name = n /\ Work(r, u)
  BY DEF ReadRow, Named
<1>2. u \in Row
  BY DEF TypeOK
<1>3. QED
  BY <1>1, <1>2, WorkType

LEMMA BeginType ==
    ASSUME TypeOK, NEW r \in Admin, NEW names \in SUBSET Name, Begin(r, names)
    PROVE  contended' \subseteq Name
<1>1. \A q \in Admin : Names(q) \subseteq Name
  BY DEF Names, TypeOK, Row
<1>2. QED
  BY <1>1 DEF Begin, TypeOK

LEMMA CreateType ==
    ASSUME TypeOK, KeyInv, NEW r \in Creator, Create(r)
    PROVE  TypeOK' /\ KeyInv'
<1>1. CASE MarkUnfocused(r)
  <2>1. job[r].name \in Name
    BY DEF TypeOK, Row
  <2>2. QED
    BY <1>1, <2>1, FinishType, HandlerType
    DEF MarkUnfocused, TypeOK, Pc, HoldingPc, broker, pings, moved, history
<1>2. ASSUME NEW n \in Name, NEW l \in Location, Insert(r, n, l)
      PROVE  TypeOK' /\ KeyInv'
  <2> DEFINE u == [id |-> r, name |-> n, location |-> l]
  <2>1. u \in Row /\ u.id = r /\ u.name = n
    BY DEF Row
  <2>2. /\ rows' = rows \cup {u} /\ Work(r, u) /\ Goto(r, "new", "inserted")
        /\ \A v \in rows : v.id # r /\ v.name # n
    BY <1>2 DEF Insert, Goto, Named, KeyInv
  <2> HIDE DEF u
  <2>3. /\ rows' \subseteq Row
        /\ \A v, w \in rows' : v.id = w.id \/ v.name = w.name => v = w
    BY <2>1, <2>2 DEF TypeOK
  <2>4. job' \in [Request -> Row] /\ \A q \in Request : q # r => job'[q] = job[q]
    BY <2>1, <2>2, WorkType
  <2>5. /\ pc' \in [Request -> Pc] /\ pc'[r] = "inserted"
        /\ \A q \in Request : q # r => pc'[q] = pc[q]
    BY <2>2 DEF Goto, TypeOK, Pc
  <2>6. TypeOK'
    <3>1. contended' \subseteq Name
      BY <1>2, BeginType DEF Insert
    <3>2. QED
      BY <1>2, <2>3, <2>4, <2>5, <3>1 DEF Insert, TypeOK, broker, pings, moved, faults
  <2>7. KeyInv'
    <3>1. \A v \in rows : v.id \in Creator
      BY DEF TypeOK, Row
    <3>2. \A q \in Admin : job[q].id \in Creator
      BY DEF TypeOK, Row
    <3>3. job'[r] = u
      BY <2>1, <2>2, WorkType
    <3>4. QED
      BY <2>1, <2>2, <2>4, <2>5, <3>1, <3>2, <3>3 DEF KeyInv, Holding
  <2>8. QED
    BY <2>6, <2>7
<1>3. QED
  BY <1>1, <1>2 DEF Create

LEMMA FocusType ==
    ASSUME TypeOK, KeyInv, NEW r \in Focuser, Focus(r)
    PROVE  TypeOK' /\ KeyInv'
<1>1. ASSUME NEW n \in Name, FocusCheck(r, n)
      PROVE  TypeOK' /\ KeyInv'
  <2>1. [AnyRow EXCEPT !.name = n] \in Row
    BY InitialRow DEF Row
  <2>2. /\ Goto(r, "new", "checked") /\ Work(r, [AnyRow EXCEPT !.name = n])
        /\ UNCHANGED <<rows, unfocused, subs, up, msgs, target, pending, unheard,
                       adrift, leftover, faults>>
    BY <1>1 DEF FocusCheck, tables, broker, pings, moved
  <2>3. contended' \subseteq Name
    BY <1>1, BeginType DEF FocusCheck
  <2>4. /\ job' \in [Request -> Row]
        /\ \A q \in Request : q # r => job'[q] = job[q]
    BY <2>1, <2>2, WorkType
  <2>5. "checked" \in Pc \ {"new"} /\ "checked" \notin HoldingPc
    BY DEF Pc, HoldingPc
  <2>6. QED
    BY <2>2, <2>3, <2>4, <2>5, HandlerType DEF TypeOK
<1>2. CASE FocusRead(r)
  BY <1>2, ReadType, FinishType, HandlerType
  DEF FocusRead, TypeOK, Pc, HoldingPc, tables, broker, pings, moved, history
<1>3. CASE FocusSubscribe(r)
  <2>1. job[r] \in Row /\ job[r].id \in Creator
    BY DEF TypeOK, Row
  <2>2. /\ subs' \subseteq Topics
        /\ adrift' \subseteq Creator
    BY <1>3, <2>1, RowTopic DEF FocusSubscribe, TypeOK
  <2>3. QED
    BY <1>3, <2>2, HandlerType
    DEF FocusSubscribe, Goto, TypeOK, Pc, HoldingPc, Holding, tables, pings
<1>4. CASE FocusUnmark(r)
  BY <1>4, FinishType, HandlerType
  DEF FocusUnmark, TypeOK, Pc, HoldingPc, broker, pings, moved, history
<1>5. QED
  BY <1>1, <1>2, <1>3, <1>4 DEF Focus

LEMMA DeleteType ==
    ASSUME TypeOK, KeyInv, NEW r \in Deleter, Delete(r)
    PROVE  TypeOK' /\ KeyInv'
<1>1. ASSUME NEW n \in Name, DeleteRead(r, n)
      PROVE  TypeOK' /\ KeyInv'
  <2>1. contended' \subseteq Name
    BY <1>1, BeginType DEF DeleteRead
  <2>2. /\ job' \in [Request -> Row] /\ job'[r] \in rows
        /\ \A q \in Request : q # r => job'[q] = job[q]
    BY <1>1, ReadType DEF DeleteRead
  <2>3. QED
    BY <1>1, <2>1, <2>2, HandlerType
    DEF DeleteRead, TypeOK, Pc, HoldingPc, tables, broker, pings, moved
<1>2. CASE DeleteRow(r)
  BY <1>2, HandlerType
  DEF DeleteRow, Goto, TypeOK, Pc, HoldingPc, Holding, broker, pings, moved, history
<1>3. CASE DeleteUnsubscribe(r)
  BY <1>3, FinishType, HandlerType
  DEF DeleteUnsubscribe, TypeOK, Pc, HoldingPc, tables, pings, moved, history
<1>4. QED
  BY <1>1, <1>2, <1>3 DEF Delete

LEMMA PingType ==
    ASSUME TypeOK, KeyInv, NEW r \in Pinger, Ping(r)
    PROVE  TypeOK' /\ KeyInv'
<1>1. ASSUME NEW n \in Name, PingRead(r, n)
      PROVE  TypeOK' /\ KeyInv'
  BY <1>1, ReadType, HandlerType
  DEF PingRead, TypeOK, Pc, tables, broker, pings, moved, history
<1>2. CASE PingStore(r)
  BY <1>2, HandlerType DEF PingStore, TypeOK, Pc, tables, broker, moved, history
<1>3. CASE PingPublish(r)
  <2>1. TopicOf(job[r]) \in Topics
    BY RowTopic DEF TypeOK
  <2>2. msgs' \subseteq Message
    BY <1>3, <2>1 DEF PingPublish, TypeOK, Message
  <2>3. QED
    BY <1>3, <2>2, FinishType, HandlerType
    DEF PingPublish, TypeOK, Pc, tables, pings, moved, history
<1>4. QED
  BY <1>1, <1>2, <1>3 DEF Ping

(* What an update leaves of the table.                                     *)
LEMMA UpdateRows ==
    ASSUME TypeOK, NEW r \in Updater, NEW l \in Location, UpdateSave(r, l)
    PROVE  \/ UNCHANGED <<rows, adrift, leftover>>
           \/ /\ rows' \subseteq Row
              /\ Unique(rows')
              /\ \A u \in rows' :
                    \/ u \in rows
                    \/ /\ u.name = target[r]
                       /\ \/ u.id = job[r].id
                          \/ \E v \in rows : v.id = u.id /\ v.name = target[r]
              /\ \A u \in rows : u \in rows' \/ u.id = job[r].id \/ u.name = target[r]
              /\ adrift' = adrift \cup {u.id : u \in rows' \ rows}
              /\ leftover' = leftover \cup {TopicOf(u) : u \in rows \ rows'}
<1> DEFINE row   == [job[r] EXCEPT !.name = target[r], !.location = l]
           after == Saved(rows, row, Named(row.name))
<1>1. row \in Row /\ row.id = job[r].id /\ row.name = target[r]
  <2>1. job[r] \in Row /\ target[r] \in Name
    BY DEF TypeOK
  <2>2. QED
    BY <2>1 DEF Row
<1>2. \/ UNCHANGED <<rows, adrift, leftover>>
      \/ /\ rows' \in after
         /\ adrift' = adrift \cup {u.id : u \in rows' \ rows}
         /\ leftover' = leftover \cup {TopicOf(u) : u \in rows \ rows'}
  BY DEF UpdateSave
<1> HIDE DEF row
<1>3. after = Saved(rows, row, {u \in rows : u.name = row.name})
  BY DEF Named
<1>4. Unique(rows) /\ rows \in SUBSET Row
  BY DEF TypeOK, Unique
<1>5. CASE rows' \in after
  <2>1. /\ rows' \subseteq Row
        /\ Unique(rows')
        /\ \A u \in rows' : \/ u \in rows
                            \/ /\ u.name = row.name
                               /\ \/ u.id = row.id
                                  \/ \E v \in rows : v.id = u.id /\ v.name = row.name
        /\ \A u \in rows : u \in rows' \/ u.id = row.id \/ u.name = row.name
    BY <1>1, <1>3, <1>4, <1>5, SavedUnits
  <2>2. QED
    BY <1>1, <1>2, <2>1
<1>6. QED
  BY <1>2, <1>5

LEMMA UpdateType ==
    ASSUME TypeOK, KeyInv, NEW r \in Updater, Update(r)
    PROVE  TypeOK' /\ KeyInv'
<1>1. ASSUME NEW n \in Name, NEW new \in Name, UpdateRead(r, n, new)
      PROVE  TypeOK' /\ KeyInv'
  <2>1. target' \in [Updater -> Name]
    BY <1>1 DEF UpdateRead, TypeOK
  <2>2. contended' \subseteq Name
    BY <1>1, BeginType DEF UpdateRead
  <2>3. /\ job' \in [Request -> Row] /\ job'[r] \in rows
        /\ \A q \in Request : q # r => job'[q] = job[q]
    BY <1>1, ReadType DEF UpdateRead
  <2>4. QED
    BY <1>1, <2>1, <2>2, <2>3, HandlerType
    DEF UpdateRead, TypeOK, Pc, HoldingPc, tables, broker, pings, moved
<1>2. ASSUME NEW l \in Location, UpdateSave(r, l)
      PROVE  TypeOK' /\ KeyInv'
  <2>1. /\ job' \in [Request -> Row] /\ Goto(r, "read", "done")
        /\ \A q \in Request : q # r => job'[q] = job[q]
        /\ target' \in [Updater -> Name]
        /\ UNCHANGED <<unfocused, broker, pings, contended, faults>>
    BY <1>2, FinishType, InitialRow DEF UpdateSave, TypeOK, Row
  <2>2. /\ pc' \in [Request -> Pc] /\ pc[r] = "read" /\ pc'[r] = "done"
        /\ \A q \in Request : q # r => pc'[q] = pc[q]
    BY <2>1 DEF Goto, TypeOK, Pc
  <2>3. CASE UNCHANGED <<rows, adrift, leftover>>
    BY <2>1, <2>3, HandlerType DEF TypeOK, Pc, HoldingPc, broker, pings
  <2>4. CASE ~UNCHANGED <<rows, adrift, leftover>>
    <3>1. /\ rows' \subseteq Row
          /\ Unique(rows')
          /\ \A u \in rows' : u \in rows \/ u.id = job[r].id \/ \E v \in rows : u.id = v.id
          /\ adrift' = adrift \cup {u.id : u \in rows' \ rows}
          /\ leftover' = leftover \cup {TopicOf(u) : u \in rows \ rows'}
      BY <1>2, <2>4, UpdateRows
    <3>2. adrift' \subseteq Creator /\ leftover' \subseteq Topics
      <4>1. \A u \in rows : u \in Row
        BY DEF TypeOK
      <4>2. \A u \in rows' : u \in Row /\ u.id \in Creator
        BY <3>1 DEF Row
      <4>3. QED
        BY <3>1, <4>1, <4>2, RowTopic DEF TypeOK
    <3>3. TypeOK'
      BY <2>1, <2>2, <3>1, <3>2 DEF TypeOK, Unique, broker, pings, faults
    <3>4. /\ pc[job[r].id] # "new"
          /\ \A u \in rows : pc[u.id] # "new"
          /\ \A k \in Request : pc'[k] = "new" => pc[k] = "new"
      BY <2>2 DEF KeyInv, Holding
    <3>5. KeyInv'
      <4>1. \A u \in rows' : pc'[u.id] # "new"
        BY <3>1, <3>4 DEF Row
      <4>2. ASSUME NEW q \in Admin, Holding(q)'
            PROVE  pc'[job'[q].id] # "new"
        <5>1. q # r /\ Holding(q) /\ job'[q] = job[q] /\ job[q] \in Row
          BY <2>1, <2>2, <4>2 DEF Holding, TypeOK
        <5>2. pc[job[q].id] # "new" /\ job[q].id \in Request
          BY <5>1 DEF KeyInv, Row
        <5>3. QED
          BY <3>4, <5>1, <5>2
      <4>3. QED
        BY <4>1, <4>2 DEF KeyInv
    <3>6. QED
      BY <3>3, <3>5
  <2>5. QED
    BY <2>3, <2>4
<1>3. QED
  BY <1>1, <1>2 DEF Update

(* Messages, the broker connection, and a restart.                         *)
LEMMA OutsideType ==
    ASSUME TypeOK, KeyInv,
           \/ \E m \in msgs : UnitAnswer(m) \/ Hear(m) \/ Lose(m)
           \/ Break \/ Reconnect \/ Restart
    PROVE  TypeOK' /\ KeyInv'
<1>1. ASSUME NEW m \in msgs, UnitAnswer(m)
      PROVE  TypeOK' /\ KeyInv'
  <2>1. m \in Message
    BY DEF TypeOK
  <2>2. msgs' \subseteq Message
    BY <1>1, <2>1 DEF UnitAnswer, TypeOK, Message
  <2>3. QED
    BY <1>1, <2>2 DEF UnitAnswer, TypeOK, KeyInv, Holding, tables, handler, pings, moved, history, faults
<1>2. ASSUME NEW m \in msgs, Hear(m) \/ Lose(m)
      PROVE  TypeOK' /\ KeyInv'
  <2>1. m.req \in Pinger
    BY DEF TypeOK, Message
  <2>2. QED
    BY <1>2, <2>1 DEF Hear, Lose, TypeOK, KeyInv, Holding, tables, handler, moved, history, faults
<1>3. CASE Break \/ Reconnect
  <2>1. adrift' \subseteq Creator /\ breaks' \in 0 .. MaxBreaks
    BY <1>3 DEF Break, Reconnect, TypeOK, Row, moved, history, faults
  <2>2. QED
    BY <1>3, <2>1 DEF Break, Reconnect, TypeOK, KeyInv, Holding, tables, handler, pings, moved, history, faults
<1>4. CASE Restart
  <2>1. /\ pc' \in [Request -> Pc]
        /\ \A q \in Request :
              pc'[q] \in {"new", "done"} /\ (pc'[q] = "new" => pc[q] = "new")
    BY <1>4 DEF Restart, TypeOK, Pc
  <2>2. job' \in [Request -> Row] /\ target' \in [Updater -> Name]
    BY <1>4, InitialRow DEF Restart, Row
  <2>3. subs' \subseteq Topics /\ restarts' \in 0 .. MaxRestarts
    BY <1>4, RowTopic DEF Restart, TypeOK
  <2>4. TypeOK'
    BY <1>4, <2>1, <2>2, <2>3 DEF Restart, TypeOK
  <2>5. KeyInv'
    BY <1>4, <2>1 DEF Restart, KeyInv, Holding, TypeOK, Row
  <2>6. QED
    BY <2>4, <2>5
<1>5. QED
  BY <1>1, <1>2, <1>3, <1>4

LEMMA TypeStep ==
    ASSUME TypeOK, KeyInv, [Next]_vars
    PROVE  TypeOK' /\ KeyInv'
<1>1. CASE Next
  BY <1>1, CreateType, FocusType, UpdateType, DeleteType, PingType, OutsideType DEF Next
<1>2. CASE UNCHANGED vars
  BY <1>2 DEF vars, tables, broker, handler, pings, moved, history, faults, TypeOK, KeyInv, Holding
<1>3. QED
  BY <1>1, <1>2

(* Tables and messages stay well-formed; names stay unique, although       *)
(* updates write back rows that were renamed or deleted meanwhile.         *)
THEOREM UnitsTypeCorrect == Spec => []TypeOK
<1>1. Init => TypeOK /\ KeyInv
  BY InitType DEF Init, KeyInv, Holding
<1>2. QED
  BY <1>1, TypeStep, PTL DEF Spec
-----------------------------------------------------------------------------
Alphabet(Character) ==
    Words(Character) /\ Name \subseteq Seq(Character) /\ Location \subseteq Seq(Character)

(* The handler of an answer takes from its topic the name and the location *)
(* of the unit that sent it, for words of any characters that the router   *)
(* accepts.                                                                *)
THEOREM TopicsDecode ==
    ASSUME NEW Character, Alphabet(Character)
    PROVE  Spec => []TopicNamesUnit
<1>1. ASSUME NEW word, Routed(word)
      PROVE  ~Has(word, "@") /\ ~Has(word, "/")
  BY <1>1 DEF Routed, Letter, Separator, Has
<1>2. ASSUME TypeOK
      PROVE  TopicNamesUnit
  <2>1. SUFFICES ASSUME NEW u \in rows, Routed(u.name), Routed(u.location)
                 PROVE  DisassembleBaseStorageTopic(TopicOf(u)) =
                            [storage |-> u.name, location |-> u.location]
    BY DEF TopicNamesUnit
  <2>2. u.name \in Seq(Character) /\ u.location \in Seq(Character)
    BY <1>2 DEF TypeOK, Row, Alphabet
  <2>3. ~Has(u.name, "@") /\ ~Has(u.location, "@") /\ ~Has(u.location, "/")
    BY <1>1, <2>1
  <2>4. QED
    BY <2>2, <2>3, PartsOfTopic DEF TopicOf, Alphabet
<1>3. QED
  BY <1>2, UnitsTypeCorrect, PTL
-----------------------------------------------------------------------------
(* What the server listens to.                                             *)

(* A request that begins contends with whoever is at work on its names,    *)
(* and with nobody otherwise.                                              *)
LEMMA Begins ==
    ASSUME TypeOK, ApartInv, NEW r \in Admin, NEW names, Begin(r, names),
           Names(r)' = names, ~Busy(r),
           \A q \in Admin : q # r => Names(q)' = Names(q) /\ Busy(q)' = Busy(q)
    PROVE  /\ contended \subseteq contended'
           /\ \A q \in Admin : Busy(q)' /\ Names(q)' \cap contended' # {} => Contends(q)'
           /\ \A q, s \in Admin :
                 q # s /\ Busy(q)' /\ Busy(s)' /\ Names(q)' \cap Names(s)' # {}
                     => Contends(q)'
<1> DEFINE met    == {a \in Admin \ {r} : Busy(a) /\ Names(a) \cap names # {}}
           others == UNION {Names(q) : q \in met}
<1>1. contended' = contended \cup
          (IF names \cap (contended \cup others) = {} THEN {} ELSE names \cup others)
  BY DEF Begin
<1>2. \A q \in met : Names(q) \subseteq others
  OBVIOUS
<1>3. /\ \A q \in Admin : Busy(q) /\ Names(q) \cap contended # {} => Names(q) \subseteq contended
      /\ \A q, s \in Admin : q # s /\ Busy(q) /\ Busy(s) /\ Names(q) \cap Names(s) # {}
                                 => Names(q) \subseteq contended
  BY DEF ApartInv, Contends
<1>4. \A q \in Admin : Contends(q)' <=> Names(q)' \subseteq contended'
  BY DEF Contends
<1>5. CASE names \cap (contended \cup others) = {}
  <2>1. contended' = contended /\ names \cap contended = {}
    BY <1>1, <1>5
  <2>2. \A q \in Admin : q # r /\ Busy(q) => Names(q) \cap names = {}
    BY <1>2, <1>5
  <2> HIDE DEF met, others
  <2>3. QED
    BY <1>3, <1>4, <2>1, <2>2
<1>6. CASE names \cap (contended \cup others) # {}
  <2>1. contended' = contended \cup names \cup others
    BY <1>1, <1>6
  <2>2. ASSUME NEW q \in Admin, q # r, Busy(q), Names(q) \cap contended' # {}
        PROVE  Names(q) \subseteq contended'
    <3>1. CASE Names(q) \cap contended # {}
      BY <1>3, <2>1, <2>2, <3>1
    <3>2. CASE Names(q) \cap names # {}
      BY <1>2, <2>1, <2>2, <3>2
    <3>3. CASE Names(q) \cap others # {}
      <4>1. PICK a \in met : Names(q) \cap Names(a) # {}
        BY <3>3
      <4>2. CASE q = a
        BY <1>2, <2>1, <4>2
      <4>3. CASE q # a
        BY <1>3, <2>1, <2>2, <4>1, <4>3
      <4>4. QED
        BY <4>2, <4>3
    <3>4. QED
      BY <2>1, <2>2, <3>1, <3>2, <3>3
  <2>3. \A q \in Admin : q # r /\ Busy(q) /\ Names(q) \cap names # {}
                             => Names(q) \subseteq contended'
    BY <1>2, <2>1
  <2> HIDE DEF met, others
  <2>4. QED
    BY <1>3, <1>4, <2>1, <2>2, <2>3
<1>7. QED
  BY <1>5, <1>6

(* A step of one handler that leaves the table alone.                      *)
LEMMA HandlerKeeps ==
    ASSUME TypeOK, ApartInv, HeldInv,
           NEW r \in Request, NEW from, NEW to \in Pc, Goto(r, from, to),
           UNCHANGED rows,
           \A q \in Request : q # r => job'[q] = job[q],
           \A q \in Updater : q # r => target'[q] = target[q],
           \/ (to = "done" \/ r \in Pinger) /\ UNCHANGED contended
           \/ /\ Busy(r) /\ job'[r].name = job[r].name
              /\ r \in Updater => target'[r] = target[r]
              /\ UNCHANGED contended
           \/ r \in Admin /\ ~Busy(r) /\ Begin(r, Names(r)'),
           r \in Admin /\ to \in HoldingPc =>
               \/ job'[r] \in rows
               \/ Holding(r) /\ pc[r] # "deleted" /\ job'[r] = job[r],
           to \notin {"inserted", "deleted"}
    PROVE  ApartInv' /\ HeldInv' /\ contended \subseteq contended'
<1>1. /\ pc'[r] = to
      /\ \A q \in Request : q # r => pc'[q] = pc[q]
  BY DEF Goto, TypeOK
<1>2. \A q \in Admin : q # r => /\ Names(q)' = Names(q) /\ Busy(q)' = Busy(q)
                                /\ Holding(q)' = Holding(q)
  BY <1>1 DEF Names, Busy, Holding
<1>3. /\ contended \subseteq contended'
      /\ \A q \in Admin : Busy(q)' /\ Names(q)' \cap contended' # {} => Contends(q)'
      /\ \A q, s \in Admin :
            q # s /\ Busy(q)' /\ Busy(s)' /\ Names(q)' \cap Names(s)' # {} => Contends(q)'
  <2>1. CASE r \in Admin /\ ~Busy(r) /\ Begin(r, Names(r)')
    BY <1>2, <2>1, Begins
  <2>2. CASE (to = "done" \/ r \in Pinger) /\ UNCHANGED contended
    <3>1. r \in Admin => ~Busy(r)'
      BY <1>1, <2>2 DEF Busy
    <3>2. QED
      BY <1>2, <2>2, <3>1 DEF ApartInv, Contends
  <2>3. CASE /\ Busy(r) /\ job'[r].name = job[r].name
             /\ r \in Updater => target'[r] = target[r]
             /\ UNCHANGED contended
    <3>1. Names(r)' = Names(r)
      BY <2>3 DEF Names
    <3>2. QED
      BY <1>2, <2>3, <3>1 DEF ApartInv, Contends
  <2>4. QED
    BY <2>1, <2>2, <2>3
<1>4. \A q \in Admin : job'[q].name \in Names(q)' /\ (Holding(q)' => Busy(q)')
  BY DEF Names, Holding, Busy
<1>5. ASSUME NEW s \in Admin, r \in Admin, s # r, Holding(r)', Holding(s)',
             job'[r].id = job'[s].id
      PROVE  Contends(r)' /\ Contends(s)'
  <2>1. Holding(s) /\ job'[s] = job[s]
    BY <1>2, <1>5
  <2>2. CASE job'[r] \in rows
    <3>1. job'[r] = job[s] \/ {job'[r].name, job[s].name} \subseteq contended
      BY <1>5, <2>1, <2>2 DEF HeldInv
    <3>2. QED
      BY <1>3, <1>4, <1>5, <2>1, <3>1
  <2>3. CASE Holding(r) /\ pc[r] # "deleted" /\ job'[r] = job[r]
    <3>1. Contends(r) /\ Contends(s)
      BY <1>5, <2>1, <2>3 DEF ApartInv
    <3>2. job[r].name \in contended' /\ job[s].name \in contended'
      BY <1>3, <3>1 DEF Contends, Names
    <3>3. QED
      BY <1>3, <1>4, <1>5, <2>1, <2>3, <3>2
  <2>4. to \in HoldingPc
    BY <1>1, <1>5 DEF Holding, HoldingPc
  <2>5. QED
    BY <1>5, <2>2, <2>3, <2>4
<1>6. ApartInv'
  <2>1. ASSUME NEW q \in Admin, NEW s \in Admin, q # s, Holding(q)', Holding(s)',
               job'[q].id = job'[s].id
        PROVE  Contends(q)'
    <3>1. CASE q = r \/ s = r
      BY <1>5, <2>1, <3>1
    <3>2. CASE q # r /\ s # r
      <4>1. Contends(q)
        BY <1>2, <2>1, <3>2 DEF ApartInv
      <4>2. QED
        BY <1>2, <1>3, <3>2, <4>1 DEF Contends
    <3>3. QED
      BY <3>1, <3>2
  <2>2. QED
    BY <1>3, <2>1 DEF ApartInv
<1>7. HeldInv'
  <2>1. ASSUME NEW q \in Admin, Holding(q)'
        PROVE  /\ pc'[q] # "deleted" => job'[q] \in rows \/ job'[q].name \in contended'
               /\ \A u \in rows : u.id = job'[q].id =>
                     u = job'[q] \/ {u.name, job'[q].name} \subseteq contended'
    <3>1. CASE q # r \/ (Holding(r) /\ pc[r] # "deleted" /\ job'[r] = job[r])
      BY <1>1, <1>2, <1>3, <2>1, <3>1 DEF HeldInv
    <3>2. CASE q = r /\ job'[r] \in rows
      BY <3>2 DEF TypeOK
    <3>3. QED
      BY <1>1, <2>1, <3>1, <3>2 DEF Holding, HoldingPc
  <2>2. \A q \in Creator : pc'[q] = "inserted" => job'[q].id = q
    BY <1>1 DEF HeldInv
  <2>3. \A q \in Deleter :
            pc'[q] = "deleted" => (\A u \in rows' : u.name # job'[q].name) \/ job'[q].name \in contended'
    BY <1>1, <1>3 DEF HeldInv
  <2>4. QED
    BY <2>1, <2>2, <2>3 DEF HeldInv
<1>8. QED
  BY <1>3, <1>6, <1>7

LEMMA InitUnits == Init => UnitsInv
  BY DEF Init, UnitsInv, ApartInv, HeldInv, ListenInv, Reachable, NoStaleSubscription,
         Busy, Holding

(* What remains reachable, and heard of, if tables and subscriptions stay. *)
LEMMA RestKeeps ==
    ASSUME TypeOK, ListenInv, Reachable, NoStaleSubscription,
           NEW r \in Request, NEW from, NEW to, Goto(r, from, to),
           from \notin {"inserted", "deleted"}, to # "subscribed",
           \A q \in Request : q # r => job'[q] = job[q],
           contended \subseteq contended',
           UNCHANGED <<tables, subs, up, moved>>
    PROVE  ListenInv' /\ Reachable' /\ NoStaleSubscription'
<1>1. /\ pc[r] = from /\ pc'[r] = to
      /\ \A q \in Request : q # r => pc'[q] = pc[q]
  BY DEF Goto, TypeOK
<1>2. UNCHANGED <<rows, unfocused, subs, up, adrift, leftover>>
  BY DEF tables, moved
<1>3. ListenInv'
  BY <1>1, <1>2 DEF ListenInv
<1>4. Reachable'
  BY <1>1, <1>2 DEF Reachable, TypeOK, Row
<1>5. NoStaleSubscription'
  BY <1>1, <1>2 DEF NoStaleSubscription
<1>6. QED
  BY <1>3, <1>4, <1>5

LEMMA CreateUnits ==
    ASSUME TypeOK, KeyInv, UnitsInv, NEW r \in Creator, Create(r)
    PROVE  UnitsInv'
<1>0. ApartInv /\ HeldInv /\ ListenInv /\ Reachable /\ NoStaleSubscription
  BY DEF UnitsInv
<1>1. CASE MarkUnfocused(r)
  <2>1. /\ UNCHANGED <<rows, subs, up, adrift, leftover, contended, target>>
        /\ Goto(r, "inserted", "done")
        /\ pc[r] = "inserted" /\ pc'[r] = "done"
        /\ \A q \in Request : q # r => pc'[q] = pc[q] /\ job'[q] = job[q]
        /\ unfocused' = unfocused \cup {job[r].name}
    BY <1>1, FinishType DEF MarkUnfocused, Goto, TypeOK, broker, moved, history
  <2>2. ApartInv' /\ HeldInv'
    BY <1>0, <2>1, HandlerKeeps DEF Pc, HoldingPc
  <2>3. Reachable'
    <3>1. \A u \in rows : u.id = r => u.name \in unfocused' \/ u.name \in contended
      BY <1>0, <2>1 DEF HeldInv, Holding
    <3>2. QED
      BY <1>0, <2>1, <3>1 DEF Reachable, TypeOK, Row
  <2>4. ListenInv' /\ NoStaleSubscription'
    BY <1>0, <2>1 DEF ListenInv, NoStaleSubscription
  <2>5. QED
    BY <2>2, <2>3, <2>4 DEF UnitsInv
<1>2. ASSUME NEW n \in Name, NEW l \in Location, Insert(r, n, l)
      PROVE  UnitsInv'
  <2> DEFINE u == [id |-> r, name |-> n, location |-> l]
  <2>1. u \in Row /\ u.id = r /\ u.name = n
    BY DEF Row
  <2>2. /\ rows' = rows \cup {u} /\ Work(r, u) /\ Begin(r, {n})
        /\ pc[r] = "new" /\ pc'[r] = "inserted"
        /\ \A q \in Request : q # r => pc'[q] = pc[q]
        /\ UNCHANGED <<unfocused, subs, up, target, adrift, leftover>>
    BY <1>2 DEF Insert, Goto, TypeOK, broker, moved
  <2> HIDE DEF u
  <2>3. job'[r] = u /\ \A q \in Request : q # r => job'[q] = job[q]
    BY <2>1, <2>2, WorkType
  <2>4. \A q \in Admin : q # r => /\ Names(q)' = Names(q) /\ Busy(q)' = Busy(q)
                                  /\ Holding(q)' = Holding(q)
    BY <2>2, <2>3 DEF Names, Busy, Holding
  <2>5. Names(r)' = {n} /\ ~Busy(r) /\ Busy(r)'
    BY <2>1, <2>2, <2>3 DEF Names, Busy
  <2>6. /\ contended \subseteq contended'
        /\ \A q \in Admin : Busy(q)' /\ Names(q)' \cap contended' # {} => Contends(q)'
        /\ \A q, s \in Admin :
              q # s /\ Busy(q)' /\ Busy(s)' /\ Names(q)' \cap Names(s)' # {} => Contends(q)'
    BY <1>0, <2>2, <2>4, <2>5, Begins
  <2>7. /\ \A v \in rows : v.id # r
        /\ \A q \in Admin : Holding(q) => job[q].id # r
    BY <2>2 DEF KeyInv
  <2>8. ApartInv'
    <3>1. ASSUME NEW q \in Admin, NEW s \in Admin, q # s, Holding(q)', Holding(s)',
                 job'[q].id = job'[s].id
          PROVE  Contends(q)'
      <4>1. q # r /\ s # r
        BY <2>1, <2>3, <2>4, <2>7, <3>1
      <4>2. Contends(q)
        BY <1>0, <2>3, <2>4, <3>1, <4>1 DEF ApartInv
      <4>3. QED
        BY <2>4, <2>6, <4>1, <4>2 DEF Contends
    <3>2. QED
      BY <2>6, <3>1 DEF ApartInv
  <2>9. HeldInv'
    <3>1. ASSUME NEW q \in Admin, Holding(q)'
          PROVE  /\ pc'[q] # "deleted" => job'[q] \in rows' \/ job'[q].name \in contended'
                 /\ \A v \in rows' : v.id = job'[q].id =>
                       v = job'[q] \/ {v.name, job'[q].name} \subseteq contended'
      <4>1. CASE q = r
        BY <2>1, <2>2, <2>3, <2>7, <4>1
      <4>2. CASE q # r
        BY <1>0, <2>1, <2>2, <2>3, <2>4, <2>6, <2>7, <3>1, <4>2 DEF HeldInv
      <4>3. QED
        BY <4>1, <4>2
    <3>2. ASSUME NEW q \in Deleter, pc'[q] = "deleted"
          PROVE  (\A v \in rows' : v.name # job'[q].name) \/ job'[q].name \in contended'
      <4>1. q # r /\ pc[q] = "deleted" /\ job'[q] = job[q]
        BY <2>2, <2>3, <3>2
      <4>2. CASE job[q].name = n
        <5>1. n \in Names(q)' /\ Busy(q)'
          BY <3>2, <4>1, <4>2 DEF Names, Busy
        <5>2. QED
          BY <2>5, <2>6, <4>1, <4>2, <5>1 DEF Contends
      <4>3. CASE job[q].name # n
        BY <1>0, <2>1, <2>2, <2>6, <4>1, <4>3 DEF HeldInv
      <4>4. QED
        BY <4>2, <4>3
    <3>3. \A q \in Creator : pc'[q] = "inserted" => job'[q].id = q
      BY <1>0, <2>1, <2>2, <2>3 DEF HeldInv
    <3>4. QED
      BY <3>1, <3>2, <3>3 DEF HeldInv
  <2>10. ListenInv'
    BY <1>0, <2>2, <2>3, <2>6 DEF ListenInv
  <2>11. Reachable'
    BY <1>0, <2>1, <2>2, <2>6 DEF Reachable, TypeOK, Row
  <2>12. NoStaleSubscription'
    BY <1>0, <2>2, <2>3, <2>6 DEF NoStaleSubscription
  <2>13. QED
    BY <2>8, <2>9, <2>10, <2>11, <2>12 DEF UnitsInv
<1>3. QED
  BY <1>1, <1>2 DEF Create

LEMMA FocusUnits ==
    ASSUME TypeOK, KeyInv, UnitsInv, NEW r \in Focuser, Focus(r)
    PROVE  UnitsInv'
<1>0. ApartInv /\ HeldInv /\ ListenInv /\ Reachable /\ NoStaleSubscription
  BY DEF UnitsInv
<1>1. ASSUME NEW n \in Name, FocusCheck(r, n)
      PROVE  UnitsInv'
  <2>1. [AnyRow EXCEPT !.name = n] \in Row /\ [AnyRow EXCEPT !.name = n].name = n
    BY InitialRow DEF Row
  <2>2. /\ UNCHANGED <<tables, subs, up, target, moved>> /\ UNCHANGED rows
        /\ Goto(r, "new", "checked") /\ Begin(r, {n})
        /\ job'[r].name = n /\ \A q \in Request : q # r => job'[q] = job[q]
    BY <1>1, <2>1, WorkType DEF FocusCheck, tables, broker
  <2>3. Names(r)' = {n} /\ ~Busy(r)
    BY <2>2 DEF Names, Busy, Goto
  <2>4. ApartInv' /\ HeldInv' /\ contended \subseteq contended'
    BY <1>0, <2>2, <2>3, HandlerKeeps DEF Pc, HoldingPc
  <2>5. QED
    BY <1>0, <2>2, <2>4, RestKeeps DEF UnitsInv
<1>2. CASE FocusRead(r)
  <2>1. /\ UNCHANGED <<tables, subs, up, target, moved>> /\ UNCHANGED <<rows, contended>>
        /\ \/ Goto(r, "checked", "read") /\ job'[r] \in rows /\ job'[r].name = job[r].name
           \/ Goto(r, "checked", "done")
        /\ \A q \in Request : q # r => job'[q] = job[q]
    BY <1>2, ReadType, FinishType DEF FocusRead, tables, broker, history
  <2>2. Busy(r)
    BY <2>1 DEF Goto, Busy
  <2>3. ApartInv' /\ HeldInv'
    BY <1>0, <2>1, <2>2, HandlerKeeps DEF Pc, HoldingPc
  <2>4. ListenInv' /\ Reachable' /\ NoStaleSubscription'
    BY <1>0, <2>1, RestKeeps
  <2>5. QED
    BY <2>3, <2>4 DEF UnitsInv
<1>3. CASE FocusSubscribe(r)
  <2>1. /\ UNCHANGED <<rows, unfocused, up, target, job, leftover, contended>>
        /\ Goto(r, "read", "subscribed")
        /\ \/ up /\ subs' = subs \cup {TopicOf(job[r])} /\ UNCHANGED adrift
           \/ ~up /\ adrift' = adrift \cup {job[r].id} /\ UNCHANGED subs
    BY <1>3 DEF FocusSubscribe, tables
  <2>2. Busy(r) /\ Holding(r) /\ pc[r] = "read"
    BY <2>1 DEF Goto, Busy, Holding
  <2>3. ApartInv' /\ HeldInv'
    BY <1>0, <2>1, <2>2, HandlerKeeps DEF Pc, HoldingPc
  <2>4. \A q \in Request : q # r => pc'[q] = pc[q]
    BY <2>1 DEF Goto, TypeOK
  <2>5. ListenInv'
    BY <1>0, <2>1, <2>4 DEF ListenInv
  <2>6. Reachable'
    BY <1>0, <2>1, <2>4 DEF Reachable, TypeOK, Row
  <2>7. NoStaleSubscription'
    <3>1. subs' \subseteq subs \cup {TopicOf(job[r])}
      BY <2>1
    <3>2. \/ \E u \in rows : TopicOf(u) = TopicOf(job[r])
          \/ \E n \in contended, l \in Location :
                AssembleBaseStorageTopic(n, l) = TopicOf(job[r])
      <4>1. job[r] \in rows \/ job[r].name \in contended
        BY <1>0, <2>2 DEF HeldInv
      <4>2. job[r] \in Row /\ job[r].location \in Location
        BY DEF TypeOK, Row
      <4>3. QED
        BY <4>1, <4>2 DEF TopicOf
    <3>3. QED
      BY <1>0, <2>1, <2>4, <3>1, <3>2 DEF NoStaleSubscription
  <2>8. QED
    BY <2>3, <2>5, <2>6, <2>7 DEF UnitsInv
<1>4. CASE FocusUnmark(r)
  <2>1. /\ UNCHANGED <<rows, subs, up, target, adrift, leftover, contended>>
        /\ Goto(r, "subscribed", "done")
        /\ \A q \in Request : q # r => job'[q] = job[q]
        /\ unfocused' = unfocused \ {job[r].name}
    BY <1>4, FinishType DEF FocusUnmark, broker, moved, history
  <2>2. /\ pc[r] = "subscribed" /\ pc'[r] = "done" /\ Holding(r)
        /\ \A q \in Request : q # r => pc'[q] = pc[q]
    BY <2>1 DEF Goto, TypeOK, Holding
  <2>3. ApartInv' /\ HeldInv'
    BY <1>0, <2>1, HandlerKeeps DEF Pc, HoldingPc
  <2>4. Reachable'
    <3>1. job[r] \in rows \/ job[r].name \in contended
      BY <1>0, <2>2 DEF HeldInv
    <3>2. ASSUME NEW u \in rows, u.name = job[r].name
          PROVE  u = job[r] \/ u.name \in contended
      BY <3>1, <3>2 DEF TypeOK
    <3>3. ASSUME NEW u \in rows, u.name = job[r].name
          PROVE  \/ u.id \in adrift \/ u.name \in contended
                 \/ Ambiguous(u) \/ TopicOf(u) \in subs
      BY <1>0, <2>2, <3>2, <3>3 DEF ListenInv
    <3>4. QED
      BY <1>0, <2>1, <2>2, <3>3 DEF Reachable, TypeOK, Row
  <2>5. ListenInv' /\ NoStaleSubscription'
    BY <1>0, <2>1, <2>2 DEF ListenInv, NoStaleSubscription
  <2>6. QED
    BY <2>3, <2>4, <2>5 DEF UnitsInv
<1>5. QED
  BY <1>1, <1>2, <1>3, <1>4 DEF Focus

(* An update changes rows of names it is at work on, and says so in the    *)
(* history.                                                                *)
LEMMA UpdateUnits ==
    ASSUME TypeOK, KeyInv, UnitsInv, NEW r \in Updater, Update(r)
    PROVE  UnitsInv'
<1>0. ApartInv /\ HeldInv /\ ListenInv /\ Reachable /\ NoStaleSubscription
  BY DEF UnitsInv
<1>1. ASSUME NEW n \in Name, NEW new \in Name, UpdateRead(r, n, new)
      PROVE  UnitsInv'
  <2>1. /\ UNCHANGED <<tables, subs, up, moved>> /\ UNCHANGED rows
        /\ Goto(r, "new", "read") /\ Begin(r, {n, new})
        /\ job'[r] \in rows /\ job'[r].name = n /\ target'[r] = new
        /\ \A q \in Request : q # r => job'[q] = job[q]
        /\ \A q \in Updater : q # r => target'[q] = target[q]
    BY <1>1, ReadType DEF UpdateRead, TypeOK, tables, broker
  <2>2. Names(r)' = {n, new} /\ ~Busy(r)
    BY <2>1 DEF Names, Busy, Goto
  <2>3. ApartInv' /\ HeldInv' /\ contended \subseteq contended'
    BY <1>0, <2>1, <2>2, HandlerKeeps DEF Pc, HoldingPc
  <2>4. ListenInv' /\ Reachable' /\ NoStaleSubscription'
    BY <1>0, <2>1, <2>3, RestKeeps
  <2>5. QED
    BY <2>3, <2>4 DEF UnitsInv
<1>2. ASSUME NEW l \in Location, UpdateSave(r, l)
      PROVE  UnitsInv'
  <2>1. /\ UNCHANGED <<unfocused, subs, up, contended>>
        /\ Goto(r, "read", "done")
        /\ \A q \in Request : q # r => job'[q] = job[q]
        /\ \A q \in Updater : q # r => target'[q] = target[q]
    BY <1>2, FinishType DEF UpdateSave, TypeOK, broker
  <2>2. /\ pc[r] = "read" /\ pc'[r] = "done"
        /\ \A q \in Request : q # r => pc'[q] = pc[q]
    BY <2>1 DEF Goto, TypeOK
  <2>3. CASE UNCHANGED <<rows, adrift, leftover>>
    <3>1. ApartInv' /\ HeldInv'
      BY <1>0, <2>1, <2>3, HandlerKeeps DEF Pc, HoldingPc
    <3>2. ListenInv' /\ Reachable' /\ NoStaleSubscription'
      BY <1>0, <2>1, <2>3, RestKeeps DEF tables, moved
    <3>3. QED
      BY <3>1, <3>2 DEF UnitsInv
  <2>4. CASE ~UNCHANGED <<rows, adrift, leftover>>
    <3>1. /\ \A u \in rows' :
                \/ u \in rows
                \/ /\ u.name = target[r]
                   /\ \/ u.id = job[r].id
                      \/ \E v \in rows : v.id = u.id /\ v.name = target[r]
          /\ \A u \in rows : u \in rows' \/ u.id = job[r].id \/ u.name = target[r]
          /\ adrift' = adrift \cup {u.id : u \in rows' \ rows}
          /\ leftover' = leftover \cup {TopicOf(u) : u \in rows \ rows'}
      BY <1>2, <2>4, UpdateRows
    <3>2. Busy(r) /\ Holding(r) /\ Names(r) = {job[r].name, target[r]}
      BY <2>2 DEF Busy, Holding, Names
    <3>3. \A q \in Admin : /\ job[q].name \in Names(q)
                           /\ Holding(q) => Busy(q)
      BY DEF Names, Holding, Busy
    <3>4. \A q \in Admin : q # r => /\ Names(q)' = Names(q) /\ Busy(q)' = Busy(q)
                                    /\ Holding(q)' = Holding(q)
      BY <2>1, <2>2 DEF Names, Busy, Holding
    <3>5. ~Busy(r)' /\ ~Holding(r)'
      BY <2>2 DEF Busy, Holding
    <3>6. ApartInv'
      BY <1>0, <2>1, <3>4, <3>5 DEF ApartInv, Contends
    <3>7. HeldInv'
      <4>1. ASSUME NEW q \in Admin, Holding(q)'
            PROVE  /\ pc'[q] # "deleted" => job'[q] \in rows' \/ job'[q].name \in contended
                   /\ \A u \in rows' : u.id = job'[q].id =>
                         u = job'[q] \/ {u.name, job'[q].name} \subseteq contended
        <5>1. q # r /\ Holding(q) /\ job'[q] = job[q] /\ pc'[q] = pc[q]
          BY <2>1, <2>2, <3>4, <3>5, <4>1
        <5>2. CASE job[q].id = job[r].id \/ job[q].name = target[r]
          <6>1. Contends(q) /\ Contends(r)
            <7>1. CASE job[q].id = job[r].id
              BY <1>0, <3>2, <5>1, <7>1 DEF ApartInv
            <7>2. CASE job[q].name = target[r]
              <8>1. target[r] \in Names(q) \cap Names(r) /\ Busy(q)
                BY <3>2, <3>3, <5>1, <7>2
              <8>2. QED
                BY <1>0, <3>2, <5>1, <8>1 DEF ApartInv
            <7>3. QED
              BY <5>2, <7>1, <7>2
          <6>2. job[q].name \in contended /\ target[r] \in contended
            BY <3>2, <3>3, <6>1 DEF Contends
          <6>3. \A u \in rows : u.id = job[q].id =>
                    u = job[q] \/ {u.name, job[q].name} \subseteq contended
            BY <1>0, <5>1 DEF HeldInv
          <6>4. QED
            BY <3>1, <5>1, <6>2, <6>3
        <5>3. CASE job[q].id # job[r].id /\ job[q].name # target[r]
          <6>1. /\ pc[q] # "deleted" => job[q] \in rows \/ job[q].name \in contended
                /\ \A u \in rows : u.id = job[q].id =>
                      u = job[q] \/ {u.name, job[q].name} \subseteq contended
            BY <1>0, <5>1 DEF HeldInv
          <6>2. ASSUME NEW u \in rows', u.id = job[q].id
                PROVE  u = job[q] \/ {u.name, job[q].name} \subseteq contended
            <7>1. CASE u \in rows
              BY <6>1, <6>2, <7>1
            <7>2. CASE u \notin rows
              <8>1. PICK v \in rows : v.id = u.id /\ v.name = target[r]
                BY <3>1, <5>3, <6>2, <7>2
              <8>2. u.name = v.name
                BY <3>1, <7>2, <8>1
              <8>3. QED
                BY <5>3, <6>1, <6>2, <8>1, <8>2
            <7>3. QED
              BY <7>1, <7>2
          <6>3. pc[q] # "deleted" => job[q] \in rows' \/ job[q].name \in contended
            BY <3>1, <5>3, <6>1
          <6>4. QED
            BY <5>1, <6>2, <6>3
        <5>4. QED
          BY <5>2, <5>3
      <4>2. ASSUME NEW q \in Deleter, pc'[q] = "deleted"
            PROVE  (\A u \in rows' : u.name # job'[q].name) \/ job'[q].name \in contended
        <5>1. q # r /\ pc[q] = "deleted" /\ job'[q] = job[q] /\ Busy(q)
          BY <2>1, <2>2, <4>2 DEF Busy
        <5>2. (\A u \in rows : u.name # job[q].name) \/ job[q].name \in contended
          BY <1>0, <5>1 DEF HeldInv
        <5>3. CASE job[q].name = target[r]
          <6>1. target[r] \in Names(q) \cap Names(r)
            BY <3>2, <3>3, <5>3
          <6>2. Contends(q)
            BY <1>0, <3>2, <5>1, <6>1 DEF ApartInv
          <6>3. QED
            BY <3>3, <5>1, <6>2 DEF Contends
        <5>4. CASE job[q].name # target[r]
          BY <3>1, <5>1, <5>2, <5>4
        <5>5. QED
          BY <5>3, <5>4
      <4>3. \A q \in Creator : pc'[q] = "inserted" => job'[q].id = q
        BY <1>0, <2>1, <2>2 DEF HeldInv
      <4>4. QED
        BY <2>1, <4>1, <4>2, <4>3 DEF HeldInv
    <3>8. Reachable'
      <4>1. ASSUME NEW u \in rows'
            PROVE  \/ u.id \in adrift' \/ u.name \in contended' \/ Ambiguous(u)
                   \/ TopicOf(u) \in subs'
                   \/ u.name \in unfocused' \/ pc'[u.id] = "inserted"
        <5>1. CASE u \in rows
          BY <1>0, <2>1, <2>2, <3>1, <5>1 DEF Reachable, TypeOK, Row
        <5>2. CASE u \notin rows
          BY <3>1, <5>2
        <5>3. QED
          BY <5>1, <5>2
      <4>2. QED
        BY <4>1 DEF Reachable
    <3>9. NoStaleSubscription'
      <4>1. ASSUME NEW t \in subs'
            PROVE  \/ t \in leftover'
                   \/ \E n \in contended', k \in Location : AssembleBaseStorageTopic(n, k) = t
                   \/ \E u \in rows' : TopicOf(u) = t
                   \/ \E q \in Deleter : pc'[q] = "deleted" /\ TopicOf(job'[q]) = t
        <5>1. CASE t \in leftover
          BY <3>1, <5>1
        <5>2. CASE \E u \in rows : TopicOf(u) = t
          BY <3>1, <5>2
        <5>3. CASE \E q \in Deleter : pc[q] = "deleted" /\ TopicOf(job[q]) = t
          BY <2>1, <2>2, <5>3
        <5>4. CASE \E n \in contended, k \in Location : AssembleBaseStorageTopic(n, k) = t
          BY <2>1, <5>4
        <5>5. QED
          BY <1>0, <2>1, <4>1, <5>1, <5>2, <5>3, <5>4 DEF NoStaleSubscription
      <4>2. QED
        BY <4>1 DEF NoStaleSubscription
    <3>10. ListenInv'
      BY <1>0, <2>1, <2>2, <3>1 DEF ListenInv
    <3>11. QED
      BY <3>6, <3>7, <3>8, <3>9, <3>10 DEF UnitsInv
  <2>5. QED
    BY <2>3, <2>4
<1>3. QED
  BY <1>1, <1>2 DEF Update

(* The subscription of a deleted unit is given up; a unit of the same      *)
(* topic loses it too, and is then one of the same, contended name or one  *)
(* that shares its topic with another name.                                *)
LEMMA DeleteUnits ==
    ASSUME TypeOK, KeyInv, UnitsInv, NEW r \in Deleter, Delete(r)
    PROVE  UnitsInv'
<1>0. ApartInv /\ HeldInv /\ ListenInv /\ Reachable /\ NoStaleSubscription
  BY DEF UnitsInv
<1>1. ASSUME NEW n \in Name, DeleteRead(r, n)
      PROVE  UnitsInv'
  <2>1. /\ UNCHANGED <<tables, subs, up, target, moved>> /\ UNCHANGED rows
        /\ Goto(r, "new", "read") /\ Begin(r, {n})
        /\ job'[r] \in rows /\ job'[r].name = n
        /\ \A q \in Request : q # r => job'[q] = job[q]
    BY <1>1, ReadType DEF DeleteRead, tables, broker
  <2>2. Names(r)' = {n} /\ ~Busy(r)
    BY <2>1 DEF Names, Busy, Goto
  <2>3. ApartInv' /\ HeldInv' /\ contended \subseteq contended'
    BY <1>0, <2>1, <2>2, HandlerKeeps DEF Pc, HoldingPc
  <2>4. ListenInv' /\ Reachable' /\ NoStaleSubscription'
    BY <1>0, <2>1, <2>3, RestKeeps
  <2>5. QED
    BY <2>3, <2>4 DEF UnitsInv
<1>2. CASE DeleteRow(r)
  <2>1. /\ UNCHANGED <<unfocused, subs, up, job, target, adrift, leftover, contended>>
        /\ pc[r] = "read" /\ pc'[r] = "deleted"
        /\ \A q \in Request : q # r => pc'[q] = pc[q]
        /\ rows' = {u \in rows : u.id # job[r].id}
    BY <1>2 DEF DeleteRow, Goto, TypeOK, broker, moved, history
  <2>2. Holding(r) /\ Holding(r)' /\ Busy(r) /\ Busy(r)'
    BY <2>1 DEF Holding, Busy
  <2>3. \A q \in Admin : /\ Names(q)' = Names(q) /\ Busy(q)' = Busy(q)
                         /\ Holding(q)' = Holding(q)
    BY <2>1, <2>2 DEF Names, Busy, Holding
  <2>4. ApartInv'
    BY <1>0, <2>1, <2>3 DEF ApartInv, Contends
  <2>5. HeldInv'
    <3>1. ASSUME NEW q \in Admin, Holding(q)', pc'[q] # "deleted"
          PROVE  job'[q] \in rows' \/ job'[q].name \in contended
      <4>1. q # r /\ Holding(q) /\ pc[q] # "deleted"
        BY <2>1, <2>3, <3>1
      <4>2. job[q] \in rows \/ job[q].name \in contended
        BY <1>0, <4>1 DEF HeldInv
      <4>3. CASE job[q].id = job[r].id
        <5>1. Contends(q)
          BY <1>0, <2>2, <4>1, <4>3 DEF ApartInv
        <5>2. QED
          BY <2>1, <5>1 DEF Contends, Names
      <4>4. CASE job[q].id # job[r].id
        BY <2>1, <4>2, <4>4
      <4>5. QED
        BY <4>3, <4>4
    <3>2. ASSUME NEW q \in Admin, Holding(q)'
          PROVE  \A u \in rows' : u.id = job'[q].id =>
                     u = job'[q] \/ {u.name, job'[q].name} \subseteq contended
      BY <1>0, <2>1, <2>3, <3>2 DEF HeldInv
    <3>3. ASSUME NEW q \in Deleter, pc'[q] = "deleted"
          PROVE  (\A u \in rows' : u.name # job'[q].name) \/ job'[q].name \in contended
      <4>1. CASE q = r
        <5>1. job[r] \in rows \/ job[r].name \in contended
          BY <1>0, <2>1, <2>2 DEF HeldInv
        <5>2. job[r] \in rows => \A u \in rows : u.name = job[r].name => u.id = job[r].id
          BY DEF TypeOK
        <5>3. QED
          BY <2>1, <4>1, <5>1, <5>2
      <4>2. CASE q # r
        BY <1>0, <2>1, <3>3, <4>2 DEF HeldInv
      <4>3. QED
        BY <4>1, <4>2
    <3>4. \A q \in Creator : pc'[q] = "inserted" => job'[q].id = q
      BY <1>0, <2>1 DEF HeldInv
    <3>5. QED
      BY <2>1, <3>1, <3>2, <3>3, <3>4 DEF HeldInv
  <2>6. Reachable'
    BY <1>0, <2>1 DEF Reachable, TypeOK, Row
  <2>7. NoStaleSubscription'
    <3>1. ASSUME NEW u \in rows
          PROVE  \/ u \in rows'
                 \/ TopicOf(job'[r]) = TopicOf(u)
                 \/ \E n \in contended, l \in Location :
                       AssembleBaseStorageTopic(n, l) = TopicOf(u)
      <4>1. CASE u.id # job[r].id
        BY <2>1, <4>1
      <4>2. CASE u = job[r]
        BY <2>1, <4>2
      <4>3. CASE u.name \in contended
        BY <4>3 DEF TypeOK, Row, TopicOf
      <4>4. QED
        BY <1>0, <2>2, <4>1, <4>2, <4>3 DEF HeldInv
    <3>2. QED
      BY <1>0, <2>1, <3>1 DEF NoStaleSubscription
  <2>8. ListenInv'
    BY <1>0, <2>1 DEF ListenInv
  <2>9. QED
    BY <2>4, <2>5, <2>6, <2>7, <2>8 DEF UnitsInv
<1>3. CASE DeleteUnsubscribe(r)
  <2>1. /\ UNCHANGED <<rows, unfocused, up, target, adrift, leftover, contended>>
        /\ Goto(r, "deleted", "done")
        /\ subs' = IF up THEN subs \ {TopicOf(job[r])} ELSE subs
        /\ \A q \in Request : q # r => job'[q] = job[q]
    BY <1>3, FinishType DEF DeleteUnsubscribe, tables, moved, history
  <2>2. /\ pc[r] = "deleted" /\ pc'[r] = "done" /\ Busy(r)
        /\ \A q \in Request : q # r => pc'[q] = pc[q]
    BY <2>1 DEF Goto, TypeOK, Busy
  <2>3. ApartInv' /\ HeldInv'
    BY <1>0, <2>1, HandlerKeeps DEF Pc, HoldingPc
  <2>4. subs' = subs \ {TopicOf(job[r])}
    BY <1>0, <2>1 DEF ListenInv
  <2>5. job[r] \in Row /\ job[r].name \in Name /\ job[r].location \in Location
    BY DEF TypeOK, Row
  <2>6. ASSUME NEW u \in Row, TopicOf(u) = TopicOf(job[r])
        PROVE  u.name = job[r].name \/ Ambiguous(u)
    BY <2>5, <2>6 DEF Ambiguous, TopicOf
  <2>7. Reachable'
    <3>1. ASSUME NEW u \in rows, TopicOf(u) = TopicOf(job[r])
          PROVE  u.name \in contended \/ Ambiguous(u)
      <4>1. u \in Row
        BY DEF TypeOK
      <4>2. (\A v \in rows : v.name # job[r].name) \/ job[r].name \in contended
        BY <1>0, <2>2 DEF HeldInv
      <4>3. QED
        BY <2>6, <3>1, <4>1, <4>2
    <3>2. QED
      BY <1>0, <2>1, <2>2, <2>4, <3>1 DEF Reachable, TypeOK, Row
  <2>8. NoStaleSubscription'
    BY <1>0, <2>1, <2>2, <2>4 DEF NoStaleSubscription
  <2>9. ListenInv'
    <3>1. ASSUME NEW q \in Focuser, pc[q] = "subscribed", TopicOf(job[q]) = TopicOf(job[r])
          PROVE  job[q].name \in contended \/ Ambiguous(job[q])
      <4>1. job[q] \in Row /\ Busy(q) /\ q # r
        BY <2>2, <3>1 DEF TypeOK, Busy
      <4>2. CASE job[q].name = job[r].name
        <5>1. job[q].name \in Names(q) \cap Names(r)
          BY <4>2 DEF Names
        <5>2. Contends(q)
          BY <1>0, <2>2, <4>1, <5>1 DEF ApartInv
        <5>3. QED
          BY <5>2 DEF Contends, Names
      <4>3. QED
        BY <2>6, <3>1, <4>1, <4>2
    <3>2. \A q \in Focuser : q # r /\ pc'[q] = pc[q] /\ job'[q] = job[q]
      BY <2>1, <2>2
    <3>3. QED
      BY <1>0, <2>1, <2>4, <3>1, <3>2 DEF ListenInv
  <2>10. QED
    BY <2>3, <2>7, <2>8, <2>9 DEF UnitsInv
<1>4. QED
  BY <1>1, <1>2, <1>3 DEF Delete

(* Pings, messages, a broken connection and a restart.                     *)
LEMMA OtherUnits ==
    ASSUME TypeOK, KeyInv, UnitsInv,
           \/ \E r \in Pinger : Ping(r)
           \/ \E m \in msgs : UnitAnswer(m) \/ Hear(m) \/ Lose(m)
           \/ Break \/ Reconnect \/ Restart
    PROVE  UnitsInv'
<1>0. ApartInv /\ HeldInv /\ ListenInv /\ Reachable /\ NoStaleSubscription
  BY DEF UnitsInv
<1>1. ASSUME NEW r \in Pinger, Ping(r)
      PROVE  UnitsInv'
  <2>1. /\ UNCHANGED <<rows, unfocused, subs, up, target, adrift, leftover, contended>>
        /\ \A q \in Request : q # r => pc'[q] = pc[q] /\ job'[q] = job[q]
    BY <1>1, ReadType, FinishType
    DEF Ping, PingRead, PingStore, PingPublish, Goto, TypeOK, tables, broker, moved, history
  <2>2. \A q \in Admin : /\ Names(q)' = Names(q) /\ Busy(q)' = Busy(q)
                         /\ Holding(q)' = Holding(q)
    BY <2>1 DEF Names, Busy, Holding
  <2>3. ApartInv'
    BY <1>0, <2>1, <2>2 DEF ApartInv, Contends
  <2>4. HeldInv' /\ ListenInv'
    BY <1>0, <2>1, <2>2 DEF HeldInv, ListenInv
  <2>5. Reachable'
    BY <1>0, <2>1 DEF Reachable, TypeOK, Row
  <2>6. NoStaleSubscription'
    BY <1>0, <2>1 DEF NoStaleSubscription
  <2>7. QED
    BY <2>3, <2>4, <2>5, <2>6 DEF UnitsInv
<1>2. CASE Reconnect \/ \E m \in msgs : UnitAnswer(m) \/ Hear(m) \/ Lose(m)
  <2>1. /\ UNCHANGED <<rows, unfocused, subs, pc, job, target, adrift, leftover, contended>>
        /\ up => up'
    BY <1>2 DEF UnitAnswer, Hear, Lose, Reconnect, tables, handler, moved, history
  <2>2. ApartInv' /\ HeldInv'
    BY <1>0, <2>1, ZenonT(30) DEF ApartInv, HeldInv, Names, Busy, Holding, Contends
  <2>3. ListenInv' /\ Reachable' /\ NoStaleSubscription'
    BY <1>0, <2>1 DEF ListenInv, Reachable, NoStaleSubscription
  <2>4. QED
    BY <2>2, <2>3 DEF UnitsInv
<1>3. CASE Break
  <2>1. /\ UNCHANGED <<rows, unfocused, pc, job, target, leftover, contended>>
        /\ subs' = {}
        /\ adrift' = adrift \cup {u.id : u \in {v \in rows : TopicOf(v) \in subs}}
    BY <1>3 DEF Break, tables, handler
  <2>2. ApartInv' /\ HeldInv'
    BY <1>0, <2>1, ZenonT(30) DEF ApartInv, HeldInv, Names, Busy, Holding, Contends
  <2>3. Reachable' /\ NoStaleSubscription'
    BY <1>0, <2>1 DEF Reachable, NoStaleSubscription
  <2>4. ListenInv'
    <3>1. \A q \in Focuser :
              pc[q] = "subscribed" => job[q] \in rows \/ job[q].name \in contended
      BY <1>0 DEF HeldInv, Holding
    <3>2. QED
      BY <1>0, <2>1, <3>1 DEF ListenInv
  <2>5. QED
    BY <2>2, <2>3, <2>4 DEF UnitsInv
<1>4. CASE Restart
  <2>1. /\ UNCHANGED rows /\ up'
        /\ subs' = {TopicOf(u) : u \in rows}
        /\ \A q \in Request : pc'[q] \in {"new", "done"}
    BY <1>4 DEF Restart
  <2>2. ApartInv' /\ HeldInv' /\ ListenInv'
    BY <2>1 DEF ApartInv, HeldInv, ListenInv, Busy, Holding
  <2>3. Reachable' /\ NoStaleSubscription'
    BY <2>1 DEF Reachable, NoStaleSubscription
  <2>4. QED
    BY <2>2, <2>3 DEF UnitsInv
<1>5. QED
  BY <1>1, <1>2, <1>3, <1>4

(* The invariant of units that administrators are at work on.              *)
LEMMA UnitsInvariant == Spec => []UnitsInv
<1>1. Init => TypeOK /\ KeyInv /\ UnitsInv
  BY InitType, InitUnits DEF Init, KeyInv, Holding
<1>2. TypeOK /\ KeyInv /\ UnitsInv /\ [Next]_vars => UnitsInv'
  <2>1. SUFFICES ASSUME TypeOK, KeyInv, UnitsInv, [Next]_vars
                 PROVE  UnitsInv'
    OBVIOUS
  <2>2. CASE UNCHANGED vars
    BY <2>1, <2>2
    DEF vars, tables, broker, handler, moved, history, UnitsInv, ApartInv, HeldInv,
        ListenInv, Reachable, NoStaleSubscription, Busy, Holding, Contends, Names
  <2>3. QED
    BY <2>1, <2>2, CreateUnits, FocusUnits, UpdateUnits, DeleteUnits, OtherUnits DEF Next
<1>3. QED
  BY <1>1, <1>2, TypeStep, PTL DEF Spec

(* A unit whose names only one administrator at a time was at work on, and *)
(* that no update moved and no broken connection cut off, is listened to   *)
(* or listed as unfocused, whatever is done to other units meanwhile.      *)
THEOREM UnitsStayReachable == Spec => []Reachable
<1>1. UnitsInv => Reachable
  BY DEF UnitsInv
<1>2. QED
  BY UnitsInvariant, <1>1, PTL

(* No deleted unit is listened to, unless two administrators were at work  *)
(* on its name.                                                            *)
THEOREM NoSubscriptionStale == Spec => []NoStaleSubscription
<1>1. UnitsInv => NoStaleSubscription
  BY DEF UnitsInv
<1>2. QED
  BY UnitsInvariant, <1>1, PTL

-----------------------------------------------------------------------------
(* The entries of pings in the Map.                                        *)

(* Steps of others: no entry is made, whoever may publish still may, and   *)
(* messages change hands or are known not to be heard.                     *)
LEMMA AwaitedKept ==
    ASSUME PingsAwaited,
           pending' \subseteq pending,
           unheard \subseteq unheard',
           \A r \in pending' : pc[r] = "stored" => pc'[r] = "stored",
           \A m \in msgs : m.req \in pending' =>
              m.req \in unheard' \/ \E k \in msgs' : k.req = m.req
    PROVE  PingsAwaited'
  BY DEF PingsAwaited

(* A handler that is no ping's leaves all of it alone.                     *)
LEMMA AdminAwaited ==
    ASSUME TypeOK, PingsAwaited, NEW r \in Admin,
           Create(r) \/ Focus(r) \/ Update(r) \/ Delete(r)
    PROVE  PingsAwaited'
<1>1. UNCHANGED <<pending, unheard, msgs>>
  BY DEF Create, Insert, MarkUnfocused, Focus, FocusCheck, FocusRead, FocusSubscribe,
         FocusUnmark, Update, UpdateRead, UpdateSave, Delete, DeleteRead, DeleteRow,
         DeleteUnsubscribe, broker, pings
<1>2. \E from, to : Goto(r, from, to)
  BY DEF Create, Insert, MarkUnfocused, Focus, FocusCheck, FocusRead, FocusSubscribe,
         FocusUnmark, Update, UpdateRead, UpdateSave, Delete, DeleteRead, DeleteRow,
         DeleteUnsubscribe, Finish
<1>3. \A q \in pending : pc'[q] = pc[q]
  BY <1>2 DEF Goto, TypeOK
<1>4. QED
  BY <1>1, <1>3, AwaitedKept

LEMMA PingAwaited ==
    ASSUME TypeOK, PingsAwaited, NEW r \in Pinger, Ping(r)
    PROVE  PingsAwaited'
<1>1. ASSUME NEW n \in Name, PingRead(r, n)
      PROVE  PingsAwaited'
  <2>1. UNCHANGED <<pending, unheard, msgs>> /\ pc[r] = "new"
    BY <1>1 DEF PingRead, Goto, broker, pings
  <2>2. \A q \in pending : q # r => pc'[q] = pc[q]
    BY <1>1 DEF PingRead, Goto, TypeOK
  <2>3. QED
    BY <2>1, <2>2, AwaitedKept
<1>2. CASE PingStore(r)
  <2>1. /\ UNCHANGED <<unheard, msgs>> /\ pending' = pending \cup {r}
        /\ pc'[r] = "stored" /\ \A q \in pending : q # r => pc'[q] = pc[q]
    BY <1>2 DEF PingStore, Goto, TypeOK, broker
  <2>2. QED
    BY <2>1 DEF PingsAwaited
<1>3. CASE PingPublish(r)
  <2> DEFINE m == [to |-> "unit", req |-> r, topic |-> TopicOf(job[r])]
  <2>1. /\ UNCHANGED <<pending, unheard>> /\ msgs' = msgs \cup {m}
        /\ \A q \in pending : q # r => pc'[q] = pc[q]
    BY <1>3 DEF PingPublish, Finish, Goto, TypeOK, pings
  <2>2. m.req = r
    OBVIOUS
  <2> HIDE DEF m
  <2>3. QED
    BY <2>1, <2>2 DEF PingsAwaited
<1>4. QED
  BY <1>1, <1>2, <1>3 DEF Ping

LEMMA MessageAwaited ==
    ASSUME TypeOK, PingsAwaited, NEW m \in msgs, UnitAnswer(m) \/ Hear(m) \/ Lose(m)
    PROVE  PingsAwaited'
<1>1. CASE UnitAnswer(m)
  <2>1. [m EXCEPT !.to = "server"].req = m.req
    BY DEF TypeOK, Message
  <2>2. \A j \in msgs : \E k \in msgs' : k.req = j.req
    BY <1>1, <2>1 DEF UnitAnswer
  <2>3. QED
    BY <1>1, <2>2, AwaitedKept DEF UnitAnswer, handler, pings
<1>2. CASE Hear(m)
  BY <1>2, AwaitedKept DEF Hear, handler
<1>3. CASE Lose(m)
  BY <1>3, AwaitedKept DEF Lose, handler
<1>4. QED
  BY <1>1, <1>2, <1>3

LEMMA AwaitedStep ==
    ASSUME TypeOK, PingsAwaited, [Next]_vars
    PROVE  PingsAwaited'
<1>1. CASE Break \/ Reconnect
  BY <1>1, AwaitedKept DEF Break, Reconnect, handler, pings
<1>2. CASE Restart
  BY <1>2 DEF Restart, PingsAwaited
<1>3. CASE UNCHANGED vars
  BY <1>3, AwaitedKept DEF vars, broker, handler, pings
<1>4. QED
  BY <1>1, <1>2, <1>3, AdminAwaited, PingAwaited, MessageAwaited DEF Next

(* An entry of the Map has a handler or a message that will take it out,   *)
(* or its answer was not heard: the safety half of PingsClose.             *)
THEOREM PingsHaveAnOwner == Spec => []PingsAwaited
<1>1. Init => PingsAwaited
  BY DEF Init, PingsAwaited
<1>2. QED
  BY <1>1, AwaitedStep, UnitsTypeCorrect, PTL DEF Spec
=============================================================================
