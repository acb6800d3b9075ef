---------------------------- MODULE CardInventory ----------------------------
(***************************************************************************)
(* The cards of one storage-unit: creating and deleting them, while other  *)
(* handlers fetch, reserve and borrow them.                                *)
(*                                                                         *)
(* The REST handlers check the tables and ask the unit to store a card or  *)
(* to take one out at a position; only the handler of the unit's answer    *)
(* inserts or deletes the row, and checks nothing again.  Handlers that    *)
(* change a row read it, and later write all of it back by its primary     *)
(* key: gorm's Save inserts the row again if the key has vanished.         *)
(* No handler keeps anything across requests, so a restart of the server   *)
(* is a handler that takes no further step.                                *)
(*                                                                         *)
(* A physical card is identified by the request for which it was put in:   *)
(* the unit knows positions only, and two cards may be said to be one.     *)
(***************************************************************************)
EXTENDS Naturals, FiniteSetsExt

CONSTANTS Name,        \* names of cards
          Creation,    \* requests to create a card
          Deletion,    \* requests to delete a card
          Writer,      \* requests that write a card row back
          Kind,        \* what a Writer may do: "fetch", "reserve", "borrow",
                       \* or "edit": change a row's counter, reader data or
                       \* availability, but not its name or position
          Capacity,    \* how many cards the unit is said to hold
          HonestUnit,  \* the unit reports what its hardware did
          MayLose,     \* a message may get lost
          DBMayFail    \* a database statement may return an error

Administrator == Creation \cup Deletion
Request == Administrator \cup Writer

ASSUME InventoryAssumption ==
    /\ Name # {}
    /\ Creation # {}
    /\ Creation \cap (Deletion \cup Writer) = {}
    /\ Deletion \cap Writer = {}
    /\ Kind \subseteq {"fetch", "reserve", "borrow", "edit"}
    /\ Capacity \in Nat \ {0}
    /\ {HonestUnit, MayLose, DBMayFail} \subseteq BOOLEAN

VARIABLES card,       \* table cards, by name
          linked,     \* table storage_cards: the cards of the unit
          reserved,   \* table card_reservations: cards with a reservation
          pc,         \* progress of the handler of each request
          job,        \* what the handler of a Writer has read
          msgs,       \* MQTT messages in transit
          stored,     \* what is physically in the unit, and where
          everStored, \* history: creations whose card was put into the unit
          lent,       \* history: cards given to a borrower
          clobbered,  \* history: a row was overwritten with that of an
                      \* earlier card of the same name
          met         \* history: pairs of administrators' requests that were
                      \* under way at the same time

tables  == <<card, linked, reserved>>
unit    == <<stored, everStored, lent>>
history == <<clobbered, met>>
vars == <<tables, pc, job, msgs, unit, history>>

Row     == [id: Creation, pos: Nat, available: BOOLEAN]
Job     == [kind: Kind \cup {"none", "ack"}, card: Name, row: Row]
Message == [to: {"unit", "server"}, req: Request, card: Name, pos: Nat,
            ok: BOOLEAN]
AnyName == CHOOSE n \in Name : TRUE
AnyRow  == [id |-> CHOOSE k \in Creation : TRUE, pos |-> 0, available |-> TRUE]

(* Every variable has its type, and no link outlives its row: a unit and a *)
(* reservation refer to rows that exist, also after deletions and saves of *)
(* rows deleted meanwhile.                                                 *)
TypeOK ==
    /\ card \in [DOMAIN card -> Row] /\ IsFiniteSet(DOMAIN card)
    /\ linked \subseteq DOMAIN card /\ DOMAIN card \subseteq Name
    /\ reserved \subseteq DOMAIN card
    /\ pc \in [Request -> {"new", "read", "saved", "asked", "over"}]
    /\ job \in [Writer -> Job]
    /\ msgs \subseteq Message
    /\ stored \subseteq Creation \X Nat
    /\ everStored \subseteq Creation
    /\ lent \subseteq Creation
    /\ clobbered \in BOOLEAN
    /\ met \subseteq SUBSET Administrator

Init ==
    /\ card = [n \in {} |-> AnyRow]
    /\ linked = {}
    /\ reserved = {}
    /\ pc = [r \in Request |-> "new"]
    /\ job = [w \in Writer |-> [kind |-> "none", card |-> AnyName, row |-> AnyRow]]
    /\ msgs = {}
    /\ stored = {}
    /\ everStored = {}
    /\ lent = {}
    /\ clobbered = FALSE
    /\ met = {}

Goto(r, p) == pc' = [pc EXCEPT ![r] = p]
Put(n, rw) == card' = [k \in DOMAIN card \cup {n} |-> IF k = n THEN rw ELSE card[k]]

Ask(r, n, p) ==
    /\ msgs' = msgs \cup {[to |-> "unit", req |-> r, card |-> n, pos |-> p,
                           ok |-> FALSE]}
    /\ Goto(r, "asked")

-----------------------------------------------------------------------------
(* REST handlers of the administrators.                                    *)
Underway == {m.req : m \in {k \in msgs : k.req \in Administrator}}

AskUnit(r, n, p) ==
    /\ Ask(r, n, p)
    /\ met' = met \cup {{r, q} : q \in Underway}

OneMore == Cardinality(linked) = Capacity + 1
Full == Cardinality(linked) = Capacity

FirstUnused == Cardinality(linked)
NextPosition == IF linked = {} THEN 0
                ELSE Max({card[n].pos : n \in linked}) + 1

CreateHandler(r) ==
    /\ r \in Creation
    /\ pc[r] = "new"
    /\ \E n \in Name :
          \/ /\ ~Full
             /\ AskUnit(r, n, NextPosition)
          \/ /\ Full \/ DBMayFail
             /\ Goto(r, "over")
             /\ UNCHANGED <<msgs, met>>
    /\ UNCHANGED <<tables, job, unit, clobbered>>

(* A card that belongs to no unit is not deleted either.                   *)
MayDelete(n) == n \in linked /\ card[n].available /\ n \notin reserved

DeleteHandler(r) ==
    /\ r \in Deletion
    /\ pc[r] = "new"
    /\ \E n \in Name :
          \/ /\ MayDelete(n)
             /\ AskUnit(r, n, card[n].pos)
          \/ /\ ~MayDelete(n) \/ DBMayFail
             /\ Goto(r, "over")
             /\ UNCHANGED <<msgs, met>>
    /\ UNCHANGED <<tables, job, unit, clobbered>>

-----------------------------------------------------------------------------
(* The unit.  An honest one refuses to put a card where there is one, and  *)
(* to give a card from where there is none.                                *)
Answer(m, ok) == (msgs \ {m}) \cup
    {[m EXCEPT !.to = "server", !.ok = HonestUnit => ok]}

StoreCard(m) ==
    /\ m \in msgs
    /\ m.to = "unit"
    /\ m.req \in Creation
    /\ \/ /\ \A s \in stored : s[2] # m.pos
          /\ stored' = stored \cup {<<m.req, m.pos>>}
          /\ everStored' = everStored \cup {m.req}
          /\ msgs' = Answer(m, TRUE)
          /\ UNCHANGED lent
       \/ /\ msgs' = Answer(m, FALSE)
          /\ UNCHANGED unit
    /\ UNCHANGED <<tables, pc, job, history>>

(* For a deletion an administrator takes the card, for a fetch a borrower. *)
GetCard(m) ==
    /\ m \in msgs
    /\ m.to = "unit"
    /\ m.req \in Deletion \cup Writer
    /\ \/ \E k \in Creation :
             /\ <<k, m.pos>> \in stored
             /\ stored' = stored \ {<<k, m.pos>>}
             /\ lent' = IF m.req \in Writer THEN lent \cup {k} ELSE lent
             /\ msgs' = Answer(m, TRUE)
             /\ UNCHANGED everStored
       \/ /\ msgs' = Answer(m, FALSE)
          /\ UNCHANGED unit
    /\ UNCHANGED <<tables, pc, job, history>>

-----------------------------------------------------------------------------
(* The server's handlers of the unit's answers.                            *)
AnySuccess(m) == TRUE
Succeeded(m) == m.ok

(* The name is unique: a second row of the same name is not inserted.      *)
AddCardHandler(m) ==
    /\ m \in msgs
    /\ m.to = "server"
    /\ m.req \in Creation
    /\ msgs' = msgs \ {m}
    /\ \/ /\ Succeeded(m)
          /\ m.card \notin DOMAIN card
          /\ Put(m.card, [id |-> m.req, pos |-> m.pos, available |-> TRUE])
          /\ linked' = linked \cup {m.card}
       \/ /\ ~Succeeded(m) \/ m.card \in DOMAIN card \/ DBMayFail
          /\ UNCHANGED <<card, linked>>
    /\ Goto(m.req, "over")
    /\ UNCHANGED <<reserved, job, unit, history>>

(* The row is deleted by name; its links go with it (OnDelete:CASCADE).    *)
LinkKept(n) == linked
Unlinked(n) == linked \ {n}

DeleteCardHandler(m) ==
    /\ m \in msgs
    /\ m.to = "server"
    /\ m.req \in Deletion
    /\ msgs' = msgs \ {m}
    /\ \/ /\ Succeeded(m)
          /\ card' = [n \in DOMAIN card \ {m.card} |-> card[n]]
          /\ linked' = Unlinked(m.card)
          /\ reserved' = reserved \ {m.card}
       \/ /\ ~Succeeded(m) \/ DBMayFail
          /\ UNCHANGED tables
    /\ Goto(m.req, "over")
    /\ UNCHANGED <<job, unit, history>>

-----------------------------------------------------------------------------
(* Handlers that write a row back: a mobile fetch and the acknowledgement  *)
(* of it, a reservation for later and one that borrows the card at once,   *)
(* and the administrators' edits, which may set any availability.          *)
ReadRow(w, kind, n) ==
    /\ job' = [job EXCEPT ![w] = [kind |-> kind, card |-> n, row |-> card[n]]]
    /\ Goto(w, "read")

WriterRead(w) ==
    /\ pc[w] = "new"
    /\ \E n \in DOMAIN card, kind \in Kind :
          /\ kind \in {"fetch", "borrow"} => card[n].available
          /\ ReadRow(w, kind, n)
    /\ UNCHANGED <<tables, msgs, unit, history>>

Availability(j) == CASE j.kind = "edit"    -> BOOLEAN
                     [] j.kind = "reserve" -> {j.row.available}
                     [] OTHER              -> {FALSE}

Written(j, a) == [j.row EXCEPT !.available = a]

AfterSave(j) == IF j.kind = "edit" THEN "over" ELSE "saved"

(* A fault: a key read earlier is written to the row of the name.          *)
NoOtherKey(j) == FALSE

(* The key is still there, has vanished, or the name has another key now.  *)
SameKey(j)  == j.card \in DOMAIN card /\ card[j.card].id = j.row.id
OtherKey(j) == j.card \in DOMAIN card /\ card[j.card].id # j.row.id

WriterSave(w) ==
    /\ pc[w] = "read"
    /\ LET j == job[w]
       IN  \/ /\ ~OtherKey(j)
              /\ \E a \in Availability(j) : Put(j.card, Written(j, a))
              /\ Goto(w, AfterSave(j))
              /\ UNCHANGED clobbered
           \/ /\ OtherKey(j)
              /\ \E a \in Availability(j) :
                    Put(j.card, [Written(j, a) EXCEPT !.id = card[j.card].id])
              /\ clobbered' = TRUE
              /\ Goto(w, AfterSave(j))
           \/ /\ OtherKey(j) \/ DBMayFail
              /\ Goto(w, IF j.kind = "ack" THEN "saved" ELSE "over")
              /\ UNCHANGED <<card, clobbered>>
    /\ UNCHANGED <<linked, reserved, job, msgs, unit, met>>

WriterDispatch(w) ==
    /\ pc[w] = "saved"
    /\ job[w].kind = "fetch"
    /\ \/ /\ job[w].card \in linked
          /\ Ask(w, job[w].card, card[job[w].card].pos)
       \/ /\ job[w].card \notin linked \/ DBMayFail
          /\ Goto(w, "over")
          /\ UNCHANGED msgs
    /\ UNCHANGED <<tables, job, unit, history>>

WriterAppend(w) ==
    /\ pc[w] = "saved"
    /\ job[w].kind \in {"reserve", "borrow", "ack"}
    /\ \/ /\ SameKey(job[w])
          /\ reserved' = reserved \cup {job[w].card}
       \/ /\ ~SameKey(job[w]) \/ DBMayFail
          /\ UNCHANGED reserved
    /\ Goto(w, "over")
    /\ UNCHANGED <<card, linked, job, msgs, unit, history>>

FetchHandler(m) ==
    /\ m \in msgs
    /\ m.to = "server"
    /\ m.req \in Writer
    /\ msgs' = msgs \ {m}
    /\ \/ /\ Succeeded(m)
          /\ m.card \in DOMAIN card
          /\ ReadRow(m.req, "ack", m.card)
       \/ /\ ~Succeeded(m) \/ m.card \notin DOMAIN card \/ DBMayFail
          /\ Goto(m.req, "over")
          /\ UNCHANGED job
    /\ UNCHANGED <<tables, unit, history>>

Lose(m) ==
    /\ MayLose
    /\ m \in msgs
    /\ msgs' = msgs \ {m}
    /\ UNCHANGED <<tables, pc, job, unit, history>>

Next ==
    \/ \E r \in Creation : CreateHandler(r)
    \/ \E r \in Deletion : DeleteHandler(r)
    \/ \E w \in Writer : \/ WriterRead(w) \/ WriterSave(w)
                         \/ WriterDispatch(w) \/ WriterAppend(w)
    \/ \E m \in msgs : \/ StoreCard(m) \/ GetCard(m)
                       \/ AddCardHandler(m) \/ DeleteCardHandler(m)
                       \/ FetchHandler(m) \/ Lose(m)

Spec == Init /\ [][Next]_vars
-----------------------------------------------------------------------------
(* Properties.                                                             *)

(* No two cards of the unit have the same position, although the position  *)
(* is chosen when a card is asked for and used when it is in: only two     *)
(* whose creations were under way at the same time may have one, as long   *)
(* as no row was overwritten with that of an earlier card of the same name. *)
PositionsDistinct ==
    clobbered \/ \A a, b \in linked :
        card[a].pos = card[b].pos => a = b \/ {card[a].id, card[b].id} \in met

(* The unit has more cards than its capacity only if two requests of       *)
(* administrators were under way at the same time, although the capacity   *)
(* is checked before the unit is asked and not when the card is in.        *)
CapacityRespected == met = {} => Cardinality(linked) <= Capacity

(* The inductive invariant behind both: a creation under way goes above    *)
(* all positions but those of the creations it met, has room if nobody met *)
(* anybody, and rows with one key, in the table or in the hands of         *)
(* handlers, agree on the position.                                        *)
Copies == {card[n] : n \in DOMAIN card}
              \cup {job[w].row : w \in {v \in Writer : pc[v] \in {"read", "saved"}}}

MetInv ==
    \A m \in msgs : m.req \in Administrator =>
        /\ pc[m.req] = "asked"
        /\ \A k \in msgs \ {m} : k.req \in Administrator =>
              m.req # k.req /\ {m.req, k.req} \in met

RoomInv ==
    \A m \in msgs : m.req \in Creation =>
        /\ met = {} => Cardinality(linked) < Capacity
        /\ clobbered \/ \A n \in linked :
               card[n].pos < m.pos \/ {card[n].id, m.req} \in met

CopiesInv ==
    /\ \A a \in Copies : pc[a.id] = "over"
    /\ clobbered \/ \A a, b \in Copies : a.id = b.id => a.pos = b.pos

TurnsInv == MetInv /\ RoomInv /\ CopiesInv /\ CapacityRespected /\ PositionsDistinct

(* Every card in the tables was put into the unit for the very request     *)
(* that its row comes from.                                                *)
AddedWasStored == HonestUnit => \A n \in linked : card[n].id \in everStored

(* The inductive invariant behind it: a key is stored that is in a row, in *)
(* the hands of a handler, or reported by the unit as stored.              *)
StoredInv ==
    HonestUnit =>
        /\ \A n \in DOMAIN card : card[n].id \in everStored
        /\ \A w \in Writer :
              pc[w] \in {"read", "saved"} => job[w].row.id \in everStored
        /\ \A m \in msgs :
              m.to = "server" /\ m.req \in Creation /\ m.ok => m.req \in everStored

(* The row of a card is not deleted while the card is with a borrower: the *)
(* unit cannot take it out for the deletion, whatever the handlers of a    *)
(* fetch and of a deletion have read before; unless the creation of the    *)
(* card, or its deletion, met another request of an administrator, or a    *)
(* row was overwritten with that of an earlier card.                       *)
Met(r) == \E q \in Administrator : {r, q} \in met

DeletionSparesLent ==
    [][ HonestUnit =>
          \A n \in linked \ linked' :
             card[n].id \in lent =>
                 \/ clobbered \/ Met(card[n].id)
                 \/ \E m \in msgs \ msgs' : m.card = n /\ Met(m.req) ]_vars

(* The inductive invariant behind it: each card is put in once and is in   *)
(* one place; one at the position of a row is the card of this row, or met *)
(* it, so the card the unit takes out for a deletion is the one meant.     *)
OnceInv ==
    /\ \A k \in Creation : k \in everStored => pc[k] # "new"
    /\ \A m \in msgs : m.to = "unit" /\ m.req \in Creation => m.req \notin everStored
    /\ lent \subseteq everStored
    /\ \A s \in stored : s[1] \in everStored \ lent
    /\ \A s, t \in stored : s[1] = t[1] => s = t

PlaceInv ==
    /\ \A n \in linked, s \in stored :
          s[2] = card[n].pos => s[1] = card[n].id \/ {s[1], card[n].id} \in met
    /\ \A m \in msgs, s \in stored :
          m.to = "server" /\ m.ok /\ m.req \in Creation /\ s[2] = m.pos =>
              s[1] = m.req \/ {s[1], m.req} \in met

TakenInv ==
    \A m \in msgs : m.req \in Deletion =>
        \/ Met(m.req)
        \/ /\ m.card \in linked
           /\ m.to = "unit" => m.pos = card[m.card].pos
           /\ m.to = "server" /\ m.ok =>
                  \/ Met(card[m.card].id)
                  \/ /\ card[m.card].id \notin lent
                     /\ \A s \in stored : s[1] # card[m.card].id

SparesInv ==
    HonestUnit => OnceInv /\ (clobbered \/ (PlaceInv /\ TakenInv))

(* A name stands for the card that was put in for it until it is deleted,  *)
(* and no card comes back, whatever administrators do at once and although *)
(* rows are written back that were deleted or replaced meanwhile.          *)
Listing == [n \in linked |-> card[n].id]
Ended   == {k \in Creation : pc[k] = "over"} \ {card[n].id : n \in linked}

Promise == INSTANCE Catalogue
             WITH Card <- Creation, listing <- Listing, putIn <- everStored, ended <- Ended

ImplementsCatalogue == Promise!Spec

(* Also with a unit that reports what it did not do, a listed name keeps   *)
(* its card, and a creation that is over without its card being listed     *)
(* never gets it listed.                                                   *)
NoCardReturns ==
    [][ /\ \A n \in linked \cap linked' : card'[n].id = card[n].id
        /\ Ended \subseteq Ended' ]_vars

(* The inductive invariant behind it: the card of a name is one that was   *)
(* listed once; a creation whose message is in transit waits for it.       *)
ListedOnceInv ==
    /\ \A n \in linked : pc[card[n].id] = "over"
    /\ \A a, b \in linked : card[a].id = card[b].id => a = b

AskedOnceInv ==
    /\ \A m \in msgs : m.req \in Creation => pc[m.req] = "asked"
    /\ \A m, k \in msgs : m.req \in Creation /\ m.req = k.req => m = k

LifeInv == ListedOnceInv /\ AskedOnceInv

-----------------------------------------------------------------------------
(* "If the card has active reservations [...] it will not be deleted":     *)
(* a card that has a reservation when the unit's answer to the deletion is *)
(* handled stays in the tables.                                            *)
DeletionSparesReserved == [][\A n \in linked \ linked' : n \notin reserved]_vars
=============================================================================
