---------------------------- MODULE StorageUnits ----------------------------
(***************************************************************************)
(* The storage-units of the server: created, focused (the server listens   *)
(* to the unit's topic only from then on), renamed or moved, deleted and   *)
(* pinged, while the broker connection breaks and the server restarts.     *)
(*                                                                         *)
(* A row is identified by the request that created it.  Every database     *)
(* statement, every access to the map of unfocused units and every call of *)
(* the MQTT client is one step.  The map is a plain one: two handlers that *)
(* meet in it make Go stop the process, which is a restart here.  Requests *)
(* that are refused change nothing and are no steps.                       *)
(***************************************************************************)
EXTENDS Topic, SavedRows, FiniteSets

CONSTANTS Name,         \* the words used as names of units
          Location,     \* the words used as locations
          Creator,      \* requests to create a unit
          Focuser,      \* requests to focus on one
          Updater,      \* requests to rename or move one
          Deleter,      \* requests to delete one
          Pinger,       \* requests to ping one
          MayLose,      \* a message may get lost
          MaxRestarts,  \* bound on the restarts of the server
          MaxBreaks     \* bound on the losses of the broker connection

Admin   == Creator \cup Focuser \cup Updater \cup Deleter
Request == Admin \cup Pinger

ASSUME UnitsAssumption ==
    /\ Name # {} /\ Location # {} /\ Creator # {}
    /\ Creator \cap (Focuser \cup Updater \cup Deleter \cup Pinger) = {}
    /\ Focuser \cap (Updater \cup Deleter \cup Pinger) = {}
    /\ Updater \cap (Deleter \cup Pinger) = {}
    /\ Deleter \cap Pinger = {}
    /\ MayLose \in BOOLEAN
    /\ MaxRestarts \in Nat /\ MaxBreaks \in Nat

VARIABLES rows,       \* table storages
          unfocused,  \* createdButNotSubscribedStorages
          subs,       \* topics the broker delivers to the server
          up,         \* the connection to the broker is open
          pc,         \* progress of the handler of each request
          job,        \* the row this handler works with
          target,     \* the name an update gives its unit
          pending,    \* Controller.Map: message-ids of open pings
          msgs,       \* MQTT messages in transit
          unheard,    \* history: pings whose answer did not come through
          adrift,     \* history: rows that an update moved, or a broken
                      \* connection took the subscription of, since the start
          leftover,   \* history: topics an update left, since the start
          contended,  \* history: names of units two administrators were at
                      \* work on at the same time, since the start
          restarts, breaks    \* how often these happened

tables  == <<rows, unfocused>>
broker  == <<subs, up, msgs>>
handler == <<pc, job, target>>
pings   == <<pending, unheard>>
moved   == <<adrift, leftover>>
history == <<moved, contended>>
faults  == <<restarts, breaks>>
vars == <<tables, broker, handler, pings, history, faults>>

Row     == [id: Creator, name: Name, location: Location]

TopicOf(row) == AssembleBaseStorageTopic(row.name, row.location)

Topics  == {TopicOf(u) : u \in Row}
Message == [to: {"unit", "server"}, req: Pinger, topic: Topics]
Pc      == {"new", "inserted", "checked", "read", "subscribed", "deleted",
            "stored", "done"}

AnyRow == [id |-> CHOOSE k \in Creator : TRUE, name |-> CHOOSE n \in Name : TRUE,
           location |-> CHOOSE l \in Location : TRUE]

(* Every variable has its type; names of units are unique.                 *)
TypeOK ==
    /\ rows \subseteq Row
    /\ \A u, v \in rows : u.id = v.id \/ u.name = v.name => u = v
    /\ unfocused \subseteq Name
    /\ subs \subseteq Topics
    /\ up \in BOOLEAN
    /\ pc \in [Request -> Pc]
    /\ job \in [Request -> Row]
    /\ target \in [Updater -> Name]
    /\ pending \subseteq Pinger
    /\ msgs \subseteq Message
    /\ unheard \subseteq Pinger
    /\ adrift \subseteq Creator
    /\ leftover \subseteq Topics
    /\ contended \subseteq Name
    /\ restarts \in 0 .. MaxRestarts
    /\ breaks \in 0 .. MaxBreaks

(* The server starts on an empty database, connected to the broker.        *)
Init ==
    /\ rows = {} /\ unfocused = {}
    /\ subs = {} /\ up = TRUE /\ msgs = {}
    /\ pc = [r \in Request |-> "new"]
    /\ job = [r \in Request |-> AnyRow]
    /\ target = [r \in Updater |-> AnyRow.name]
    /\ pending = {} /\ unheard = {}
    /\ adrift = {} /\ leftover = {} /\ contended = {}
    /\ restarts = 0 /\ breaks = 0

-----------------------------------------------------------------------------
Busy(r) == pc[r] \notin {"new", "done"}
Names(r) == {job[r].name} \cup (IF r \in Updater THEN {target[r]} ELSE {})

(* A request of an administrator begins to work on units of some names. If *)
(* somebody is at work on one of them, then their names are contended from *)
(* now on; and a unit of a contended name passes this on to its new name.  *)
Begin(r, names) ==
    LET others == UNION {Names(q) : q \in {a \in Admin \ {r} :
                                             Busy(a) /\ Names(a) \cap names # {}}}
    IN  contended' = contended \cup
            (IF names \cap (contended \cup others) = {} THEN {} ELSE names \cup others)

Goto(r, from, to) == pc[r] = from /\ pc' = [pc EXCEPT ![r] = to]
Work(r, row) == job' = [job EXCEPT ![r] = row]
Finish(r, from) == Goto(r, from, "done") /\ Work(r, AnyRow)

Named(n) == {u \in rows : u.name = n}

(* First(&storage) with the name in the path of the request.               *)
ReadRow(r, n) ==
    /\ Routed(n)
    /\ \E u \in Named(n) : Work(r, u)

(* Faults: no unique names; a unit leaves the map before it is subscribed; *)
(* a delete that keeps its subscription; Load instead of LoadAndDelete.    *)
InsertTwice(r, n, l) ==
    /\ Begin(r, {n})
    /\ Accepted(n) /\ Accepted(l)
    /\ Goto(r, "new", "inserted")
    /\ LET u == [id |-> r, name |-> n, location |-> l]
       IN  rows' = rows \cup {u} /\ Work(r, u)
    /\ UNCHANGED <<unfocused, broker, target, pings, moved, faults>>

UnmarkEarly(r, n) ==
    /\ Begin(r, {n})
    /\ Routed(n) /\ n \in unfocused
    /\ Goto(r, "new", "checked")
    /\ Work(r, [AnyRow EXCEPT !.name = n])
    /\ unfocused' = unfocused \ {n}
    /\ UNCHANGED <<rows, broker, target, pings, moved, faults>>

DeleteSilently(r) ==
    /\ Finish(r, "deleted")
    /\ UNCHANGED <<tables, broker, target, pings, history, faults>>

LoadOnly(m) ==
    /\ m.to = "server"
    /\ msgs' = msgs \ {m}
    /\ UNCHANGED <<tables, subs, up, handler, pings, history, faults>>

(* CreateHandler: the row, then the entry in the map.                      *)
Insert(r, n, l) ==
    /\ Begin(r, {n})
    /\ Accepted(n) /\ Accepted(l)
    /\ Named(n) = {}
    /\ Goto(r, "new", "inserted")
    /\ LET u == [id |-> r, name |-> n, location |-> l]
       IN  rows' = rows \cup {u} /\ Work(r, u)
    /\ UNCHANGED <<unfocused, broker, target, pings, moved, faults>>

MarkUnfocused(r) ==
    /\ Finish(r, "inserted")
    /\ unfocused' = unfocused \cup {job[r].name}
    /\ UNCHANGED <<rows, broker, target, pings, history, faults>>

(* FocusHandler: look into the map, read the row, subscribe without        *)
(* waiting for an answer, leave the map.                                   *)
FocusCheck(r, n) ==
    /\ Begin(r, {n})
    /\ Routed(n) /\ n \in unfocused
    /\ Goto(r, "new", "checked")
    /\ Work(r, [AnyRow EXCEPT !.name = n])
    /\ UNCHANGED <<tables, broker, target, pings, moved, faults>>

FocusRead(r) ==
    /\ \/ ReadRow(r, job[r].name) /\ Goto(r, "checked", "read")
       \/ Named(job[r].name) = {} /\ Finish(r, "checked")
    /\ UNCHANGED <<tables, broker, target, pings, history, faults>>

FocusSubscribe(r) ==
    /\ Goto(r, "read", "subscribed")
    /\ \/ up /\ subs' = subs \cup {TopicOf(job[r])} /\ UNCHANGED adrift
       \/ ~up /\ adrift' = adrift \cup {job[r].id} /\ UNCHANGED subs
    /\ UNCHANGED <<tables, up, msgs, job, target, pings, leftover, contended, faults>>

FocusUnmark(r) ==
    /\ Finish(r, "subscribed")
    /\ unfocused' = unfocused \ {job[r].name}
    /\ UNCHANGED <<rows, broker, target, pings, history, faults>>

(* UpdateHandler: read the row, write all of it back.                      *)
UpdateRead(r, n, new) ==
    /\ Goto(r, "new", "read")
    /\ Begin(r, {n, new})
    /\ ReadRow(r, n)
    /\ target' = [target EXCEPT ![r] = new]
    /\ UNCHANGED <<tables, broker, pings, moved, faults>>

UpdateSave(r, l) ==
    /\ Finish(r, "read")
    /\ target' = [target EXCEPT ![r] = AnyRow.name]
    /\ LET row == [job[r] EXCEPT !.name = target[r], !.location = l]
           after == Saved(rows, row, Named(row.name))
       IN  \/ /\ after = {}
              /\ UNCHANGED <<rows, adrift, leftover>>
           \/ /\ rows' \in after
              /\ adrift' = adrift \cup {u.id : u \in rows' \ rows}
              /\ leftover' = leftover \cup {TopicOf(u) : u \in rows \ rows'}
    /\ UNCHANGED <<unfocused, broker, pings, contended, faults>>

(* DeleteHandler: read the row, which may have cards and is refused then,  *)
(* delete it by its key, and unsubscribe.                                  *)
DeleteRead(r, n) ==
    /\ Begin(r, {n})
    /\ Goto(r, "new", "read")
    /\ ReadRow(r, n)
    /\ UNCHANGED <<tables, broker, target, pings, moved, faults>>

DeleteRow(r) ==
    /\ Goto(r, "read", "deleted")
    /\ rows' = {u \in rows : u.id # job[r].id}
    /\ UNCHANGED <<unfocused, broker, job, target, pings, history, faults>>

DeleteUnsubscribe(r) ==
    /\ Finish(r, "deleted")
    /\ subs' = IF up THEN subs \ {TopicOf(job[r])} ELSE subs
    /\ UNCHANGED <<tables, up, msgs, target, pings, history, faults>>

-----------------------------------------------------------------------------
(* PingHandler: the entry in the Map, then the message; Publish returns    *)
(* once it is through.                                                     *)
PingRead(r, n) ==
    /\ Goto(r, "new", "read")
    /\ ReadRow(r, n)
    /\ UNCHANGED <<tables, broker, target, pings, history, faults>>

PingStore(r) ==
    /\ Goto(r, "read", "stored")
    /\ pending' = pending \cup {r}
    /\ UNCHANGED <<tables, broker, job, target, unheard, history, faults>>

PingPublish(r) ==
    /\ up
    /\ Finish(r, "stored")
    /\ msgs' = msgs \cup {[to |-> "unit", req |-> r, topic |-> TopicOf(job[r])]}
    /\ UNCHANGED <<tables, subs, up, target, pings, history, faults>>

UnitAnswer(m) ==
    /\ m.to = "unit"
    /\ msgs' = (msgs \ {m}) \cup {[m EXCEPT !.to = "server"]}
    /\ UNCHANGED <<tables, subs, up, handler, pings, history, faults>>

(* The broker delivers an answer to the topics the server has subscribed.  *)
Hear(m) ==
    /\ m.to = "server"
    /\ msgs' = msgs \ {m}
    /\ \/ /\ m.topic \in subs
          /\ pending' = pending \ {m.req}
          /\ UNCHANGED unheard
       \/ /\ m.topic \notin subs
          /\ unheard' = unheard \cup {m.req}
          /\ UNCHANGED pending
    /\ UNCHANGED <<tables, subs, up, handler, history, faults>>

Lose(m) ==
    /\ MayLose
    /\ msgs' = msgs \ {m}
    /\ unheard' = unheard \cup {m.req}
    /\ UNCHANGED <<tables, subs, up, handler, pending, history, faults>>

-----------------------------------------------------------------------------
(* The broker forgets a clean session.  The client reconnects by itself    *)
(* and does not resume: the goroutine that would subscribe again waits for *)
(* IsConnected to become false, which it is not while reconnecting.        *)
Break ==
    /\ up /\ breaks < MaxBreaks
    /\ up' = FALSE
    /\ subs' = {}
    /\ adrift' = adrift \cup {u.id : u \in {v \in rows : TopicOf(v) \in subs}}
    /\ breaks' = breaks + 1
    /\ UNCHANGED <<tables, msgs, handler, pings, leftover, contended, restarts>>

Reconnect ==
    /\ ~up
    /\ up' = TRUE
    /\ UNCHANGED <<tables, subs, msgs, handler, pings, history, faults>>

(* Handlers die, the maps are empty, and Observe subscribes to the topics  *)
(* of all rows before the server listens to requests.                      *)
Restart ==
    /\ restarts < MaxRestarts
    /\ restarts' = restarts + 1
    /\ pc' = [r \in Request |-> IF pc[r] = "new" THEN "new" ELSE "done"]
    /\ job' = [r \in Request |-> AnyRow]
    /\ target' = [r \in Updater |-> AnyRow.name]
    /\ subs' = {TopicOf(u) : u \in rows}
    /\ up' = TRUE
    /\ unfocused' = {} /\ pending' = {}
    /\ adrift' = {} /\ leftover' = {} /\ contended' = {}
    /\ UNCHANGED <<rows, msgs, unheard, breaks>>

Create(r) == \/ \E n \in Name, l \in Location : Insert(r, n, l)
             \/ MarkUnfocused(r)
Focus(r) == \/ \E n \in Name : FocusCheck(r, n)
            \/ FocusRead(r) \/ FocusSubscribe(r) \/ FocusUnmark(r)
Update(r) == \/ \E n, new \in Name : UpdateRead(r, n, new)
             \/ \E l \in Location : UpdateSave(r, l)
Delete(r) == \/ \E n \in Name : DeleteRead(r, n)
             \/ DeleteRow(r) \/ DeleteUnsubscribe(r)
Ping(r) == \/ \E n \in Name : PingRead(r, n)
           \/ PingStore(r) \/ PingPublish(r)

Next ==
    \/ \E r \in Creator : Create(r)
    \/ \E r \in Focuser : Focus(r)
    \/ \E r \in Updater : Update(r)
    \/ \E r \in Deleter : Delete(r)
    \/ \E r \in Pinger : Ping(r)
    \/ \E m \in msgs : UnitAnswer(m) \/ Hear(m) \/ Lose(m)
    \/ Break \/ Reconnect \/ Restart

Spec == Init /\ [][Next]_vars

(* Handlers keep running, the unit answers, the broker delivers, and the   *)
(* MQTT client reconnects.                                                 *)
Fairness ==
    /\ \A r \in Pinger : WF_vars(PingStore(r)) /\ WF_vars(PingPublish(r))
    /\ WF_vars(\E m \in msgs : UnitAnswer(m) \/ Hear(m))
    /\ WF_vars(Reconnect)

FairSpec == Spec /\ Fairness

-----------------------------------------------------------------------------
(* A unit is listened to or listed as unfocused, whatever administrators   *)
(* do to other units at once, and however restarts and breaks come         *)
(* between: except one that was renamed or moved since the start, whose    *)
(* subscription a broken connection took away, or whose topic or name      *)
(* two administrators' work met on.                                        *)
Ambiguous(u) ==
    \E n \in Name \ {u.name}, l \in Location :
        AssembleBaseStorageTopic(n, l) = TopicOf(u)

Reachable ==
    \A u \in rows :
        \/ u.id \in adrift \/ u.name \in contended \/ Ambiguous(u)
        \/ TopicOf(u) \in subs \/ u.name \in unfocused \/ pc[u.id] = "inserted"

(* No deleted unit is listened to: a subscription has its row, is left by  *)
(* an update, or is about to be given up by the handler that deletes it;   *)
(* only one of a name that two administrators were at work on may stay.    *)
NoStaleSubscription ==
    \A t \in subs :
        \/ t \in leftover
        \/ \E n \in contended, l \in Location : AssembleBaseStorageTopic(n, l) = t
        \/ \E u \in rows : TopicOf(u) = t
        \/ \E r \in Deleter : pc[r] = "deleted" /\ TopicOf(job[r]) = t

(* The inductive invariants behind names and keys, and behind both:        *)
(* rows have keys of requests begun; and while nobody else is at work on   *)
(* its names, a handler's row is the one in the table, until the handler   *)
(* itself changes it.                                                      *)
Holding(r)  == pc[r] \in {"inserted", "read", "subscribed", "deleted"}
Contends(r) == Names(r) \subseteq contended

KeyInv ==
    /\ \A u \in rows : pc[u.id] # "new"
    /\ \A r \in Admin : Holding(r) => pc[job[r].id] # "new"

ApartInv ==
    /\ \A r \in Admin : Busy(r) /\ Names(r) \cap contended # {} => Contends(r)
    /\ \A r, s \in Admin :
          r # s /\ Busy(r) /\ Busy(s) /\ Names(r) \cap Names(s) # {} => Contends(r)
    /\ \A r, s \in Admin :
          r # s /\ Holding(r) /\ Holding(s) /\ job[r].id = job[s].id => Contends(r)

HeldInv ==
    /\ \A r \in Admin : Holding(r) =>
          /\ pc[r] # "deleted" => job[r] \in rows \/ job[r].name \in contended
          /\ \A u \in rows : u.id = job[r].id =>
                u = job[r] \/ {u.name, job[r].name} \subseteq contended
    /\ \A r \in Creator : pc[r] = "inserted" => job[r].id = r
    /\ \A r \in Deleter : pc[r] = "deleted" =>
          (\A u \in rows : u.name # job[r].name) \/ job[r].name \in contended

ListenInv ==
    /\ ~up => subs = {}
    /\ \A r \in Focuser :
          pc[r] = "subscribed" =>
              \/ job[r].id \in adrift \/ job[r].name \in contended
              \/ Ambiguous(job[r]) \/ TopicOf(job[r]) \in subs

UnitsInv == ApartInv /\ HeldInv /\ ListenInv /\ Reachable /\ NoStaleSubscription

(* From the topic of an answer the handlers get the name and location of   *)
(* the unit, if these are what the router accepts.                         *)
TopicNamesUnit ==
    \A u \in rows :
        Routed(u.name) /\ Routed(u.location) =>
            DisassembleBaseStorageTopic(TopicOf(u)) =
                [storage |-> u.name, location |-> u.location]

(* An entry of the Map has a handler or a message that will take it out:   *)
(* none is left behind by breaks, restarts and deletions of the unit, but  *)
(* those whose message or answer nobody heard.                             *)
PingsAwaited ==
    \A r \in pending :
        pc[r] = "stored" \/ r \in unheard \/ \E m \in msgs : m.req = r

(* Every ping's entry leaves the Map, unless its answer is not heard.      *)
PingsClose ==
    \A r \in Pinger : r \in pending ~> r \notin pending \/ r \in unheard
=============================================================================
