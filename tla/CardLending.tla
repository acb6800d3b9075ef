----------------------------- MODULE CardLending -----------------------------
(***************************************************************************)
(* Fetching a card from a storage-unit, the core of the card storage.      *)
(*                                                                         *)
(* A REST request either names the user (mobile app, Mobile) or leaves it  *)
(* to the unit to scan a badge (touch display, Terminal).  The REST        *)
(* handler checks the card row and publishes a message on the unit's MQTT  *)
(* topic; the unit answers on the same topic; every answer is handled by   *)
(* a goroutine of its own.  Each database statement is one atomic step:    *)
(* the code opens no transaction, so the steps of all handlers interleave. *)
(*                                                                         *)
(* A request stands for its message-id, which is unique (uuid).  A badge   *)
(* token stands for the person who owns it.                                *)
(***************************************************************************)
EXTENDS Naturals, FiniteSets

CONSTANTS Card,        \* the names of the cards, all of them in one unit
          User,        \* registered people: a row with e-mail and reader data
          Stranger,    \* anybody else: an e-mail or a badge of no row
          NoBadge,     \* the empty token of a scan that failed
          Blank,       \* {NoBadge} if a user's sign-up failed too, else {}: the
                       \* reader data of such a user is the empty token
          Edited,      \* cards and users that are renamed or removed meanwhile
          Mobile,      \* requests that name the user (fetch/user/email)
          Terminal,    \* requests that leave the user to the unit's reader
          HonestUnit,  \* the unit reports what its hardware did; if FALSE it
                       \* always reports success, as the simulated unit does
          MayLose,     \* a message may get lost (clean sessions, QoS 2)
          DBMayFail,   \* a database statement may return an error
          Rewrite,     \* what other handlers do to a card row meanwhile
          MaxCrashes   \* bound on the restarts of the server and the unit

Request == Mobile \cup Terminal
Person == User \cup {Stranger}
Bearer == Person \cup {NoBadge}

ASSUME LendingAssumption ==
    /\ Card # {}
    /\ {Stranger, NoBadge} \cap User = {}
    /\ Blank \subseteq {NoBadge}
    /\ Edited \subseteq Card \cup User
    /\ Mobile \cap Terminal = {}
    /\ {HonestUnit, MayLose, DBMayFail} \subseteq BOOLEAN
    /\ Rewrite \subseteq {"free", "block", "keep"}
    /\ MaxCrashes \in Nat

VARIABLES row,       \* table cards: availability and access counter
          borrowed,  \* table reservations: requests that were given a row
          gone,      \* names and e-mails that no row of cards, users has now
          call,      \* what each request asks for
          pc,        \* progress of the REST handler of each request
          read,      \* the card row this handler has read
          pending,   \* Controller.Map: message-ids with an open transaction
          ackPc,     \* progress of the goroutine of the final answer
          ackRead,   \* the card row this goroutine has read
          msgs,      \* MQTT messages in transit
          index,     \* the unit's index of message-ids it has scanned for
          marking,   \* scans published whose index entry is not yet written
          inside,    \* the cards that are physically in the unit
          releases,  \* history: how often the unit gave a card out
          holder,    \* history: the person the unit gave the card to
          clerk,     \* the handler outside fetching that rewrites a row
          crashes    \* restarts so far

dbVars    == <<row, borrowed, gone>>
restVars  == <<call, pc, read>>
ackVars   == <<ackPc, ackRead>>
unitVars  == <<index, marking, inside, releases, holder>>
vars == <<dbVars, restVars, pending, ackVars, msgs, unitVars, clerk, crashes>>

Row     == [available: BOOLEAN, accessed: Nat]
Call    == [card: Card, who: Person]
Message == [to: {"unit", "server"}, req: Request, who: Bearer,
            exists: BOOLEAN, ok: BOOLEAN]
Clerk   == [busy: BOOLEAN, card: Card, does: {"free", "block", "keep"}, read: Row]
RestPc  == {"new", "checked", "saved", "published", "dispatched", "error"}
AckPc   == {"none", "read", "saved", "done", "unbooked", "failed",
            "nocard", "nouser"}

AnyCard   == CHOOSE c \in Card : TRUE
NewRow    == [available |-> TRUE, accessed |-> 0]
IdleClerk == [busy |-> FALSE, card |-> AnyCard, does |-> "keep", read |-> NewRow]

(* Every variable has its type: in particular an access counter stays a    *)
(* natural number although several handlers write it back.                 *)
TypeOK ==
    /\ row \in [Card -> Row]
    /\ borrowed \subseteq Request
    /\ gone \subseteq Edited
    /\ call \in [Request -> Call]
    /\ pc \in [Request -> RestPc]
    /\ read \in [Request -> Row]
    /\ pending \subseteq Request
    /\ ackPc \in [Request -> AckPc]
    /\ ackRead \in [Request -> Row]
    /\ msgs \subseteq Message
    /\ index \subseteq Request
    /\ marking \subseteq Request
    /\ inside \in [Card -> BOOLEAN]
    /\ releases \in [Request -> Nat]
    /\ holder \in [Request -> Bearer]
    /\ clerk \in Clerk
    /\ crashes \in 0 .. MaxCrashes

Init ==
    /\ row = [c \in Card |-> NewRow]
    /\ borrowed = {}
    /\ gone = {}
    /\ call = [r \in Request |-> [card |-> AnyCard, who |-> Stranger]]
    /\ pc = [r \in Request |-> "new"]
    /\ read = [r \in Request |-> NewRow]
    /\ pending = {}
    /\ ackPc = [r \in Request |-> "none"]
    /\ ackRead = [r \in Request |-> NewRow]
    /\ msgs = {}
    /\ index = {}
    /\ marking = {}
    /\ inside = [c \in Card |-> TRUE]
    /\ releases = [r \in Request |-> 0]
    /\ holder = [r \in Request |-> Stranger]
    /\ clerk = IdleClerk
    /\ crashes = 0

-----------------------------------------------------------------------------
(* The message a dispatcher publishes.                                     *)
Kickoff(r) == [to |-> "unit", req |-> r, who |-> call[r].who,
               exists |-> FALSE, ok |-> FALSE]

(* A message after which the transaction is over: an answer to a mobile    *)
(* fetch, or one whose user has already been confirmed to exist.           *)
Final(m) == m.to = "server" /\ (m.req \in Mobile \/ m.exists)

(* REST handlers.  The row is read once, checked, and written back whole,  *)
(* its name with it: a card renamed meanwhile has its old name again.      *)
Goto(r, p) == pc' = [pc EXCEPT ![r] = p]

ReadCard(r, c, e, allowed) ==
    /\ pc[r] = "new"
    /\ call' = [call EXCEPT ![r] = [card |-> c, who |-> e]]
    /\ \/ /\ e \in allowed /\ {c, e} \cap gone = {}
          /\ row[c].available
          /\ read' = [read EXCEPT ![r] = row[c]]
          /\ Goto(r, "checked")
       \/ /\ \/ e \notin allowed \/ {c, e} \cap gone # {}
             \/ ~row[c].available
             \/ DBMayFail
          /\ Goto(r, "error")
          /\ UNCHANGED read
    /\ UNCHANGED <<dbVars, pending, ackVars, msgs, unitVars, clerk, crashes>>

KnownRead(r) ==
    /\ r \in Mobile
    /\ \E c \in Card, e \in Person : ReadCard(r, c, e, User)

(* The row as the mobile fetch writes it before it dispatches.             *)
NotWithdrawn(rw) == rw
CountedTwice(rw) == [rw EXCEPT !.available = FALSE, !.accessed = @ + 1]
Withdrawn(rw) == [rw EXCEPT !.available = FALSE]

KnownSave(r) ==
    /\ r \in Mobile
    /\ pc[r] = "checked"
    /\ \/ /\ row' = [row EXCEPT ![call[r].card] = Withdrawn(read[r])]
          /\ gone' = gone \ {call[r].card}
          /\ Goto(r, "saved")
       \/ /\ DBMayFail
          /\ Goto(r, "error")
          /\ UNCHANGED <<row, gone>>
    /\ UNCHANGED <<borrowed, call, read, pending, ackVars, msgs, unitVars,
                   clerk, crashes>>

(* The storage lookup, by the name of the card, then the dispatcher: Map   *)
(* entry first, then publish.                                              *)
KnownDispatch(r) ==
    /\ pc[r] = "saved"
    /\ \/ /\ call[r].card \notin gone
          /\ pending' = pending \cup {r}
          /\ msgs' = msgs \cup {Kickoff(r)}
          /\ Goto(r, "dispatched")
       \/ /\ call[r].card \in gone \/ DBMayFail
          /\ Goto(r, "error")
          /\ UNCHANGED <<pending, msgs>>
    /\ UNCHANGED <<dbVars, call, read, ackVars, unitVars, clerk, crashes>>

UnknownRead(r) ==
    /\ r \in Terminal
    /\ \E c \in Card : ReadCard(r, c, Stranger, Person)

(* This dispatcher publishes first and enters the message-id afterwards.   *)
UnknownPublish(r) ==
    /\ r \in Terminal
    /\ pc[r] = "checked"
    /\ \/ /\ call[r].card \notin gone
          /\ msgs' = msgs \cup {Kickoff(r)}
          /\ Goto(r, "published")
       \/ /\ call[r].card \in gone \/ DBMayFail
          /\ Goto(r, "error")
          /\ UNCHANGED msgs
    /\ UNCHANGED <<dbVars, call, read, pending, ackVars, unitVars, clerk,
                   crashes>>

UnknownStore(r) ==
    /\ pc[r] = "published"
    /\ pending' = pending \cup {r}
    /\ Goto(r, "dispatched")
    /\ UNCHANGED <<dbVars, call, read, ackVars, msgs, unitVars, clerk, crashes>>

-----------------------------------------------------------------------------
(* The storage-unit.  Every message has a goroutine of its own.            *)
Reported(ok) == HonestUnit => ok

(* What the hardware can come to: a card that is not there is not given.   *)
WaitForCard(c) == {ok \in {TRUE} : inside[c]}
Outcome(c) == {ok \in BOOLEAN : ok => inside[c]}

(* A mobile fetch opens at once, a terminal fetch at its second message.   *)
OpenAtOnce(m) == TRUE
MayOpen(m) == m.req \in Mobile \cup index

GetCard(m, ok) ==
    IF ok
    THEN /\ inside' = [inside EXCEPT ![call[m.req].card] = FALSE]
         /\ releases' = [releases EXCEPT ![m.req] = @ + 1]
         /\ holder' = [holder EXCEPT ![m.req] = m.who]
    ELSE UNCHANGED <<inside, releases, holder>>

UnitFetch(m) ==
    /\ m \in msgs
    /\ m.to = "unit"
    /\ MayOpen(m)
    /\ \E ok \in Outcome(call[m.req].card) :
          /\ GetCard(m, ok)
          /\ msgs' = (msgs \ {m})
                        \cup {[m EXCEPT !.to = "server", !.ok = Reported(ok)]}
    /\ UNCHANGED <<dbVars, restVars, pending, ackVars, index, marking, clerk,
                   crashes>>

(* First message of a terminal fetch, as far as the index tells: scan a    *)
(* badge, answer, and only then enter the message-id into the index.  A    *)
(* scan that fails leaves the token empty.                                 *)
UnitScan(m) ==
    /\ m \in msgs
    /\ m.to = "unit"
    /\ m.req \in Terminal \ index
    /\ \E badge \in Bearer :
          msgs' = (msgs \ {m})
                     \cup {[m EXCEPT !.to = "server", !.who = badge,
                                     !.ok = Reported(badge # NoBadge)]}
    /\ marking' = marking \cup {m.req}
    /\ UNCHANGED <<dbVars, restVars, pending, ackVars, index, inside, releases,
                   holder, clerk, crashes>>

UnitMark(r) ==
    /\ r \in marking
    /\ marking' = marking \ {r}
    /\ index' = index \cup {r}
    /\ UNCHANGED <<dbVars, restVars, pending, ackVars, msgs, inside, releases,
                   holder, clerk, crashes>>

-----------------------------------------------------------------------------
(* The server's handlers of the unit's answers.                            *)

(* First answer to a terminal fetch: confirm the owner of the badge, if    *)
(* the transaction is known, the scan succeeded and the owner has a row.   *)
(* An empty token may find the row of a user whose sign-up failed, and a   *)
(* user that was edited may have another token, or no row, by now.         *)
FirstAnswerAlways(m) == TRUE
FirstAnswer(m) == ~m.exists

AnySuccess(m) == TRUE
Succeeded(m) == m.ok

AnyBadge(m) == TRUE
Recognised(m) == m.who \in User \cup Blank

ScanReply(m) ==
    /\ m \in msgs
    /\ m.to = "server"
    /\ m.req \in Terminal
    /\ FirstAnswer(m)
    /\ \/ /\ m.req \notin pending
          /\ msgs' = msgs \ {m}
          /\ UNCHANGED pending
       \/ /\ m.req \in pending
          /\ \/ ~Succeeded(m) \/ ~Recognised(m)
             \/ m.who \notin User \ gone
             \/ DBMayFail
          /\ pending' = pending \ {m.req}
          /\ msgs' = msgs \ {m}
       \/ /\ m.req \in pending
          /\ Succeeded(m)
          /\ Recognised(m)
          /\ msgs' = (msgs \ {m})
                        \cup {[m EXCEPT !.to = "unit", !.exists = TRUE]}
          /\ UNCHANGED pending
    /\ UNCHANGED <<dbVars, restVars, ackVars, unitVars, clerk, crashes>>

AckGoto(r, p) == ackPc' = [ackPc EXCEPT ![r] = p]

(* Final answer: only a terminal fetch is looked up in the Map.  The card  *)
(* is looked up by its name again.                                         *)
AckRead(m) ==
    /\ m \in msgs
    /\ Final(m)
    /\ ackPc[m.req] = "none"
    /\ msgs' = msgs \ {m}
    /\ \/ /\ Succeeded(m)
          /\ m.req \in Mobile \cup pending
          /\ call[m.req].card \notin gone
          /\ ackRead' = [ackRead EXCEPT ![m.req] = row[call[m.req].card]]
          /\ AckGoto(m.req, "read")
       \/ /\ ~Succeeded(m) \/ m.req \notin Mobile \cup pending \/ DBMayFail
          /\ AckGoto(m.req, "failed")
          /\ UNCHANGED ackRead
       \/ /\ Succeeded(m)
          /\ m.req \in Mobile \cup pending
          /\ call[m.req].card \in gone
          /\ AckGoto(m.req, "nocard")
          /\ UNCHANGED ackRead
    /\ UNCHANGED <<dbVars, restVars, pending, unitVars, clerk, crashes>>

Discounted(rw) == [available |-> FALSE, accessed |-> rw.accessed - 1]
Accessed(rw) == [available |-> FALSE, accessed |-> rw.accessed + 1]

(* The mobile handler logs a failed save and carries on.                   *)
AckSave(r) ==
    /\ ackPc[r] = "read"
    /\ \/ /\ row' = [row EXCEPT ![call[r].card] = Accessed(ackRead[r])]
          /\ gone' = gone \ {call[r].card}
          /\ AckGoto(r, "saved")
       \/ /\ DBMayFail
          /\ AckGoto(r, IF r \in Mobile THEN "saved" ELSE "failed")
          /\ UNCHANGED <<row, gone>>
    /\ UNCHANGED <<borrowed, restVars, pending, ackRead, msgs, unitVars, clerk,
                   crashes>>

(* The user is looked up by the e-mail of the message, which a terminal    *)
(* fetch never carries: its lookup always fails, and its message-id stays  *)
(* in the Map.                                                             *)
NoBorrower(r) == FALSE
Borrower(r) == r \in Mobile /\ call[r].who \in User \ gone

AckBook(r) ==
    /\ ackPc[r] = "saved"
    /\ \/ /\ Borrower(r)
          /\ borrowed' = borrowed \cup {r}
          /\ AckGoto(r, "done")
       \/ /\ ~Borrower(r) \/ DBMayFail
          /\ AckGoto(r, IF call[r].who \in gone THEN "nouser" ELSE "unbooked")
          /\ UNCHANGED borrowed
    /\ UNCHANGED <<row, gone, restVars, pending, ackRead, msgs, unitVars, clerk,
                   crashes>>

-----------------------------------------------------------------------------
(* The handlers outside fetching read a row, change it and write all of it *)
(* back: SetCardAvailabilityHandler frees or blocks the card, unless it is  *)
(* so already; CreateHandler of a reservation keeps the row as it read it.  *)
(* One of them is in progress at a time.                                    *)
Rewritten(does, rw) ==
    [rw EXCEPT !.available = does = "free" \/ (does = "keep" /\ rw.available)]

ClerkRead ==
    /\ ~clerk.busy
    /\ \E c \in Card \ gone, d \in Rewrite :
          /\ d = "free" => ~row[c].available
          /\ d = "block" => row[c].available
          /\ clerk' = [busy |-> TRUE, card |-> c, does |-> d, read |-> row[c]]
    /\ UNCHANGED <<dbVars, restVars, pending, ackVars, msgs, unitVars, crashes>>

ClerkSave ==
    /\ clerk.busy
    /\ \/ /\ row' = [row EXCEPT ![clerk.card] = Rewritten(clerk.does, clerk.read)]
          /\ gone' = gone \ {clerk.card}
       \/ DBMayFail /\ UNCHANGED <<row, gone>>
    /\ clerk' = IdleClerk
    /\ UNCHANGED <<borrowed, restVars, pending, ackVars, msgs, unitVars, crashes>>

(* UpdateHandler of a card gives it another name, that of a user another   *)
(* e-mail, and DeleteHandler removes a user; or the name, the e-mail, the  *)
(* user comes back.  To a handler that looks for it, a card removed is the *)
(* same as one renamed; its row and its links are the subject of           *)
(* CardInventory.                                                          *)
Rename(x) ==
    /\ gone' = IF x \in gone THEN gone \ {x} ELSE gone \cup {x}
    /\ UNCHANGED <<row, borrowed, restVars, pending, ackVars, msgs, unitVars,
                   clerk, crashes>>

(* Somebody puts a card back: no handler of the server is told.            *)
PutBack(c) ==
    /\ ~inside[c]
    /\ inside' = [inside EXCEPT ![c] = TRUE]
    /\ UNCHANGED <<dbVars, restVars, pending, ackVars, msgs, index, marking,
                   releases, holder, clerk, crashes>>

Lose(m) ==
    /\ MayLose
    /\ m \in msgs
    /\ msgs' = msgs \ {m}
    /\ UNCHANGED <<dbVars, restVars, pending, ackVars, unitVars, clerk, crashes>>

(* Restart of the server: the Map, every handler and every goroutine are   *)
(* gone, and so is what was on its way to the old session.                 *)
ServerRestart ==
    /\ crashes < MaxCrashes
    /\ crashes' = crashes + 1
    /\ pending' = {}
    /\ pc' = [r \in Request |->
                IF pc[r] \in {"checked", "saved", "published"} THEN "error"
                                                               ELSE pc[r]]
    /\ ackPc' = [r \in Request |-> IF ackPc[r] = "read" THEN "failed"
                                   ELSE IF ackPc[r] = "saved" THEN "unbooked"
                                   ELSE ackPc[r]]
    /\ msgs' = {m \in msgs : m.to # "server"}
    /\ clerk' = IdleClerk
    /\ UNCHANGED <<dbVars, call, read, ackRead, unitVars>>

(* Restart of the unit: its index is gone, and what was on its way to it.  *)
UnitRestart ==
    /\ crashes < MaxCrashes
    /\ crashes' = crashes + 1
    /\ index' = {}
    /\ marking' = {}
    /\ msgs' = {m \in msgs : m.to # "unit"}
    /\ UNCHANGED <<dbVars, restVars, pending, ackVars, inside, releases, holder,
                   clerk>>

-----------------------------------------------------------------------------
RestStep(r) == \/ KnownRead(r) \/ KnownSave(r) \/ KnownDispatch(r)
               \/ UnknownRead(r) \/ UnknownPublish(r) \/ UnknownStore(r)
UnitStep    == \/ \E m \in msgs : UnitFetch(m) \/ UnitScan(m)
               \/ \E r \in Request : UnitMark(r)
AckStep(r)  == AckSave(r) \/ AckBook(r)
AnswerStep  == \E m \in msgs : ScanReply(m) \/ AckRead(m)
Environment == \/ ClerkRead \/ ClerkSave
               \/ \E x \in Edited : Rename(x)
               \/ \E c \in Card : PutBack(c)
               \/ \E m \in msgs : Lose(m)
               \/ ServerRestart \/ UnitRestart

Next == \/ \E r \in Request : RestStep(r) \/ AckStep(r)
        \/ UnitStep
        \/ AnswerStep
        \/ Environment

Spec == Init /\ [][Next]_vars

(* A goroutine that is runnable is run: every started handler of the       *)
(* server and of the unit makes progress.  Clients, administrators and     *)
(* people with cards owe nothing.                                          *)
Fairness ==
    /\ \A r \in Request :
          WF_vars(pc[r] # "new" /\ RestStep(r)) /\ WF_vars(AckStep(r))
    /\ \A r \in Request : WF_vars(UnitMark(r))
    /\ \A r \in Request :
          /\ WF_vars(\E m \in msgs : m.req = r /\ (UnitFetch(m) \/ UnitScan(m)))
          /\ WF_vars(\E m \in msgs : m.req = r /\ (ScanReply(m) \/ AckRead(m)))

FairSpec == Spec /\ Fairness
-----------------------------------------------------------------------------
(* Properties.                                                             *)

(* The transaction of r is over: its handlers have returned and nothing of *)
(* it is in transit.                                                       *)
Concluded(r) ==
    /\ pc[r] \in {"dispatched", "error"}
    /\ \A m \in msgs : m.req # r
    /\ r \notin marking
    /\ ackPc[r] \notin {"read", "saved"}

(* Who may be taken for a registered person: the simulated unit reports a  *)
(* failed scan as a success, with the token a failed sign-up left behind.  *)
Mistaken == IF HonestUnit THEN {} ELSE Blank

(* A unit gives a card only to a registered person: the caller of a mobile *)
(* fetch had a row, and the badge scanned for a terminal fetch was looked  *)
(* up and confirmed by the server before the unit opened, however the      *)
(* answers, the Map entry and the unit's index interleave.  Nobody's badge *)
(* passes only where a unit calls its failed scans successes and a user's  *)
(* sign-up failed: an honest unit never opens without a badge.             *)
AuthorisedRelease ==
    \A r \in Request : releases[r] > 0 => holder[r] \in User \cup Mistaken

(* One request never makes the unit give out a card twice.                 *)
ReleaseAtMostOnce == \A r \in Request : releases[r] <= 1

(* A reservation row is written only for a fetch in which a card really    *)
(* left the unit, if the unit is honest: no failure, loss or restart makes *)
(* the server book a card that stayed inside.                              *)
BookedWasReleased ==
    HonestUnit => \A r \in borrowed : releases[r] = 1

(* As long as no handler outside fetching writes a row back as available,  *)
(* a card given out for a mobile fetch is unavailable from before it       *)
(* leaves, at every moment, although every handler of a fetch writes back  *)
(* the whole row it read earlier.                                          *)
ReleasedIsUnavailable ==
    Rewrite \subseteq {"block"} =>
        \A r \in Mobile : releases[r] > 0 => ~row[call[r].card].available

(* A request whose handler failed, or was cut off by a restart, has not    *)
(* reached anybody: the unit gives out nothing for it and the server       *)
(* acknowledges nothing, although a fetch at the display publishes its     *)
(* message before it enters the Map, and a unit may answer in between.     *)
RefusedReleasesNothing ==
    \A r \in Request : pc[r] = "error" => releases[r] = 0 /\ ackPc[r] = "none"

(* A card given out for a mobile fetch is booked, or its booking is under  *)
(* way: the unit's answer, or the goroutine that handles it, is the only   *)
(* thing that remembers, so without loss, failure or restart there must    *)
(* always be one.  The acknowledgement looks card and user up again: it    *)
(* ends without a booking only if one of them was not to be found when it  *)
(* looked, renamed or removed after the fetch had been checked.            *)
Faultless == ~MayLose /\ ~DBMayFail /\ MaxCrashes = 0
NotFound == {"nocard", "nouser"}

ReleaseAwaitsBooking ==
    Faultless =>
        \A r \in Mobile : releases[r] > 0 =>
            \/ r \in borrowed
            \/ ackPc[r] \in {"read", "saved"} \cup NotFound
            \/ \E m \in msgs : m.req = r /\ Final(m) /\ Succeeded(m)

(* The goroutine of the final answer has got past its save of the card.    *)
Counted == {"saved", "unbooked", "nouser", "done"}

(* The access counter never exceeds the number of fetches acknowledged for *)
(* the card: a stale row written back may lose an access, never invent one. *)
Acknowledged(c) == {r \in Request : /\ call[r].card = c
                                    /\ ackPc[r] \in Counted}

NeverOvercounted == \A c \in Card : row[c].accessed <= Cardinality(Acknowledged(c))

(* The inductive invariant behind the first three of these properties.     *)

(* Nothing has happened outside the server for a request not dispatched.   *)
StartInv ==
    \A r \in Request : pc[r] \in {"new", "checked", "saved"} =>
        /\ \A m \in msgs : m.req # r
        /\ r \notin index \cup marking
        /\ releases[r] = 0
        /\ ackPc[r] = "none"

(* A mobile fetch gets past its first check only for a registered user.    *)
CallerInv ==
    \A r \in Mobile : pc[r] \in {"checked", "saved"} => call[r].who \in User

(* A transaction is a conversation: one message at a time.                 *)
UniqueInv == \A m, n \in msgs : m.req = n.req => m = n

(* What a message in transit says about its transaction.                   *)
TransitInv ==
    \A m \in msgs :
        /\ ackPc[m.req] = "none"
        /\ ~Final(m) => releases[m.req] = 0
        /\ m.to = "unit" /\ (m.req \in Mobile \/ m.exists) =>
               m.who \in User \cup Mistaken
        /\ HonestUnit /\ m.to = "server" /\ ~Final(m) /\ m.ok => m.who # NoBadge
        /\ m.to = "unit" /\ m.req \in Terminal /\ ~m.exists =>
               m.req \notin index \cup marking
        /\ HonestUnit /\ Final(m) /\ m.ok /\ m.req \in Mobile =>
               releases[m.req] = 1

(* What was released was released once, to somebody the server confirmed.  *)
ReleaseInv ==
    \A r \in Request : \/ releases[r] = 0
                        \/ (releases[r] = 1 /\ holder[r] \in User \cup Mistaken)

(* An acknowledgement at work on a mobile fetch follows its release.       *)
AckInv ==
    HonestUnit => \A r \in Mobile : ackPc[r] \in {"read", "saved"} => releases[r] = 1

(* A booked request was acknowledged to its end.                           *)
BookInv ==
    \A r \in borrowed : ackPc[r] = "done" /\ (HonestUnit => releases[r] = 1)

(* In every reachable state a transaction is one conversation, and the     *)
(* message in transit says how far the server, the unit and the hardware   *)
(* have come in it.                                                        *)
LendingInv == /\ StartInv /\ CallerInv /\ UniqueInv /\ TransitInv
              /\ ReleaseInv /\ AckInv /\ BookInv

(* The one behind RefusedReleasesNothing: before its handler is through, a *)
(* request is not in the Map, so nobody's badge was confirmed for it.      *)
RefusedInv ==
    \A r \in Request : pc[r] # "dispatched" =>
        /\ r \notin pending /\ releases[r] = 0 /\ ackPc[r] = "none"
        /\ \A m \in msgs : m.req = r => r \in Terminal /\ ~m.exists

(* The one behind ReleaseAwaitsBooking: who asked is registered, so there  *)
(* is a borrower to be found.                                              *)
FollowUpInv ==
    /\ \A r \in Mobile : pc[r] \in {"published", "dispatched"} => call[r].who \in User
    /\ ReleaseAwaitsBooking

(* The one behind ReleasedIsUnavailable: from its save on, a mobile fetch  *)
(* keeps its card unavailable.                                             *)
WithdrawnInv ==
    Rewrite \subseteq {"block"} =>
        /\ clerk.busy => clerk.does = "block"
        /\ \A r \in Mobile :
              pc[r] = "saved" \/ releases[r] > 0 \/ (\E m \in msgs : m.req = r)
                  => ~row[call[r].card].available

(* The one behind NeverOvercounted: what a handler has read and will write *)
(* back counts no more fetches than have been acknowledged by now.         *)
CountInv ==
    /\ NeverOvercounted
    /\ \A r \in Request :
          /\ pc[r] = "checked" =>
                 read[r].accessed <= Cardinality(Acknowledged(call[r].card))
          /\ ackPc[r] = "read" =>
                 ackRead[r].accessed <= Cardinality(Acknowledged(call[r].card))
    /\ clerk.busy => clerk.read.accessed <= Cardinality(Acknowledged(clerk.card))

(* The protocol implements the promise of module Loan.                     *)
loan == [r \in Request |-> IF r \in borrowed THEN "booked"
                           ELSE IF releases[r] > 0 THEN "out" ELSE "asked"]

LoanOf == INSTANCE Loan WITH Request <- Request, User <- User,
                            Stranger <- Stranger, loan <- loan, holder <- holder

(* Fetching a card keeps the promise of Loan: one hand-over per request,   *)
(* to a registered person, and a booking only of a card handed over.       *)
ImplementsLoan == LoanOf!Spec

(* Without loss, failure or restart, every card the unit gives out for a   *)
(* mobile fetch ends up with a reservation row, unless the acknowledgement *)
(* finds that the card or the user was renamed or removed meanwhile.       *)
ReleasedIsBooked ==
    \A r \in Mobile : releases[r] > 0 ~> r \in borrowed \/ ackPc[r] \in NotFound

(* Every request that reached the server comes to its end, also the        *)
(* terminal fetch whose scan overtakes its own Map entry.                  *)
RequestsConclude == \A r \in Request : pc[r] # "new" ~> Concluded(r)

-----------------------------------------------------------------------------
(* What documents and comments of the repository say, and the code does    *)
(* not do.                                                                 *)

(* "As soon as a card leaves the unit a reservation is created": every     *)
(* concluded terminal fetch that released its card has a reservation row.  *)
TerminalReleaseIsBooked ==
    \A r \in Terminal : Concluded(r) /\ releases[r] > 0 => r \in borrowed

(* "Changes to the database are only made if the transaction succeeded":   *)
(* once all fetches of a card are over and none released it, its row is as *)
(* it was.                                                                 *)
FailedFetchChangesNothing ==
    \A c \in Card :
        (\A r \in Request : pc[r] # "new" /\ call[r].card = c =>
             Concluded(r) /\ releases[r] = 0) => row[c] = NewRow

(* "Acknowledge of actual card-fetch": the server counts a terminal fetch  *)
(* only if the unit gave the card out.                                     *)
CountedWasReleased ==
    \A r \in Terminal : ackPc[r] \in Counted => releases[r] = 1

(* "It is recorded whether a card is in use": the row of a card that was   *)
(* given out for a mobile fetch, and is not back, says so.                 *)
UseIsRecorded ==
    \A r \in Mobile : releases[r] > 0 /\ ~inside[call[r].card] =>
        ~row[call[r].card].available
=============================================================================
