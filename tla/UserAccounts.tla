---------------------------- MODULE UserAccounts ----------------------------
(***************************************************************************)
(* The users of the server.  Creating one inserts the row and asks a       *)
(* storage-unit to scan the person's badge; the handler of the unit's      *)
(* answer writes what was scanned into the row with that e-mail, also if   *)
(* the answer reports that the scan failed and nothing was read.           *)
(* Administrators edit rows (read, later write back whole) and remove them.*)
(*                                                                         *)
(* A row is identified by the request that created it, which also stands   *)
(* for the message-id of its sign-up.                                      *)
(***************************************************************************)
EXTENDS Naturals, SavedRows

CONSTANTS Email,        \* e-mail addresses
          Badge,        \* what the reader of a unit reads from a badge
          Empty,        \* the empty string, read by a failed scan
          NoBadge,      \* NULL in the table, no token in a message
          SignUp,       \* requests to create a user
          Editor,       \* requests to update one
          Remover,      \* requests to delete one
          MayLose,      \* a message may get lost
          MaxRestarts   \* bound on the restarts of the server

ASSUME AccountsAssumption ==
    /\ Email # {} /\ SignUp # {}
    /\ Empty \notin Badge /\ NoBadge \notin Badge \cup {Empty}
    /\ SignUp \cap (Editor \cup Remover) = {}
    /\ Editor \cap Remover = {}
    /\ MayLose \in BOOLEAN
    /\ MaxRestarts \in Nat

VARIABLES users,      \* table users
          pc,         \* progress of the handler of each request
          job,        \* the row this handler works with
          pending,    \* Controller.Map: message-ids of sign-ups
          msgs,       \* MQTT messages in transit
          given,      \* history: reader data scanned for a user, or given
                      \* to this user by an administrator
          had,        \* history: e-mails a user had, or was to get
          stored,     \* history: users whose own row got their answer
          missed,     \* history: sign-ups cut off by a loss or a restart
          altered,    \* history: users whose e-mail an administrator
                      \* changed, or whose row was removed
          restarts    \* how often the server restarted

history  == <<given, had, stored, missed, altered>>
userVars == <<users, pc, job, pending, msgs, history, restarts>>

Reader  == Badge \cup {Empty, NoBadge}
Row     == [id: SignUp, email: Email, badge: Reader]
Message == [to: {"unit", "server"}, req: SignUp, email: Email, badge: Reader]

AnyRow == [id |-> CHOOSE k \in SignUp : TRUE, email |-> CHOOSE e \in Email : TRUE,
           badge |-> NoBadge]

(* Every variable has its type; no two users share an e-mail.              *)
UsersTypeOK ==
    /\ users \subseteq Row
    /\ \A u, v \in users : u.id = v.id \/ u.email = v.email => u = v
    /\ pc \in [SignUp \cup Editor \cup Remover -> {"new", "inserted", "read", "done"}]
    /\ job \in [SignUp \cup Editor -> Row]
    /\ pending \subseteq SignUp
    /\ msgs \subseteq Message
    /\ given \subseteq SignUp \X Reader
    /\ had \subseteq SignUp \X Email
    /\ stored \subseteq SignUp
    /\ missed \subseteq SignUp
    /\ altered \subseteq SignUp
    /\ restarts \in 0 .. MaxRestarts

UsersInit ==
    /\ users = {}
    /\ pc = [r \in SignUp \cup Editor \cup Remover |-> "new"]
    /\ job = [r \in SignUp \cup Editor |-> AnyRow]
    /\ pending = {} /\ msgs = {} /\ restarts = 0
    /\ given = {} /\ had = {}
    /\ stored = {} /\ missed = {} /\ altered = {}

-----------------------------------------------------------------------------
Goto(r, from, to) == pc[r] = from /\ pc' = [pc EXCEPT ![r] = to]
WithEmail(e) == {u \in users : u.email = e}
Give(k, b) == given' = given \cup ({<<k, b>>} \ {<<k, NoBadge>>})

(* Faults: e-mails that need not be unique; a sign-up that is published    *)
(* but not noted in the Map; an answer that is taken for that of whoever   *)
(* waits for one.                                                          *)
InsertTwice(r, e, b) ==
    /\ b # Empty
    /\ Goto(r, "new", "inserted")
    /\ LET u == [id |-> r, email |-> e, badge |-> b]
       IN  users' = users \cup {u} /\ job' = [job EXCEPT ![r] = u]
    /\ Give(r, b)
    /\ had' = had \cup {<<r, e>>}
    /\ UNCHANGED <<pending, msgs, stored, missed, altered, restarts>>

DispatchUnnoted(r) ==
    /\ Goto(r, "inserted", "done")
    /\ msgs' = msgs \cup {[to |-> "unit", req |-> r, email |-> job[r].email,
                           badge |-> NoBadge]}
    /\ job' = [job EXCEPT ![r] = AnyRow]
    /\ UNCHANGED <<users, pending, history, restarts>>

Waiting(u, m) == u.badge = NoBadge

(* CreateHandler: an empty string is stored as NULL.                       *)
Insert(r, e, b) ==
    /\ b # Empty
    /\ WithEmail(e) = {}
    /\ Goto(r, "new", "inserted")
    /\ LET u == [id |-> r, email |-> e, badge |-> b]
       IN  users' = users \cup {u} /\ job' = [job EXCEPT ![r] = u]
    /\ Give(r, b)
    /\ had' = had \cup {<<r, e>>}
    /\ UNCHANGED <<pending, msgs, stored, missed, altered, restarts>>

(* SignUpUserDispatcher.  The message asks for the e-mail of the request.  *)
Kickoff(r) == [to |-> "unit", req |-> r, email |-> job[r].email, badge |-> NoBadge]

Dispatch(r) ==
    /\ Goto(r, "inserted", "done")
    /\ pending' = pending \cup {r}
    /\ msgs' = msgs \cup {Kickoff(r)}
    /\ job' = [job EXCEPT ![r] = AnyRow]
    /\ UNCHANGED <<users, history, restarts>>

(* The unit's reader: a failed scan reads nothing.  (The simulated unit    *)
(* reports success with an empty token all the same.)                      *)
UnitScan(m) ==
    /\ m.to = "unit"
    /\ \E b \in Reader :
          /\ msgs' = (msgs \ {m}) \cup {[m EXCEPT !.to = "server", !.badge = b]}
          /\ Give(m.req, b)
    /\ UNCHANGED <<users, pc, job, pending, had, stored, missed, altered, restarts>>

(* The handler of the answer.  It does not ask whether the scan succeeded, *)
(* the Map's entry is not deleted, and the user is looked up by e-mail:    *)
(* nobody may have it by now, or somebody else.                            *)
Asked(u, m) == u.email = m.email

SignUpUser(m) ==
    /\ m.to = "server"
    /\ msgs' = msgs \ {m}
    /\ \/ /\ m.req \in pending
          /\ users' = {IF Asked(u, m) THEN [u EXCEPT !.badge = m.badge] ELSE u :
                           u \in users}
          /\ stored' = stored \cup {u.id : u \in {v \in users :
                                                    Asked(v, m) /\ v.id = m.req}}
       \/ /\ m.req \notin pending
          /\ UNCHANGED <<users, stored>>
    /\ UNCHANGED <<pc, job, pending, given, had, missed, altered, restarts>>

Lose(m) ==
    /\ MayLose
    /\ msgs' = msgs \ {m}
    /\ missed' = missed \cup {m.req}
    /\ UNCHANGED <<users, pc, job, pending, given, had, stored, altered, restarts>>

-----------------------------------------------------------------------------
(* UpdateHandler: the row is read by e-mail and written back whole, with   *)
(* another e-mail or other reader data; the administrator gives only what  *)
(* differs from what was read.                                             *)
EditRead(r, u) ==
    /\ Goto(r, "new", "read")
    /\ job' = [job EXCEPT ![r] = u]
    /\ UNCHANGED <<users, pending, msgs, history, restarts>>

EditSave(r, e, b) ==
    /\ b # Empty \/ b = job[r].badge
    /\ Goto(r, "read", "done")
    /\ job' = [job EXCEPT ![r] = AnyRow]
    /\ LET row   == [job[r] EXCEPT !.email = e, !.badge = b]
           after == Saved(users, row, WithEmail(e))
       IN  \/ after = {} /\ UNCHANGED <<users, given, had, altered>>
           \/ /\ users' \in after
              /\ IF b = job[r].badge THEN UNCHANGED given ELSE Give(row.id, b)
              /\ had' = had \cup {<<row.id, e>>}
              /\ altered' = IF e = job[r].email THEN altered ELSE altered \cup {row.id}
    /\ UNCHANGED <<pending, msgs, stored, missed, restarts>>

(* DeleteHandler: one statement.                                           *)
Remove(r, e) ==
    /\ Goto(r, "new", "done")
    /\ WithEmail(e) # {}
    /\ users' = users \ WithEmail(e)
    /\ altered' = altered \cup {u.id : u \in WithEmail(e)}
    /\ UNCHANGED <<job, pending, msgs, given, had, stored, missed, restarts>>

(* Handlers die and the Map is empty; the table stays.                     *)
UsersRestart ==
    /\ restarts < MaxRestarts
    /\ restarts' = restarts + 1
    /\ pc' = [r \in DOMAIN pc |-> IF pc[r] = "new" THEN "new" ELSE "done"]
    /\ job' = [r \in DOMAIN job |-> AnyRow]
    /\ missed' = missed \cup pending \cup {r \in SignUp : pc[r] = "inserted"}
    /\ pending' = {}
    /\ UNCHANGED <<users, msgs, given, had, stored, altered>>

SignUpNext == \/ \E r \in SignUp, e \in Email, b \in Reader : Insert(r, e, b)
              \/ \E r \in SignUp : Dispatch(r)
              \/ \E m \in msgs : UnitScan(m) \/ SignUpUser(m) \/ Lose(m)
EditNext == \E r \in Editor : \/ \E u \in users : EditRead(r, u)
                              \/ \E e \in Email, b \in Reader : EditSave(r, e, b)

UsersNext == \/ SignUpNext \/ EditNext
             \/ \E r \in Remover, e \in Email : Remove(r, e)
             \/ UsersRestart

UsersSpec == UsersInit /\ [][UsersNext]_userVars

(* Handlers keep running, the unit answers, the broker delivers.           *)
UsersFairness ==
    /\ \A r \in SignUp : WF_userVars(Dispatch(r))
    /\ WF_userVars(\E m \in msgs : UnitScan(m) \/ SignUpUser(m))

-----------------------------------------------------------------------------
(* Nobody ends up with another person's badge: however edits, removals,    *)
(* restarts and late answers come between, what is in a row was read for   *)
(* this user, be it nothing, or given to this user by an administrator.    *)
(* Only a user whose e-mail was at some time another's may get theirs.     *)
Shared(k) == \E e \in Email, j \in SignUp \ {k} : {<<k, e>>, <<j, e>>} \subseteq had

RightBadge ==
    \A u \in users : \/ u.badge = NoBadge \/ <<u.id, u.badge>> \in given
                     \/ Shared(u.id)

(* The inductive invariant behind it, and behind the uniqueness of keys:   *)
(* who had an e-mail was created; rows, also those in the hands of an      *)
(* edit, have e-mails these users had and reader data that is theirs; and  *)
(* what the unit reports was read for the user of that request.            *)
Theirs(u) ==
    /\ <<u.id, u.email>> \in had
    /\ u.badge = NoBadge \/ <<u.id, u.badge>> \in given \/ Shared(u.id)

AccountsInv ==
    /\ \A k \in SignUp, e \in Email : <<k, e>> \in had => pc[k] # "new"
    /\ \A u \in users : Theirs(u)
    /\ \A r \in Editor : pc[r] = "read" => Theirs(job[r])
    /\ \A r \in SignUp : pc[r] = "inserted" => <<r, job[r].email>> \in had
    /\ \A m \in msgs :
          /\ <<m.req, m.email>> \in had
          /\ m.to = "server" /\ m.badge # NoBadge => <<m.req, m.badge>> \in given

(* The user whom administrators have not touched still has the e-mail with *)
(* which it was created, also in messages and in the hands of an edit.     *)
OwnRowInv ==
    \A r \in SignUp : pc[r] # "new" /\ r \notin altered =>
        \E u \in users :
            /\ u.id = r
            /\ pc[r] = "inserted" => job[r].email = u.email
            /\ \A m \in msgs : m.req = r => m.email = u.email
            /\ \A q \in Editor : pc[q] = "read" /\ job[q].id = r => job[q].email = u.email

(* Who has been sent to a reader is not forgotten: a sign-up whose answer  *)
(* is not in its own row is noted in the Map and has a message on its way, *)
(* unless it was cut off, or the user was removed or got another e-mail.   *)
SignUpsAwaited ==
    \A r \in SignUp : pc[r] = "done" =>
        \/ r \in stored \cup missed \cup altered
        \/ r \in pending /\ \E m \in msgs : m.req = r

=============================================================================
