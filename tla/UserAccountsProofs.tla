------------------------- MODULE UserAccountsProofs -------------------------
(* Proofs about the users of the server, for any e-mails, badges and       *)
(* requests, whatever messages get lost and however often it restarts.     *)
EXTENDS UserAccounts, TLAPS

USE AccountsAssumption DEF Reader, history

(* The table keeps its keys and e-mails unique, if a row is added to it    *)
(* that shares neither.                                                    *)
Unique(rows) == \A u, v \in rows : u.id = v.id \/ u.email = v.email => u = v

(* What Save makes of a table of unique e-mails: the row of the same key   *)
(* is replaced, or the one of the same e-mail, or one is added.            *)
LEMMA SavedUsers ==
    ASSUME NEW rows \in SUBSET Row, Unique(rows), NEW row \in Row,
           NEW after \in Saved(rows, row, {u \in rows : u.email = row.email})
    PROVE  /\ after \subseteq Row
           /\ Unique(after)
           /\ \A u \in rows :
                 \/ u \in after
                 \/ /\ u.id = row.id \/ u.email = row.email
                    /\ \E v \in after : v.id = u.id /\ v.email = row.email
           /\ \A v \in after :
                 \/ v \in rows
                 \/ /\ v.email = row.email /\ v.badge = row.badge
                    /\ v.id = row.id \/ \E u \in rows : u.id = v.id /\ u.email = row.email
<1> DEFINE same  == {u \in rows : u.email = row.email}
           kept  == {u \in rows : u.id = row.id}
           other == same \ kept
           rest  == {u \in rows : u \notin kept \cup other}
<1>1. ~(kept # {} /\ other # {})
  BY DEF Saved
<1>2. after = rest \cup (IF other = {} THEN {row}
                         ELSE {[row EXCEPT !.id = u.id] : u \in other})
  BY <1>1 DEF Saved
<1>3. \A u \in rest : u \in rows /\ u.id # row.id /\ u.email # row.email
  OBVIOUS
<1>4. CASE other = {}
  <2>1. after = rest \cup {row}
    BY <1>2, <1>4
  <2>2. \A u \in rows : u \in rest \/ u.id = row.id
    BY <1>4
  <2>3. QED
    BY <1>3, <2>1, <2>2 DEF Unique
<1>5. CASE other # {}
  <2>1. PICK u \in rows : u.email = row.email /\ u.id # row.id
    BY <1>5
  <2>2. other = {u} /\ kept = {}
    BY <1>1, <1>5, <2>1 DEF Unique
  <2> DEFINE new == [row EXCEPT !.id = u.id]
  <2>3. after = rest \cup {new}
    BY <1>2, <1>5, <2>2
  <2>4. /\ new \in Row /\ new.id = u.id
        /\ new.email = row.email /\ new.badge = row.badge
    BY DEF Row
  <2> HIDE DEF new
  <2>5. \A v \in rows : v \in rest \/ v = u
    BY <2>2
  <2>6. \A v \in rest : v.id # u.id
    BY <1>3, <2>1 DEF Unique
  <2>7. Unique(after)
    BY <1>3, <2>3, <2>4, <2>6 DEF Unique
  <2>8. QED
    BY <1>3, <2>1, <2>3, <2>4, <2>5, <2>7
<1>6. QED
  BY <1>4, <1>5

(* Every request is of one kind.                                           *)
Requests == SignUp \cup Editor \cup Remover
Pc       == {"new", "inserted", "read", "done"}

LEMMA InitialRow == AnyRow \in Row
  BY DEF AnyRow, Row

LEMMA InitUsersType == UsersInit => UsersTypeOK
  BY InitialRow DEF UsersInit, UsersTypeOK

(* Giving reader data to somebody keeps the history's type.                *)
LEMMA GiveType ==
    ASSUME given \subseteq SignUp \X Reader, NEW k \in SignUp, NEW b \in Reader, Give(k, b)
    PROVE  /\ given' \subseteq SignUp \X Reader
           /\ given \subseteq given'
           /\ b # NoBadge => <<k, b>> \in given'
  BY DEF Give

LEMMA InsertType ==
    ASSUME UsersTypeOK, AccountsInv, NEW r \in SignUp, NEW e \in Email, NEW b \in Reader,
           Insert(r, e, b)
    PROVE  UsersTypeOK'
<1> DEFINE u == [id |-> r, email |-> e, badge |-> b]
<1>1. /\ u \in Row /\ u.id = r /\ u.email = e
  BY DEF Row
<1>2. /\ users' = users \cup {u} /\ job' = [job EXCEPT ![r] = u]
      /\ pc' = [pc EXCEPT ![r] = "inserted"]
      /\ \A v \in users : v.email # e
  BY DEF Insert, Goto, WithEmail
<1> HIDE DEF u
<1>0. \A v \in users : v.id # r
  BY DEF Insert, Goto, AccountsInv, Theirs, UsersTypeOK, Row
<1>3. users' \subseteq Row /\ \A v, w \in users' : v.id = w.id \/ v.email = w.email => v = w
  BY <1>0, <1>1, <1>2 DEF UsersTypeOK
<1>4. job' \in [SignUp \cup Editor -> Row]
  BY <1>1, <1>2 DEF UsersTypeOK
<1>5. pc' \in [Requests -> Pc]
  BY <1>2 DEF UsersTypeOK, Requests, Pc
<1>6. given' \subseteq SignUp \X Reader
  BY GiveType DEF UsersTypeOK, Insert
<1>7. QED
  BY <1>3, <1>4, <1>5, <1>6 DEF UsersTypeOK, Insert, Requests, Pc

LEMMA DispatchType ==
    ASSUME UsersTypeOK, NEW r \in SignUp, Dispatch(r)
    PROVE  UsersTypeOK'
<1>1. Kickoff(r) \in Message
  BY DEF Kickoff, Message, UsersTypeOK, Row
<1>2. pc' \in [Requests -> Pc] /\ job' \in [SignUp \cup Editor -> Row]
  BY InitialRow DEF Dispatch, Goto, UsersTypeOK, Requests, Pc
<1>3. QED
  BY <1>1, <1>2 DEF Dispatch, UsersTypeOK, Requests, Pc

LEMMA ScanType ==
    ASSUME UsersTypeOK, NEW m \in msgs, UnitScan(m)
    PROVE  UsersTypeOK'
<1>1. PICK b \in Reader :
         /\ msgs' = (msgs \ {m}) \cup {[m EXCEPT !.to = "server", !.badge = b]}
         /\ Give(m.req, b)
  BY DEF UnitScan
<1>2. m.req \in SignUp /\ [m EXCEPT !.to = "server", !.badge = b] \in Message
  <2>1. m \in Message
    BY DEF UsersTypeOK
  <2>2. QED
    BY <2>1 DEF Message
<1>3. msgs' \subseteq Message
  BY <1>1, <1>2 DEF UsersTypeOK
<1>4. given' \subseteq SignUp \X Reader
  BY <1>1, <1>2, GiveType DEF UsersTypeOK
<1>5. QED
  BY <1>3, <1>4 DEF UnitScan, UsersTypeOK

(* The answer changes no key and no e-mail.                                *)
LEMMA SignUpRows ==
    ASSUME UsersTypeOK, NEW m \in msgs, SignUpUser(m)
    PROVE  /\ users' \subseteq Row
           /\ \A u \in users' : \E v \in users :
                 /\ u.id = v.id /\ u.email = v.email
                 /\ u.badge = v.badge \/ (v.email = m.email /\ u.badge = m.badge)
           /\ \A v \in users : \E u \in users' : u.id = v.id /\ u.email = v.email
           /\ Unique(users')
<1> DEFINE answered(v) == IF Asked(v, m) THEN [v EXCEPT !.badge = m.badge] ELSE v
<1>1. m \in Message /\ users \subseteq Row /\ Unique(users)
  BY DEF UsersTypeOK, Unique
<1>2. CASE UNCHANGED users
  BY <1>1, <1>2
<1>3. CASE users' = {answered(v) : v \in users}
  <2>1. ASSUME NEW v \in users
        PROVE  /\ answered(v) \in Row
               /\ answered(v).id = v.id /\ answered(v).email = v.email
               /\ answered(v).badge = v.badge \/ (v.email = m.email /\ answered(v).badge = m.badge)
    <3>1. v \in Row /\ m.badge \in Reader
      BY <1>1 DEF Message
    <3>2. QED
      BY <3>1 DEF Row, Asked
  <2> HIDE DEF answered
  <2>2. QED
    BY <1>1, <1>3, <2>1 DEF Unique
<1>4. QED
  BY <1>2, <1>3 DEF SignUpUser

LEMMA SignUpType ==
    ASSUME UsersTypeOK, NEW m \in msgs, SignUpUser(m)
    PROVE  UsersTypeOK'
<1>1. users' \subseteq Row /\ Unique(users')
  BY SignUpRows
<1>2. stored' \subseteq SignUp
  BY DEF SignUpUser, UsersTypeOK, Row
<1>3. QED
  BY <1>1, <1>2 DEF SignUpUser, UsersTypeOK, Unique

LEMMA EditReadType ==
    ASSUME UsersTypeOK, NEW r \in Editor, NEW u \in users, EditRead(r, u)
    PROVE  UsersTypeOK'
<1>1. pc' \in [Requests -> Pc] /\ job' \in [SignUp \cup Editor -> Row]
  BY DEF EditRead, Goto, UsersTypeOK, Requests, Pc
<1>2. QED
  BY <1>1 DEF EditRead, UsersTypeOK, Requests, Pc

(* What an edit leaves of the table.                                       *)
LEMMA EditRows ==
    ASSUME UsersTypeOK, NEW r \in Editor, NEW e \in Email, NEW b \in Reader, EditSave(r, e, b)
    PROVE  \/ UNCHANGED <<users, given, had, altered>>
           \/ /\ IF b = job[r].badge THEN UNCHANGED given ELSE Give(job[r].id, b)
              /\ had' = had \cup {<<job[r].id, e>>}
              /\ altered' = IF e = job[r].email THEN altered ELSE altered \cup {job[r].id}
              /\ users' \subseteq Row
              /\ Unique(users')
              /\ \A u \in users :
                    \/ u \in users'
                    \/ /\ u.id = job[r].id \/ u.email = e
                       /\ \E v \in users' : v.id = u.id /\ v.email = e
              /\ \A v \in users' :
                    \/ v \in users
                    \/ /\ v.email = e /\ v.badge = b
                       /\ v.id = job[r].id \/ \E u \in users : u.id = v.id /\ u.email = e
<1> DEFINE row   == [job[r] EXCEPT !.email = e, !.badge = b]
           after == Saved(users, row, WithEmail(e))
<1>1. row \in Row /\ row.id = job[r].id /\ row.email = e /\ row.badge = b
  <2>1. job[r] \in Row
    BY DEF UsersTypeOK
  <2>2. QED
    BY <2>1 DEF Row
<1>2. \/ UNCHANGED <<users, given, had, altered>>
      \/ /\ users' \in after
         /\ IF b = job[r].badge THEN UNCHANGED given ELSE Give(row.id, b)
         /\ had' = had \cup {<<row.id, e>>}
         /\ altered' = IF e = job[r].email THEN altered ELSE altered \cup {row.id}
  BY DEF EditSave
<1> HIDE DEF row
<1>3. after = Saved(users, row, {u \in users : u.email = row.email})
  BY <1>1 DEF WithEmail
<1>4. Unique(users) /\ users \in SUBSET Row
  BY DEF UsersTypeOK, Unique
<1>5. ASSUME users' \in after
      PROVE  /\ users' \subseteq Row
             /\ Unique(users')
             /\ \A u \in users :
                   \/ u \in users'
                   \/ /\ u.id = job[r].id \/ u.email = e
                      /\ \E v \in users' : v.id = u.id /\ v.email = e
             /\ \A v \in users' :
                   \/ v \in users
                   \/ /\ v.email = e /\ v.badge = b
                      /\ v.id = job[r].id \/ \E u \in users : u.id = v.id /\ u.email = e
  BY <1>1, <1>3, <1>4, <1>5, SavedUsers
<1>6. QED
  BY <1>1, <1>2, <1>5

LEMMA EditSaveType ==
    ASSUME UsersTypeOK, NEW r \in Editor, NEW e \in Email, NEW b \in Reader, EditSave(r, e, b)
    PROVE  UsersTypeOK'
<1>0. job[r].id \in SignUp
  BY DEF UsersTypeOK, Row
<1>1. /\ users' \subseteq Row /\ Unique(users') /\ given' \subseteq SignUp \X Reader
      /\ had' \subseteq SignUp \X Email /\ altered' \subseteq SignUp
  <2>1. CASE UNCHANGED <<users, given, had, altered>>
    BY <2>1 DEF UsersTypeOK, Unique
  <2>2. CASE ~UNCHANGED <<users, given, had, altered>>
    <3>1. /\ users' \subseteq Row /\ Unique(users')
          /\ UNCHANGED given \/ Give(job[r].id, b)
          /\ had' = had \cup {<<job[r].id, e>>}
          /\ altered' \subseteq altered \cup {job[r].id}
      BY <2>2, EditRows
    <3>2. given' \subseteq SignUp \X Reader
      <4>1. given \subseteq SignUp \X Reader
        BY DEF UsersTypeOK
      <4>2. CASE Give(job[r].id, b)
        BY <1>0, <4>1, <4>2, GiveType
      <4>3. QED
        BY <3>1, <4>1, <4>2
    <3>3. had' \subseteq SignUp \X Email /\ altered' \subseteq SignUp
      BY <1>0, <3>1 DEF UsersTypeOK
    <3>4. QED
      BY <3>1, <3>2, <3>3
  <2>3. QED
    BY <2>1, <2>2
<1>2. pc' \in [Requests -> Pc] /\ job' \in [SignUp \cup Editor -> Row]
  BY InitialRow DEF EditSave, Goto, UsersTypeOK, Requests, Pc
<1>3. QED
  BY <1>1, <1>2 DEF EditSave, UsersTypeOK, Unique, Requests, Pc

LEMMA RestType ==
    ASSUME UsersTypeOK,
           \/ \E m \in msgs : Lose(m)
           \/ \E r \in Remover, e \in Email : Remove(r, e)
           \/ UsersRestart
    PROVE  UsersTypeOK'
<1>1. ASSUME NEW m \in msgs, Lose(m)
      PROVE  UsersTypeOK'
  <2>1. m.req \in SignUp
    BY DEF UsersTypeOK, Message
  <2>2. QED
    BY <1>1, <2>1 DEF Lose, UsersTypeOK
<1>2. ASSUME NEW r \in Remover, NEW e \in Email, Remove(r, e)
      PROVE  UsersTypeOK'
  <2>1. pc' \in [Requests -> Pc] /\ users' \subseteq users /\ altered' \subseteq SignUp
    BY <1>2 DEF Remove, Goto, WithEmail, UsersTypeOK, Row, Requests, Pc
  <2>2. QED
    BY <1>2, <2>1 DEF Remove, UsersTypeOK, Requests, Pc
<1>3. CASE UsersRestart
  <2>1. pc' \in [Requests -> Pc] /\ job' \in [SignUp \cup Editor -> Row]
    BY <1>3, InitialRow DEF UsersRestart, UsersTypeOK, Requests, Pc
  <2>2. missed' \subseteq SignUp /\ restarts' \in 0 .. MaxRestarts
    BY <1>3 DEF UsersRestart, UsersTypeOK
  <2>3. QED
    BY <1>3, <2>1, <2>2 DEF UsersRestart, UsersTypeOK, Requests, Pc
<1>4. QED
  BY <1>1, <1>2, <1>3

LEMMA UsersTypeStep ==
    ASSUME UsersTypeOK, AccountsInv, UsersNext
    PROVE  UsersTypeOK'
  BY InsertType, DispatchType, ScanType, SignUpType, EditReadType, EditSaveType, RestType
  DEF UsersNext, SignUpNext, EditNext

-----------------------------------------------------------------------------
(* Nobody ends up with another person's badge.                             *)

(* What is a user's stays theirs, as the histories only grow.              *)
LEMMA TheirsKept ==
    ASSUME NEW u, NEW v, Theirs(u), v.id = u.id, v.email = u.email, v.badge = u.badge,
           given \subseteq given', had \subseteq had'
    PROVE  Theirs(v)'
<1>1. Shared(u.id) => Shared(v.id)'
  BY DEF Shared
<1>2. QED
  BY <1>1 DEF Theirs

(* Who had another's e-mail, or gets it, may have any reader data.         *)
LEMMA SharedTheirs ==
    ASSUME NEW v, NEW j \in SignUp, NEW e \in Email, j # v.id, v.email = e,
           <<v.id, e>> \in had', <<j, e>> \in had'
    PROVE  Theirs(v)'
  BY DEF Theirs, Shared

(* What every step has to show.                                            *)
LEMMA AccountsKept ==
    ASSUME AccountsInv,
           given \subseteq given', had \subseteq had',
           \A k \in SignUp, e \in Email :
              <<k, e>> \in had' => <<k, e>> \in had \/ pc'[k] # "new",
           \A k \in SignUp : pc'[k] = "new" => pc[k] = "new",
           \A u \in users' : u \in users \/ Theirs(u)',
           \A r \in Editor : pc'[r] = "read" =>
              (pc[r] = "read" /\ job'[r] = job[r]) \/ job'[r] \in users,
           \A r \in SignUp : pc'[r] = "inserted" =>
              (pc[r] = "inserted" /\ job'[r] = job[r]) \/ <<r, job'[r].email>> \in had',
           \A m \in msgs' : m \in msgs \/
              /\ <<m.req, m.email>> \in had'
              /\ m.to = "server" /\ m.badge # NoBadge => <<m.req, m.badge>> \in given'
    PROVE  AccountsInv'
<1>1. \A k \in SignUp, e \in Email : <<k, e>> \in had' => pc'[k] # "new"
  BY DEF AccountsInv
<1>2. \A u \in users' : Theirs(u)'
  BY TheirsKept DEF AccountsInv
<1>3. \A u \in users : Theirs(u)'
  BY TheirsKept DEF AccountsInv
<1>4. \A r \in Editor : pc'[r] = "read" => Theirs(job[r])'
  <2>1. SUFFICES ASSUME NEW r \in Editor, pc'[r] = "read"
                 PROVE  Theirs(job[r])'
    OBVIOUS
  <2>2. CASE pc[r] = "read" /\ job'[r] = job[r]
    <3>0. Theirs(job[r])
      BY <2>1, <2>2 DEF AccountsInv
    <3>1. PICK u \in {job[r]} : Theirs(u)
      BY <3>0
    <3>2. Theirs(u)'
      BY <3>1, TheirsKept
    <3>3. job'[r] = u
      BY <2>2, <3>1
    <3>4. QED
      BY <3>2, <3>3 DEF Theirs, Shared
  <2>3. CASE job'[r] \in users
    <3>1. PICK u \in users : job'[r] = u
      BY <2>3
    <3>2. Theirs(u)'
      BY <1>3
    <3>3. QED
      BY <3>1, <3>2 DEF Theirs, Shared
  <2>4. (pc[r] = "read" /\ job'[r] = job[r]) \/ job'[r] \in users
    BY <2>1
  <2>5. QED
    BY <2>2, <2>3, <2>4
<1>5. \A r \in SignUp : pc'[r] = "inserted" => <<r, job'[r].email>> \in had'
  BY DEF AccountsInv
<1>6. \A m \in msgs' :
         /\ <<m.req, m.email>> \in had'
         /\ m.to = "server" /\ m.badge # NoBadge => <<m.req, m.badge>> \in given'
  BY DEF AccountsInv
<1>7. QED
  BY <1>1, <1>2, <1>4, <1>5, <1>6 DEF AccountsInv

LEMMA Ids ==
    ASSUME UsersTypeOK
    PROVE  /\ \A u \in users : u.id \in SignUp /\ u.email \in Email
           /\ \A r \in SignUp \cup Editor : job[r].id \in SignUp /\ job[r].email \in Email
           /\ \A m \in msgs : m.req \in SignUp /\ m.email \in Email /\ m.badge \in Reader
  BY DEF UsersTypeOK, Row, Message

LEMMA InsertAccounts ==
    ASSUME UsersTypeOK, AccountsInv, NEW r \in SignUp, NEW e \in Email, NEW b \in Reader,
           Insert(r, e, b)
    PROVE  AccountsInv'
<1> DEFINE u == [id |-> r, email |-> e, badge |-> b]
<1>1. /\ users' = users \cup {u} /\ UNCHANGED msgs /\ pc'[r] = "inserted"
      /\ \A q \in Requests : q # r => pc'[q] = pc[q]
      /\ \A q \in SignUp \cup Editor : q # r => job'[q] = job[q]
      /\ job'[r] = u
  BY DEF Insert, Goto, UsersTypeOK, Requests
<1>2. given \subseteq given' /\ (b # NoBadge => <<r, b>> \in given')
  BY GiveType DEF Insert, UsersTypeOK
<1>3. had' = had \cup {<<r, e>>}
  BY DEF Insert
<1>4. Theirs(u)'
  BY <1>2, <1>3 DEF Theirs
<1>5. job'[r].email = e
  BY <1>1
<1> HIDE DEF u
<1>6. \A q \in Editor : q # r
  OBVIOUS
<1>7. \A v \in users' : v \in users \/ Theirs(v)'
  <2>1. SUFFICES ASSUME NEW v \in users', v \notin users
                 PROVE  Theirs(v)'
    OBVIOUS
  <2>2. v = u
    BY <1>1, <2>1
  <2>3. QED
    BY <1>4, <2>2
<1>8. QED
  BY <1>1, <1>2, <1>3, <1>5, <1>6, <1>7, AccountsKept DEF Requests

LEMMA DispatchAccounts ==
    ASSUME UsersTypeOK, AccountsInv, NEW r \in SignUp, Dispatch(r)
    PROVE  AccountsInv'
<1>1. /\ UNCHANGED <<users, given, had>> /\ pc[r] = "inserted" /\ pc'[r] = "done"
      /\ \A q \in Requests : q # r => pc'[q] = pc[q]
      /\ \A q \in SignUp \cup Editor : q # r => job'[q] = job[q]
      /\ msgs' = msgs \cup {Kickoff(r)}
  BY DEF Dispatch, Goto, UsersTypeOK, Requests
<1>2. /\ Kickoff(r).to = "unit" /\ Kickoff(r).req = r /\ Kickoff(r).email = job[r].email
      /\ <<r, job[r].email>> \in had
  BY <1>1 DEF Kickoff, AccountsInv
<1>3. QED
  BY <1>1, <1>2, AccountsKept DEF Requests

LEMMA ScanAccounts ==
    ASSUME UsersTypeOK, AccountsInv, NEW m \in msgs, UnitScan(m)
    PROVE  AccountsInv'
<1>1. PICK b \in Reader :
         /\ msgs' = (msgs \ {m}) \cup {[m EXCEPT !.to = "server", !.badge = b]}
         /\ Give(m.req, b)
  BY DEF UnitScan
<1>2. LET k == [m EXCEPT !.to = "server", !.badge = b]
      IN  k.req = m.req /\ k.email = m.email /\ k.badge = b
  BY DEF UsersTypeOK, Message
<1>3. given \subseteq given' /\ (b # NoBadge => <<m.req, b>> \in given')
  BY <1>1, Ids, GiveType DEF UsersTypeOK
<1>4. UNCHANGED <<users, pc, job, had>> /\ <<m.req, m.email>> \in had
  BY DEF UnitScan, AccountsInv
<1>5. QED
  BY <1>1, <1>2, <1>3, <1>4, AccountsKept

(* An answer that is stored in a row of another user was asked for an      *)
(* e-mail that both had.                                                   *)
LEMMA SignUpAccounts ==
    ASSUME UsersTypeOK, AccountsInv, NEW m \in msgs, SignUpUser(m)
    PROVE  AccountsInv'
<1>1. UNCHANGED <<pc, job, given, had>> /\ msgs' \subseteq msgs /\ m.to = "server"
  BY DEF SignUpUser
<1>2. /\ m.badge # NoBadge => <<m.req, m.badge>> \in given
      /\ <<m.req, m.email>> \in had
  BY <1>1 DEF AccountsInv
<1>3. ASSUME NEW u \in users'
      PROVE  Theirs(u)'
  <2>1. PICK v \in users :
           /\ u.id = v.id /\ u.email = v.email
           /\ u.badge = v.badge \/ (v.email = m.email /\ u.badge = m.badge)
    BY SignUpRows
  <2>2. Theirs(v) /\ <<u.id, u.email>> \in had'
    BY <1>1, <2>1 DEF AccountsInv, Theirs
  <2>3. CASE u.badge = v.badge
    BY <1>1, <2>1, <2>2, <2>3, TheirsKept
  <2>4. CASE v.email = m.email /\ u.badge = m.badge /\ v.id = m.req
    BY <1>1, <1>2, <2>1, <2>2, <2>4 DEF Theirs
  <2>5. CASE v.email = m.email /\ v.id # m.req
    BY <1>1, <1>2, <2>1, <2>2, <2>5, Ids, SharedTheirs
  <2>6. QED
    BY <2>1, <2>3, <2>4, <2>5
<1>4. QED
  BY <1>1, <1>3, AccountsKept

LEMMA EditReadAccounts ==
    ASSUME UsersTypeOK, AccountsInv, NEW r \in Editor, NEW u \in users, EditRead(r, u)
    PROVE  AccountsInv'
<1>1. /\ UNCHANGED <<users, msgs, given, had>> /\ job'[r] = u /\ pc'[r] = "read"
      /\ \A q \in Requests : q # r => pc'[q] = pc[q]
      /\ \A q \in SignUp \cup Editor : q # r => job'[q] = job[q]
      /\ r \notin SignUp
  BY DEF EditRead, Goto, UsersTypeOK, Requests
<1>2. QED
  BY <1>1, AccountsKept DEF Requests

(* An edit writes what the administrator gives, or what was theirs when    *)
(* the row was read; the row it overwrites had the same e-mail.            *)
LEMMA EditSaveAccounts ==
    ASSUME UsersTypeOK, AccountsInv, NEW r \in Editor, NEW e \in Email, NEW b \in Reader,
           EditSave(r, e, b)
    PROVE  AccountsInv'
<1>1. /\ UNCHANGED msgs /\ pc[r] = "read" /\ pc'[r] = "done"
      /\ \A q \in Requests : q # r => pc'[q] = pc[q]
      /\ \A q \in SignUp \cup Editor : q # r => job'[q] = job[q]
      /\ r \notin SignUp
  BY DEF EditSave, Goto, UsersTypeOK, Requests
<1>2. CASE UNCHANGED <<users, given, had, altered>>
  BY <1>1, <1>2, AccountsKept DEF Requests
<1>3. CASE ~UNCHANGED <<users, given, had, altered>>
  <2>1. /\ IF b = job[r].badge THEN UNCHANGED given ELSE Give(job[r].id, b)
        /\ had' = had \cup {<<job[r].id, e>>}
        /\ \A v \in users' :
              \/ v \in users
              \/ /\ v.email = e /\ v.badge = b
                 /\ v.id = job[r].id \/ \E u \in users : u.id = v.id /\ u.email = e
    BY <1>3, EditRows
  <2>2. job[r].id \in SignUp /\ pc[job[r].id] # "new" /\ Theirs(job[r])
    BY <1>1, Ids DEF AccountsInv, Theirs
  <2>3. given \subseteq given' /\ (b = job[r].badge \/ b = NoBadge \/ <<job[r].id, b>> \in given')
    <3>1. given \subseteq SignUp \X Reader
      BY DEF UsersTypeOK
    <3>2. CASE Give(job[r].id, b)
      BY <2>2, <3>1, <3>2, GiveType
    <3>3. QED
      BY <2>1, <3>2
  <2>4. ASSUME NEW v \in users', v \notin users
        PROVE  Theirs(v)'
    <3>1. v.email = e /\ v.badge = b /\ <<job[r].id, e>> \in had'
      BY <2>1, <2>4
    <3>2. CASE v.id = job[r].id
      <4>1. <<v.id, v.email>> \in had'
        BY <3>1, <3>2
      <4>2. CASE b = NoBadge \/ <<job[r].id, b>> \in given'
        BY <3>1, <3>2, <4>1, <4>2 DEF Theirs
      <4>3. CASE b = job[r].badge /\ (b = NoBadge \/ <<job[r].id, b>> \in given)
        BY <2>3, <3>1, <3>2, <4>1, <4>3 DEF Theirs
      <4>4. CASE Shared(job[r].id)
        <5>1. had \subseteq had'
          BY <2>1
        <5>2. Shared(v.id)'
          BY <3>2, <4>4, <5>1 DEF Shared
        <5>3. QED
          BY <4>1, <5>2 DEF Theirs
      <4>5. QED
        BY <2>2, <2>3, <4>2, <4>3, <4>4 DEF Theirs
    <3>3. CASE v.id # job[r].id
      <4>1. PICK u \in users : u.id = v.id /\ u.email = e
        BY <2>1, <2>4, <3>3
      <4>2. <<v.id, e>> \in had'
        BY <2>1, <4>1 DEF AccountsInv, Theirs
      <4>3. QED
        BY <2>2, <3>1, <3>3, <4>2, SharedTheirs
    <3>4. QED
      BY <3>2, <3>3
  <2>5. QED
    BY <1>1, <2>1, <2>2, <2>3, <2>4, AccountsKept DEF Requests
<1>4. QED
  BY <1>2, <1>3

LEMMA OtherAccounts ==
    ASSUME UsersTypeOK, AccountsInv,
           \/ \E m \in msgs : Lose(m)
           \/ \E r \in Remover, e \in Email : Remove(r, e)
           \/ UsersRestart
    PROVE  AccountsInv'
<1>1. ASSUME NEW m \in msgs, Lose(m)
      PROVE  AccountsInv'
  BY <1>1, AccountsKept DEF Lose
<1>2. ASSUME NEW r \in Remover, NEW e \in Email, Remove(r, e)
      PROVE  AccountsInv'
  <2>1. /\ UNCHANGED <<msgs, job, given, had>> /\ users' \subseteq users
        /\ r \notin SignUp \cup Editor
        /\ \A q \in Requests : q # r => pc'[q] = pc[q]
    BY <1>2 DEF Remove, Goto, UsersTypeOK, Requests
  <2>2. QED
    BY <2>1, AccountsKept DEF Requests
<1>3. CASE UsersRestart
  <2>1. /\ UNCHANGED <<users, msgs, given, had>>
        /\ \A q \in Requests : pc'[q] \in {"new", "done"} /\ (pc'[q] = "new" => pc[q] = "new")
    BY <1>3 DEF UsersRestart, UsersTypeOK, Requests
  <2>2. \A q \in Requests : pc'[q] # "read" /\ pc'[q] # "inserted"
    BY <2>1
  <2>3. QED
    BY <2>1, <2>2, AccountsKept DEF Requests
<1>4. QED
  BY <1>1, <1>2, <1>3

(* One step keeps the types and the invariant.                             *)
LEMMA AccountsStep ==
    ASSUME UsersTypeOK, AccountsInv, [UsersNext]_userVars
    PROVE  UsersTypeOK' /\ AccountsInv'
<1>1. CASE UsersNext
  <2>1. UsersTypeOK'
    BY <1>1, UsersTypeStep
  <2>2. AccountsInv'
    BY <1>1, InsertAccounts, DispatchAccounts, ScanAccounts, SignUpAccounts,
       EditReadAccounts, EditSaveAccounts, OtherAccounts
    DEF UsersNext, SignUpNext, EditNext
  <2>3. QED
    BY <2>1, <2>2
<1>2. CASE UNCHANGED userVars
  <2>1. UsersTypeOK'
    BY <1>2 DEF userVars, UsersTypeOK
  <2>2. AccountsInv'
    BY <1>2, AccountsKept DEF userVars
  <2>3. QED
    BY <2>1, <2>2
<1>3. QED
  BY <1>1, <1>2

LEMMA AccountsStart == UsersInit => AccountsInv
  BY DEF UsersInit, AccountsInv

(* Tables and messages stay well-formed; in particular no two users get    *)
(* the same e-mail, although rows are read, edited and written back.       *)
THEOREM UsersTypeCorrect == UsersSpec => []UsersTypeOK
<1>1. UsersInit => UsersTypeOK /\ AccountsInv
  BY InitUsersType, AccountsStart
<1>2. QED
  BY <1>1, AccountsStep, PTL DEF UsersSpec

(* The reader data in a row was read for this user, or given to this user  *)
(* by an administrator, unless the e-mail was at some time another's.      *)
THEOREM BadgesAreRight == UsersSpec => []RightBadge
<1>1. UsersInit => UsersTypeOK /\ AccountsInv
  BY InitUsersType, AccountsStart
<1>2. AccountsInv => RightBadge
  BY DEF AccountsInv, RightBadge, Theirs
<1>3. QED
  BY <1>1, <1>2, AccountsStep, PTL DEF UsersSpec

-----------------------------------------------------------------------------
(* Who has been sent to a reader is not forgotten.                         *)

(* Steps that create nobody: whoever administrators leave alone keeps the  *)
(* row, and messages and edits with its e-mail.                            *)
LEMMA OwnRowKept ==
    ASSUME UsersTypeOK, OwnRowInv,
           altered \subseteq altered',
           \A k \in SignUp : pc'[k] # "new" => pc[k] # "new",
           \A k \in SignUp : pc'[k] = "inserted" => pc[k] = "inserted" /\ job'[k] = job[k],
           \A u \in users : u.id \in altered' \/ \E v \in users' : v.id = u.id /\ v.email = u.email,
           \A m \in msgs' : \E k \in msgs : k.req = m.req /\ k.email = m.email,
           \A q \in Editor : pc'[q] = "read" =>
              (pc[q] = "read" /\ job'[q] = job[q]) \/ job'[q] \in users
    PROVE  OwnRowInv'
<1>1. SUFFICES ASSUME NEW r \in SignUp, pc'[r] # "new", r \notin altered'
               PROVE  \E u \in users' :
                         /\ u.id = r
                         /\ pc'[r] = "inserted" => job'[r].email = u.email
                         /\ \A m \in msgs' : m.req = r => m.email = u.email
                         /\ \A q \in Editor : pc'[q] = "read" /\ job'[q].id = r =>
                               job'[q].email = u.email
  BY DEF OwnRowInv
<1>2. PICK u \in users :
         /\ u.id = r
         /\ pc[r] = "inserted" => job[r].email = u.email
         /\ \A m \in msgs : m.req = r => m.email = u.email
         /\ \A q \in Editor : pc[q] = "read" /\ job[q].id = r => job[q].email = u.email
  BY <1>1 DEF OwnRowInv
<1>3. PICK v \in users' : v.id = u.id /\ v.email = u.email
  BY <1>1, <1>2
<1>4. \A w \in users : w.id = r => w.email = u.email
  BY <1>2 DEF UsersTypeOK
<1>5. pc'[r] = "inserted" => job'[r].email = v.email
  BY <1>2, <1>3
<1>6. \A m \in msgs' : m.req = r => m.email = v.email
  BY <1>2, <1>3
<1>7. \A q \in Editor : pc'[q] = "read" /\ job'[q].id = r => job'[q].email = v.email
  BY <1>2, <1>3, <1>4
<1>8. QED
  BY <1>2, <1>3, <1>5, <1>6, <1>7

(* A row of its own begins with its creation: nothing refers to the key    *)
(* before.                                                                 *)
LEMMA InsertOwnRow ==
    ASSUME UsersTypeOK, AccountsInv, OwnRowInv, NEW r \in SignUp, NEW e \in Email,
           NEW b \in Reader, Insert(r, e, b)
    PROVE  OwnRowInv'
<1> DEFINE new == [id |-> r, email |-> e, badge |-> b]
<1>1. /\ users' = users \cup {new} /\ UNCHANGED <<msgs, altered>>
      /\ pc[r] = "new" /\ pc'[r] = "inserted"
      /\ \A q \in Requests : q # r => pc'[q] = pc[q]
      /\ \A q \in SignUp \cup Editor : q # r => job'[q] = job[q]
      /\ job'[r] = new
  BY DEF Insert, Goto, UsersTypeOK, Requests
<1>2. new.id = r /\ new.email = e
  OBVIOUS
<1> HIDE DEF new
<1>3. /\ \A m \in msgs : m.req # r
      /\ \A q \in Editor : pc[q] = "read" => job[q].id # r
  BY <1>1, Ids DEF AccountsInv, Theirs
<1>4. \A q \in Editor : q # r /\ pc'[q] = pc[q] /\ job'[q] = job[q]
  BY <1>1 DEF Requests
<1>5. SUFFICES ASSUME NEW k \in SignUp, pc'[k] # "new", k \notin altered'
               PROVE  \E u \in users' :
                         /\ u.id = k
                         /\ pc'[k] = "inserted" => job'[k].email = u.email
                         /\ \A m \in msgs' : m.req = k => m.email = u.email
                         /\ \A q \in Editor : pc'[q] = "read" /\ job'[q].id = k =>
                               job'[q].email = u.email
  BY DEF OwnRowInv
<1>6. CASE k = r
  BY <1>1, <1>2, <1>3, <1>4, <1>6
<1>7. CASE k # r
  <2>1. pc'[k] = pc[k] /\ job'[k] = job[k]
    BY <1>1, <1>7 DEF Requests
  <2>2. PICK u \in users :
           /\ u.id = k
           /\ pc[k] = "inserted" => job[k].email = u.email
           /\ \A m \in msgs : m.req = k => m.email = u.email
           /\ \A q \in Editor : pc[q] = "read" /\ job[q].id = k => job[q].email = u.email
    BY <1>1, <1>5, <2>1 DEF OwnRowInv
  <2>3. u \in users'
    BY <1>1
  <2>4. QED
    BY <1>1, <1>4, <2>1, <2>2, <2>3
<1>8. QED
  BY <1>6, <1>7

(* The message of a sign-up asks for the e-mail in its own row.            *)
LEMMA DispatchOwnRow ==
    ASSUME UsersTypeOK, OwnRowInv, NEW r \in SignUp, Dispatch(r)
    PROVE  OwnRowInv'
<1>1. /\ UNCHANGED <<users, altered>> /\ pc[r] = "inserted" /\ pc'[r] = "done"
      /\ \A q \in Requests : q # r => pc'[q] = pc[q]
      /\ \A q \in SignUp \cup Editor : q # r => job'[q] = job[q]
      /\ msgs' = msgs \cup {Kickoff(r)}
  BY DEF Dispatch, Goto, UsersTypeOK, Requests
<1>2. Kickoff(r).req = r /\ Kickoff(r).email = job[r].email
  BY DEF Kickoff
<1>3. \A q \in Editor : q # r /\ pc'[q] = pc[q] /\ job'[q] = job[q]
  BY <1>1 DEF Requests
<1>4. SUFFICES ASSUME NEW k \in SignUp, pc'[k] # "new", k \notin altered'
               PROVE  \E u \in users' :
                         /\ u.id = k
                         /\ pc'[k] = "inserted" => job'[k].email = u.email
                         /\ \A m \in msgs' : m.req = k => m.email = u.email
                         /\ \A q \in Editor : pc'[q] = "read" /\ job'[q].id = k =>
                               job'[q].email = u.email
  BY DEF OwnRowInv
<1>5. k # r => pc'[k] = pc[k] /\ job'[k] = job[k]
  BY <1>1 DEF Requests
<1>6. PICK u \in users :
         /\ u.id = k
         /\ pc[k] = "inserted" => job[k].email = u.email
         /\ \A m \in msgs : m.req = k => m.email = u.email
         /\ \A q \in Editor : pc[q] = "read" /\ job[q].id = k => job[q].email = u.email
  BY <1>1, <1>4, <1>5 DEF OwnRowInv
<1>7. \A m \in msgs' : m.req = k => m.email = u.email
  BY <1>1, <1>2, <1>6
<1>8. QED
  BY <1>1, <1>3, <1>5, <1>6, <1>7

LEMMA OwnRowStep ==
    ASSUME UsersTypeOK, AccountsInv, OwnRowInv, [UsersNext]_userVars
    PROVE  OwnRowInv'
<1>1. ASSUME NEW m \in msgs, UnitScan(m)
      PROVE  OwnRowInv'
  <2>1. PICK b \in Reader : msgs' = (msgs \ {m}) \cup {[m EXCEPT !.to = "server", !.badge = b]}
    BY <1>1 DEF UnitScan
  <2>2. LET k == [m EXCEPT !.to = "server", !.badge = b]
        IN  k.req = m.req /\ k.email = m.email
    BY DEF UsersTypeOK, Message
  <2>3. UNCHANGED <<users, pc, job, altered>>
    BY <1>1 DEF UnitScan
  <2>4. QED
    BY <2>1, <2>2, <2>3, OwnRowKept
<1>2. ASSUME NEW m \in msgs, SignUpUser(m)
      PROVE  OwnRowInv'
  <2>1. UNCHANGED <<pc, job, altered>> /\ msgs' \subseteq msgs
    BY <1>2 DEF SignUpUser
  <2>2. \A v \in users : \E u \in users' : u.id = v.id /\ u.email = v.email
    BY <1>2, SignUpRows
  <2>3. QED
    BY <2>1, <2>2, OwnRowKept
<1>3. ASSUME NEW m \in msgs, Lose(m)
      PROVE  OwnRowInv'
  BY <1>3, OwnRowKept DEF Lose
<1>4. ASSUME NEW r \in Editor, NEW u \in users, EditRead(r, u)
      PROVE  OwnRowInv'
  <2>1. /\ UNCHANGED <<users, msgs, altered>> /\ job'[r] = u /\ r \notin SignUp
        /\ \A q \in Requests : q # r => pc'[q] = pc[q]
        /\ \A q \in SignUp \cup Editor : q # r => job'[q] = job[q]
    BY <1>4 DEF EditRead, Goto, UsersTypeOK, Requests
  <2>2. QED
    BY <2>1, OwnRowKept DEF Requests
<1>5. ASSUME NEW r \in Editor, NEW e \in Email, NEW b \in Reader, EditSave(r, e, b)
      PROVE  OwnRowInv'
  <2>1. /\ UNCHANGED msgs /\ pc[r] = "read" /\ pc'[r] = "done" /\ r \notin SignUp
        /\ \A q \in Requests : q # r => pc'[q] = pc[q]
        /\ \A q \in SignUp \cup Editor : q # r => job'[q] = job[q]
    BY <1>5 DEF EditSave, Goto, UsersTypeOK, Requests
  <2>2. /\ altered \subseteq altered'
        /\ \A u \in users : u.id \in altered' \/ \E v \in users' : v.id = u.id /\ v.email = u.email
    <3>1. CASE UNCHANGED <<users, given, had, altered>>
      BY <3>1
    <3>2. CASE ~UNCHANGED <<users, given, had, altered>>
      <4>1. /\ altered' = IF e = job[r].email THEN altered ELSE altered \cup {job[r].id}
            /\ \A u \in users :
                  \/ u \in users'
                  \/ /\ u.id = job[r].id \/ u.email = e
                     /\ \E v \in users' : v.id = u.id /\ v.email = e
        BY <1>5, <3>2, EditRows
      <4>2. ASSUME NEW u \in users, u.id \notin altered', u \notin users'
            PROVE  \E v \in users' : v.id = u.id /\ v.email = u.email
        <5>1. CASE u.email = e
          BY <4>1, <4>2, <5>1
        (* The row that was read: its e-mail is still that of the table.   *)
        <5>2. CASE u.id = job[r].id
          <6>1. e = job[r].email /\ u.id \notin altered
            BY <4>1, <4>2, <5>2
          <6>2. u.id \in SignUp /\ pc[u.id] # "new"
            BY Ids DEF AccountsInv, Theirs
          <6>3. \E w \in users : w.id = u.id /\ job[r].email = w.email
            BY <2>1, <5>2, <6>1, <6>2 DEF OwnRowInv
          <6>4. u.email = e
            BY <6>1, <6>3 DEF UsersTypeOK
          <6>5. QED
            BY <5>1, <6>4
        <5>3. QED
          BY <4>1, <4>2, <5>1, <5>2
      <4>3. QED
        BY <4>1, <4>2
    <3>3. QED
      BY <3>1, <3>2
  <2>3. QED
    BY <2>1, <2>2, OwnRowKept DEF Requests
<1>6. ASSUME NEW r \in Remover, NEW e \in Email, Remove(r, e)
      PROVE  OwnRowInv'
  <2>1. /\ UNCHANGED <<msgs, job>> /\ r \notin SignUp \cup Editor
        /\ users' = users \ WithEmail(e)
        /\ altered' = altered \cup {u.id : u \in WithEmail(e)}
        /\ \A q \in Requests : q # r => pc'[q] = pc[q]
    BY <1>6 DEF Remove, Goto, UsersTypeOK, Requests
  <2>2. QED
    BY <2>1, OwnRowKept DEF Requests
<1>7. CASE UsersRestart
  <2>1. /\ UNCHANGED <<users, msgs, altered>>
        /\ \A q \in Requests : pc'[q] \in {"new", "done"} /\ (pc[q] = "new" => pc'[q] = "new")
    BY <1>7 DEF UsersRestart, UsersTypeOK, Requests
  <2>2. /\ \A q \in SignUp : pc'[q] # "new" => pc[q] # "new"
        /\ \A q \in Requests : pc'[q] # "read" /\ pc'[q] # "inserted"
    BY <2>1 DEF Requests
  <2>3. QED
    BY <2>1, <2>2, OwnRowKept DEF Requests
<1>8. CASE UNCHANGED userVars
  BY <1>8, OwnRowKept DEF userVars
<1>9. QED
  BY <1>1, <1>2, <1>3, <1>4, <1>5, <1>6, <1>7, <1>8, InsertOwnRow, DispatchOwnRow
  DEF UsersNext, SignUpNext, EditNext

(* Steps of others: handlers of sign-ups stay as they are, and what was    *)
(* noted, stored, cut off or altered stays so; messages may change hands.  *)
Settled == stored \cup missed \cup altered

LEMMA AwaitedKept ==
    ASSUME SignUpsAwaited,
           \A r \in SignUp : pc'[r] = pc[r],
           Settled \subseteq Settled',
           pending \subseteq pending',
           \A m \in msgs : m.req \in Settled' \/ \E k \in msgs' : k.req = m.req
    PROVE  SignUpsAwaited'
  BY DEF SignUpsAwaited, Settled

LEMMA MessageAwaited ==
    ASSUME UsersTypeOK, OwnRowInv, SignUpsAwaited, NEW m \in msgs,
           UnitScan(m) \/ SignUpUser(m) \/ Lose(m)
    PROVE  SignUpsAwaited'
<1>1. CASE UnitScan(m)
  <2>1. PICK b \in Reader : msgs' = (msgs \ {m}) \cup {[m EXCEPT !.to = "server", !.badge = b]}
    BY <1>1 DEF UnitScan
  <2>2. [m EXCEPT !.to = "server", !.badge = b].req = m.req
    BY DEF UsersTypeOK, Message
  <2>3. \A j \in msgs : \E k \in msgs' : k.req = j.req
    BY <2>1, <2>2
  <2>4. QED
    BY <1>1, <2>3, AwaitedKept DEF UnitScan, Settled
<1>2. CASE SignUpUser(m)
  <2>1. UNCHANGED <<pc, pending, missed, altered>> /\ msgs' = msgs \ {m}
    BY <1>2 DEF SignUpUser
  (* Whoever is left alone is found by the e-mail of the message.          *)
  <2>2. CASE m.req \in pending
    <3>1. stored' = stored \cup {u.id : u \in {v \in users : Asked(v, m) /\ v.id = m.req}}
      BY <1>2, <2>2 DEF SignUpUser
    <3>2. ASSUME pc[m.req] = "done"
          PROVE  m.req \in Settled'
      <4>1. CASE m.req \in altered
        BY <2>1, <4>1 DEF Settled
      <4>2. CASE m.req \notin altered
        <5>1. PICK u \in users : u.id = m.req /\ m.email = u.email
          BY <3>2, <4>2, Ids DEF OwnRowInv
        <5>2. QED
          BY <3>1, <5>1 DEF Asked, Settled
      <4>3. QED
        BY <4>1, <4>2
    <3>3. QED
      BY <2>1, <3>1, <3>2 DEF SignUpsAwaited, Settled
  (* An answer that is not expected answers a sign-up that was settled.    *)
  <2>3. CASE m.req \notin pending
    <3>1. UNCHANGED stored
      BY <1>2, <2>3 DEF SignUpUser
    <3>2. QED
      BY <2>1, <2>3, <3>1 DEF SignUpsAwaited
  <2>4. QED
    BY <2>2, <2>3
<1>3. CASE Lose(m)
  BY <1>3, AwaitedKept DEF Lose, Settled
<1>4. QED
  BY <1>1, <1>2, <1>3

(* A sign-up has no row to read, so a restart meets it inserted, if at all.*)
NoSignUpReads == \A r \in SignUp : pc[r] # "read"

LEMMA NoSignUpReadsStep ==
    ASSUME UsersTypeOK, NoSignUpReads, [UsersNext]_userVars
    PROVE  NoSignUpReads'
<1>1. CASE UNCHANGED pc
  BY <1>1 DEF NoSignUpReads
<1>2. ASSUME NEW r \in SignUp \cup Editor \cup Remover, NEW from, NEW to, Goto(r, from, to),
             r \in SignUp => to # "read"
      PROVE  NoSignUpReads'
  BY <1>2 DEF Goto, UsersTypeOK, NoSignUpReads
<1>3. CASE UsersRestart
  BY <1>3 DEF UsersRestart, UsersTypeOK, NoSignUpReads
<1>4. CASE UsersNext
  <2>1. CASE SignUpNext
    BY <1>1, <1>2, <2>1 DEF SignUpNext, Insert, Dispatch, UnitScan, SignUpUser, Lose
  <2>2. CASE EditNext \/ \E r \in Remover, e \in Email : Remove(r, e)
    BY <1>2, <2>2 DEF EditNext, EditRead, EditSave, Remove
  <2>3. QED
    BY <1>3, <1>4, <2>1, <2>2 DEF UsersNext
<1>5. QED
  BY <1>1, <1>4 DEF userVars

LEMMA AwaitedStep ==
    ASSUME UsersTypeOK, OwnRowInv, NoSignUpReads, SignUpsAwaited, [UsersNext]_userVars
    PROVE  SignUpsAwaited'
<1>1. ASSUME NEW r \in SignUp, NEW e \in Email, NEW b \in Reader, Insert(r, e, b)
      PROVE  SignUpsAwaited'
  <2>1. /\ UNCHANGED <<pending, msgs, stored, missed, altered>> /\ pc'[r] = "inserted"
        /\ \A q \in SignUp : q # r => pc'[q] = pc[q]
    BY <1>1 DEF Insert, Goto, UsersTypeOK
  <2>2. QED
    BY <2>1 DEF SignUpsAwaited
<1>2. ASSUME NEW r \in SignUp, Dispatch(r)
      PROVE  SignUpsAwaited'
  <2>1. /\ UNCHANGED <<stored, missed, altered>>
        /\ pending' = pending \cup {r} /\ msgs' = msgs \cup {Kickoff(r)}
        /\ \A q \in SignUp : q # r => pc'[q] = pc[q]
    BY <1>2 DEF Dispatch, Goto, UsersTypeOK
  <2>2. Kickoff(r).req = r
    BY DEF Kickoff
  <2>3. QED
    BY <2>1, <2>2 DEF SignUpsAwaited
<1>3. ASSUME EditNext \/ (\E r \in Remover, e \in Email : Remove(r, e))
      PROVE  SignUpsAwaited'
  <2>1. UNCHANGED <<pending, msgs, stored, missed>>
    BY <1>3, ZenonT(30) DEF EditNext, EditRead, EditSave, Remove
  <2>2. altered \subseteq altered'
    BY <1>3, ZenonT(30) DEF EditNext, EditRead, EditSave, Remove
  <2>3. PICK r \in Editor \cup Remover : \E to \in Pc : pc' = [pc EXCEPT ![r] = to]
    BY <1>3, ZenonT(30) DEF EditNext, EditRead, EditSave, Remove, Goto, Pc
  <2>4. \A q \in SignUp : pc'[q] = pc[q]
    BY <2>3 DEF UsersTypeOK
  <2>5. QED
    BY <2>1, <2>2, <2>4, AwaitedKept DEF Settled
<1>4. CASE UsersRestart
  (* The restart cuts off whoever is noted or about to be.                 *)
  <2>1. /\ UNCHANGED <<msgs, stored, altered>>
        /\ missed' = missed \cup pending \cup {r \in SignUp : pc[r] = "inserted"}
        /\ \A q \in SignUp : pc'[q] = "done" => pc[q] # "new"
    BY <1>4 DEF UsersRestart, UsersTypeOK
  <2>2. \A q \in SignUp : pc[q] \in {"new", "inserted", "done"}
    BY DEF UsersTypeOK, NoSignUpReads
  <2>3. QED
    BY <2>1, <2>2 DEF SignUpsAwaited
<1>5. CASE UNCHANGED userVars
  BY <1>5 DEF userVars, SignUpsAwaited
<1>6. QED
  BY <1>1, <1>2, <1>3, <1>4, <1>5, MessageAwaited DEF UsersNext, SignUpNext

(* Until its answer is in its own row, a sign-up is noted and has its      *)
(* message on the way, unless it was cut off, or the user was removed or   *)
(* got another e-mail: the safety half of SignUpEnds.                      *)
THEOREM SignUpsAreAwaited == UsersSpec => []SignUpsAwaited
<1>1. UsersInit => UsersTypeOK /\ AccountsInv /\ OwnRowInv /\ NoSignUpReads /\ SignUpsAwaited
  BY InitUsersType, AccountsStart DEF UsersInit, OwnRowInv, NoSignUpReads, SignUpsAwaited
<1>2. QED
  BY <1>1, AccountsStep, OwnRowStep, NoSignUpReadsStep, AwaitedStep, PTL DEF UsersSpec
=============================================================================
