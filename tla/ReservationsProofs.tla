------------------------- MODULE ReservationsProofs -------------------------
(* Proofs about reservations, for any users and requests, on top of those  *)
(* about the users.                                                        *)
EXTENDS Reservations, UserAccountsProofs

Steps == {"new", "read", "done"}

LEMMA InitType == Init => TypeOK
  BY InitialRow, InitUsersType DEF Init, TypeOK, Row

(* The steps of a request to reserve keep the types.                       *)
LEMMA ReserveType ==
    ASSUME TypeOK, NEW r \in Reserver, Reserve(r)
    PROVE  TypeOK'
<1>1. UsersTypeOK'
  <2>1. UNCHANGED userVars
    BY DEF Reserve, ReadUser, AddReservation
  <2>2. QED
    BY <2>1 DEF TypeOK, userVars, history, UsersTypeOK
<1>2. ASSUME NEW e \in Email, ReadUser(r, e)
      PROVE  TypeOK'
  <2>1. \A u \in users : u.id \in SignUp
    BY Ids DEF TypeOK
  <2>2. owner' \in [Reserver -> SignUp]
    BY <1>2, <2>1 DEF ReadUser, TypeOK, WithEmail
  <2>3. step' \in [Reserver -> Steps]
    BY <1>2 DEF ReadUser, Stage, TypeOK, Steps
  <2>4. QED
    BY <1>1, <1>2, <2>2, <2>3 DEF ReadUser, TypeOK, Steps
<1>3. CASE AddReservation(r)
  <2>1. [by |-> r, user |-> owner[r]] \in Reservation
    BY DEF Reservation, TypeOK
  <2>2. reserved' \subseteq Reservation
    BY <1>3, <2>1 DEF AddReservation, TypeOK
  <2>3. owner' \in [Reserver -> SignUp]
    BY <1>3, InitialRow DEF AddReservation, TypeOK, Row
  <2>4. step' \in [Reserver -> Steps]
    BY <1>3 DEF AddReservation, Stage, TypeOK, Steps
  <2>5. QED
    BY <1>1, <2>2, <2>3, <2>4 DEF TypeOK, Steps
<1>4. QED
  BY <1>2, <1>3 DEF Reserve

(* The steps of the users' module, as they appear here.                    *)
LEMMA UsersPart ==
    ASSUME TypeOK, Next
    PROVE  [UsersNext]_userVars
<1>1. ASSUME NEW r \in Reserver, Reserve(r)
      PROVE  UNCHANGED userVars
  BY <1>1 DEF Reserve, ReadUser, AddReservation
<1>2. QED
  BY <1>1 DEF Next, Accounts, RemoveUser, Restart, UsersNext

LEMMA TypeStep ==
    ASSUME TypeOK, AccountsInv, [Next]_vars
    PROVE  TypeOK' /\ AccountsInv'
<1>1. CASE UNCHANGED vars
  <2>1. UsersTypeOK' /\ AccountsInv'
    BY <1>1, AccountsStep DEF TypeOK, vars
  <2>2. QED
    BY <1>1, <2>1 DEF TypeOK, vars, reservationVars
<1>2. CASE Next
  <2>1. UsersTypeOK' /\ AccountsInv'
    BY <1>2, UsersPart, AccountsStep DEF TypeOK
  <2>2. CASE UNCHANGED reservationVars
    BY <2>1, <2>2 DEF TypeOK, reservationVars
  <2>3. CASE Restart
    <3>1. step' \in [Reserver -> Steps] /\ owner' \in [Reserver -> SignUp]
      BY <2>3, InitialRow DEF Restart, TypeOK, Steps, Row
    <3>2. QED
      BY <2>1, <2>3, <3>1 DEF Restart, TypeOK, Steps
  <2>4. QED
    BY <1>2, <2>1, <2>2, <2>3, ReserveType DEF Next, Accounts, RemoveUser
<1>3. QED
  BY <1>1, <1>2

(* Everything keeps its type; accounts as in their own module.             *)
THEOREM TypeCorrect == Spec => []TypeOK
<1>1. Init => TypeOK /\ AccountsInv
  BY InitType, AccountsStart DEF Init
<1>2. QED
  BY <1>1, TypeStep, PTL DEF Spec

(* Reserving does nothing to the users that their own module does not      *)
(* allow: what was proved there holds here as well.                        *)
THEOREM ReservationsImplementUsers == Spec => UsersSpec
<1>1. Init => UsersInit
  BY DEF Init
<1>2. TypeOK /\ [Next]_vars => [UsersNext]_userVars
  BY UsersPart DEF vars
<1>3. QED
  BY <1>1, <1>2, TypeCorrect, PTL DEF Spec, UsersSpec

(* Also while people reserve, which forbids some removals, the reader data *)
(* of a row was read for this user or given to this user, unless the       *)
(* e-mail was at some time another's.                                      *)
THEOREM BadgesStayRight == Spec => []RightBadge
  BY ReservationsImplementUsers, BadgesAreRight, PTL

-----------------------------------------------------------------------------
(* A key disappears from the table only with a removal, which the foreign  *)
(* key refuses for a user who has reservations: an edit that overwrites    *)
(* another user's row keeps that user's key.                               *)
LEMMA KeysStay ==
    ASSUME TypeOK, Accounts \/ Restart, NEW u \in users
    PROVE  \E v \in users' : v.id = u.id
<1>1. UsersTypeOK
  BY DEF TypeOK
<1>2. ASSUME NEW r \in Editor, NEW e \in Email, NEW b \in Reader, EditSave(r, e, b)
      PROVE  \E v \in users' : v.id = u.id
  BY <1>1, <1>2, EditRows
<1>3. ASSUME NEW m \in msgs, SignUpUser(m)
      PROVE  \E v \in users' : v.id = u.id
  BY <1>1, <1>3, SignUpRows
<1>4. ASSUME \/ \E r \in SignUp, e \in Email, b \in Reader : Insert(r, e, b)
             \/ \E r \in SignUp : Dispatch(r)
             \/ \E m \in msgs : UnitScan(m) \/ Lose(m)
             \/ \E r \in Editor : \E w \in users : EditRead(r, w)
             \/ UsersRestart
      PROVE  \E v \in users' : v.id = u.id
  BY <1>4 DEF Insert, Dispatch, UnitScan, Lose, EditRead, UsersRestart
<1>5. QED
  BY <1>2, <1>3, <1>4 DEF Accounts, SignUpNext, EditNext, Restart

LEMMA KeepUserStep ==
    ASSUME TypeOK, ReservationsKeepUser, [Next]_vars
    PROVE  ReservationsKeepUser'
<1>1. CASE Accounts \/ Restart
  <2>1. UNCHANGED reserved
    BY <1>1 DEF Accounts, Restart, reservationVars
  <2>2. QED
    BY <1>1, <2>1, KeysStay DEF ReservationsKeepUser
<1>2. ASSUME NEW r \in Remover, NEW e \in Email, RemoveUser(r, e)
      PROVE  ReservationsKeepUser'
  <2>1. /\ UNCHANGED reserved /\ users' = users \ WithEmail(e)
        /\ \A u \in WithEmail(e), x \in reserved : x.user # u.id
    BY <1>2 DEF RemoveUser, Remove, HasNone, reservationVars
  <2>2. QED
    BY <2>1 DEF ReservationsKeepUser
<1>3. ASSUME NEW r \in Reserver, AddReservation(r)
      PROVE  ReservationsKeepUser'
  BY <1>3 DEF AddReservation, userVars, ReservationsKeepUser
<1>4. CASE UNCHANGED vars \/ \E r \in Reserver, e \in Email : ReadUser(r, e)
  BY <1>4 DEF ReadUser, vars, userVars, reservationVars, ReservationsKeepUser
<1>5. QED
  BY <1>1, <1>2, <1>3, <1>4 DEF Next, Reserve

(* Nobody's reservations lose their user, and none is made for a user who  *)
(* is gone.                                                                *)
THEOREM UsersOfReservationsStay == Spec => []ReservationsKeepUser
<1>1. Init => ReservationsKeepUser
  BY DEF Init, ReservationsKeepUser
<1>2. QED
  BY <1>1, KeepUserStep, TypeCorrect, PTL DEF Spec
=============================================================================
