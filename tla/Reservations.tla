---------------------------- MODULE Reservations ----------------------------
(***************************************************************************)
(* Reservations and borrowings, on top of the users of module              *)
(* UserAccounts: the handler that makes one reads the user, much later     *)
(* adds a row that refers to the user's key, and nobody may remove a user  *)
(* to whom a row refers.  What this handler does to the card's row, and    *)
(* when it refuses, is in CardInventory and CardLending.                   *)
(*                                                                         *)
(* Updating and deleting a reservation select it by a column that does not *)
(* exist; both always fail, so reservations only become more.              *)
(***************************************************************************)
EXTENDS UserAccounts

CONSTANT Reserver      \* requests to reserve or borrow a card

VARIABLES reserved,    \* table reservations: by which request, for which user
          step,        \* progress of the handler of each request
          owner        \* the key of the user this handler has read

reservationVars == <<reserved, step, owner>>
vars == <<userVars, reservationVars>>

Reservation == [by: Reserver, user: SignUp]

(* Every variable has its type.                                            *)
TypeOK ==
    /\ UsersTypeOK
    /\ reserved \subseteq Reservation
    /\ step \in [Reserver -> {"new", "read", "done"}]
    /\ owner \in [Reserver -> SignUp]

Init ==
    /\ UsersInit
    /\ reserved = {}
    /\ step = [r \in Reserver |-> "new"]
    /\ owner = [r \in Reserver |-> AnyRow.id]

-----------------------------------------------------------------------------
Stage(r, from, to) == step[r] = from /\ step' = [step EXCEPT ![r] = to]

(* Fault: users are removed whatever refers to them.                       *)
NoForeignKey(e) == TRUE

(* CreateHandler: the user must exist and have reader data, be it empty;   *)
(* the row is added if the user's key still exists.                        *)
ReadUser(r, e) ==
    /\ Stage(r, "new", "read")
    /\ \E u \in WithEmail(e) :
          /\ u.badge # NoBadge
          /\ owner' = [owner EXCEPT ![r] = u.id]
    /\ UNCHANGED <<userVars, reserved>>

AddReservation(r) ==
    /\ Stage(r, "read", "done")
    /\ \/ /\ \E u \in users : u.id = owner[r]
          /\ reserved' = reserved \cup {[by |-> r, user |-> owner[r]]}
       \/ /\ \A u \in users : u.id # owner[r]
          /\ UNCHANGED reserved
    /\ owner' = [owner EXCEPT ![r] = AnyRow.id]
    /\ UNCHANGED userVars

(* A user with reservations is not removed: the foreign key refuses it.    *)
HasNone(e) == \A u \in WithEmail(e), x \in reserved : x.user # u.id

RemoveUser(r, e) ==
    /\ HasNone(e)
    /\ Remove(r, e)
    /\ UNCHANGED reservationVars

Restart ==
    /\ UsersRestart
    /\ step' = [r \in Reserver |-> IF step[r] = "new" THEN "new" ELSE "done"]
    /\ owner' = [r \in Reserver |-> AnyRow.id]
    /\ UNCHANGED reserved

Accounts == (SignUpNext \/ EditNext) /\ UNCHANGED reservationVars

Reserve(r) == (\E e \in Email : ReadUser(r, e)) \/ AddReservation(r)

Next == \/ Accounts
        \/ \E r \in Remover, e \in Email : RemoveUser(r, e)
        \/ \E r \in Reserver : Reserve(r)
        \/ Restart

Spec == Init /\ [][Next]_vars

(* The assumptions of the users' module are all that SignUpEnds needs.     *)
FairSpec == Spec /\ UsersFairness

-----------------------------------------------------------------------------
(* However removals, edits that save a removed row again or overwrite one  *)
(* of the same e-mail, and restarts come between reading the user and      *)
(* adding the reservation, no reservation loses its user, or is made for   *)
(* one who is gone.                                                        *)
ReservationsKeepUser ==
    \A x \in reserved : \E u \in users : u.id = x.user
=============================================================================
