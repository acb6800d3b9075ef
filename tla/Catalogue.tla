----------------------------- MODULE Catalogue -----------------------------
(***************************************************************************)
(* What the inventory of a storage-unit promises to whoever reads a name:  *)
(* it stands for one physical card, which was put into the unit before it  *)
(* was listed, is listed once and under this name only, and never comes    *)
(* back when its row was deleted.                                          *)
(***************************************************************************)
CONSTANTS Name, Card

VARIABLES listing,  \* the card that each name in use stands for
          putIn,    \* cards that were put into the unit
          ended     \* cards that were deleted, or given up before

vars == <<listing, putIn, ended>>

Listed == {listing[n] : n \in DOMAIN listing}

TypeOK ==
    /\ listing \in [DOMAIN listing -> Card] /\ DOMAIN listing \subseteq Name
    /\ putIn \subseteq Card
    /\ ended \subseteq Card

Init ==
    /\ DOMAIN listing = {}
    /\ putIn = {}
    /\ ended = {}

PutIn(k) ==
    /\ k \notin putIn \cup ended
    /\ putIn' = putIn \cup {k}
    /\ UNCHANGED <<listing, ended>>

List(n, k) ==
    /\ n \notin DOMAIN listing
    /\ k \in putIn \ (Listed \cup ended)
    /\ listing' = [x \in DOMAIN listing \cup {n} |-> IF x = n THEN k ELSE listing[x]]
    /\ UNCHANGED <<putIn, ended>>

GiveUp(k) ==
    /\ k \notin Listed \cup ended
    /\ ended' = ended \cup {k}
    /\ UNCHANGED <<listing, putIn>>

Delete(n) ==
    /\ n \in DOMAIN listing
    /\ listing' = [x \in DOMAIN listing \ {n} |-> listing[x]]
    /\ ended' = ended \cup {listing[n]}
    /\ UNCHANGED putIn

Next ==
    \/ \E k \in Card : PutIn(k) \/ GiveUp(k) \/ \E n \in Name : List(n, k)
    \/ \E n \in Name : Delete(n)

Spec == Init /\ [][Next]_vars
=============================================================================
