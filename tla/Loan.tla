--------------------------------- MODULE Loan --------------------------------
(***************************************************************************)
(* What fetching a card promises, whatever happens to messages, handlers   *)
(* and processes on the way: a card is handed over at most once for a      *)
(* request, only to a registered person, and is booked at most once, only  *)
(* after it was handed over; nothing of this is ever undone.               *)
(***************************************************************************)
CONSTANTS Request,   \* the requests to fetch a card
          User,      \* the registered people
          Stranger   \* anybody else

VARIABLES loan,      \* how far each request has come
          holder     \* to whom the card of a request was handed over

Init == /\ loan = [r \in Request |-> "asked"]
        /\ holder = [r \in Request |-> Stranger]

HandOver(r) ==
    /\ loan[r] = "asked"
    /\ loan' = [loan EXCEPT ![r] = "out"]
    /\ \E u \in User : holder' = [holder EXCEPT ![r] = u]

Book(r) ==
    /\ loan[r] = "out"
    /\ loan' = [loan EXCEPT ![r] = "booked"]
    /\ UNCHANGED holder

Next == \E r \in Request : HandOver(r) \/ Book(r)

Spec == Init /\ [][Next]_<<loan, holder>>
=============================================================================
