---------------------------- MODULE MCCardLending ----------------------------
(* Small instances of CardLending.                                         *)
EXTENDS CardLending, TLC

(* Requests of one kind differ only in their message-id.                   *)
RequestSymmetry == Permutations(Mobile) \cup Permutations(Terminal)
=============================================================================
