--------------------------- MODULE MCCardInventory ---------------------------
(* Small instances of CardInventory.                                       *)
EXTENDS CardInventory, TLC

(* Requests of one kind, and names, differ in nothing but identity; the    *)
(* name and the creation that fill the unused records are left alone.      *)
InventorySymmetry ==
    Permutations(Name \ {AnyName}) \cup Permutations(Creation \ {AnyRow.id})
=============================================================================
