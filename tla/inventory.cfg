\* Two administrators at once, and a borrower, a reserver or an edit that interferes.
SPECIFICATION Spec
CONSTANTS
    Name = {a, b, c}
    Creation = {k1, k2, k3}
    Deletion = {d1}
    Writer = {w1}
    Kind = {"fetch", "reserve", "borrow", "edit"}
    Capacity = 2
    HonestUnit = TRUE
    MayLose = TRUE
    DBMayFail = TRUE
SYMMETRY InventorySymmetry
INVARIANTS
    TypeOK
    PositionsDistinct
    
    AddedWasStored
PROPERTIES
    DeletionSparesLent
    ImplementsCatalogue
CHECK_DEADLOCK FALSE
