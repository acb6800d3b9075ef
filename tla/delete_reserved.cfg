\* A reservation slips in between the check of a deletion and the answer.
SPECIFICATION Spec
CONSTANTS
    Name = {a}
    Creation = {k1}
    Deletion = {d1}
    Writer = {w1}
    Kind = {"reserve"}
    Capacity = 1
    HonestUnit = TRUE
    MayLose = FALSE
    DBMayFail = FALSE
PROPERTY
    DeletionSparesReserved
CHECK_DEADLOCK FALSE
