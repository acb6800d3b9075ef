------------------------------ MODULE SavedRows ------------------------------
(***************************************************************************)
(* What gorm's Save makes of a table whose rows have a primary key, id,    *)
(* and a unique column, in which the rows in same agree with the new one.  *)
(***************************************************************************)

(* The table is updated by the primary key, or the statement fails on the  *)
(* unique column.  If the row has vanished it is inserted again; if that   *)
(* clashes with another row, this one is overwritten and keeps its key.    *)
(* The set is empty if the statement fails.                                *)
Saved(rows, row, same) ==
    LET kept  == {u \in rows : u.id = row.id}
        other == same \ kept
    IN  IF kept # {} /\ other # {}
        THEN {}
        ELSE {{u \in rows : u \notin kept \cup other}
                  \cup (IF other = {} THEN {row}
                        ELSE {[row EXCEPT !.id = u.id] : u \in other})}
=============================================================================
