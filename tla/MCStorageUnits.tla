--------------------------- MODULE MCStorageUnits ---------------------------
(* A small instance of StorageUnits: two names and a location, all of them *)
(* such that a path can carry them, so that every handler can name them.   *)
EXTENDS StorageUnits

MCName == {<<"a", "b">>, <<"c", "d">>}
MCLocation == {<<"e", "f">>}
=============================================================================
