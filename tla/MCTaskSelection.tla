--------------------------- MODULE MCTaskSelection ---------------------------
(***************************************************************************)
(* The task names of the runs of TaskSelection: the two the program knows, *)
(* and one it does not.                                                    *)
(***************************************************************************)
EXTENDS TaskSelection

CONSTANTS balance, dummy, other

SmallBounds == {-4, 1, 4}
=============================================================================
