------------------------- MODULE MCAsyncEnumerable --------------------------
(* AsyncEnumerable for TLC. *)
EXTENDS AsyncEnumerable

CONSTANTS p1, p2
=============================================================================
