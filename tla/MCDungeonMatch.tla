--------------------------- MODULE MCDungeonMatch ---------------------------
(* DungeonMatch for TLC. *)
EXTENDS DungeonMatch

CONSTANTS u1, u2, u3, u4, d1, d2, s1, s2
=============================================================================
