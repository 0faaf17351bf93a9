-------------------------- MODULE MCSnowflakeKeys ---------------------------
(* SnowflakeKeys for TLC. *)
EXTENDS SnowflakeKeys, TLC

CONSTANTS r1, r2, r3

RequesterSymmetry == Permutations(Requesters)
=============================================================================
