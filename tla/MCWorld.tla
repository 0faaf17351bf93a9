------------------------------- MODULE MCWorld -------------------------------
(* World for TLC: every player enters the same zone. *)
EXTENDS World, TLC

CONSTANTS s1, s2, u1, u2, z

zone == [u \in Users |-> z]
sameZone == Permutations(Users)
==============================================================================
