------------------------------- MODULE MCFuture -------------------------------
(* Future for TLC. *)
EXTENDS Future, TLC

CONSTANTS p, a, t, c1, c2, w1, w2

(* The context of the Then continues the promise. *)
parent == [x \in {t} |-> p]
=============================================================================
