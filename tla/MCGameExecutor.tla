---------------------------- MODULE MCGameExecutor ----------------------------
(* GameExecutor for TLC. *)
EXTENDS GameExecutor, TLC

CONSTANTS o1, t1, t2, t3

=============================================================================
