-------------------------- MODULE MCGameRepository --------------------------
(* GameRepository for TLC. *)
EXTENDS GameRepository
=============================================================================
