------------------------ MODULE MCGameTaskScheduler ------------------------
(* Instances of GameTaskScheduler for TLC. *)
EXTENDS GameTaskScheduler, TLC

(* Creation times are distinct, so the addresses of processes are only      *)
(* compared for equality, and the players (the monsters) are alike.         *)
SlotSymmetry == Permutations(Slots)

=============================================================================
