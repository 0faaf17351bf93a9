-------------------------- MODULE ExclusiveAccess --------------------------
(***************************************************************************)
(* What the task scheduler promises to the code of the tasks: a user gets  *)
(* the objects it asked for all at once, while nobody else uses one of     *)
(* them, and keeps them until it gives all of them back.                   *)
(***************************************************************************)
CONSTANTS Users, Objects
VARIABLE using

Init == using = [u \in Users |-> {}]

Enter(u, S) ==
    /\ using[u] = {}
    /\ \A v \in Users : using[v] \cap S = {}
    /\ using' = [using EXCEPT ![u] = S]

Leave(u) == using' = [using EXCEPT ![u] = {}]

Next == \E u \in Users : Leave(u) \/ \E S \in SUBSET Objects : Enter(u, S)

Spec == Init /\ [][Next]_using

=============================================================================
