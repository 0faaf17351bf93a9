--------------------------- MODULE MCSessionServer ---------------------------
(* SessionServer for TLC. *)
EXTENDS SessionServer

sizes == {1,2}
=============================================================================
