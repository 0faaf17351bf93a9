-------------------------------- MODULE MCRpc --------------------------------
(* Rpc for TLC: cp and ca race to provide the service srv; ca makes a call   *)
(* of any kind to it.                                                       *)
EXTENDS Rpc

CONSTANTS ca, cp, srv

registersP == {<<cp, srv>>, <<ca, srv>>}
caller == [r \in Calls |-> ca]
target == [r \in Calls |-> srv]
kinds == [r \in Calls |-> {"unary", "server", "client", "duplex", "unknown"}]
==============================================================================
