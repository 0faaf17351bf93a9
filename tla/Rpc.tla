-------------------------------- MODULE Rpc --------------------------------
(***************************************************************************)
(* Remote calls between the servers (xr/network/rpc).  Every process has   *)
(* one client, connected to the RPC server; a client that provides a       *)
(* service registers its name there.  A call goes from its caller through  *)
(* the server, which finds the provider by the name of the service and     *)
(* remembers the caller by the id of the call, so that items and the       *)
(* result come back the same way.                                          *)
(*                                                                         *)
(* A client does everything on its strand: one task of it is one action.   *)
(* The server handles the packets of one connection one at a time, but     *)
(* those of different connections at once: two accesses to its tables by   *)
(* one handler are two actions.  Connections are FIFO until they break.    *)
(*                                                                         *)
(* Items of a stream are numbered from 1 by their producer.  An operator   *)
(* named Mutant... is a plausible mistake in the one after it; no action   *)
(* uses one.                                                               *)
(***************************************************************************)
EXTENDS Integers, Sequences, FiniteSets, SequencesExt

CONSTANTS
    Clients,      \* the processes
    Services,     \* the names of the services
    Calls,        \* the ids of the calls, GenerateRPCId: no two are equal
    Registers,    \* the <<client, service>> that try to register
    Caller,       \* the client that makes each call
    Target,       \* the service it names
    Kinds,        \* the kinds each call may be of
    MaxItems,     \* bound: items in each direction of a call
    MaxLost,      \* bound: connections that break
    None

ASSUME ConstantsAssumption ==
    /\ Registers \subseteq Clients \X Services
    /\ Caller \in [Calls -> Clients] /\ Target \in [Calls -> Services]
    /\ Kinds \in [Calls -> SUBSET {"unary", "server", "client", "duplex", "unknown"}]
    /\ None \notin Clients \union {"unary", "server", "client", "duplex", "unknown"}

VARIABLES
    connection,       \* of each client: opening, up, ready, lost
    toServer,         \* packets on their way from a client
    toClient,         \* packets on their way to a client
    serving,          \* the packet a handler of the server has half done
    sessions,         \* RPCServer::_sessions
    pendingRPCs,      \* RPCServer::_pendingRPCs
    registers,        \* what became of each RegisterToServer
    remoteProcedures, \* RPCClient::_remoteProcedures: calls with a callback
    kind,             \* which template made the call
    result,           \* its promise, or the close of its result channel
    received,         \* items in its result channel
    source,           \* the enumerable the caller streams from
    loop,             \* the loop over it
    procedure,        \* the provider's side of a call
    running           \* _runningClientStreamingProcedures of its host

netVars == <<connection, toServer, toClient>>
serverVars == <<serving, sessions, pendingRPCs>>
callVars == <<remoteProcedures, kind, result, received>>
streamVars == <<source, loop>>
providerVars == <<procedure, running>>
vars == <<netVars, serverVars, registers, callVars, streamVars, providerVars>>

ParamStreaming(r) == kind[r] \in {"client", "duplex"}
ReturnStreaming(r) == kind[r] \in {"server", "duplex"}

(* A packet about a call; arg is an item, or an error code. *)
Packet(op, r, arg) == [op |-> op, id |-> r, arg |-> arg]

(* Sending to a connection that is gone does nothing. *)
Post(queue, c, p) ==
    IF connection[c] = "lost" THEN queue ELSE [queue EXCEPT ![c] = Append(@, p)]
Reply(c, p) == toClient' = Post(toClient, c, p)

Init ==
    /\ connection = [c \in Clients |-> "opening"]
    /\ toServer = [c \in Clients |-> <<>>]
    /\ toClient = [c \in Clients |-> <<>>]
    /\ serving = [c \in Clients |-> None]
    /\ sessions = [s \in Services |-> None]
    /\ pendingRPCs = [r \in Calls |-> None]
    /\ registers = [reg \in Registers |-> "no"]
    /\ remoteProcedures = {}
    /\ kind = [r \in Calls |-> None]
    /\ result = [r \in Calls |-> "none"]
    /\ received = [r \in Calls |-> <<>>]
    /\ source = [r \in Calls |-> [items |-> <<>>, next |-> 1, open |-> TRUE, threw |-> FALSE]]
    /\ loop = [r \in Calls |-> "none"]
    /\ procedure = [r \in Calls |->
          [host |-> None, state |-> "none", input |-> <<>>, open |-> FALSE,
           out |-> <<>>, yielded |-> 0, relay |-> "take"]]
    /\ running = {}

-----------------------------------------------------------------------------
(* Connecting, registering and losing a connection *)

(* RPCServer::HandleAccept sends the client its part of the snowflakes. *)
HandleAccept(c) ==
    /\ connection[c] = "opening"
    /\ connection' = [connection EXCEPT ![c] = "up"]
    /\ Reply(c, Packet("NotifySnowflake", None, 0))
    /\ UNCHANGED <<toServer, serverVars, registers, callVars, streamVars, providerVars>>

RegisterToServer(c, s) ==
    /\ <<c, s>> \in Registers /\ registers[<<c, s>>] = "no"
    /\ connection[c] = "ready"
    /\ registers' = [registers EXCEPT ![<<c, s>>] = "pending"]
    /\ toServer' = Post(toServer, c, Packet("Register", s, 0))
    /\ UNCHANGED <<connection, toClient, serverVars, callVars, streamVars, providerVars>>

(* The connection breaks: what the client sent last may not have arrived,  *)
(* Run returns, and nothing tells the server's tables.  (Before it has its *)
(* snowflake a client makes no calls: such a loss changes nothing here.)   *)
Lose(c) ==
    /\ connection[c] = "ready"
    /\ Cardinality({d \in Clients : connection[d] = "lost"}) < MaxLost
    /\ connection' = [connection EXCEPT ![c] = "lost"]
    /\ \E n \in 0 .. Len(toServer[c]) :
          toServer' = [toServer EXCEPT ![c] = SubSeq(@, 1, n)]
    /\ toClient' = [toClient EXCEPT ![c] = <<>>]
    /\ UNCHANGED <<serverVars, registers, callVars, streamVars, providerVars>>

-----------------------------------------------------------------------------
(* The server: RPCServer::HandleReceive *)

Arrives(c, op) == serving[c] = None /\ toServer[c] # <<>> /\ Head(toServer[c]).op = op
Consumed(c) == toServer' = [toServer EXCEPT ![c] = Tail(@)]
Forwarded(c, p) == IF c = None THEN UNCHANGED toClient ELSE Reply(c, p)

ServeRegister(c) ==
    /\ Arrives(c, "Register") /\ Consumed(c)
    /\ LET s == Head(toServer[c]).id
           inserted == sessions[s] = None
       IN /\ sessions' = IF inserted THEN [sessions EXCEPT ![s] = c] ELSE sessions
          /\ Reply(c, Packet("ResultRegister", s,
                 IF inserted THEN "RpcErrorNone" ELSE "RpcErrorDuplicatedServiceName"))
    /\ UNCHANGED <<connection, serving, pendingRPCs, registers, callVars, streamVars, providerVars>>

(* A request is remembered first and forwarded next. *)
MutantNotRemembered(c, p) == pendingRPCs
Remembered(c, p) == [pendingRPCs EXCEPT ![p.id] = IF @ = None THEN c ELSE @]

ServeRequest(c) ==
    /\ Arrives(c, "Request") /\ Consumed(c)
    /\ LET p == Head(toServer[c]) IN
       IF sessions[Target[p.id]] # None
       THEN /\ pendingRPCs' = Remembered(c, p)
            /\ serving' = [serving EXCEPT ![c] = p]
            /\ UNCHANGED toClient
       ELSE /\ Reply(c, Packet("Result", p.id, "RpcErrorInternalError"))
            /\ UNCHANGED <<serving, pendingRPCs>>
    /\ UNCHANGED <<connection, sessions, registers, callVars, streamVars, providerVars>>

ForwardRequest(c) ==
    /\ serving[c] # None /\ serving[c].op = "Request"
    /\ serving' = [serving EXCEPT ![c] = None]
    /\ Forwarded(sessions[Target[serving[c].id]], serving[c])
    /\ UNCHANGED <<connection, toServer, sessions, pendingRPCs, registers, callVars, streamVars, providerVars>>

(* A result goes to the caller, whose entry is erased afterwards. *)
ServeResult(c) ==
    /\ Arrives(c, "Result") /\ Consumed(c)
    /\ LET p == Head(toServer[c])
           caller == pendingRPCs[p.id]
       IN /\ Forwarded(caller, p)
          /\ serving' = [serving EXCEPT ![c] = IF caller = None THEN None ELSE p]
    /\ UNCHANGED <<connection, sessions, pendingRPCs, registers, callVars, streamVars, providerVars>>

RouteErased(p) == [pendingRPCs EXCEPT ![p.id] = None]
EraseRoute(c) ==
    /\ serving[c] # None /\ serving[c].op = "Result"
    /\ serving' = [serving EXCEPT ![c] = None]
    /\ pendingRPCs' = RouteErased(serving[c])
    /\ UNCHANGED <<netVars, sessions, registers, callVars, streamVars, providerVars>>

(* Items are routed by the id of the call to the caller; the caller's own  *)
(* items, and the end of them, by the name of the service.                 *)
ServeStreaming(c) ==
    /\ \E op \in {"ServerStreaming", "ClientStreaming", "Abort"} :
          /\ Arrives(c, op) /\ Consumed(c)
          /\ LET p == Head(toServer[c])
             IN Forwarded(IF op = "ServerStreaming" THEN pendingRPCs[p.id]
                                                    ELSE sessions[Target[p.id]], p)
    /\ UNCHANGED <<connection, serverVars, registers, callVars, streamVars, providerVars>>

-----------------------------------------------------------------------------
(* The caller *)

(* The templates CallRemoteProcedure...: the callback is set first.  A     *)
(* call without a stream of parameters sends its request at once.          *)
Call(r, k) ==
    /\ kind[r] = None /\ connection[Caller[r]] \in {"ready", "lost"}
    /\ kind' = [kind EXCEPT ![r] = k]
    /\ remoteProcedures' = remoteProcedures \union {r}
    /\ IF k \in {"client", "duplex"}
       THEN loop' = [loop EXCEPT ![r] = "HasNext"] /\ UNCHANGED toServer
       ELSE toServer' = Post(toServer, Caller[r], Packet("Request", r, 0)) /\ UNCHANGED loop
    /\ UNCHANGED <<connection, toClient, serverVars, registers, result, received, source, providerVars>>

(* Whoever gave the enumerable sends to its channel, and closes it; a      *)
(* coroutine that throws leaves its exception in the channel first.        *)
Produce(r) ==
    /\ ParamStreaming(r) /\ source[r].open /\ source[r].next <= MaxItems
    /\ source' = [source EXCEPT ![r].items = Append(@, source[r].next), ![r].next = @ + 1]
    /\ UNCHANGED <<netVars, serverVars, registers, callVars, loop, providerVars>>

CloseSource(r) ==
    /\ ParamStreaming(r) /\ source[r].open
    /\ \E threw \in BOOLEAN :
          source' = [source EXCEPT ![r].open = FALSE, ![r].threw = threw]
    /\ UNCHANGED <<netVars, serverVars, registers, callVars, loop, providerVars>>

(* while (enumerable.HasNext()): a close that is seen here ends the loop,  *)
(* and nothing is sent for it.                                             *)
HasNext(r) ==
    /\ loop[r] = "HasNext"
    /\ loop' = [loop EXCEPT ![r] =
          IF source[r].open \/ source[r].items # <<>> \/ source[r].threw THEN "await" ELSE "ended"]
    /\ UNCHANGED <<netVars, serverVars, registers, callVars, source, providerVars>>

(* HasCompletionCallback: a call that has its result sends no more. *)
SentIfRunning(r, p) ==
    toServer' = IF r \in remoteProcedures THEN Post(toServer, Caller[r], p) ELSE toServer

MutantAlwaysFirst(r) == TRUE
IsFirst(r) == Head(source[r].items) = 1

(* The awaited item is sent: the first one with the request. *)
StreamItem(r) ==
    /\ loop[r] \in {"await", "waiting"} /\ source[r].items # <<>>
    /\ source' = [source EXCEPT ![r].items = Tail(@)]
    /\ loop' = [loop EXCEPT ![r] = "HasNext"]
    /\ SentIfRunning(r, Packet(IF IsFirst(r) THEN "Request" ELSE "ClientStreaming",
                               r, Head(source[r].items)))
    /\ UNCHANGED <<connection, toClient, serverVars, registers, callVars, providerVars>>

(* TryPop finds nothing ... *)
StreamMisses(r) ==
    /\ loop[r] = "await" \/ (loop[r] = "waiting" /\ ~source[r].open)
    /\ source[r].items = <<>> /\ ~source[r].threw
    /\ loop' = [loop EXCEPT ![r] = "test"]
    /\ UNCHANGED <<netVars, serverVars, registers, callVars, source, providerVars>>

Aborted(r) ==
    /\ loop' = [loop EXCEPT ![r] = "aborted"]
    /\ SentIfRunning(r, Packet("Abort", r, 0))

(* ... then IsClosed is asked: co_await throws, whatever has arrived in    *)
(* between, or waits for a signal.                                         *)
StreamTests(r) ==
    /\ loop[r] = "test"
    /\ IF source[r].open
       THEN loop' = [loop EXCEPT ![r] = "waiting"] /\ UNCHANGED toServer
       ELSE Aborted(r)
    /\ UNCHANGED <<connection, toClient, serverVars, registers, callVars, source, providerVars>>

(* The exception in the channel is thrown. *)
StreamThrows(r) ==
    /\ loop[r] \in {"await", "waiting"} /\ source[r].items = <<>> /\ source[r].threw
    /\ Aborted(r)
    /\ UNCHANGED <<connection, toClient, serverVars, registers, callVars, source, providerVars>>

-----------------------------------------------------------------------------
(* The client's Run: a packet that has arrived is handled on the strand. *)

Receives(c, op) == toClient[c] # <<>> /\ Head(toClient[c]).op = op
Taken(c) == [toClient EXCEPT ![c] = Tail(@)]

HandleNotifySnowflake(c) ==
    /\ Receives(c, "NotifySnowflake") /\ toClient' = Taken(c)
    /\ connection' = [connection EXCEPT ![c] = "ready"]
    /\ UNCHANGED <<toServer, serverVars, registers, callVars, streamVars, providerVars>>

HandleResultRegister(c) ==
    /\ Receives(c, "ResultRegister") /\ toClient' = Taken(c)
    /\ LET p == Head(toClient[c]) IN
       registers' = [registers EXCEPT ![<<c, p.id>>] =
           IF p.arg = "RpcErrorNone" THEN "ok" ELSE "failed"]
    /\ UNCHANGED <<connection, toServer, serverVars, callVars, streamVars, providerVars>>

(* HandleRequestRemoteProcedureCall up to its first suspension: the        *)
(* procedure runs, and the first item of its parameters is in its channel. *)
MutantFirstItemLost(p) == <<>>
FirstInput(p) == <<p.arg>>

HandleRequest(c) ==
    /\ Receives(c, "Request") /\ toClient' = Taken(c)
    /\ LET p == Head(toClient[c]) IN
       IF kind[p.id] = "unknown"
       THEN /\ toServer' = Post(toServer, c, Packet("Result", p.id, "RpcErrorInvalidRpcName"))
            /\ UNCHANGED providerVars
       ELSE /\ procedure' = [procedure EXCEPT ![p.id] =
                 [host |-> c, state |-> "running", open |-> ParamStreaming(p.id),
                  input |-> IF ParamStreaming(p.id) THEN FirstInput(p) ELSE <<>>,
                  out |-> <<>>, yielded |-> 0,
                  relay |-> IF kind[p.id] = "duplex" THEN "look" ELSE "take"]]
            /\ running' = IF ParamStreaming(p.id) THEN running \union {p.id} ELSE running
            /\ UNCHANGED toServer
    /\ UNCHANGED <<connection, serverVars, registers, callVars, streamVars>>

(* What the caller sends wakes the relay of a duplex procedure, if it waits. *)
Woken(r) == IF kind[r] = "duplex" /\ procedure[r].relay = "waiting" THEN "look"
                                                                    ELSE procedure[r].relay

(* HandleClientStreaming: an item after the result is dropped. *)
HandleClientStreaming(c) ==
    /\ Receives(c, "ClientStreaming") /\ toClient' = Taken(c)
    /\ LET p == Head(toClient[c]) IN
       procedure' = IF p.id \in running
                    THEN [procedure EXCEPT ![p.id].input = Append(@, p.arg),
                                           ![p.id].relay = Woken(p.id)]
                    ELSE procedure
    /\ UNCHANGED <<connection, toServer, serverVars, registers, callVars, streamVars, running>>

InputClosed(r) == [procedure EXCEPT ![r].open = FALSE, ![r].relay = Woken(r)]
HandleAbort(c) ==
    /\ Receives(c, "Abort") /\ toClient' = Taken(c)
    /\ LET r == Head(toClient[c]).id IN
       /\ procedure' = IF r \in running THEN InputClosed(r) ELSE procedure
       /\ running' = running \ {r}
    /\ UNCHANGED <<connection, toServer, serverVars, registers, callVars, streamVars>>

-----------------------------------------------------------------------------
(* The provider: a procedure, and the coroutines that relay what it yields *)

Executing(r) == procedure[r].state \in {"running", "closed", "threw"}

(* The procedure yields an item into the channel of its enumerable ... *)
Yield(r) ==
    /\ procedure[r].state = "running" /\ ReturnStreaming(r)
    /\ procedure[r].yielded < MaxItems
    /\ procedure' = [procedure EXCEPT ![r].yielded = @ + 1,
                                      ![r].out = Append(@, procedure[r].yielded + 1)]
    /\ UNCHANGED <<netVars, serverVars, registers, callVars, streamVars, running>>

(* ... which is closed when it returns, or throws: the exception is behind *)
(* the items.                                                              *)
CloseOutput(r) ==
    /\ procedure[r].state = "running" /\ ReturnStreaming(r)
    /\ \E how \in {"closed", "threw"} : procedure' = [procedure EXCEPT ![r].state = how]
    /\ UNCHANGED <<netVars, serverVars, registers, callVars, streamVars, running>>

(* The result is sent, and what is kept of a running procedure erased. *)
MutantStaysRunning(r, code) ==
    /\ toServer' = Post(toServer, procedure[r].host, Packet("Result", r, code))
    /\ UNCHANGED <<connection, toClient, serverVars, registers, callVars, streamVars, providerVars>>
Ends(r, code) ==
    /\ procedure' = [procedure EXCEPT ![r].state = "done"]
    /\ running' = running \ {r}
    /\ toServer' = Post(toServer, procedure[r].host, Packet("Result", r, code))
    /\ UNCHANGED <<connection, toClient, serverVars, registers, callVars, streamVars>>

(* A procedure without a stream of results returns or throws. *)
Failure(r) == IF kind[r] = "client" THEN "RpcErrorStreamingClosedByServer"
                                    ELSE "RpcErrorInternalError"
Return(r) ==
    /\ procedure[r].state = "running" /\ ~ReturnStreaming(r)
    /\ \E code \in {"RpcErrorNone", Failure(r)} : Ends(r, code)

(* The relay of a duplex procedure waits for either channel, looks which   *)
(* of the two has signalled, and resets both: a signal of the output that  *)
(* comes after the look is forgotten, and no other will come.              *)
RelayLooks(r) ==
    /\ Executing(r) /\ procedure[r].relay = "look"
    /\ \E next \in IF procedure[r].out # <<>> \/ procedure[r].state # "running"
                   THEN {"take", "deaf"} ELSE {"waiting"} :
          procedure' = [procedure EXCEPT ![r].relay = next]
    /\ UNCHANGED <<netVars, serverVars, registers, callVars, streamVars, running>>

Relays(r) == Executing(r) /\ procedure[r].relay \in {"take", "waiting"}

(* An item is taken from the channel, converted and sent. *)
RelayItem(r) ==
    /\ Relays(r) /\ procedure[r].out # <<>>
    /\ procedure' = [procedure EXCEPT ![r].out = Tail(@), ![r].relay = "take"]
    /\ toServer' = Post(toServer, procedure[r].host,
                        Packet("ServerStreaming", r, Head(procedure[r].out)))
    /\ UNCHANGED <<connection, toClient, serverVars, registers, callVars, streamVars, running>>

(* The exception is thrown; that of an enumerable which has closed, as the *)
(* one a procedure is given, is taken for the end of the stream.           *)
RelayThrows(r) ==
    /\ Relays(r) /\ procedure[r].out = <<>> /\ procedure[r].state = "threw"
    /\ \E code \in {"RpcErrorStreamingClosedByServer", "RpcErrorStreamingClosedGracefully"} :
          Ends(r, code)

(* TryPop finds nothing ... *)
RelayMisses(r) ==
    /\ Relays(r) /\ procedure[r].out = <<>> /\ procedure[r].state # "threw"
    /\ procedure[r].relay = "waiting" => procedure[r].state = "closed"
    /\ procedure' = [procedure EXCEPT ![r].relay = "test"]
    /\ UNCHANGED <<netVars, serverVars, registers, callVars, streamVars, running>>

(* ... then IsClosed is asked: the stream ends gracefully, whatever has    *)
(* arrived with the close, or the relay waits for a signal.                *)
RelayWaits(r) ==
    /\ Executing(r) /\ procedure[r].relay = "test" /\ procedure[r].state = "running"
    /\ procedure' = [procedure EXCEPT ![r].relay = "waiting"]
    /\ UNCHANGED <<netVars, serverVars, registers, callVars, streamVars, running>>

RelayEnds(r) ==
    /\ Executing(r) /\ procedure[r].relay = "test" /\ procedure[r].state # "running"
    /\ Ends(r, "RpcErrorStreamingClosedGracefully")

(* HandleServerStreaming: the callback sends the item to the channel. *)
HandleServerStreaming(c) ==
    /\ Receives(c, "ServerStreaming") /\ toClient' = Taken(c)
    /\ LET p == Head(toClient[c]) IN
       received' = IF p.id \in remoteProcedures
                   THEN [received EXCEPT ![p.id] = Append(@, p.arg)] ELSE received
    /\ UNCHANGED <<connection, toServer, serverVars, registers, remoteProcedures, kind, result,
                   streamVars, providerVars>>

(* HandleResultRemoteProcedureCall: the entry is erased, the callback      *)
(* completes the promise or closes the result channel; the callback of a   *)
(* client-streaming call also closes the channel it streams from.          *)
HandleResult(c) ==
    /\ Receives(c, "Result") /\ toClient' = Taken(c)
    /\ LET p == Head(toClient[c]) IN
       /\ remoteProcedures' = remoteProcedures \ {p.id}
       /\ result' = IF p.id \in remoteProcedures
                    THEN [result EXCEPT ![p.id] = p.arg] ELSE result
       /\ source' = IF kind[p.id] = "client"
                    THEN [source EXCEPT ![p.id].open = FALSE] ELSE source
    /\ UNCHANGED <<connection, toServer, serverVars, registers, kind, received, loop, providerVars>>

-----------------------------------------------------------------------------
Server(c) ==
    \/ HandleAccept(c) \/ ServeRegister(c) \/ ServeRequest(c) \/ ForwardRequest(c)
    \/ ServeResult(c) \/ EraseRoute(c) \/ ServeStreaming(c)
Run(c) ==
    \/ HandleNotifySnowflake(c) \/ HandleResultRegister(c) \/ HandleRequest(c)
    \/ HandleClientStreaming(c) \/ HandleAbort(c) \/ HandleServerStreaming(c)
    \/ HandleResult(c)
Stream(r) ==
    HasNext(r) \/ StreamItem(r) \/ StreamMisses(r) \/ StreamTests(r) \/ StreamThrows(r)
Relay(r) ==
    RelayLooks(r) \/ RelayItem(r) \/ RelayThrows(r) \/ RelayMisses(r) \/ RelayWaits(r) \/ RelayEnds(r)
Finish(r) == CloseOutput(r) \/ Return(r)

Next ==
    \/ \E c \in Clients : Server(c) \/ Run(c) \/ Lose(c)
    \/ \E c \in Clients, s \in Services : RegisterToServer(c, s)
    \/ \E r \in Calls : \E k \in Kinds[r] : Call(r, k)
    \/ \E r \in Calls : Stream(r) \/ Produce(r) \/ CloseSource(r) \/ Yield(r) \/ Finish(r) \/ Relay(r)

(* Handlers run.  A procedure is only counted on to return when nobody     *)
(* will send it parameters any more.                                       *)
Fairness ==
    /\ \A c \in Clients : WF_vars(Server(c)) /\ WF_vars(Run(c))
    /\ \A r \in Calls : WF_vars(Stream(r)) /\ WF_vars(Relay(r))
                        /\ WF_vars(~procedure[r].open /\ Finish(r))

Spec == Init /\ [][Next]_vars /\ Fairness

-----------------------------------------------------------------------------
(* Type invariant, used by the next ones. *)
TypeOK ==
    /\ connection \in [Clients -> {"opening", "up", "ready", "lost"}]
    /\ sessions \in [Services -> Clients \union {None}]
    /\ pendingRPCs \in [Calls -> Clients \union {None}]
    /\ remoteProcedures \subseteq Calls /\ running \subseteq Calls

(* An answer finds its call: the assert(false) of HandleResult... and      *)
(* HandleServerStreaming is never reached, and a request never finds its   *)
(* procedure running already.                                              *)
AnswersFindTheirCall ==
    \A c \in Clients : toClient[c] # <<>> =>
        LET p == Head(toClient[c]) IN
        /\ p.op \in {"Result", "ServerStreaming"} => p.id \in remoteProcedures /\ Caller[p.id] = c
        /\ p.op = "Request" => procedure[p.id].state = "none"

(* Streams are whole: the procedure is given the caller's items in order   *)
(* with none missing, the caller those that the procedure yielded; and     *)
(* when the caller learns that the procedure closed its stream gracefully, *)
(* what it has not received, if anything, are the last items, which the    *)
(* relay left in the channel as it saw the channel close (see RelayEnds).  *)
Counts(q, from) == \A i \in 1 .. Len(q) : q[i] = from + i
StreamsAreWhole ==
    \A r \in Calls :
        /\ Counts(procedure[r].input, 0) /\ Counts(received[r], 0)
        /\ result[r] = "RpcErrorStreamingClosedGracefully" =>
              /\ Counts(procedure[r].out, Len(received[r]))
              /\ Len(received[r]) + Len(procedure[r].out) = procedure[r].yielded

(* Every call is answered, unless a connection it needs breaks; or it      *)
(* streams parameters and the provider is not told that they have ended:   *)
(* the stream stays open, HasNext sees its end, or no item has left; or    *)
(* its relay has reset the signal of the output (see RelayLooks).          *)
Waits(r) ==
    /\ kind[r] # None /\ result[r] = "none"
    /\ connection[Caller[r]] # "lost"
    /\ sessions[Target[r]] # None => connection[sessions[Target[r]]] # "lost"
    /\ ParamStreaming(r) => loop[r] = "aborted" /\ source[r].next - 1 > Len(source[r].items)
    /\ procedure[r].relay # "deaf"
CallCompletes == \A r \in Calls : []<>~Waits(r)

=============================================================================
