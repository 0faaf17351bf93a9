------------------------------- MODULE World -------------------------------
(***************************************************************************)
(* How a player gets into a zone and out of it: the registry of the        *)
(* coordination service (xr/service/coordination) and the clients of the   *)
(* game servers (xr/server/game).                                          *)
(*                                                                         *)
(* The coordination service works on one strand: what a coroutine of it    *)
(* does between two co_await is one action.  A game server runs one        *)
(* command at a time; its packet handlers, the end of a session and the    *)
(* timer of an instance run on different strands, and so interleave.       *)
(* Commands, responses and requests travel in order (module Rpc); the      *)
(* channel of a session and its end are those of module SessionServer: a   *)
(* session that the server closes itself is not reported to OnError.       *)
(*                                                                         *)
(* An operator named Mutant... is a plausible mistake in the one after it; *)
(* no action uses one.                                                     *)
(***************************************************************************)
EXTENDS Integers, Sequences, FiniteSets, SequencesExt

CONSTANTS
    Servers,       \* game servers
    Users,         \* players, each with his authentication token
    Zone,          \* the zone of each player's character
    Sessions,      \* connections of players to game servers
    MaxInstances,  \* bound: instances ever launched
    MaxAuth,       \* bound: Authenticate packets ever received
    None

ASSUME WorldAssumption ==
    /\ Sessions \subseteq Nat
    /\ MaxInstances \in Nat /\ MaxAuth \in Nat
    /\ None \notin Servers /\ None \notin Nat

Instances == 1 .. MaxInstances
Handlers == 1 .. MaxAuth

VARIABLES
    (* the coordination service *)
    servers,       \* NodeContainer::_servers, and the load balancer's
    channel,       \* the servers whose command channel is set
    instances,     \* NodeContainer::_instances: id -> server, or None
    published,     \* _nextGameInstanceId
    adding,        \* the coroutine AddPlayerAsync of each player
    users,         \* NodeContainer::_users, with parent and _migrating
    (* between the processes *)
    commands,      \* to each game server
    responses,     \* from its CommandChannelRunner
    requests,      \* from its other coroutines
    (* the game servers *)
    running,       \* GameInstanceContainer: id -> server, or None
    session,       \* state, server and player of each connection
    handler,       \* each coroutine of AuthenticateHandler
    clients,       \* GameClientContainer
    entities,      \* players in an instance's snapshot
    leaving        \* players that ProcessClientRemove is busy with

registryVars == <<servers, channel, instances, published, adding, users>>
linkVars == <<commands, responses, requests>>
gameVars == <<running, session, handler, clients, entities, leaving>>
vars == <<registryVars, linkVars, gameVars>>

NoUser == [parent |-> None, migrating |-> FALSE]
Idle == [pc |-> "idle", session |-> None, instance |-> None]

Init ==
    /\ servers = {} /\ channel = {} /\ published = 0
    /\ instances = [i \in Instances |-> [server |-> None, zone |-> None]]
    /\ adding = [u \in Users |-> [pc |-> "no", server |-> None, instance |-> None]]
    /\ users = [u \in Users |-> NoUser]
    /\ commands = [s \in Servers |-> <<>>]
    /\ responses = [s \in Servers |-> <<>>]
    /\ requests = [s \in Servers |-> <<>>]
    /\ running = [i \in Instances |-> None]
    /\ session = [k \in Sessions |-> [state |-> "none", server |-> None, user |-> None]]
    /\ handler = [h \in Handlers |-> Idle]
    /\ clients = {} /\ entities = {} /\ leaving = {}

-----------------------------------------------------------------------------
(* Game servers come up *)

(* RegisterServerAsync: from now on the load balancer may select it. *)
RegisterServer(s) ==
    /\ s \notin servers
    /\ servers' = servers \union {s}
    /\ UNCHANGED <<channel, instances, published, adding, users, linkVars, gameVars>>

SendCommandResponse(s, p) == responses' = [responses EXCEPT ![s] = Append(@, p)]

(* The server opens its command channel: its first response says whose the *)
(* channel is, and the coordination service has it when that has been read.*)
OpenChannel(s) ==
    /\ s \in servers \ channel /\ responses[s] = <<>>
    /\ SendCommandResponse(s, [op |-> "Authenticate", instance |-> None])
    /\ UNCHANGED <<registryVars, commands, requests, gameVars>>

-----------------------------------------------------------------------------
(* Entering: AddPlayerAsync *)

Answer(u, pc, s, i) == adding' = [adding EXCEPT ![u] = [pc |-> pc, server |-> s, instance |-> i]]

(* The player gets a parent; the instance is not told of its child. *)
AddUser(u, s, i) ==
    /\ users' = [users EXCEPT ![u] = [parent |-> i, migrating |-> TRUE]]
    /\ Answer(u, "answered", s, i)

(* The load balancer gives any server it knows, by load. *)
Select == servers

FindGameInstance(s, place) == {i \in Instances : instances[i] = [server |-> s, zone |-> place]}

(* The login service has accepted the token.  An instance of the zone is   *)
(* used if the server is known to have one, else one is launched.  A       *)
(* server without a channel is not modelled further: SendCommand           *)
(* dereferences the null _channel.                                         *)
AddPlayer(u) ==
    /\ adding[u].pc = "no" /\ users[u] = NoUser
    /\ \E s \in Select :
          LET found == FindGameInstance(s, Zone[u]) IN
          \/ /\ \E i \in found : AddUser(u, s, i)
             /\ UNCHANGED <<published, commands>>
          \/ /\ found = {} /\ s \in channel /\ published < MaxInstances
             /\ published' = published + 1
             /\ Answer(u, "launching", s, published + 1)
             /\ commands' = [commands EXCEPT ![s] =
                    Append(@, [instance |-> published + 1, zone |-> Zone[u]])]
             /\ UNCHANGED users
    /\ UNCHANGED <<servers, channel, instances, responses, requests, gameVars>>

(* LaunchGameInstanceHandler: the instance is in the container before the  *)
(* response is sent.                                                       *)
LaunchGameInstance(s) ==
    /\ commands[s] # <<>>
    /\ LET c == Head(commands[s]) IN
       /\ running' = [running EXCEPT ![c.instance] = s]
       /\ SendCommandResponse(s, [op |-> "LaunchGameInstance", instance |-> c.instance, zone |-> c.zone])
    /\ commands' = [commands EXCEPT ![s] = Tail(@)]
    /\ UNCHANGED <<registryVars, requests, session, handler, clients, entities, leaving>>

(* CommandChannelRunner answers for a handler that throws. *)
LaunchThrows(s) ==
    /\ commands[s] # <<>>
    /\ SendCommandResponse(s, [op |-> "Exception", instance |-> Head(commands[s]).instance])
    /\ commands' = [commands EXCEPT ![s] = Tail(@)]
    /\ UNCHANGED <<registryVars, requests, gameVars>>

MutantForgetsChild(s, p) == instances
Launched(s, p) == [instances EXCEPT ![p.instance] = [server |-> s, zone |-> p.zone]]

(* MarkCommandResponseAs...: the promise of whoever waits for it. *)
MutantNotFailed(i, pc) == [u \in Users |->
    IF adding[u].pc = "launching" /\ adding[u].instance = i /\ pc = "launched"
    THEN [adding[u] EXCEPT !.pc = pc] ELSE adding[u]]
Marked(i, pc) == [u \in Users |-> IF adding[u].pc = "launching" /\ adding[u].instance = i
                                  THEN [adding[u] EXCEPT !.pc = pc] ELSE adding[u]]

(* CommandResponseChannelRunner::Run reads a response. *)
HandleResponse(s) ==
    /\ responses[s] # <<>>
    /\ LET p == Head(responses[s]) IN
       /\ channel' = IF p.op = "Authenticate" THEN channel \union {s} ELSE channel
       /\ instances' = IF p.op = "LaunchGameInstance" THEN Launched(s, p) ELSE instances
       /\ adding' = CASE p.op = "LaunchGameInstance" -> Marked(p.instance, "launched")
                      [] p.op = "Exception" -> Marked(p.instance, "threw")
                      [] OTHER -> adding
    /\ responses' = [responses EXCEPT ![s] = Tail(@)]
    /\ UNCHANGED <<servers, published, users, commands, requests, gameVars>>

(* AddPlayerAsync goes on after its co_await of the response. *)
AddPlayerResumes(u) ==
    /\ adding[u].pc \in {"launched", "threw"}
    /\ LET s == adding[u].server  i == adding[u].instance IN
       IF adding[u].pc = "launched" /\ instances[i].server = s
       THEN AddUser(u, s, i)
       ELSE Answer(u, "failed", s, i) /\ UNCHANGED users
    /\ UNCHANGED <<servers, channel, instances, published, linkVars, gameVars>>

-----------------------------------------------------------------------------
(* Authenticating to a game server *)

Request(s, op, x) == requests' = [requests EXCEPT ![s] = Append(@, [op |-> op, about |-> x])]
At(h, pc) == [handler EXCEPT ![h].pc = pc]
ServerOf(h) == session[handler[h].session].server
UserOf(h) == session[handler[h].session].user
Closed(k) == [session EXCEPT ![k].state = IF @ = "open" THEN "closed" ELSE @]

(* GameClientContainer *)
FindClient(k) == {c \in clients : c.session = k}
Added(c) == clients' = clients \union {c}
Removed(c) == clients' = clients \ {c}

(* A player connects, to the server he was told or to any other. *)
Connect(k, s, u) ==
    /\ session[k].state = "none" /\ s \in servers
    /\ \A j \in Sessions : j < k => session[j].state # "none"   \* numbered in order
    /\ adding[u].pc = "answered"
    /\ session' = [session EXCEPT ![k] = [state |-> "open", server |-> s, user |-> u]]
    /\ UNCHANGED <<registryVars, linkVars, running, handler, clients, entities, leaving>>

(* AuthenticateHandler up to its first co_await. *)
Authenticate(h, k) ==
    /\ session[k].state = "open" /\ handler[h] = Idle
    /\ \A g \in 1 .. h - 1 : handler[g] # Idle   \* packets are numbered in order
    /\ IF FindClient(k) # {}
       THEN /\ session' = Closed(k)
            /\ handler' = [handler EXCEPT ![h] = [pc |-> "done", session |-> k, instance |-> None]]
            /\ UNCHANGED requests
       ELSE /\ handler' = [handler EXCEPT ![h] = [pc |-> "asked", session |-> k, instance |-> None]]
            /\ Request(session[k].server, "AuthenticatePlayer", h)
            /\ UNCHANGED session
    /\ UNCHANGED <<registryVars, commands, responses, running, clients, entities, leaving>>

(* AuthenticatePlayerAsync.  The parent is a raw pointer: when its         *)
(* instance has been removed, what it says of the server is undefined.     *)
MutantMayStay(u) == users
Migrated(u) == [users EXCEPT ![u].migrating = FALSE]
OnServer(u, s) == users[u] # NoUser /\ instances[users[u].parent].server \in {s, None}
NotOnServer(u, s) == users[u] # NoUser /\ instances[users[u].parent].server # s

ServesAuthenticate(s, h) ==
    LET u == UserOf(h) IN
    \/ /\ OnServer(u, s) /\ users[u].migrating
       /\ users' = Migrated(u)
       /\ handler' = [handler EXCEPT ![h].pc = "allowed", ![h].instance = users[u].parent]
    \/ /\ users[u] = NoUser \/ ~users[u].migrating \/ NotOnServer(u, s)
       /\ handler' = At(h, "refused")
       /\ UNCHANGED users

(* RemovePlayerAsync, of a player whose parent is on this server. *)
ServesRemove(s, u) ==
    /\ \/ OnServer(u, s) /\ users' = [users EXCEPT ![u] = NoUser]
       \/ (users[u] = NoUser \/ NotOnServer(u, s)) /\ UNCHANGED users
    /\ UNCHANGED handler

(* The coordination service takes the next request of a server.            *)
(* RemoveGameInstanceAsync: a zone has no children, so it is never refused.*)
ServeRequest(s) ==
    /\ requests[s] # <<>>
    /\ LET p == Head(requests[s]) IN
       \/ /\ p.op = "AuthenticatePlayer" /\ ServesAuthenticate(s, p.about)
          /\ UNCHANGED <<instances, leaving>>
       \/ /\ p.op = "RemovePlayer" /\ ServesRemove(s, p.about)
          /\ leaving' = {[r EXCEPT !.removed = @ \/ r.user = p.about] : r \in leaving}
          /\ UNCHANGED instances
       \/ /\ p.op = "RemoveGameInstance"
          /\ instances' = [instances EXCEPT ![p.about] = [server |-> None, zone |-> None]]
          /\ UNCHANGED <<users, handler, leaving>>
    /\ requests' = [requests EXCEPT ![s] = Tail(@)]
    /\ UNCHANGED <<servers, channel, published, adding, commands, responses, running, session,
                   clients, entities>>

(* The handler goes on.  Once allowed, it waits for the character, and     *)
(* looks for the instance then; without either it has the player removed.  *)
Refused(h) ==
    /\ handler[h].pc = "refused"
    /\ handler' = At(h, "done")
    /\ session' = Closed(handler[h].session)
    /\ UNCHANGED <<registryVars, linkVars, running, clients, entities, leaving>>

GiveUp(h) ==
    /\ handler[h].pc = "allowed"
    /\ handler' = At(h, "done")
    /\ session' = Closed(handler[h].session)
    /\ Request(ServerOf(h), "RemovePlayer", UserOf(h))
    /\ UNCHANGED <<registryVars, commands, responses, running, clients, entities, leaving>>

AddClient(h) ==
    /\ handler[h].pc = "allowed"
    /\ running[handler[h].instance] = ServerOf(h)
    /\ handler' = At(h, "added")
    /\ Added([user |-> UserOf(h), session |-> handler[h].session,
            server |-> ServerOf(h), instance |-> handler[h].instance])
    /\ UNCHANGED <<registryVars, linkVars, running, session, entities, leaving>>

(* After the navigation service has given a position, the spawn task. *)
Spawn(h) ==
    /\ handler[h].pc = "added"
    /\ handler' = At(h, "done")
    /\ entities' = IF running[handler[h].instance] = None THEN entities
                   ELSE entities \union {[user |-> UserOf(h), instance |-> handler[h].instance]}
    /\ UNCHANGED <<registryVars, linkVars, running, session, clients, leaving>>

-----------------------------------------------------------------------------
(* Leaving *)

(* The connection breaks: OnError removes the client, if there is one yet, *)
(* and ProcessClientRemove asks for the player's removal from the registry *)
(* and submits his despawn (and has his saves finalized: GameRepository).  *)
(* A client whose instance is gone is not modelled further: the null       *)
(* gameInstance is dereferenced.                                           *)
MutantKeepsUser(s, c) == UNCHANGED requests
RemoveRequested(s, c) == Request(s, "RemovePlayer", c.user)

Lose(k) ==
    /\ session[k].state = "open"
    /\ session' = [session EXCEPT ![k].state = "lost"]
    /\ \/ /\ FindClient(k) = {}
          /\ UNCHANGED <<clients, leaving, requests>>
       \/ \E c \in FindClient(k) :
             /\ running[c.instance] # None
             /\ Removed(c)
             /\ leaving' = leaving \union
                   {[user |-> c.user, instance |-> c.instance, removed |-> FALSE, despawn |-> "submitted"]}
             /\ RemoveRequested(session[k].server, c)
    /\ UNCHANGED <<registryVars, commands, responses, running, handler, entities>>

(* The despawn task: it is dropped when the entity has not been spawned,   *)
(* and with it the promise that ProcessClientRemove waits for.             *)
Despawn(r) ==
    /\ r \in leaving /\ r.despawn = "submitted"
    /\ LET e == [user |-> r.user, instance |-> r.instance] IN
       /\ entities' = entities \ {e}
       /\ leaving' = (leaving \ {r}) \union
             {[r EXCEPT !.despawn = IF e \in entities THEN "done" ELSE "dropped"]}
    /\ UNCHANGED <<registryVars, linkVars, running, session, handler, clients>>

(* WaitAll returns. *)
Left(r) ==
    /\ r \in leaving /\ r.removed /\ r.despawn = "done"
    /\ leaving' = leaving \ {r}
    /\ UNCHANGED <<registryVars, linkVars, running, session, handler, clients, entities>>

(* ScheduleGameInstanceShutdown: ten seconds on, an instance that has no   *)
(* player is taken down, and the coordination service told.  The response  *)
(* to its launch is taken to be read within that time.                     *)
IsEmpty(i) == \A e \in entities : e.instance # i

ShutdownInstance(i) ==
    /\ running[i] # None /\ instances[i].server # None
    /\ IsEmpty(i)
    /\ running' = [running EXCEPT ![i] = None]
    /\ Request(running[i], "RemoveGameInstance", i)
    /\ UNCHANGED <<registryVars, commands, responses, session, handler, clients, entities, leaving>>
-----------------------------------------------------------------------------
Launching(s) == LaunchGameInstance(s) \/ LaunchThrows(s)
Coordination(s) == HandleResponse(s) \/ ServeRequest(s)
Handling(h) == Refused(h) \/ GiveUp(h) \/ AddClient(h) \/ Spawn(h)

Next ==
    \/ \E s \in Servers : \/ RegisterServer(s) \/ OpenChannel(s)
                          \/ Launching(s) \/ Coordination(s)
    \/ \E u \in Users : AddPlayer(u) \/ AddPlayerResumes(u)
    \/ \E k \in Sessions : \/ Lose(k)
                           \/ \E s \in Servers, u \in Users : Connect(k, s, u)
                           \/ \E h \in Handlers : Authenticate(h, k)
    \/ \E h \in Handlers : Handling(h)
    \/ \E r \in leaving : Despawn(r) \/ Left(r)
    \/ \E i \in Instances : ShutdownInstance(i)

(* Every coroutine goes on and every queue is read; players do as they     *)
(* like, and the timer of an instance may take its time.                   *)
Fairness ==
    /\ \A s \in Servers : WF_vars(Launching(s)) /\ WF_vars(Coordination(s))
    /\ \A u \in Users : WF_vars(AddPlayerResumes(u))
    /\ \A h \in Handlers : WF_vars(Handling(h))
    /\ WF_vars(\E r \in leaving : Despawn(r) \/ Left(r))

Spec == Init /\ [][Next]_vars /\ Fairness

-----------------------------------------------------------------------------
(* The types of the tables. *)
TypeOK ==
    /\ channel \subseteq servers /\ servers \subseteq Servers
    /\ published \in 0 .. MaxInstances
    /\ running \in [Instances -> Servers \union {None}]
    /\ \A c \in clients : c.user \in Users /\ c.session \in Sessions /\ c.instance \in Instances

(* The registry and the game servers agree on the instances: one that the  *)
(* registry names runs on that server, or its removal is on the way; one   *)
(* that runs is named by the registry, or its response is on the way.      *)
RegistryMatchesServers ==
    \A i \in Instances, s \in Servers :
        /\ instances[i].server = s => \/ running[i] = s
                                     \/ \E n \in 1 .. Len(requests[s]) :
                                           requests[s][n] = [op |-> "RemoveGameInstance", about |-> i]
        /\ running[i] = s => \/ instances[i].server = s
                            \/ \E n \in 1 .. Len(responses[s]) : responses[s][n].instance = i

(* A client of a game server is a player the registry has, no more on his  *)
(* way, and no two clients are the same player (the assert(inserted) of    *)
(* GameClientContainer::Add), however often a token is presented.          *)
ClientsAreUsers ==
    \A c \in clients :
        /\ users[c.user] = [parent |-> c.instance, migrating |-> FALSE]
        /\ \A d \in clients : d.user = c.user => d = c

(* A call of AddPlayer that has to launch an instance is answered. *)
AddPlayerReturns ==
    \A u \in Users : adding[u].pc = "launching" ~> adding[u].pc \in {"answered", "failed"}

(* A player in an instance whose connection breaks leaves the game: the    *)
(* instance, the game server and the registry all forget him.              *)
Leaves(u) == \E r \in leaving, e \in entities :
                r.user = u /\ e.user = u /\ r.despawn = "submitted"
LostPlayersLeave ==
    \A u \in Users : Leaves(u) ~>
        /\ users[u] = NoUser
        /\ \A c \in clients : c.user # u
        /\ \A e \in entities : e.user # u

=============================================================================
