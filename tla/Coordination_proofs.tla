------------------------ MODULE Coordination_proofs ------------------------
(***************************************************************************)
(* Proofs about the coordination service: its registry against the game    *)
(* servers (World), and the keys it gives out (SnowflakeKeys).             *)
(*                                                                         *)
(* The registry knows of a game server only what packets tell it, and they *)
(* travel.  So the invariant, WorldInv, says of every packet under way     *)
(* what holds at both ends until it is read:                               *)
(*   - of an instance (InstanceInv), there is one packet at most: the      *)
(*     command to launch it, then the answer, then the request for its     *)
(*     removal.  Each is written when the one before has been read, so     *)
(*     none finds the tables in a state that it does not expect;           *)
(*   - of a coroutine of AuthenticateHandler (HandlerInv), there is one    *)
(*     request at most, while it waits;                                    *)
(*   - of a player (UserInv), the flag _migrating is spent by one request  *)
(*     only.  From then on he is in one of three places: allowed to enter, *)
(*     a client, or about to leave by a RemovePlayer.  Each place is left  *)
(*     for the next, and the registry keeps him as he is meanwhile.        *)
(* A queue is spoken of by the packets of a kind that it holds (Holds,     *)
(* Once, Only, Nowhere, Alike), so that a step that reads or sends a       *)
(* packet is a matter of two lemmas, Read and Sent.                        *)
(*                                                                         *)
(* The keys: one that is out comes from below the counter, so that the     *)
(* counter's next key has been nowhere; an id bears a time that has been   *)
(* and a key that is out.  A key is out once, and until the counter leaves *)
(* the pool no id is generated twice.                                      *)
(***************************************************************************)
EXTENDS World, SnowflakeKeys, TLAPS

-----------------------------------------------------------------------------
(***************************************************************************)
(* The registry and the game servers                                       *)
(***************************************************************************)

(* The types of all variables that the invariants speak of. *)
Places == {Zone[u] : u \in Users} \union {None}
Command == [instance : Instances, zone : Places]
Response ==
    [op : {"Authenticate", "Exception"}, instance : Instances \union {None}]
      \union [op : {"LaunchGameInstance"}, instance : Instances, zone : Places]
Requested ==
    [op : {"AuthenticatePlayer"}, about : Handlers]
      \union [op : {"RemovePlayer"}, about : Users]
      \union [op : {"RemoveGameInstance"}, about : Instances]
Additions == [pc : {"no", "launching", "launched", "threw", "answered", "failed"},
              server : Servers \union {None}, instance : Instances \union {None}]
Registered == [parent : Instances \union {None}, migrating : BOOLEAN]
Connections ==
    [state : {"none", "open", "closed", "lost"}, server : Servers \union {None}, user : Users \union {None}]
Authentications ==
    [pc : {"idle", "asked", "allowed", "refused", "added", "done"}, session : Sessions \union {None},
     instance : Instances \union {None}]
QueueTypes ==
    /\ commands \in [Servers -> Seq(Command)]
    /\ responses \in [Servers -> Seq(Response)]
    /\ requests \in [Servers -> Seq(Requested)]
RegistryTypes ==
    /\ servers \subseteq Servers /\ channel \subseteq Servers
    /\ published \in 0 .. MaxInstances
    /\ instances \in [Instances -> [server : Servers \union {None}, zone : Places]]
    /\ adding \in [Users -> Additions]
    /\ users \in [Users -> Registered]
GameTypes ==
    /\ running \in [Instances -> Servers \union {None}]
    /\ session \in [Sessions -> Connections] /\ handler \in [Handlers -> Authentications]
    /\ clients \subseteq [user : Users, session : Sessions, server : Servers, instance : Instances]
TypeInv == QueueTypes /\ RegistryTypes /\ GameTypes

(* A queue has a packet of T, and at most one; one queue of all has it. *)
Holds(q, T) == \E n \in 1 .. Len(q) : q[n] \in T
Once(q, T) == \A m, n \in 1 .. Len(q) : q[m] \in T /\ q[n] \in T => m = n
Nowhere(Q, T) == \A s \in Servers : ~ Holds(Q[s], T)
Only(Q, T) ==
    /\ \A s \in Servers : Once(Q[s], T)
    /\ \A s, t \in Servers : Holds(Q[s], T) /\ Holds(Q[t], T) => s = t
Alike(Q, N, T) == \A s \in Servers :
    (Holds(N[s], T) <=> Holds(Q[s], T)) /\ (Once(Q[s], T) => Once(N[s], T))

(* The packets about an instance. *)
LaunchOf(i) == {c \in Command : c.instance = i}
AnswerOf(i) == {p \in Response : p.instance = i}
LaunchedOf(i) == {p \in Response : p.op = "LaunchGameInstance" /\ p.instance = i}
RemovalOf(i) == {[op |-> "RemoveGameInstance", about |-> i]}
AskOf(h) == {[op |-> "AuthenticatePlayer", about |-> h]}
LeaveOf(u) == {[op |-> "RemovePlayer", about |-> u]}

(* The life of an instance: it is asked for once, then answered for, then  *)
(* known, and at last its removal is asked for once.                       *)
InstanceInv(i) ==
    /\ Only(commands, LaunchOf(i)) /\ Only(responses, AnswerOf(i)) /\ Only(requests, RemovalOf(i))
    /\ i > published => /\ Nowhere(commands, LaunchOf(i)) /\ Nowhere(responses, AnswerOf(i))
                        /\ Nowhere(requests, RemovalOf(i))
                        /\ running[i] = None /\ instances[i].server = None
    /\ \A s \in Servers :
          /\ Holds(commands[s], LaunchOf(i)) =>
                /\ running[i] = None /\ instances[i].server = None
                /\ Nowhere(responses, AnswerOf(i)) /\ Nowhere(requests, RemovalOf(i))
          /\ Holds(responses[s], AnswerOf(i)) =>
                instances[i].server = None /\ Nowhere(requests, RemovalOf(i))
          /\ Holds(responses[s], LaunchedOf(i)) => running[i] = s
          /\ running[i] = s => instances[i].server = s \/ Holds(responses[s], LaunchedOf(i))
          /\ instances[i].server = s => running[i] = s \/ Holds(requests[s], RemovalOf(i))
          /\ Holds(requests[s], RemovalOf(i)) => running[i] = None /\ instances[i].server = s

(* A coroutine of AuthenticateHandler has a session that is connected, and *)
(* waits for one answer. *)
HandlerInv(h) ==
    /\ handler[h].pc # "idle" =>
          /\ handler[h].session \in Sessions /\ session[handler[h].session].state # "none"
          /\ ServerOf(h) \in Servers /\ UserOf(h) \in Users
    /\ handler[h].pc = "allowed" => handler[h].instance \in Instances
    /\ Only(requests, AskOf(h))
    /\ \A s \in Servers : Holds(requests[s], AskOf(h)) => handler[h].pc = "asked"

(* A player that no call of AddPlayer has been answered for is unknown. *)
Entering(u) ==
    /\ adding[u].pc # "answered" => users[u] = NoUser
    /\ adding[u].pc \in {"launching", "launched", "threw"} =>
          adding[u].server \in Servers /\ adding[u].instance \in Instances
    /\ users[u].migrating => users[u].parent \in Instances

(* A player who has migrated is in at most one of these places: allowed to *)
(* enter, a client of his instance, or about to leave.                     *)
Settled(u, i) == users[u] = [parent |-> i, migrating |-> FALSE]
Allowed(u) == {h \in Handlers : handler[h].pc = "allowed" /\ UserOf(h) = u}
Present(u) ==
    /\ Only(requests, LeaveOf(u))
    /\ \A s \in Servers : Holds(requests[s], LeaveOf(u)) =>
          ~ users[u].migrating /\ users[u] # NoUser
    /\ \A c \in clients : c.user = u =>
          /\ Settled(u, c.instance) /\ Nowhere(requests, LeaveOf(u))
          /\ \A d \in clients : d.user = u => d = c
    /\ \A h \in Allowed(u) :
          /\ Settled(u, handler[h].instance) /\ Nowhere(requests, LeaveOf(u))
          /\ \A c \in clients : c.user # u
          /\ \A g \in Allowed(u) : g = h
Absent(u) ==
    Nowhere(requests, LeaveOf(u)) /\ (\A c \in clients : c.user # u) /\ Allowed(u) = {}
UserInv(u) == Entering(u) /\ Present(u)

(* A server whose channel is open is registered. *)
OpeningOf == {p \in Response : p.op = "Authenticate"}
ChannelInv == channel \subseteq servers /\ \A s \in Servers : Holds(responses[s], OpeningOf) => s \in servers
ConnectionInv == \A k \in Sessions : session[k].state # "none" =>
    session[k].server \in Servers /\ session[k].user \in Users
WorldInv ==
    /\ TypeInv /\ ConnectionInv /\ ChannelInv
    /\ \A i \in Instances : InstanceInv(i)
    /\ \A h \in Handlers : HandlerInv(h)
    /\ \A u \in Users : UserInv(u)

-----------------------------------------------------------------------------
(* Queues *)

(* The head of a queue is taken. *)
LEMMA HoldsTail ==
    ASSUME NEW E, NEW q \in Seq(E), q # <<>>, NEW T
    PROVE  /\ Holds(q, T) <=> Head(q) \in T \/ Holds(Tail(q), T)
           /\ Once(q, T) => Once(Tail(q), T)
           /\ Once(q, T) /\ Head(q) \in T => ~ Holds(Tail(q), T)
<1>1. /\ Len(Tail(q)) = Len(q) - 1 /\ Len(q) \in Nat \ {0} /\ Head(q) = q[1]
      /\ \A n \in 1 .. Len(Tail(q)) : n + 1 \in 1 .. Len(q) /\ Tail(q)[n] = q[n + 1]
  OBVIOUS
<1> DEFINE t == Tail(q)
<1>2. /\ Len(t) = Len(q) - 1 /\ Len(q) \in Nat \ {0} /\ Head(q) = q[1]
      /\ \A n \in 1 .. Len(t) : n + 1 \in 1 .. Len(q) /\ t[n] = q[n + 1]
      /\ \A n \in 1 .. Len(q) : n # 1 => n - 1 \in 1 .. Len(t) /\ t[n - 1] = q[n]
  BY <1>1
<1> HIDE DEF t
<1>3. Holds(q, T) <=> Head(q) \in T \/ Holds(t, T)
  <2>1. ASSUME Holds(q, T), Head(q) \notin T PROVE Holds(t, T)
    BY <1>2, <2>1 DEF Holds
  <2>2. ASSUME Head(q) \in T \/ Holds(t, T) PROVE Holds(q, T)
    BY <1>2, <2>2 DEF Holds
  <2> QED BY <2>1, <2>2
<1>4. ASSUME Once(q, T) PROVE Once(t, T)
  <2> SUFFICES ASSUME NEW m \in 1 .. Len(t), NEW n \in 1 .. Len(t), t[m] \in T, t[n] \in T
               PROVE  m = n
    BY DEF Once
  <2>1. m + 1 = n + 1
    BY <1>2, <1>4 DEF Once
  <2> QED BY <2>1
<1>5. ASSUME Once(q, T), Head(q) \in T, Holds(t, T) PROVE FALSE
  <2>1. PICK n \in 1 .. Len(t) : t[n] \in T
    BY <1>5 DEF Holds
  <2>2. n + 1 = 1
    BY <1>2, <1>5, <2>1 DEF Once
  <2> QED BY <2>2
<1> QED BY <1>3, <1>4, <1>5 DEF t

(* A packet is appended to a queue. *)
LEMMA HoldsAppend ==
    ASSUME NEW E, NEW q \in Seq(E), NEW e \in E, NEW T
    PROVE  /\ Holds(Append(q, e), T) <=> Holds(q, T) \/ e \in T
           /\ Once(q, T) /\ (e \in T => ~ Holds(q, T)) => Once(Append(q, e), T)
<1> DEFINE t == Append(q, e)
<1>1. /\ Len(t) = Len(q) + 1 /\ Len(q) \in Nat /\ t[Len(q) + 1] = e
      /\ \A n \in 1 .. Len(q) : n \in 1 .. Len(t) /\ t[n] = q[n]
  OBVIOUS
<1> HIDE DEF t
<1>2. Holds(t, T) <=> Holds(q, T) \/ e \in T
  <2>1. ASSUME Holds(t, T), e \notin T PROVE Holds(q, T)
    BY <1>1, <2>1 DEF Holds
  <2>2. ASSUME Holds(q, T) PROVE Holds(t, T)
    BY <1>1, <2>2 DEF Holds
  <2>3. ASSUME e \in T PROVE Holds(t, T)
    BY <1>1, <2>3 DEF Holds
  <2> QED BY <2>1, <2>2, <2>3
<1>3. ASSUME Once(q, T), e \in T => ~ Holds(q, T) PROVE Once(t, T)
  <2> SUFFICES ASSUME NEW m \in 1 .. Len(t), NEW n \in 1 .. Len(t), t[m] \in T, t[n] \in T
               PROVE  m = n
    BY DEF Once
  <2>1. CASE m \in 1 .. Len(q) /\ n \in 1 .. Len(q)
    BY <1>1, <1>3, <2>1 DEF Once
  <2>2. CASE m \notin 1 .. Len(q) \/ n \notin 1 .. Len(q)
    <3>1. \A x \in 1 .. Len(t) : x \in 1 .. Len(q) \/ x = Len(q) + 1
      BY <1>1
    <3>2. e \in T
      BY <3>1, <2>2, <1>1
    <3>3. \A x \in 1 .. Len(q) : q[x] \notin T
      BY <1>3, <3>2 DEF Holds
    <3> QED BY <1>1, <3>1, <3>3
  <2> QED BY <2>1, <2>2
<1> QED BY <1>2, <1>3 DEF t

Packets == Command \union Response \union Requested
Reads(Q, N, s) == Q[s] # <<>> /\ N = [Q EXCEPT ![s] = Tail(@)]
Sends(Q, N, s, e) == N = [Q EXCEPT ![s] = Append(@, e)]

(* The queues of all servers, when one of them is read ... *)
LEMMA Read ==
    ASSUME NEW Q \in [Servers -> Seq(Packets)], NEW s \in Servers, NEW N, Reads(Q, N, s)
    PROVE  /\ Head(Q[s]) \in Packets
           /\ \A T : /\ Head(Q[s]) \notin T => Alike(Q, N, T)
                     /\ Head(Q[s]) \in T => Holds(Q[s], T)
                     /\ Only(Q, T) => Only(N, T)
                     /\ Only(Q, T) /\ Head(Q[s]) \in T => Nowhere(N, T)
                     /\ \A t \in Servers : Holds(N[t], T) => Holds(Q[t], T)
<1>1. /\ Q[s] # <<>> /\ Head(Q[s]) \in Packets /\ Q[s] \in Seq(Packets)
      /\ N[s] = Tail(Q[s]) /\ \A t \in Servers : t # s => N[t] = Q[t]
  BY DEF Reads
<1> SUFFICES ASSUME NEW T
             PROVE  /\ Head(Q[s]) \notin T => Alike(Q, N, T)
                    /\ Head(Q[s]) \in T => Holds(Q[s], T)
                    /\ Only(Q, T) => Only(N, T)
                    /\ Only(Q, T) /\ Head(Q[s]) \in T => Nowhere(N, T)
                    /\ \A t \in Servers : Holds(N[t], T) => Holds(Q[t], T)
  BY <1>1
<1>2. /\ Holds(Q[s], T) <=> Head(Q[s]) \in T \/ Holds(N[s], T)
      /\ Once(Q[s], T) => Once(N[s], T)
      /\ Once(Q[s], T) /\ Head(Q[s]) \in T => ~ Holds(N[s], T)
  BY <1>1, HoldsTail
<1> QED BY <1>1, <1>2 DEF Alike, Only, Nowhere

(* ... or sent something. *)
LEMMA Sent ==
    ASSUME NEW Q \in [Servers -> Seq(Packets)], NEW s \in Servers, NEW e \in Packets, NEW N,
           Sends(Q, N, s, e)
    PROVE  \A T : /\ e \notin T => Alike(Q, N, T)
                  /\ Only(Q, T) /\ Nowhere(Q, T) => Only(N, T)
                  /\ \A t \in Servers : Holds(N[t], T) <=> Holds(Q[t], T) \/ (t = s /\ e \in T)
<1>1. /\ Q[s] \in Seq(Packets)
      /\ N[s] = Append(Q[s], e) /\ \A t \in Servers : t # s => N[t] = Q[t]
  BY DEF Sends
<1> SUFFICES ASSUME NEW T
             PROVE  /\ e \notin T => Alike(Q, N, T)
                    /\ Only(Q, T) /\ Nowhere(Q, T) => Only(N, T)
                    /\ \A t \in Servers : Holds(N[t], T) <=> Holds(Q[t], T) \/ (t = s /\ e \in T)
  BY <1>1
<1>2. /\ Holds(N[s], T) <=> Holds(Q[s], T) \/ e \in T
      /\ Once(Q[s], T) /\ (e \in T => ~ Holds(Q[s], T)) => Once(N[s], T)
  BY <1>1, HoldsAppend
<1>3. Once(Q[s], T) /\ e \notin T => Once(N[s], T)
  BY <1>2
<1> QED BY <1>1, <1>2, <1>3 DEF Alike, Only, Nowhere

(* What is alike has the same packets at most once. *)
LEMMA AlikeOnly ==
    ASSUME NEW Q, NEW N, NEW T, Alike(Q, N, T)
    PROVE  (Only(Q, T) => Only(N, T)) /\ (Nowhere(N, T) <=> Nowhere(Q, T))
BY DEF Alike, Only, Nowhere

(* A queue that does not change is like itself. *)
LEMMA AlikeSame == ASSUME NEW Q, NEW T PROVE Alike(Q, Q, T)
BY DEF Alike

(* All three kinds of queues hold packets: the lemmas on queues speak of all of them. *)
LEMMA QueuesOfPackets ==
    ASSUME TypeInv
    PROVE  /\ commands \in [Servers -> Seq(Packets)] /\ responses \in [Servers -> Seq(Packets)]
           /\ requests \in [Servers -> Seq(Packets)]
           /\ Command \subseteq Packets /\ Response \subseteq Packets /\ Requested \subseteq Packets
<1>1. Command \subseteq Packets /\ Response \subseteq Packets /\ Requested \subseteq Packets
  BY DEF Packets
<1>2. ASSUME NEW E, E \subseteq Packets PROVE Seq(E) \subseteq Seq(Packets)
  <2> SUFFICES ASSUME NEW q \in Seq(E) PROVE q \in Seq(Packets)
    OBVIOUS
  <2>1. Len(q) \in Nat /\ q \in [1 .. Len(q) -> E]
    OBVIOUS
  <2>2. q \in [1 .. Len(q) -> Packets]
    BY <1>2, <2>1
  <2> QED BY <2>1, <2>2
<1>3. Seq(Command) \subseteq Seq(Packets) /\ Seq(Response) \subseteq Seq(Packets)
      /\ Seq(Requested) \subseteq Seq(Packets)
  BY <1>1, <1>2
<1>4. ASSUME NEW A, NEW B, A \subseteq B, NEW f \in [Servers -> A] PROVE f \in [Servers -> B]
  BY <1>4
<1> QED BY <1>1, <1>3, <1>4 DEF TypeInv, QueueTypes

-----------------------------------------------------------------------------
(* Types *)

(* The packets that the code builds. *)
LEMMA PacketTypes ==
    /\ \A i \in Instances : \A u \in Users : [instance |-> i, zone |-> Zone[u]] \in Command
    /\ [op |-> "Authenticate", instance |-> None] \in Response
    /\ \A i \in Instances : [op |-> "Exception", instance |-> i] \in Response
    /\ \A i \in Instances : \A z \in Places :
          [op |-> "LaunchGameInstance", instance |-> i, zone |-> z] \in Response
    /\ \A h \in Handlers : [op |-> "AuthenticatePlayer", about |-> h] \in Requested
    /\ \A u \in Users : [op |-> "RemovePlayer", about |-> u] \in Requested
    /\ \A i \in Instances : [op |-> "RemoveGameInstance", about |-> i] \in Requested
BY DEF Command, Response, Requested, Places

(* A packet of each kind, read. *)
LEMMA PacketFacts ==
    /\ \A c \in Command : c.instance \in Instances /\ c.zone \in Places
    /\ \A p \in Response : /\ p.op \in {"Authenticate", "Exception", "LaunchGameInstance"}
                           /\ p.instance \in Instances \union {None}
                           /\ p.op = "LaunchGameInstance" => p.instance \in Instances /\ p.zone \in Places
    /\ \A p \in Requested : /\ p.op = "AuthenticatePlayer" => p.about \in Handlers
                            /\ p.op = "RemovePlayer" => p.about \in Users
                            /\ p.op = "RemoveGameInstance" => p.about \in Instances
BY DEF Command, Response, Requested

(* What the assumptions on the constants give. *)
LEMMA ConstantFacts ==
    /\ None \notin Servers /\ None \notin Instances /\ Instances \subseteq Nat
    /\ Sessions \subseteq Nat /\ MaxInstances \in Nat /\ MaxAuth \in Nat /\ Handlers \subseteq Nat
BY WorldAssumption DEF Instances, Handlers

(* All queues and tables are empty at first. *)
LEMMA InitTypes == Init => TypeInv /\ ConnectionInv
<1> SUFFICES ASSUME Init PROVE TypeInv /\ ConnectionInv
  OBVIOUS
<1>1. QueueTypes
  BY DEF Init, QueueTypes
<1>2. RegistryTypes
  BY ConstantFacts DEF Init, RegistryTypes, NoUser, Places, Additions, Registered
<1>3. GameTypes
  BY DEF Init, GameTypes, Idle, Connections, Authentications
<1>4. ConnectionInv
  BY DEF Init, ConnectionInv
<1> QED BY <1>1, <1>2, <1>3, <1>4 DEF TypeInv

(* The registry's own steps respect the types. *)
LEMMA RegistryTypesStep ==
    ASSUME TypeInv, ConnectionInv, [Next]_vars
    PROVE  RegistryTypes'
<1> USE DEF registryVars, linkVars, gameVars
<1> SUFFICES RegistryTypes'
  OBVIOUS
<1>0. RegistryTypes /\ QueueTypes
  BY DEF TypeInv
<1>a. ASSUME NEW s \in Servers, NEW i \in Instances, NEW u \in Users, AddUser(u, s, i),
             UNCHANGED <<servers, channel, instances>>, published' \in 0 .. MaxInstances
      PROVE RegistryTypes'
  BY <1>0, <1>a DEF RegistryTypes, AddUser, Answer, Additions, Registered
<1>1. ASSUME NEW s \in Servers, RegisterServer(s) PROVE RegistryTypes'
  BY <1>0, <1>1 DEF RegistryTypes, RegisterServer
<1>2. ASSUME NEW u \in Users, AddPlayer(u) PROVE RegistryTypes'
  <2>1. PICK s \in servers :
           LET found == FindGameInstance(s, Zone[u]) IN
           \/ (\E i \in found : AddUser(u, s, i)) /\ UNCHANGED <<published, commands>>
           \/ /\ published < MaxInstances
              /\ published' = published + 1
              /\ Answer(u, "launching", s, published + 1)
              /\ UNCHANGED users
    BY <1>2 DEF AddPlayer, Select
  <2>2. s \in Servers /\ FindGameInstance(s, Zone[u]) \subseteq Instances
    BY <1>0, <2>1 DEF RegistryTypes, FindGameInstance
  <2>3. UNCHANGED <<servers, channel, instances>>
    BY <1>2 DEF AddPlayer
  <2>4. CASE (\E i \in FindGameInstance(s, Zone[u]) : AddUser(u, s, i)) /\ UNCHANGED <<published, commands>>
    <3>1. published' \in 0 .. MaxInstances
      BY <1>0, <2>4 DEF RegistryTypes
    <3> QED BY <2>2, <2>3, <2>4, <3>1, <1>a
  <2>5. CASE /\ published < MaxInstances /\ published' = published + 1
             /\ Answer(u, "launching", s, published + 1) /\ UNCHANGED users
    <3>1. published + 1 \in Instances /\ published' \in 0 .. MaxInstances
      BY <1>0, <2>5, ConstantFacts DEF RegistryTypes, Instances
    <3>2. adding' = [adding EXCEPT ![u] = [pc |-> "launching", server |-> s, instance |-> published + 1]]
      BY <2>5 DEF Answer
    <3>3. [pc |-> "launching", server |-> s, instance |-> published + 1] \in Additions
      BY <2>2, <3>1 DEF Additions
    <3> QED BY <1>0, <2>2, <2>3, <2>5, <3>1, <3>2, <3>3 DEF RegistryTypes
  <2> QED BY <2>1, <2>4, <2>5
<1>3. ASSUME NEW s \in Servers, HandleResponse(s) PROVE RegistryTypes'
  <2> DEFINE p == Head(responses[s])
  <2>1. p \in Response
    BY <1>0, <1>3 DEF QueueTypes, HandleResponse
  <2>2. p.op = "LaunchGameInstance" => p.instance \in Instances /\ p.zone \in Places
    BY <2>1, PacketFacts
  <2>3. /\ channel' = channel \/ channel' = channel \union {s}
        /\ instances' = instances \/ (p.op = "LaunchGameInstance" /\ instances' = Launched(s, p))
        /\ \/ adding' = adding
           \/ adding' = Marked(p.instance, "launched")
           \/ adding' = Marked(p.instance, "threw")
        /\ UNCHANGED <<servers, published, users>>
    BY <1>3 DEF HandleResponse
  <2> HIDE DEF p
  <2>4. adding' \in [Users -> Additions]
    <3>1. ASSUME NEW pc \in {"launched", "threw"}, NEW u \in Users
          PROVE  [adding[u] EXCEPT !.pc = pc] \in Additions
      BY <1>0 DEF RegistryTypes, Additions
    <3>2. \A pc \in {"launched", "threw"} : Marked(p.instance, pc) \in [Users -> Additions]
      BY <1>0, <3>1 DEF RegistryTypes, Marked
    <3> QED BY <1>0, <2>3, <3>2 DEF RegistryTypes
  <2>5. instances' \in [Instances -> [server : Servers \union {None}, zone : Places]]
    BY <1>0, <2>2, <2>3 DEF RegistryTypes, Launched
  <2>6. channel' \subseteq Servers
    BY <1>0, <2>3 DEF RegistryTypes
  <2> QED BY <1>0, <2>3, <2>4, <2>5, <2>6 DEF RegistryTypes
<1>4. ASSUME NEW u \in Users, AddPlayerResumes(u) PROVE RegistryTypes'
  <2> DEFINE s == adding[u].server  i == adding[u].instance
  <2>1. s \in Servers \union {None} /\ i \in Instances \union {None}
    BY <1>0 DEF RegistryTypes, Additions
  <2>2. \A pc \in {"answered", "failed"} : [pc |-> pc, server |-> s, instance |-> i] \in Additions
    BY <2>1 DEF Additions
  <2>3. \/ AddUser(u, s, i)
        \/ Answer(u, "failed", s, i) /\ UNCHANGED users
    BY <1>4 DEF AddPlayerResumes
  <2>4. UNCHANGED <<servers, channel, instances, published>>
    BY <1>4 DEF AddPlayerResumes
  <2> HIDE DEF s, i
  <2>5. adding' \in [Users -> Additions]
    BY <1>0, <2>2, <2>3 DEF RegistryTypes, AddUser, Answer
  <2>6. users' \in [Users -> Registered]
    <3>1. [parent |-> i, migrating |-> TRUE] \in Registered
      BY <2>1 DEF Registered
    <3>2. users' = users \/ users' = [users EXCEPT ![u] = [parent |-> i, migrating |-> TRUE]]
      BY <2>3 DEF AddUser
    <3> QED BY <1>0, <3>1, <3>2 DEF RegistryTypes
  <2> QED BY <1>0, <2>4, <2>5, <2>6 DEF RegistryTypes
<1>5. ASSUME NEW s \in Servers, ServeRequest(s) PROVE RegistryTypes'
  <2> DEFINE p == Head(requests[s])
  <2>1. p \in Requested
    BY <1>0, <1>5 DEF QueueTypes, ServeRequest
  <2>2. UNCHANGED <<servers, channel, published, adding>>
    BY <1>5 DEF ServeRequest
  <2>3. instances' = instances \/ instances' = [instances EXCEPT ![p.about] = [server |-> None, zone |-> None]]
    BY <1>5 DEF ServeRequest
  <2>4. users' = users \/ (\E u : users' = [users EXCEPT ![u].migrating = FALSE])
                      \/ (\E u : users' = [users EXCEPT ![u] = NoUser])
    BY <1>5 DEF ServeRequest, ServesAuthenticate, ServesRemove, Migrated
  <2> HIDE DEF p
  <2>5. None \in Places
    BY DEF Places
  <2>6. instances' \in [Instances -> [server : Servers \union {None}, zone : Places]]
    BY <1>0, <2>3, <2>5 DEF RegistryTypes
  <2>7. users' \in [Users -> Registered]
    <3>1. NoUser \in Registered /\ \A u \in Users : [users[u] EXCEPT !.migrating = FALSE] \in Registered
      BY <1>0 DEF RegistryTypes, NoUser, Registered
    <3>2. CASE users' = users
      BY <1>0, <3>2 DEF RegistryTypes
    <3>3. ASSUME NEW u, users' = [users EXCEPT ![u].migrating = FALSE] PROVE users' \in [Users -> Registered]
      BY <1>0, <3>1, <3>3 DEF RegistryTypes
    <3>4. ASSUME NEW u, users' = [users EXCEPT ![u] = NoUser] PROVE users' \in [Users -> Registered]
      BY <1>0, <3>1, <3>4 DEF RegistryTypes
    <3> QED BY <2>4, <3>2, <3>3, <3>4
  <2> QED BY <1>0, <2>2, <2>6, <2>7 DEF RegistryTypes
<1>6. CASE UNCHANGED <<servers, channel, published, adding, users, instances>>
  BY <1>0, <1>6 DEF RegistryTypes
<1>7. \/ \E s \in Servers : RegisterServer(s) \/ HandleResponse(s) \/ ServeRequest(s)
      \/ \E u \in Users : AddPlayer(u) \/ AddPlayerResumes(u)
      \/ UNCHANGED <<servers, channel, published, adding, users, instances>>
  BY DEF Next, vars, Launching, Coordination, Handling, OpenChannel, LaunchGameInstance, LaunchThrows,
     Connect, Authenticate, Refused, GiveUp, AddClient, Spawn, Lose, Despawn, Left, ShutdownInstance
<1> QED BY <1>1, <1>2, <1>3, <1>4, <1>5, <1>6, <1>7

(* So do those that read from queues and write to them. *)
LEMMA QueueTypesStep ==
    ASSUME TypeInv, ConnectionInv, \A h \in Handlers : HandlerInv(h), [Next]_vars
    PROVE  QueueTypes'
<1> USE DEF registryVars, linkVars, gameVars
<1>0. /\ RegistryTypes /\ GameTypes
      /\ commands \in [Servers -> Seq(Command)] /\ responses \in [Servers -> Seq(Response)]
      /\ requests \in [Servers -> Seq(Requested)]
  BY DEF TypeInv, QueueTypes
<1>c. ASSUME NEW s \in Servers, NEW e \in Command, commands' = [commands EXCEPT ![s] = Append(@, e)]
      PROVE  commands' \in [Servers -> Seq(Command)]
  BY <1>0, <1>c
<1>r. ASSUME NEW s \in Servers, NEW e \in Response, responses' = [responses EXCEPT ![s] = Append(@, e)]
      PROVE  responses' \in [Servers -> Seq(Response)]
  BY <1>0, <1>r
<1>q. ASSUME NEW s \in Servers, NEW e \in Requested, requests' = [requests EXCEPT ![s] = Append(@, e)]
      PROVE  requests' \in [Servers -> Seq(Requested)]
  BY <1>0, <1>q
<1>1. ASSUME NEW s \in Servers, OpenChannel(s) PROVE QueueTypes'
  <2>1. responses' = [responses EXCEPT ![s] = Append(@, [op |-> "Authenticate", instance |-> None])]
    BY <1>1 DEF OpenChannel, SendCommandResponse
  <2> QED BY <1>0, <1>1, <1>r, <2>1, PacketTypes DEF OpenChannel, QueueTypes
<1>2. ASSUME NEW u \in Users, AddPlayer(u) PROVE QueueTypes'
  <2>1. \/ commands' = commands
        \/ \E s \in servers : /\ published < MaxInstances
                              /\ commands' = [commands EXCEPT ![s] =
                                    Append(@, [instance |-> published + 1, zone |-> Zone[u]])]
    BY <1>2 DEF AddPlayer, Select
  <2>2. published < MaxInstances => published + 1 \in Instances
    BY <1>0, ConstantFacts DEF RegistryTypes, Instances
  <2>3. servers \subseteq Servers
    BY <1>0 DEF RegistryTypes
  <2>4. commands' \in [Servers -> Seq(Command)]
    BY <1>0, <1>c, <2>1, <2>2, <2>3, PacketTypes
  <2> QED BY <1>0, <1>2, <2>4 DEF AddPlayer, QueueTypes
<1>3. ASSUME NEW s \in Servers, LaunchGameInstance(s) PROVE QueueTypes'
  <2> DEFINE c == Head(commands[s])
  <2>1. /\ commands[s] # <<>> /\ commands' = [commands EXCEPT ![s] = Tail(@)]
        /\ responses' = [responses EXCEPT ![s] = Append(@,
              [op |-> "LaunchGameInstance", instance |-> c.instance, zone |-> c.zone])]
        /\ requests' = requests
    BY <1>3 DEF LaunchGameInstance, SendCommandResponse
  <2>2. c.instance \in Instances /\ c.zone \in Places
    BY <1>0, <2>1, PacketFacts
  <2> HIDE DEF c
  <2>3. responses' \in [Servers -> Seq(Response)]
    BY <1>r, <2>1, <2>2, PacketTypes
  <2> QED BY <1>0, <2>1, <2>3 DEF QueueTypes
<1>4. ASSUME NEW s \in Servers, LaunchThrows(s) PROVE QueueTypes'
  <2> DEFINE c == Head(commands[s])
  <2>1. /\ commands[s] # <<>> /\ commands' = [commands EXCEPT ![s] = Tail(@)]
        /\ responses' = [responses EXCEPT ![s] = Append(@, [op |-> "Exception", instance |-> c.instance])]
        /\ requests' = requests
    BY <1>4 DEF LaunchThrows, SendCommandResponse
  <2>2. c.instance \in Instances
    BY <1>0, <2>1, PacketFacts
  <2> HIDE DEF c
  <2>3. responses' \in [Servers -> Seq(Response)]
    BY <1>r, <2>1, <2>2, PacketTypes
  <2> QED BY <1>0, <2>1, <2>3 DEF QueueTypes
<1>5. ASSUME NEW s \in Servers, HandleResponse(s) PROVE QueueTypes'
  BY <1>0, <1>5 DEF HandleResponse, QueueTypes
<1>6. ASSUME NEW k \in Sessions, NEW h \in Handlers, Authenticate(h, k) PROVE QueueTypes'
  <2>1. session[k].server \in Servers
    BY <1>6 DEF Authenticate, ConnectionInv
  <2>2. \/ requests' = requests
        \/ requests' = [requests EXCEPT ![session[k].server] =
                           Append(@, [op |-> "AuthenticatePlayer", about |-> h])]
    BY <1>6 DEF Authenticate, Request
  <2>3. requests' \in [Servers -> Seq(Requested)]
    BY <1>0, <1>q, <2>1, <2>2, PacketTypes
  <2> QED BY <1>0, <1>6, <2>3 DEF Authenticate, QueueTypes
<1>7. ASSUME NEW s \in Servers, ServeRequest(s) PROVE QueueTypes'
  BY <1>0, <1>7 DEF ServeRequest, QueueTypes
<1>8. ASSUME NEW h \in Handlers, GiveUp(h) PROVE QueueTypes'
  <2>1. ServerOf(h) \in Servers /\ UserOf(h) \in Users
    BY <1>8 DEF GiveUp, HandlerInv
  <2>2. requests' = [requests EXCEPT ![ServerOf(h)] = Append(@, [op |-> "RemovePlayer", about |-> UserOf(h)])]
    BY <1>8 DEF GiveUp, Request
  <2>3. requests' \in [Servers -> Seq(Requested)]
    BY <1>0, <1>q, <2>1, <2>2, PacketTypes
  <2> QED BY <1>0, <1>8, <2>3 DEF GiveUp, QueueTypes
<1>9. ASSUME NEW k \in Sessions, Lose(k) PROVE QueueTypes'
  <2>1. session[k].server \in Servers
    BY <1>9 DEF Lose, ConnectionInv
  <2>2. \/ requests' = requests
        \/ \E c \in clients : requests' = [requests EXCEPT ![session[k].server] =
                           Append(@, [op |-> "RemovePlayer", about |-> c.user])]
    BY <1>9 DEF Lose, RemoveRequested, Request, FindClient
  <2>3. \A c \in clients : c.user \in Users
    BY <1>0 DEF GameTypes
  <2>4. requests' \in [Servers -> Seq(Requested)]
    BY <1>0, <1>q, <2>1, <2>2, <2>3, PacketTypes
  <2> QED BY <1>0, <1>9, <2>4 DEF Lose, QueueTypes
<1>10. ASSUME NEW i \in Instances, ShutdownInstance(i) PROVE QueueTypes'
  <2>1. running[i] \in Servers
    BY <1>0, <1>10 DEF ShutdownInstance, GameTypes
  <2>2. requests' = [requests EXCEPT ![running[i]] = Append(@, [op |-> "RemoveGameInstance", about |-> i])]
    BY <1>10 DEF ShutdownInstance, Request
  <2>3. requests' \in [Servers -> Seq(Requested)]
    BY <1>0, <1>q, <2>1, <2>2, PacketTypes
  <2> QED BY <1>0, <1>10, <2>3 DEF ShutdownInstance, QueueTypes
<1>11. CASE UNCHANGED linkVars
  BY <1>0, <1>11 DEF QueueTypes
<1>12. \/ \E s \in Servers : RegisterServer(s) \/ OpenChannel(s) \/ LaunchGameInstance(s) \/ LaunchThrows(s)
                             \/ HandleResponse(s) \/ ServeRequest(s)
       \/ \E u \in Users : AddPlayer(u)
       \/ \E k \in Sessions : Lose(k) \/ \E h \in Handlers : Authenticate(h, k)
       \/ \E h \in Handlers : GiveUp(h)
       \/ \E i \in Instances : ShutdownInstance(i)
       \/ UNCHANGED linkVars
  BY DEF Next, vars, Launching, Coordination, Handling, AddPlayerResumes,
     Connect, Refused, AddClient, Spawn, Despawn, Left
<1>13. ASSUME NEW s \in Servers, RegisterServer(s) PROVE QueueTypes'
  BY <1>11, <1>13 DEF RegisterServer
<1> QED BY <1>1, <1>2, <1>3, <1>4, <1>5, <1>6, <1>7, <1>8, <1>9, <1>10, <1>11, <1>12, <1>13

(* So do those of the game servers. *)
LEMMA GameTypesStep ==
    ASSUME TypeInv, ConnectionInv, \A h \in Handlers : HandlerInv(h), [Next]_vars
    PROVE  GameTypes'
<1> USE DEF registryVars, linkVars, gameVars
<1>0. /\ RegistryTypes /\ QueueTypes /\ GameTypes
      /\ running \in [Instances -> Servers \union {None}] /\ session \in [Sessions -> Connections]
      /\ handler \in [Handlers -> Authentications]
      /\ clients \subseteq [user : Users, session : Sessions, server : Servers, instance : Instances]
  BY DEF TypeInv, GameTypes
<1>c. \A k : Closed(k) \in [Sessions -> Connections]
  BY <1>0 DEF Closed, Connections
<1>h. \A h : \A pc \in {"refused", "added", "done"} : At(h, pc) \in [Handlers -> Authentications]
  BY <1>0 DEF At, Authentications
<1>1. ASSUME NEW s \in Servers, LaunchGameInstance(s) PROVE GameTypes'
  BY <1>0, <1>1 DEF LaunchGameInstance, GameTypes
<1>2. ASSUME NEW k \in Sessions, NEW s \in Servers, NEW u \in Users, Connect(k, s, u) PROVE GameTypes'
  <2>1. [state |-> "open", server |-> s, user |-> u] \in Connections
    BY DEF Connections
  <2> QED BY <1>0, <1>2, <2>1 DEF Connect, GameTypes
<1>3. ASSUME NEW k \in Sessions, NEW h \in Handlers, Authenticate(h, k) PROVE GameTypes'
  <2>1. \A pc \in {"done", "asked"} : [pc |-> pc, session |-> k, instance |-> None] \in Authentications
    BY DEF Authentications
  <2>2. \/ session' = Closed(k) \/ session' = session
    BY <1>3 DEF Authenticate
  <2>3. \E pc \in {"done", "asked"} :
           handler' = [handler EXCEPT ![h] = [pc |-> pc, session |-> k, instance |-> None]]
    BY <1>3 DEF Authenticate
  <2>4. handler' \in [Handlers -> Authentications]
    BY <1>0, <2>1, <2>3
  <2>5. session' \in [Sessions -> Connections]
    BY <1>0, <1>c, <2>2
  <2> QED BY <1>0, <1>3, <2>4, <2>5 DEF Authenticate, GameTypes
<1>4. ASSUME NEW s \in Servers, ServeRequest(s) PROVE GameTypes'
  <2>1. PICK p \in Requested : p = Head(requests[s])
    BY <1>0, <1>4 DEF ServeRequest, QueueTypes
  <2>2. \/ p.op = "AuthenticatePlayer" /\ ServesAuthenticate(s, p.about)
        \/ handler' = handler
    BY <1>4, <2>1 DEF ServeRequest, ServesRemove
  <2>3. handler' \in [Handlers -> Authentications]
    <3>1. CASE p.op = "AuthenticatePlayer" /\ ServesAuthenticate(s, p.about)
      <4> DEFINE h == p.about  u == UserOf(h)
      <4>1. h \in Handlers /\ Holds(requests[s], AskOf(h))
        <5>1. h \in Handlers
          BY <3>1, PacketFacts
        <5>2. p \in AskOf(h)
          BY <3>1, <2>1 DEF AskOf, Requested
        <5>3. requests[s] \in Seq(Requested) /\ requests[s] # <<>>
          BY <1>0, <1>4 DEF QueueTypes, ServeRequest
        <5> QED BY <5>1, <5>2, <5>3, <2>1, HoldsTail
      <4>2. u \in Users
        BY <4>1 DEF HandlerInv
      <4>3. \/ handler' = [handler EXCEPT ![h].pc = "allowed", ![h].instance = users[u].parent]
            \/ handler' = At(h, "refused")
        BY <3>1 DEF ServesAuthenticate
      <4>4. users[u].parent \in Instances \union {None}
        BY <1>0, <4>2 DEF RegistryTypes, Registered
      <4> HIDE DEF h, u
      <4>5. ASSUME h \in Handlers, NEW i \in Instances \union {None}
            PROVE  [handler EXCEPT ![h].pc = "allowed", ![h].instance = i] \in [Handlers -> Authentications]
        <5>1. [handler[h] EXCEPT !.pc = "allowed", !.instance = i] \in Authentications
          BY <1>0, <4>5 DEF Authentications
        <5>2. [handler EXCEPT ![h].pc = "allowed", ![h].instance = i]
                = [handler EXCEPT ![h] = [handler[h] EXCEPT !.pc = "allowed", !.instance = i]]
          BY <1>0, <4>5 DEF Authentications
        <5> QED BY <1>0, <5>1, <5>2
      <4> QED BY <1>h, <4>1, <4>3, <4>4, <4>5
    <3> QED BY <1>0, <2>2, <3>1
  <2> QED BY <1>0, <1>4, <2>3 DEF ServeRequest, GameTypes
<1>5. ASSUME NEW h \in Handlers, Refused(h) \/ GiveUp(h) PROVE GameTypes'
  BY <1>0, <1>c, <1>h, <1>5 DEF Refused, GiveUp, GameTypes
<1>6. ASSUME NEW h \in Handlers, AddClient(h) PROVE GameTypes'
  <2>1. /\ handler[h].session \in Sessions /\ ServerOf(h) \in Servers /\ UserOf(h) \in Users
        /\ handler[h].instance \in Instances
    BY <1>6 DEF AddClient, HandlerInv
  <2>2. clients' = clients \union {[user |-> UserOf(h), session |-> handler[h].session,
            server |-> ServerOf(h), instance |-> handler[h].instance]}
    BY <1>6 DEF AddClient, Added
  <2> QED BY <1>0, <1>h, <1>6, <2>1, <2>2 DEF AddClient, GameTypes
<1>7. ASSUME NEW h \in Handlers, Spawn(h) PROVE GameTypes'
  BY <1>0, <1>h, <1>7 DEF Spawn, GameTypes
<1>8. ASSUME NEW k \in Sessions, Lose(k) PROVE GameTypes'
  <2>1. session' = [session EXCEPT ![k].state = "lost"] /\ clients' \subseteq clients
    BY <1>8 DEF Lose, Removed
  <2>2. session' \in [Sessions -> Connections]
    BY <1>0, <2>1 DEF Connections
  <2> QED BY <1>0, <1>8, <2>1, <2>2 DEF Lose, GameTypes
<1>9. ASSUME NEW i \in Instances, ShutdownInstance(i) PROVE GameTypes'
  BY <1>0, <1>9 DEF ShutdownInstance, GameTypes
<1>10. CASE UNCHANGED <<running, session, handler, clients>>
  BY <1>0, <1>10 DEF GameTypes
<1>11. \/ \E s \in Servers : LaunchGameInstance(s) \/ ServeRequest(s)
       \/ \E k \in Sessions : \/ Lose(k) \/ \E h \in Handlers : Authenticate(h, k)
                              \/ \E s \in Servers, u \in Users : Connect(k, s, u)
       \/ \E h \in Handlers : Refused(h) \/ GiveUp(h) \/ AddClient(h) \/ Spawn(h)
       \/ \E i \in Instances : ShutdownInstance(i)
       \/ UNCHANGED <<running, session, handler, clients>>
  BY DEF Next, vars, Launching, Coordination, Handling, RegisterServer, OpenChannel, LaunchThrows,
     HandleResponse, AddPlayer, AddPlayerResumes, Despawn, Left
<1> QED BY <1>1, <1>2, <1>3, <1>4, <1>5, <1>6, <1>7, <1>8, <1>9, <1>10, <1>11

(* Whoever is connected is a player at a server, and stays with it. *)
LEMMA ConnectionStep ==
    ASSUME TypeInv, ConnectionInv, [Next]_vars
    PROVE  /\ ConnectionInv'
           /\ \A k \in Sessions : session[k].state # "none" =>
                 /\ session'[k].state # "none"
                 /\ session'[k].server = session[k].server /\ session'[k].user = session[k].user
<1> USE DEF registryVars, linkVars, gameVars
<1> DEFINE Goal == /\ ConnectionInv'
                   /\ \A k \in Sessions : session[k].state # "none" =>
                         /\ session'[k].state # "none"
                         /\ session'[k].server = session[k].server /\ session'[k].user = session[k].user
<1>0. session \in [Sessions -> Connections]
  BY DEF TypeInv, GameTypes
<1>1. ASSUME NEW k, session' = Closed(k) PROVE Goal
  <2>1. \A j \in Sessions : /\ session'[j].server = session[j].server /\ session'[j].user = session[j].user
                            /\ session'[j].state = "none" <=> session[j].state = "none"
    BY <1>0, <1>1 DEF Closed, Connections
  <2> QED BY <2>1 DEF ConnectionInv
<1>2. ASSUME NEW k \in Sessions, Lose(k) PROVE Goal
  <2>1. \A j \in Sessions : /\ session'[j].server = session[j].server /\ session'[j].user = session[j].user
                            /\ session'[j].state = "none" <=> session[j].state = "none"
    BY <1>0, <1>2 DEF Lose, Connections
  <2> QED BY <2>1 DEF ConnectionInv
<1>3. ASSUME NEW k \in Sessions, NEW s \in Servers, NEW u \in Users, Connect(k, s, u) PROVE Goal
  BY <1>0, <1>3 DEF Connect, Connections, ConnectionInv
<1>4. CASE session' = session
  BY <1>4 DEF ConnectionInv
<1>5. \/ \E k : session' = Closed(k)
      \/ \E k \in Sessions : Lose(k) \/ \E s \in Servers, u \in Users : Connect(k, s, u)
      \/ session' = session
  BY DEF Next, vars, Launching, Coordination, Handling, RegisterServer, OpenChannel, LaunchGameInstance,
     LaunchThrows, HandleResponse, ServeRequest, AddPlayer, AddPlayerResumes, Authenticate, Refused, GiveUp,
     AddClient, Spawn, Despawn, Left, ShutdownInstance
<1> QED BY <1>1, <1>2, <1>3, <1>4, <1>5

(* A server opens its channel after it has been registered. *)
LEMMA ChannelStep ==
    ASSUME TypeInv, ChannelInv, [Next]_vars
    PROVE  ChannelInv'
<1> USE DEF registryVars, linkVars, gameVars
<1>0. /\ commands \in [Servers -> Seq(Command)] /\ responses \in [Servers -> Seq(Response)]
      /\ channel \subseteq servers /\ \A s \in Servers : Holds(responses[s], OpeningOf) => s \in servers
  BY DEF TypeInv, QueueTypes, ChannelInv
<1>a. ASSUME NEW s \in Servers, NEW e \in Response, responses' = [responses EXCEPT ![s] = Append(@, e)],
             e.op = "Authenticate" => s \in servers, UNCHANGED <<channel, servers>>
      PROVE  ChannelInv'
  <2>1. \A t \in Servers : Holds(responses'[t], OpeningOf) <=>
            Holds(responses[t], OpeningOf) \/ (t = s /\ e \in OpeningOf)
    <3>1. Sends(responses, responses', s, e) /\ e \in Packets
      BY <1>a, QueuesOfPackets DEF Sends
    <3>2. responses \in [Servers -> Seq(Packets)]
      BY QueuesOfPackets
    <3> HIDE <1>0
    <3> QED BY ONLY <3>1, <3>2, s \in Servers, Sent
  <2> QED BY <1>0, <1>a, <2>1 DEF ChannelInv, OpeningOf
<1>1. ASSUME NEW s \in Servers, OpenChannel(s) PROVE ChannelInv'
  BY <1>a, <1>1, PacketTypes DEF OpenChannel, SendCommandResponse
<1>2. ASSUME NEW s \in Servers, LaunchGameInstance(s) \/ LaunchThrows(s) PROVE ChannelInv'
  <2>1. PICK c \in Command :
           \/ responses' = [responses EXCEPT ![s] = Append(@,
                [op |-> "LaunchGameInstance", instance |-> c.instance, zone |-> c.zone])]
           \/ responses' = [responses EXCEPT ![s] = Append(@, [op |-> "Exception", instance |-> c.instance])]
    <3>1. commands[s] # <<>>
      BY <1>2 DEF LaunchGameInstance, LaunchThrows
    <3>2. Head(commands[s]) \in Command
      BY <1>0, <3>1
    <3> QED BY <1>2, <3>2 DEF LaunchGameInstance, LaunchThrows, SendCommandResponse
  <2>2. c.instance \in Instances /\ c.zone \in Places
    BY PacketFacts
  <2>3. UNCHANGED <<channel, servers>>
    BY <1>2 DEF LaunchGameInstance, LaunchThrows
  <2> QED BY <1>a, <2>1, <2>2, <2>3, PacketTypes
<1>3. ASSUME NEW s \in Servers, HandleResponse(s) PROVE ChannelInv'
  <2>1. /\ responses[s] # <<>> /\ responses' = [responses EXCEPT ![s] = Tail(@)] /\ servers' = servers
        /\ channel' = IF Head(responses[s]).op = "Authenticate" THEN channel \union {s} ELSE channel
    BY <1>3 DEF HandleResponse
  <2>2. /\ \A t \in Servers : Holds(responses'[t], OpeningOf) => Holds(responses[t], OpeningOf)
        /\ Head(responses[s]) \in Response
        /\ Head(responses[s]) \in OpeningOf => Holds(responses[s], OpeningOf)
    <3>1. Reads(responses, responses', s)
      BY <2>1 DEF Reads
    <3>2. Head(responses[s]) \in Response
      BY <1>0, <2>1
    <3> QED BY <3>1, <3>2, Read, QueuesOfPackets
  <2>3. Head(responses[s]).op = "Authenticate" => s \in servers
    BY <1>0, <2>2 DEF OpeningOf
  <2> QED BY <1>0, <2>1, <2>2, <2>3 DEF ChannelInv
<1>4. CASE UNCHANGED <<responses, channel>> /\ servers \subseteq servers'
  BY <1>0, <1>4 DEF ChannelInv
<1>5. \/ \E s \in Servers : OpenChannel(s) \/ LaunchGameInstance(s) \/ LaunchThrows(s) \/ HandleResponse(s)
      \/ UNCHANGED <<responses, channel>> /\ servers \subseteq servers'
  BY DEF Next, vars, Launching, Coordination, Handling, RegisterServer, ServeRequest, AddPlayer,
     AddPlayerResumes, Connect, Authenticate, Refused, GiveUp,
     AddClient, Spawn, Lose, Despawn, Left, ShutdownInstance
<1> QED BY <1>1, <1>2, <1>3, <1>4, <1>5

-----------------------------------------------------------------------------
(* Instances *)

(* Which packets are about what. *)
LEMMA AboutInstance ==
    ASSUME NEW i \in Instances
    PROVE  /\ \A c \in Command : c \in LaunchOf(i) <=> c.instance = i
           /\ \A p \in Response : /\ p \in AnswerOf(i) <=> p.instance = i
                                  /\ p \in LaunchedOf(i) <=> p.op = "LaunchGameInstance" /\ p.instance = i
           /\ \A p \in Requested : p \in RemovalOf(i) <=> p.op = "RemoveGameInstance" /\ p.about = i
<1>1. \A p \in Requested : p = [op |-> p.op, about |-> p.about]
  BY DEF Requested
<1> QED BY <1>1 DEF LaunchOf, AnswerOf, LaunchedOf, RemovalOf

(* The news of a launch is the answer to it. *)
LEMMA LaunchedIsAnswer ==
    ASSUME NEW i, NEW q
    PROVE  /\ Holds(q, LaunchedOf(i)) => Holds(q, AnswerOf(i))
           /\ LaunchedOf(i) \subseteq AnswerOf(i)
BY DEF Holds, LaunchedOf, AnswerOf

(* Other packets come and go, and the instance stays as it was. *)
LEMMA InstanceFrame ==
    ASSUME NEW i \in Instances, InstanceInv(i),
           Alike(commands, commands', LaunchOf(i)), Alike(responses, responses', AnswerOf(i)),
           Alike(responses, responses', LaunchedOf(i)), Alike(requests, requests', RemovalOf(i)),
           running'[i] = running[i], instances'[i].server = instances[i].server,
           i > published' => i > published
    PROVE  InstanceInv(i)'
<1>1. /\ Only(commands, LaunchOf(i))' /\ Only(responses, AnswerOf(i))' /\ Only(requests, RemovalOf(i))'
      /\ Nowhere(commands, LaunchOf(i))' <=> Nowhere(commands, LaunchOf(i))
      /\ Nowhere(responses, AnswerOf(i))' <=> Nowhere(responses, AnswerOf(i))
      /\ Nowhere(requests, RemovalOf(i))' <=> Nowhere(requests, RemovalOf(i))
  <2>1. LaunchOf(i)' = LaunchOf(i) /\ AnswerOf(i)' = AnswerOf(i) /\ RemovalOf(i)' = RemovalOf(i)
    BY DEF LaunchOf, AnswerOf, RemovalOf, Command, Response
  <2> QED BY <2>1, AlikeOnly DEF InstanceInv, Only, Nowhere
<1> QED BY <1>1 DEF InstanceInv, Alike

(* LaunchGameInstance and its failure: the request becomes an answer. *)
LEMMA LaunchStep ==
    ASSUME TypeInv, NEW i \in Instances, InstanceInv(i), NEW s \in Servers,
           LaunchGameInstance(s) \/ LaunchThrows(s)
    PROVE  InstanceInv(i)'
<1> DEFINE c == Head(commands[s])
<1>1. Reads(commands, commands', s) /\ c \in Command
  BY DEF LaunchGameInstance, LaunchThrows, Reads, TypeInv, QueueTypes
<1>2. PICK p \in Response :
         /\ p.instance = c.instance /\ Sends(responses, responses', s, p)
         /\ \/ p.op = "LaunchGameInstance" /\ running' = [running EXCEPT ![c.instance] = s]
            \/ p.op = "Exception" /\ running' = running
  <2>1. CASE LaunchGameInstance(s)
    <3> DEFINE p == [op |-> "LaunchGameInstance", instance |-> c.instance, zone |-> c.zone]
    <3>1. p \in Response /\ p.instance = c.instance /\ p.op = "LaunchGameInstance"
      BY <1>1, PacketFacts, PacketTypes
    <3>2. Sends(responses, responses', s, p) /\ running' = [running EXCEPT ![c.instance] = s]
      BY <2>1 DEF LaunchGameInstance, SendCommandResponse, Sends
    <3> HIDE DEF p, c
    <3> QED BY <3>1, <3>2
  <2>2. CASE LaunchThrows(s)
    <3> DEFINE p == [op |-> "Exception", instance |-> c.instance]
    <3>1. p \in Response /\ p.instance = c.instance /\ p.op = "Exception"
      BY <1>1, PacketFacts, PacketTypes
    <3>2. Sends(responses, responses', s, p) /\ running' = running
      BY <2>2 DEF LaunchThrows, SendCommandResponse, Sends, gameVars
    <3> HIDE DEF p, c
    <3> QED BY <3>1, <3>2
  <2> QED BY <2>1, <2>2
<1>3. requests' = requests /\ instances' = instances /\ published' = published
  BY DEF LaunchGameInstance, LaunchThrows, registryVars
<1> HIDE DEF c
<1>4. /\ \A T : /\ c \notin T => Alike(commands, commands', T)
                /\ c \in T => Holds(commands[s], T)
                /\ Only(commands, T) => Only(commands', T)
                /\ Only(commands, T) /\ c \in T => Nowhere(commands', T)
      /\ c.instance \in Instances
  BY <1>1, Read, QueuesOfPackets, PacketFacts DEF c
<1>5. \A T : /\ p \notin T => Alike(responses, responses', T)
             /\ Only(responses, T) /\ Nowhere(responses, T) => Only(responses', T)
             /\ \A t \in Servers : Holds(responses'[t], T) <=> Holds(responses[t], T) \/ (t = s /\ p \in T)
  <2>1. p \in Packets
    BY QueuesOfPackets
  <2> QED BY <1>2, <2>1, Sent, QueuesOfPackets
<1>6. running \in [Instances -> Servers \union {None}]
  BY DEF TypeInv, GameTypes
<1>7. CASE c.instance # i
  <2>1. c \notin LaunchOf(i) /\ p \notin AnswerOf(i) /\ p \notin LaunchedOf(i)
    BY <1>1, <1>2, <1>7, AboutInstance
  <2>2. running'[i] = running[i]
    BY <1>2, <1>4, <1>6, <1>7
  <2>3. Alike(requests, requests', RemovalOf(i))
    BY <1>3, AlikeSame
  <2> QED BY <1>3, <1>4, <1>5, <2>1, <2>2, <2>3, InstanceFrame
<1>8. CASE c.instance = i
  <2>1. /\ c \in LaunchOf(i) /\ p \in AnswerOf(i)
        /\ p \in LaunchedOf(i) <=> p.op = "LaunchGameInstance"
    BY <1>1, <1>2, <1>8, AboutInstance
  <2>2. Holds(commands[s], LaunchOf(i)) /\ Only(commands', LaunchOf(i)) /\ Nowhere(commands', LaunchOf(i))
    BY <1>4, <2>1 DEF InstanceInv
  <2>3. /\ running[i] = None /\ instances[i].server = None /\ ~ (i > published)
        /\ Nowhere(responses, AnswerOf(i)) /\ Nowhere(requests, RemovalOf(i))
    BY <2>2 DEF InstanceInv, Nowhere
  <2>4. /\ Only(responses', AnswerOf(i))
        /\ \A t \in Servers : Holds(responses'[t], AnswerOf(i)) <=> t = s
        /\ \A t \in Servers : Holds(responses'[t], LaunchedOf(i)) <=> t = s /\ p \in LaunchedOf(i)
    BY <1>5, <2>1, <2>3, LaunchedIsAnswer DEF InstanceInv, Nowhere
  <2>5. \/ p \in LaunchedOf(i) /\ running'[i] = s
        \/ p \notin LaunchedOf(i) /\ running'[i] = None
    BY <1>2, <1>6, <1>8, <2>1, <2>3
  <2>6. Only(requests, RemovalOf(i))
    BY DEF InstanceInv
  <2> QED BY ONLY <1>3, <2>2, <2>3, <2>4, <2>5, <2>6, ConstantFacts DEF InstanceInv, Nowhere
<1> QED BY <1>7, <1>8

(* CommandResponseChannelRunner reads: the registry has the instance from now on. *)
LEMMA ResponseStep ==
    ASSUME TypeInv, NEW i \in Instances, InstanceInv(i), NEW s \in Servers, HandleResponse(s)
    PROVE  InstanceInv(i)'
<1> DEFINE p == Head(responses[s])
<1>1. Reads(responses, responses', s) /\ p \in Response
  BY DEF HandleResponse, Reads, TypeInv, QueueTypes
<1>2. /\ commands' = commands /\ requests' = requests /\ published' = published /\ running' = running
      /\ instances' = IF p.op = "LaunchGameInstance" THEN Launched(s, p) ELSE instances
  BY DEF HandleResponse, gameVars
<1> HIDE DEF p
<1>3. \A T : /\ p \notin T => Alike(responses, responses', T)
             /\ p \in T => Holds(responses[s], T)
             /\ Only(responses, T) => Only(responses', T)
             /\ Only(responses, T) /\ p \in T => Nowhere(responses', T)
  BY <1>1, Read, QueuesOfPackets DEF p
<1>4. instances \in [Instances -> [server : Servers \union {None}, zone : Places]]
  BY DEF TypeInv, RegistryTypes
<1>5. p.op = "LaunchGameInstance" /\ p.instance = i => instances'[i].server = s
  BY <1>2, <1>4 DEF Launched
<1>6. p.op # "LaunchGameInstance" \/ p.instance # i => instances'[i].server = instances[i].server
  BY <1>2, <1>4 DEF Launched
<1>7. CASE p.instance # i
  <2>1. p \notin AnswerOf(i) /\ p \notin LaunchedOf(i)
    BY <1>1, <1>7, AboutInstance
  <2> QED BY <1>2, <1>3, <1>6, <1>7, <2>1, InstanceFrame, AlikeSame
<1>8. CASE p.instance = i
  <2>1. p \in AnswerOf(i) /\ (p \in LaunchedOf(i) <=> p.op = "LaunchGameInstance")
    BY <1>1, <1>8, AboutInstance
  <2>2. /\ Holds(responses[s], AnswerOf(i)) /\ Only(responses', AnswerOf(i)) /\ Nowhere(responses', AnswerOf(i))
        /\ Nowhere(responses', LaunchedOf(i))
    BY <1>3, <2>1, LaunchedIsAnswer DEF InstanceInv, Nowhere
  <2>3. /\ instances[i].server = None /\ Nowhere(requests, RemovalOf(i)) /\ Nowhere(commands, LaunchOf(i))
        /\ ~ (i > published)
    BY <2>2 DEF InstanceInv, Nowhere
  <2>4. /\ p \in LaunchedOf(i) => running[i] = s
        /\ p \notin LaunchedOf(i) => \A t \in Servers : running[i] # t
    <3>1. p \in LaunchedOf(i) => running[i] = s
      BY <1>3 DEF InstanceInv
    <3>2. p \notin LaunchedOf(i) => Nowhere(responses, LaunchedOf(i))
      BY <1>3, <2>2 DEF Alike, Nowhere
    <3>3. \A t \in Servers : running[i] = t => t = None \/ Holds(responses[t], LaunchedOf(i))
      BY <2>3 DEF InstanceInv
    <3> QED BY <3>1, <3>2, <3>3, ConstantFacts DEF Nowhere
  <2>5. Only(requests, RemovalOf(i)) /\ Only(commands, LaunchOf(i))
    BY DEF InstanceInv
  <2>6. \/ p \in LaunchedOf(i) /\ instances'[i].server = s
        \/ p \notin LaunchedOf(i) /\ instances'[i].server = None
    BY <1>5, <1>6, <1>8, <2>1, <2>3
  <2> QED BY ONLY s \in Servers, <1>2, <2>2, <2>3, <2>4, <2>5, <2>6, ConstantFacts DEF InstanceInv, Nowhere
<1> QED BY <1>7, <1>8

(* AddPlayer asks for an instance that has not been asked for. *)
LEMMA AddPlayerInstance ==
    ASSUME TypeInv, NEW i \in Instances, InstanceInv(i), NEW u \in Users, AddPlayer(u)
    PROVE  InstanceInv(i)'
<1>1. responses' = responses /\ requests' = requests /\ instances' = instances /\ running' = running
  BY DEF AddPlayer, gameVars
<1>2. /\ published \in 0 .. MaxInstances /\ servers \subseteq Servers
      /\ commands \in [Servers -> Seq(Packets)]
  BY QueuesOfPackets DEF TypeInv, RegistryTypes
<1>3. CASE commands' = commands /\ published' = published
  BY <1>1, <1>3, InstanceFrame, AlikeSame
<1>4. ASSUME NEW s \in Servers, published < MaxInstances, published' = published + 1,
             commands' = [commands EXCEPT ![s] = Append(@, [instance |-> published + 1, zone |-> Zone[u]])]
      PROVE  InstanceInv(i)'
  <2> DEFINE c == [instance |-> published + 1, zone |-> Zone[u]]
  <2>1. published + 1 \in Instances
    BY <1>2, <1>4, ConstantFacts DEF Instances
  <2>2. c \in Command /\ c \in Packets /\ c.instance = published + 1
    BY <2>1, PacketTypes, QueuesOfPackets
  <2>3. Sends(commands, commands', s, c)
    BY <1>4 DEF Sends
  <2> HIDE DEF c
  <2>4. \A T : /\ c \notin T => Alike(commands, commands', T)
               /\ Only(commands, T) /\ Nowhere(commands, T) => Only(commands', T)
               /\ \A t \in Servers : Holds(commands'[t], T) <=> Holds(commands[t], T) \/ (t = s /\ c \in T)
    BY <1>2, <2>2, <2>3, Sent
  <2>5. CASE i # published + 1
    <3>1. c \notin LaunchOf(i)
      BY <2>2, <2>5, AboutInstance
    <3>2. i > published' => i > published
      BY <1>2, <1>4, ConstantFacts
    <3> QED BY <1>1, <2>4, <3>1, <3>2, InstanceFrame, AlikeSame
  <2>6. CASE i = published + 1
    <3>1. i > published /\ ~ (i > published') /\ c \in LaunchOf(i)
      BY <1>2, <1>4, <2>2, <2>6, AboutInstance
    <3>2. /\ Nowhere(commands, LaunchOf(i)) /\ Nowhere(responses, AnswerOf(i))
          /\ Nowhere(requests, RemovalOf(i)) /\ running[i] = None /\ instances[i].server = None
      BY <3>1 DEF InstanceInv
    <3>3. /\ Only(commands', LaunchOf(i)) /\ Only(responses, AnswerOf(i)) /\ Only(requests, RemovalOf(i))
          /\ \A t \in Servers : Holds(commands'[t], LaunchOf(i)) <=> t = s
      BY <2>4, <3>1, <3>2 DEF InstanceInv, Nowhere
    <3>4. Nowhere(responses, LaunchedOf(i))
      BY <3>2, LaunchedIsAnswer DEF Nowhere
    <3> QED BY ONLY <1>1, <3>1, <3>2, <3>3, <3>4, ConstantFacts DEF InstanceInv, Nowhere
  <2> QED BY <2>5, <2>6
<1>5. \/ commands' = commands /\ published' = published
      \/ \E s \in servers : /\ published < MaxInstances /\ published' = published + 1
                            /\ commands' = [commands EXCEPT ![s] =
                                  Append(@, [instance |-> published + 1, zone |-> Zone[u]])]
  BY DEF AddPlayer, Select
<1> QED BY <1>2, <1>3, <1>4, <1>5

(* A request that is about a player changes no instance. *)
LEMMA OtherRequest ==
    ASSUME TypeInv, NEW i \in Instances, InstanceInv(i), NEW s \in Servers, NEW e \in Requested,
           e.op # "RemoveGameInstance", requests' = [requests EXCEPT ![s] = Append(@, e)],
           UNCHANGED <<commands, responses, running, instances, published>>
    PROVE  InstanceInv(i)'
<1>1. Sends(requests, requests', s, e) /\ e \in Packets /\ e \notin RemovalOf(i)
  BY AboutInstance, QueuesOfPackets DEF Sends
<1>2. Alike(requests, requests', RemovalOf(i))
  <2>1. requests \in [Servers -> Seq(Packets)]
    BY QueuesOfPackets
  <2> QED BY ONLY s \in Servers, <1>1, <2>1, Sent
<1> QED BY <1>2, InstanceFrame, AlikeSame

(* The timer of an empty instance asks for its removal, once. *)
LEMMA ShutdownStep ==
    ASSUME TypeInv, NEW i \in Instances, InstanceInv(i), NEW j \in Instances, ShutdownInstance(j)
    PROVE  InstanceInv(i)'
<1> DEFINE e == [op |-> "RemoveGameInstance", about |-> j]  s == running[j]
<1>1. /\ running \in [Instances -> Servers \union {None}]
      /\ instances \in [Instances -> [server : Servers \union {None}, zone : Places]]
  BY DEF TypeInv, GameTypes, RegistryTypes
<1>2. /\ running[j] # None /\ instances[j].server # None /\ running' = [running EXCEPT ![j] = None]
      /\ requests' = [requests EXCEPT ![s] = Append(@, e)]
      /\ commands' = commands /\ responses' = responses /\ instances' = instances /\ published' = published
  BY DEF ShutdownInstance, Request, registryVars
<1>3. s \in Servers /\ e \in Requested /\ e \in Packets /\ e.op = "RemoveGameInstance" /\ e.about = j
      /\ Sends(requests, requests', s, e)
  BY <1>1, <1>2, PacketTypes, QueuesOfPackets DEF Sends
<1> HIDE DEF e
<1>4. \A T : /\ e \notin T => Alike(requests, requests', T)
             /\ Only(requests, T) /\ Nowhere(requests, T) => Only(requests', T)
             /\ \A t \in Servers : Holds(requests'[t], T) <=> Holds(requests[t], T) \/ (t = s /\ e \in T)
  <2>1. requests \in [Servers -> Seq(Packets)]
    BY QueuesOfPackets
  <2> HIDE DEF s
  <2> QED BY ONLY <1>3, <2>1, Sent
<1>5. CASE i # j
  <2>1. e \notin RemovalOf(i)
    BY <1>3, <1>5, AboutInstance
  <2>2. running'[i] = running[i]
    BY <1>1, <1>2, <1>5
  <2> QED BY <1>2, <1>4, <2>1, <2>2, InstanceFrame, AlikeSame
<1>6. CASE i = j
  <2>1. e \in RemovalOf(i) /\ running'[i] = None /\ running[i] = s /\ s # None
    BY <1>1, <1>2, <1>3, <1>6, AboutInstance
  <2>2. /\ Nowhere(requests, RemovalOf(i)) /\ ~ (i > published)
        /\ Nowhere(commands, LaunchOf(i)) /\ Nowhere(responses, AnswerOf(i))
    BY <1>2, <1>6, <2>1 DEF InstanceInv, Nowhere
  <2>3. Nowhere(responses, LaunchedOf(i))
    BY <2>2, LaunchedIsAnswer DEF Nowhere
  <2>4. instances[i].server = s
    BY <1>3, <2>1, <2>3 DEF InstanceInv, Nowhere
  <2>5. /\ Only(requests', RemovalOf(i)) /\ \A t \in Servers : Holds(requests'[t], RemovalOf(i)) <=> t = s
        /\ Only(commands, LaunchOf(i)) /\ Only(responses, AnswerOf(i))
    BY <1>4, <2>1, <2>2 DEF InstanceInv, Nowhere
  <2> HIDE DEF s
  <2> QED BY ONLY <1>2, <2>1, <2>2, <2>3, <2>4, <2>5, ConstantFacts DEF InstanceInv, Nowhere
<1> QED BY <1>5, <1>6

(* The coordination service serves a request: a removal is the last it hears of an instance. *)
LEMMA ServeInstance ==
    ASSUME TypeInv, NEW i \in Instances, InstanceInv(i), NEW s \in Servers, ServeRequest(s)
    PROVE  InstanceInv(i)'
<1> DEFINE p == Head(requests[s])
<1>1. Reads(requests, requests', s) /\ p \in Requested
  BY DEF ServeRequest, Reads, TypeInv, QueueTypes
<1>2. /\ commands' = commands /\ responses' = responses /\ published' = published /\ running' = running
      /\ \/ p.op # "RemoveGameInstance" /\ instances' = instances
         \/ /\ p.op = "RemoveGameInstance"
            /\ instances' = [instances EXCEPT ![p.about] = [server |-> None, zone |-> None]]
  BY DEF ServeRequest
<1> HIDE DEF p
<1>3. \A T : /\ p \notin T => Alike(requests, requests', T)
             /\ p \in T => Holds(requests[s], T)
             /\ Only(requests, T) => Only(requests', T)
             /\ Only(requests, T) /\ p \in T => Nowhere(requests', T)
  BY <1>1, Read, QueuesOfPackets DEF p
<1>4. instances \in [Instances -> [server : Servers \union {None}, zone : Places]]
  BY DEF TypeInv, RegistryTypes
<1>5. CASE p \notin RemovalOf(i)
  <2>1. instances'[i].server = instances[i].server
    BY <1>1, <1>2, <1>4, <1>5, AboutInstance
  <2> QED BY <1>2, <1>3, <1>5, <2>1, InstanceFrame, AlikeSame
<1>6. CASE p \in RemovalOf(i)
  <2>1. instances'[i].server = None
    BY <1>1, <1>2, <1>4, <1>6, AboutInstance
  <2>2. Holds(requests[s], RemovalOf(i)) /\ Only(requests', RemovalOf(i)) /\ Nowhere(requests', RemovalOf(i))
    BY <1>3, <1>6 DEF InstanceInv
  <2>3. /\ running[i] = None /\ ~ (i > published)
        /\ Nowhere(commands, LaunchOf(i)) /\ Nowhere(responses, AnswerOf(i))
    BY <2>2 DEF InstanceInv, Nowhere
  <2>4. Nowhere(responses, LaunchedOf(i)) /\ Only(commands, LaunchOf(i)) /\ Only(responses, AnswerOf(i))
    BY <2>3, LaunchedIsAnswer DEF Nowhere, InstanceInv
  <2> QED BY ONLY <1>2, <2>1, <2>2, <2>3, <2>4, ConstantFacts DEF InstanceInv, Nowhere
<1> QED BY <1>5, <1>6

(* What any step does to an instance. *)
LEMMA InstanceStep ==
    ASSUME TypeInv, ConnectionInv, \A h \in Handlers : HandlerInv(h), [Next]_vars,
           NEW i \in Instances, InstanceInv(i)
    PROVE  InstanceInv(i)'
<1> USE DEF registryVars, linkVars, gameVars
<1>0. /\ \A c \in clients : c.user \in Users
      /\ running \in [Instances -> Servers \union {None}]
  BY DEF TypeInv, GameTypes
<1>1. ASSUME NEW s \in Servers, OpenChannel(s) PROVE InstanceInv(i)'
  <2> DEFINE p == [op |-> "Authenticate", instance |-> None]
  <2>1. /\ Sends(responses, responses', s, p)
        /\ UNCHANGED <<commands, requests, running, instances, published>>
    BY <1>1 DEF OpenChannel, SendCommandResponse, Sends
  <2>2. p \in Packets /\ p \notin AnswerOf(i) /\ p \notin LaunchedOf(i)
    BY PacketTypes, QueuesOfPackets, AboutInstance, ConstantFacts
  <2>3. responses \in [Servers -> Seq(Packets)]
    BY QueuesOfPackets
  <2> HIDE DEF p
  <2>4. Alike(responses, responses', AnswerOf(i)) /\ Alike(responses, responses', LaunchedOf(i))
    BY ONLY s \in Servers, <2>1, <2>2, <2>3, Sent
  <2> QED BY <2>1, <2>4, InstanceFrame, AlikeSame
<1>2. ASSUME NEW k \in Sessions, NEW h \in Handlers, Authenticate(h, k) PROVE InstanceInv(i)'
  <2>1. session[k].server \in Servers /\ [op |-> "AuthenticatePlayer", about |-> h] \in Requested
    BY <1>2, PacketTypes DEF Authenticate, ConnectionInv
  <2>2. UNCHANGED <<commands, responses, running, instances, published>>
    BY <1>2 DEF Authenticate
  <2>3. CASE requests' = requests
    BY <2>2, <2>3, InstanceFrame, AlikeSame
  <2>4. CASE requests' = [requests EXCEPT ![session[k].server] =
                             Append(@, [op |-> "AuthenticatePlayer", about |-> h])]
    BY <2>1, <2>2, <2>4, OtherRequest
  <2> QED BY <1>2, <2>3, <2>4 DEF Authenticate, Request
<1>3. ASSUME NEW h \in Handlers, GiveUp(h) PROVE InstanceInv(i)'
  <2>1. ServerOf(h) \in Servers /\ [op |-> "RemovePlayer", about |-> UserOf(h)] \in Requested
    BY <1>3, PacketTypes DEF GiveUp, HandlerInv
  <2>2. UNCHANGED <<commands, responses, running, instances, published>>
    BY <1>3 DEF GiveUp
  <2>3. requests' = [requests EXCEPT ![ServerOf(h)] = Append(@, [op |-> "RemovePlayer", about |-> UserOf(h)])]
    BY <1>3 DEF GiveUp, Request
  <2> QED BY <2>1, <2>2, <2>3, OtherRequest
<1>4. ASSUME NEW k \in Sessions, Lose(k) PROVE InstanceInv(i)'
  <2>1. session[k].server \in Servers
    BY <1>4 DEF Lose, ConnectionInv
  <2>2. UNCHANGED <<commands, responses, running, instances, published>>
    BY <1>4 DEF Lose
  <2>3. CASE requests' = requests
    BY <2>2, <2>3, InstanceFrame, AlikeSame
  <2>4. ASSUME NEW c \in clients, requests' = [requests EXCEPT ![session[k].server] =
                             Append(@, [op |-> "RemovePlayer", about |-> c.user])]
        PROVE  InstanceInv(i)'
    <3>1. [op |-> "RemovePlayer", about |-> c.user] \in Requested
      BY <1>0, PacketTypes
    <3> QED BY <2>1, <2>2, <2>4, <3>1, OtherRequest
  <2> QED BY <1>4, <2>3, <2>4 DEF Lose, RemoveRequested, Request, FindClient
<1>5. CASE UNCHANGED <<commands, responses, requests, running, instances, published>>
  BY <1>5, InstanceFrame, AlikeSame
<1>6. \/ \E s \in Servers : \/ OpenChannel(s) \/ LaunchGameInstance(s) \/ LaunchThrows(s)
                            \/ HandleResponse(s) \/ ServeRequest(s)
      \/ \E u \in Users : AddPlayer(u)
      \/ \E k \in Sessions : Lose(k) \/ \E h \in Handlers : Authenticate(h, k)
      \/ \E h \in Handlers : GiveUp(h)
      \/ \E j \in Instances : ShutdownInstance(j)
      \/ UNCHANGED <<commands, responses, requests, running, instances, published>>
  BY DEF Next, vars, Launching, Coordination, Handling, RegisterServer, AddPlayerResumes, Connect,
     Refused, AddClient, Spawn, Despawn, Left
<1> QED BY <1>1, <1>2, <1>3, <1>4, <1>5, <1>6, LaunchStep, ResponseStep, AddPlayerInstance,
           ShutdownStep, ServeInstance

-----------------------------------------------------------------------------
(* Handlers *)

(* Which requests are about what. *)
LEMMA AboutRequest ==
    /\ \A h \in Handlers : \A p \in Requested :
          p \in AskOf(h) <=> p.op = "AuthenticatePlayer" /\ p.about = h
    /\ \A u \in Users : \A p \in Requested :
          p \in LeaveOf(u) <=> p.op = "RemovePlayer" /\ p.about = u
<1>1. \A p \in Requested : p = [op |-> p.op, about |-> p.about]
  BY DEF Requested
<1> QED BY <1>1 DEF AskOf, LeaveOf

(* A request is sent: it is in the queues of its server, the others are as they were. *)
LEMMA RequestSent ==
    ASSUME TypeInv, NEW s \in Servers, NEW e \in Requested,
           requests' = [requests EXCEPT ![s] = Append(@, e)]
    PROVE  \A T : /\ e \notin T => Alike(requests, requests', T)
                  /\ Only(requests, T) /\ Nowhere(requests, T) => Only(requests', T)
                  /\ \A t \in Servers : Holds(requests'[t], T) <=> Holds(requests[t], T) \/ (t = s /\ e \in T)
<1>1. requests \in [Servers -> Seq(Packets)] /\ e \in Packets /\ Sends(requests, requests', s, e)
  BY QueuesOfPackets DEF Sends
<1> QED BY ONLY s \in Servers, <1>1, Sent

(* A request is served. *)
LEMMA RequestServed ==
    ASSUME TypeInv, NEW s \in Servers, ServeRequest(s)
    PROVE  /\ Head(requests[s]) \in Requested
           /\ \A T : /\ Head(requests[s]) \notin T => Alike(requests, requests', T)
                     /\ Head(requests[s]) \in T => Holds(requests[s], T)
                     /\ Only(requests, T) => Only(requests', T)
                     /\ Only(requests, T) /\ Head(requests[s]) \in T => Nowhere(requests', T)
<1>1. Reads(requests, requests', s) /\ Head(requests[s]) \in Requested
  BY DEF ServeRequest, Reads, TypeInv, QueueTypes
<1>2. requests \in [Servers -> Seq(Packets)]
  BY QueuesOfPackets
<1> QED BY ONLY s \in Servers, <1>1, <1>2, Read

(* The session of a coroutine stays who it is. *)
LEMMA SessionStays ==
    ASSUME TypeInv, ConnectionInv, [Next]_vars, NEW h \in Handlers, HandlerInv(h), handler[h].pc # "idle",
           handler'[h].session = handler[h].session
    PROVE  /\ handler'[h].session \in Sessions /\ session'[handler'[h].session].state # "none"
           /\ ServerOf(h)' = ServerOf(h) /\ UserOf(h)' = UserOf(h)
           /\ ServerOf(h) \in Servers /\ UserOf(h) \in Users
<1>1. handler[h].session \in Sessions /\ session[handler[h].session].state # "none"
      /\ ServerOf(h) \in Servers /\ UserOf(h) \in Users
  BY DEF HandlerInv
<1> QED BY <1>1, ConnectionStep DEF ServerOf, UserOf

(* A step of other coroutines. *)
LEMMA HandlerFrame ==
    ASSUME TypeInv, ConnectionInv, [Next]_vars, NEW h \in Handlers, HandlerInv(h),
           handler'[h] = handler[h], Alike(requests, requests', AskOf(h))
    PROVE  HandlerInv(h)'
<1>1. Only(requests', AskOf(h)) /\ \A s \in Servers : Holds(requests'[s], AskOf(h)) <=> Holds(requests[s], AskOf(h))
  BY AlikeOnly DEF HandlerInv, Alike
<1>2. handler[h].pc # "idle" =>
         /\ handler'[h].session \in Sessions /\ session'[handler'[h].session].state # "none"
         /\ ServerOf(h)' \in Servers /\ UserOf(h)' \in Users
  BY SessionStays
<1> QED BY <1>1, <1>2 DEF HandlerInv, AskOf

(* A step of the coroutine itself, which waits for no answer. *)
LEMMA HandlerGoesOn ==
    ASSUME TypeInv, ConnectionInv, [Next]_vars, NEW h \in Handlers, HandlerInv(h),
           handler[h].pc \in {"allowed", "refused", "added"}, NEW pc \in {"added", "done"},
           handler' = At(h, pc), Alike(requests, requests', AskOf(h))
    PROVE  HandlerInv(h)'
<1>1. handler \in [Handlers -> Authentications]
  BY DEF TypeInv, GameTypes
<1>2. handler'[h].pc = pc /\ handler'[h].session = handler[h].session
  BY <1>1 DEF At, Authentications
<1>3. Nowhere(requests, AskOf(h))
  BY DEF HandlerInv, Nowhere
<1>4. Only(requests', AskOf(h)) /\ Nowhere(requests', AskOf(h))
  BY <1>3, AlikeOnly DEF HandlerInv
<1>5. /\ handler'[h].session \in Sessions /\ session'[handler'[h].session].state # "none"
      /\ ServerOf(h)' \in Servers /\ UserOf(h)' \in Users
  BY <1>2, SessionStays
<1> QED BY <1>2, <1>4, <1>5 DEF HandlerInv, AskOf, Nowhere

(* A coroutine asks: nobody has asked for it before. *)
LEMMA AuthenticateStep ==
    ASSUME TypeInv, ConnectionInv, [Next]_vars, NEW h \in Handlers, HandlerInv(h),
           NEW k \in Sessions, NEW g \in Handlers, Authenticate(g, k)
    PROVE  HandlerInv(h)'
<1>0. handler \in [Handlers -> Authentications] /\ session[k].server \in Servers /\ session[k].user \in Users
      /\ session[k].state # "none"
  BY DEF TypeInv, GameTypes, ConnectionInv, Authenticate
<1> DEFINE e == [op |-> "AuthenticatePlayer", about |-> g]
<1>1. e \in Requested
  BY PacketTypes
<1>2. /\ handler[g] = Idle
      /\ \/ /\ handler' = [handler EXCEPT ![g] = [pc |-> "done", session |-> k, instance |-> None]]
            /\ requests' = requests
         \/ /\ handler' = [handler EXCEPT ![g] = [pc |-> "asked", session |-> k, instance |-> None]]
            /\ requests' = [requests EXCEPT ![session[k].server] = Append(@, e)]
  BY DEF Authenticate, Request
<1> DEFINE d == session[k].server
<1>3. ASSUME requests' = [requests EXCEPT ![d] = Append(@, e)]
      PROVE  \A T : /\ e \notin T => Alike(requests, requests', T)
                    /\ Only(requests, T) /\ Nowhere(requests, T) => Only(requests', T)
                    /\ \A t \in Servers : Holds(requests'[t], T) <=> Holds(requests[t], T) \/ (t = d /\ e \in T)
  <2>1. d \in Servers
    BY <1>0
  <2> HIDE DEF d, e
  <2> QED BY ONLY TypeInv, <1>1, <1>3, <2>1, RequestSent
<1>4. CASE g # h
  <2>1. handler'[h] = handler[h]
    BY <1>0, <1>2, <1>4
  <2>2. e \notin AskOf(h)
    BY <1>1, <1>4, AboutRequest
  <2>3. Alike(requests, requests', AskOf(h))
    BY <1>2, <1>3, <2>2, AlikeSame
  <2> QED BY <2>1, <2>3, HandlerFrame
<1>5. CASE g = h
  <2>1. Nowhere(requests, AskOf(h)) /\ Only(requests, AskOf(h))
    BY <1>2, <1>5 DEF HandlerInv, Nowhere, Idle
  <2>2. \/ /\ handler'[h] = [pc |-> "done", session |-> k, instance |-> None] /\ requests' = requests
        \/ /\ handler'[h] = [pc |-> "asked", session |-> k, instance |-> None]
           /\ Only(requests', AskOf(h))
    BY <1>0, <1>2, <1>3, <1>5, <2>1
  <2>3. session'[k].state # "none" /\ session'[k].server \in Servers /\ session'[k].user \in Users
    BY <1>0, ConnectionStep
  <2> HIDE DEF e
  <2> QED BY <2>1, <2>2, <2>3 DEF HandlerInv, Nowhere, ServerOf, UserOf, AskOf
<1> QED BY <1>4, <1>5

(* A coroutine is answered: nobody asks for it any more. *)
LEMMA AnsweredStep ==
    ASSUME TypeInv, ConnectionInv, [Next]_vars, NEW h \in Handlers, HandlerInv(h),
           \A u \in Users : UserInv(u), NEW s \in Servers, ServeRequest(s)
    PROVE  HandlerInv(h)'
<1> DEFINE p == Head(requests[s])
<1>1. /\ p \in Requested
      /\ \A T : /\ p \notin T => Alike(requests, requests', T)
                /\ p \in T => Holds(requests[s], T)
                /\ Only(requests, T) => Only(requests', T)
                /\ Only(requests, T) /\ p \in T => Nowhere(requests', T)
  BY RequestServed
<1>2. \/ p.op = "AuthenticatePlayer" /\ ServesAuthenticate(s, p.about)
      \/ p.op # "AuthenticatePlayer" /\ handler' = handler
  BY DEF ServeRequest, ServesRemove
<1> HIDE DEF p
<1>3. handler \in [Handlers -> Authentications]
  BY DEF TypeInv, GameTypes
<1>4. CASE p \notin AskOf(h)
  <2>1. handler'[h] = handler[h]
    BY <1>1, <1>2, <1>3, <1>4, AboutRequest DEF ServesAuthenticate, At
  <2> QED BY <1>1, <1>4, <2>1, HandlerFrame
<1>5. CASE p \in AskOf(h)
  <2>1. p.op = "AuthenticatePlayer" /\ p.about = h
    BY <1>1, <1>5, AboutRequest
  <2>2. Only(requests', AskOf(h)) /\ Nowhere(requests', AskOf(h)) /\ handler[h].pc = "asked"
    BY <1>1, <1>5 DEF HandlerInv
  <2>3. UserOf(h) \in Users
    BY <2>2 DEF HandlerInv
  <2>4. \/ /\ users[UserOf(h)].migrating
           /\ handler' = [handler EXCEPT ![h].pc = "allowed", ![h].instance = users[UserOf(h)].parent]
        \/ handler' = At(h, "refused")
    BY <1>2, <2>1 DEF ServesAuthenticate
  <2>5. \/ handler'[h].pc = "allowed" /\ handler'[h].instance \in Instances
        \/ handler'[h].pc = "refused"
    BY <1>3, <2>3, <2>4 DEF UserInv, Entering, At, Authentications
  <2>6. handler'[h].session = handler[h].session
    BY <1>3, <2>4 DEF At, Authentications
  <2>7. /\ handler'[h].session \in Sessions /\ session'[handler'[h].session].state # "none"
        /\ ServerOf(h)' \in Servers /\ UserOf(h)' \in Users
    BY <2>2, <2>6, SessionStays
  <2> QED BY <2>2, <2>5, <2>7 DEF HandlerInv, AskOf, Nowhere
<1> QED BY <1>4, <1>5

(* What any step does to a coroutine. *)
LEMMA HandlerStep ==
    ASSUME TypeInv, ConnectionInv, \A g \in Handlers : HandlerInv(g), \A u \in Users : UserInv(u),
           [Next]_vars, NEW h \in Handlers
    PROVE  HandlerInv(h)'
<1> USE DEF registryVars, linkVars, gameVars
<1>0. /\ \A c \in clients : c.user \in Users
      /\ running \in [Instances -> Servers \union {None}] /\ handler \in [Handlers -> Authentications]
  BY DEF TypeInv, GameTypes
<1>1. ASSUME NEW s \in Servers, NEW e \in Requested, e.op # "AuthenticatePlayer",
             requests' = [requests EXCEPT ![s] = Append(@, e)]
      PROVE  Alike(requests, requests', AskOf(h))
  <2>1. e \notin AskOf(h)
    BY <1>1, AboutRequest
  <2> QED BY <1>1, <2>1, RequestSent
<1>2. ASSUME NEW g \in Handlers, NEW pc \in {"added", "done"}, handler' = At(g, pc),
             handler[g].pc \in {"allowed", "refused", "added"}, Alike(requests, requests', AskOf(h))
      PROVE  HandlerInv(h)'
  <2>1. CASE g = h
    BY <1>2, <2>1, HandlerGoesOn
  <2>2. CASE g # h
    <3>1. handler'[h] = handler[h]
      BY <1>0, <1>2, <2>2 DEF At
    <3> QED BY <1>2, <3>1, HandlerFrame
  <2> QED BY <2>1, <2>2
<1>3. ASSUME NEW g \in Handlers, Refused(g) \/ AddClient(g) \/ Spawn(g) PROVE HandlerInv(h)'
  <2>1. \E pc \in {"added", "done"} : handler' = At(g, pc)
    BY <1>3 DEF Refused, AddClient, Spawn
  <2>2. handler[g].pc \in {"allowed", "refused", "added"} /\ requests' = requests
    BY <1>3 DEF Refused, AddClient, Spawn
  <2>3. Alike(requests, requests', AskOf(h))
    BY <2>2, AlikeSame
  <2> QED BY <1>2, <2>1, <2>2, <2>3
<1>4. ASSUME NEW g \in Handlers, GiveUp(g) PROVE HandlerInv(h)'
  <2>1. ServerOf(g) \in Servers /\ [op |-> "RemovePlayer", about |-> UserOf(g)] \in Requested
    BY <1>4, PacketTypes DEF GiveUp, HandlerInv
  <2>2. requests' = [requests EXCEPT ![ServerOf(g)] = Append(@, [op |-> "RemovePlayer", about |-> UserOf(g)])]
    BY <1>4 DEF GiveUp, Request
  <2>3. Alike(requests, requests', AskOf(h))
    BY <1>1, <2>1, <2>2
  <2>4. handler' = At(g, "done") /\ handler[g].pc \in {"allowed", "refused", "added"}
    BY <1>4 DEF GiveUp
  <2> QED BY <1>2, <2>3, <2>4
<1>5. ASSUME NEW k \in Sessions, Lose(k) PROVE HandlerInv(h)'
  <2>1. session[k].server \in Servers
    BY <1>5 DEF Lose, ConnectionInv
  <2>2. \/ requests' = requests
        \/ \E c \in clients : requests' = [requests EXCEPT ![session[k].server] =
                             Append(@, [op |-> "RemovePlayer", about |-> c.user])]
    BY <1>5 DEF Lose, RemoveRequested, Request, FindClient
  <2>3. \A c \in clients : [op |-> "RemovePlayer", about |-> c.user] \in Requested
    BY <1>0, PacketTypes
  <2>4. Alike(requests, requests', AskOf(h))
    BY <1>1, <2>1, <2>2, <2>3, AlikeSame
  <2>5. handler' = handler
    BY <1>5 DEF Lose
  <2> QED BY <2>4, <2>5, HandlerFrame
<1>6. ASSUME NEW j \in Instances, ShutdownInstance(j) PROVE HandlerInv(h)'
  <2>1. running[j] \in Servers /\ [op |-> "RemoveGameInstance", about |-> j] \in Requested
    BY <1>0, <1>6, PacketTypes DEF ShutdownInstance
  <2>2. requests' = [requests EXCEPT ![running[j]] = Append(@, [op |-> "RemoveGameInstance", about |-> j])]
    BY <1>6 DEF ShutdownInstance, Request
  <2>3. Alike(requests, requests', AskOf(h))
    BY <1>1, <2>1, <2>2
  <2>4. handler' = handler
    BY <1>6 DEF ShutdownInstance
  <2> QED BY <2>3, <2>4, HandlerFrame
<1>7. CASE UNCHANGED <<requests, handler>>
  BY <1>7, HandlerFrame, AlikeSame
<1>8. \/ \E s \in Servers : ServeRequest(s)
      \/ \E k \in Sessions : Lose(k) \/ \E g \in Handlers : Authenticate(g, k)
      \/ \E g \in Handlers : Refused(g) \/ GiveUp(g) \/ AddClient(g) \/ Spawn(g)
      \/ \E j \in Instances : ShutdownInstance(j)
      \/ UNCHANGED <<requests, handler>>
  BY DEF Next, vars, Launching, Coordination, Handling, RegisterServer, OpenChannel, LaunchGameInstance,
     LaunchThrows, HandleResponse, AddPlayer, AddPlayerResumes, Connect, Despawn, Left
<1> QED BY <1>3, <1>4, <1>5, <1>6, <1>7, <1>8, AuthenticateStep, AnsweredStep

-----------------------------------------------------------------------------
(* Players *)

(* Only a call of AddPlayer makes a player known, and it is answered then. *)
LEMMA EnteringStep ==
    ASSUME TypeInv, ChannelInv, [Next]_vars, NEW u \in Users, Entering(u)
    PROVE  Entering(u)'
<1> USE DEF registryVars, linkVars, gameVars
<1>0. /\ adding \in [Users -> Additions] /\ users \in [Users -> Registered]
      /\ servers \subseteq Servers /\ published \in 0 .. MaxInstances
      /\ \A s \in Servers : requests[s] # <<>> => Head(requests[s]) \in Requested
  BY DEF TypeInv, RegistryTypes, QueueTypes
<1>1. ASSUME NEW v \in Users, NEW s \in Servers, NEW i \in Instances, AddUser(v, s, i) PROVE Entering(u)'
  BY <1>0, <1>1 DEF Entering, AddUser, Answer, Additions, Registered
<1>2. ASSUME NEW v \in Users, AddPlayer(v) PROVE Entering(u)'
  <2>1. CASE \E s \in servers : \E i \in FindGameInstance(s, Zone[v]) : AddUser(v, s, i)
    BY <1>0, <1>1, <2>1 DEF FindGameInstance
  <2>2. CASE \E s \in servers : published < MaxInstances /\ users' = users
                                /\ Answer(v, "launching", s, published + 1)
    <3>1. adding[v].pc # "answered" /\ published + 1 \in Instances
      BY <1>0, <1>2, <2>2, ConstantFacts DEF AddPlayer, Instances
    <3> QED BY <1>0, <2>2, <3>1 DEF Entering, Answer, Additions
  <2> QED BY <1>2, <2>1, <2>2 DEF AddPlayer, Select
<1>3. ASSUME NEW v \in Users, AddPlayerResumes(v), v = u PROVE Entering(u)'
  <2>1. adding[u].server \in Servers /\ adding[u].instance \in Instances /\ adding[u].pc # "answered"
    BY <1>3 DEF Entering, AddPlayerResumes
  <2>2. CASE AddUser(u, adding[u].server, adding[u].instance)
    BY <1>1, <2>1, <2>2
  <2>3. CASE Answer(u, "failed", adding[u].server, adding[u].instance) /\ users' = users
    BY <1>0, <2>1, <2>3 DEF Entering, Answer
  <2> QED BY <1>3, <2>2, <2>3 DEF AddPlayerResumes
<1>4. ASSUME NEW v \in Users, AddPlayerResumes(v), v # u PROVE Entering(u)'
  BY <1>0, <1>4 DEF Entering, AddPlayerResumes, AddUser, Answer
<1>5. ASSUME NEW s \in Servers, HandleResponse(s) PROVE Entering(u)'
  <2>1. users' = users
    BY <1>5 DEF HandleResponse
  <2>2. \/ adding' = adding
        \/ \E i, pc : pc \in {"launched", "threw"} /\ adding' = Marked(i, pc)
    BY <1>5 DEF HandleResponse
  <2>3. \/ adding'[u] = adding[u]
        \/ adding[u].pc = "launching" /\ \E pc \in {"launched", "threw"} : adding'[u] = [adding[u] EXCEPT !.pc = pc]
    BY <2>2 DEF Marked
  <2> QED BY <1>0, <2>1, <2>3 DEF Entering, Additions
<1>6. ASSUME NEW s \in Servers, ServeRequest(s) PROVE Entering(u)'
  <2>1. adding' = adding
    BY <1>6 DEF ServeRequest
  <2>2. \/ users'[u] = users[u]
        \/ users[u] # NoUser /\ users'[u] \in {[users[u] EXCEPT !.migrating = FALSE], NoUser}
    <3>1. CASE users' = users
      BY <3>1
    <3>2. ASSUME NEW v \in Users, users[v] # NoUser, users' \in {Migrated(v), [users EXCEPT ![v] = NoUser]}
          PROVE  \/ users'[u] = users[u]
                 \/ users[u] # NoUser /\ users'[u] \in {[users[u] EXCEPT !.migrating = FALSE], NoUser}
      BY <1>0, <3>2 DEF Migrated
    <3>3. CASE \E h \in Handlers : ServesAuthenticate(s, h) /\ users' # users
      <4>1. PICK h \in Handlers : ServesAuthenticate(s, h) /\ users' # users
        BY <3>3
      <4>2. users' = Migrated(UserOf(h)) /\ users[UserOf(h)] # NoUser
        BY <4>1 DEF ServesAuthenticate, OnServer
      <4>3. CASE UserOf(h) \in Users
        BY <3>2, <4>2, <4>3
      <4>4. CASE UserOf(h) \notin Users
        BY <1>0, <4>2, <4>4 DEF Migrated
      <4> QED BY <4>3, <4>4
    <3>4. ASSUME NEW v \in Users, ServesRemove(s, v)
          PROVE  users' = users \/ (users[v] # NoUser /\ users' = [users EXCEPT ![v] = NoUser])
      BY <3>4 DEF ServesRemove, OnServer
    <3>5. \/ users' = users
          \/ \E h \in Handlers : ServesAuthenticate(s, h)
          \/ \E v \in Users : ServesRemove(s, v)
      BY <1>0, <1>6, PacketFacts DEF ServeRequest
    <3> QED BY <3>1, <3>2, <3>3, <3>4, <3>5
  <2>3. CASE users'[u] = users[u]
    BY <2>1, <2>3 DEF Entering
  <2>4. CASE users[u] # NoUser /\ users'[u] \in {[users[u] EXCEPT !.migrating = FALSE], NoUser}
    <3>1. ~ users'[u].migrating
      BY <1>0, <2>4 DEF Registered, NoUser
    <3> QED BY <2>1, <2>4, <3>1 DEF Entering
  <2> QED BY <2>2, <2>3, <2>4
<1>7. CASE UNCHANGED <<adding, users>>
  BY <1>7 DEF Entering
<1>8. \/ \E v \in Users : AddPlayer(v) \/ AddPlayerResumes(v)
      \/ \E s \in Servers : HandleResponse(s) \/ ServeRequest(s)
      \/ UNCHANGED <<adding, users>>
  BY DEF Next, vars, Launching, Coordination, Handling, RegisterServer, OpenChannel, LaunchGameInstance,
     LaunchThrows, Connect, Authenticate, Lose, Refused, GiveUp, AddClient, Spawn, Despawn, Left, ShutdownInstance
<1> QED BY <1>2, <1>3, <1>4, <1>5, <1>6, <1>7, <1>8

(* A player who is unknown, or has still to migrate, is nowhere. *)
LEMMA AbsentBefore ==
    ASSUME TypeInv, \A h \in Handlers : HandlerInv(h), NEW u \in Users, Present(u),
           users[u] = NoUser \/ users[u].migrating
    PROVE  Absent(u)
<1>1. \A i \in Instances : ~ Settled(u, i)
  BY ConstantFacts DEF Settled, NoUser
<1>2. \A c \in clients : c.user # u
  BY <1>1 DEF Present, TypeInv, GameTypes
<1>3. Allowed(u) = {}
  BY <1>1 DEF Present, HandlerInv, Allowed
<1>4. Nowhere(requests, LeaveOf(u))
  BY DEF Present, Nowhere
<1> QED BY <1>2, <1>3, <1>4 DEF Absent

(* Whatever the registry says of him then. *)
LEMMA AbsentAfter ==
    ASSUME NEW u \in Users, Absent(u)'
    PROVE  Present(u)'
<1>1. /\ Nowhere(requests', LeaveOf(u)) /\ Allowed(u)' = {} /\ \A c \in clients' : c.user # u
  BY DEF Absent, LeaveOf
<1>2. Only(requests', LeaveOf(u))
  BY <1>1 DEF Only, Once, Nowhere, Holds
<1> QED BY <1>1, <1>2 DEF Present, LeaveOf, Nowhere

(* A coroutine that does not move is allowed for the same player. *)
LEMMA AllowedStays ==
    ASSUME TypeInv, ConnectionInv, [Next]_vars, NEW h \in Handlers, HandlerInv(h), handler[h].pc # "idle",
           handler'[h].session = handler[h].session
    PROVE  UserOf(h)' = UserOf(h)
BY SessionStays

(* A step that is not about the player. *)
LEMMA PresentFrame ==
    ASSUME TypeInv, ConnectionInv, [Next]_vars, \A h \in Handlers : HandlerInv(h), NEW u \in Users, Present(u),
           users'[u] = users[u], Alike(requests, requests', LeaveOf(u)),
           \A c \in clients' : c.user = u => c \in clients,
           \A h \in Allowed(u)' : handler'[h] = handler[h]
    PROVE  Present(u)'
<1>1. /\ Only(requests', LeaveOf(u))
      /\ Nowhere(requests, LeaveOf(u)) => Nowhere(requests', LeaveOf(u))
      /\ \A s \in Servers : Holds(requests'[s], LeaveOf(u)) => Holds(requests[s], LeaveOf(u))
  BY AlikeOnly DEF Present, Alike
<1>2. ASSUME NEW h \in Allowed(u)' PROVE h \in Allowed(u) /\ handler'[h].instance = handler[h].instance
  <2>1. h \in Handlers /\ handler'[h].pc = "allowed" /\ UserOf(h)' = u /\ handler'[h] = handler[h]
    BY <1>2 DEF Allowed, Handlers
  <2>2. UserOf(h)' = UserOf(h)
    BY <2>1, AllowedStays
  <2> QED BY <2>1, <2>2 DEF Allowed
<1>3. \A s \in Servers : Holds(requests'[s], LeaveOf(u)) => ~ users'[u].migrating /\ users'[u] # NoUser
  BY <1>1 DEF Present
<1>4. ASSUME NEW c \in clients', c.user = u
      PROVE  /\ users'[u] = [parent |-> c.instance, migrating |-> FALSE] /\ Nowhere(requests', LeaveOf(u))
             /\ \A d \in clients' : d.user = u => d = c
  BY <1>1, <1>4 DEF Present, Settled
<1>5. ASSUME NEW h \in Allowed(u)'
      PROVE  /\ users'[u] = [parent |-> handler'[h].instance, migrating |-> FALSE]
             /\ Nowhere(requests', LeaveOf(u))
             /\ \A c \in clients' : c.user # u
             /\ \A g \in Allowed(u)' : g = h
  BY <1>1, <1>2, <1>5 DEF Present, Settled
<1> QED BY <1>1, <1>3, <1>4, <1>5 DEF Present, Settled, LeaveOf, NoUser

(* A player who is asked to leave: nothing but the request is left of him. *)
LEMMA LeavingStep ==
    ASSUME TypeInv, NEW u \in Users, NEW s \in Servers, NEW i \in Instances,
           Settled(u, i), Nowhere(requests, LeaveOf(u)), users' = users,
           requests' = [requests EXCEPT ![s] = Append(@, [op |-> "RemovePlayer", about |-> u])],
           Allowed(u)' = {}, \A c \in clients' : c.user # u
    PROVE  Present(u)'
<1> DEFINE e == [op |-> "RemovePlayer", about |-> u]
<1>1. e \in Requested
  BY PacketTypes
<1>2. requests' = [requests EXCEPT ![s] = Append(@, e)]
  OBVIOUS
<1>3. Only(requests, LeaveOf(u))
  BY DEF Only, Once, Nowhere, Holds
<1> HIDE DEF e
<1>4. Only(requests', LeaveOf(u))
  BY ONLY TypeInv, s \in Servers, <1>1, <1>2, <1>3, Nowhere(requests, LeaveOf(u)), RequestSent
<1>5. ~ users'[u].migrating /\ users'[u] # NoUser
  BY ConstantFacts DEF Settled, NoUser
<1> QED BY <1>4, <1>5 DEF Present, LeaveOf, NoUser

(* The coroutine gives up a player it was allowed. *)
LEMMA GiveUpStep ==
    ASSUME TypeInv, ConnectionInv, [Next]_vars, \A h \in Handlers : HandlerInv(h), NEW u \in Users, Present(u),
           NEW h \in Handlers, GiveUp(h)
    PROVE  Present(u)'
<1>1. /\ handler \in [Handlers -> Authentications]
      /\ handler[h].pc = "allowed" /\ handler' = At(h, "done") /\ clients' = clients /\ users' = users
      /\ requests' = [requests EXCEPT ![ServerOf(h)] = Append(@, [op |-> "RemovePlayer", about |-> UserOf(h)])]
  BY DEF GiveUp, Request, TypeInv, GameTypes, registryVars
<1>2. UserOf(h) \in Users /\ ServerOf(h) \in Servers /\ handler[h].instance \in Instances
  BY <1>1 DEF HandlerInv
<1>3. handler'[h].pc = "done" /\ \A g \in Handlers : g # h => handler'[g] = handler[g]
  BY <1>1 DEF At
<1>4. CASE UserOf(h) = u
  <2>1. h \in Allowed(u)
    BY <1>1, <1>4 DEF Allowed
  <2>2. /\ Settled(u, handler[h].instance) /\ Nowhere(requests, LeaveOf(u))
        /\ \A c \in clients : c.user # u
        /\ \A g \in Allowed(u) : g = h
    BY <2>1 DEF Present
  <2>3. Allowed(u)' = {}
    <3>1. ASSUME NEW g \in Handlers, handler'[g].pc = "allowed", UserOf(g)' = u PROVE FALSE
      <4>1. g # h /\ handler'[g] = handler[g]
        BY <1>3, <3>1
      <4>2. UserOf(g)' = UserOf(g)
        BY <3>1, <4>1, AllowedStays
      <4> QED BY <2>2, <3>1, <4>1, <4>2 DEF Allowed
    <3> QED BY <3>1 DEF Allowed, Handlers
  <2>4. requests' = [requests EXCEPT ![ServerOf(h)] = Append(@, [op |-> "RemovePlayer", about |-> u])]
    BY <1>1, <1>4
  <2> QED BY ONLY TypeInv, u \in Users, <1>1, <1>2, <2>2, <2>3, <2>4, LeavingStep
<1>5. CASE UserOf(h) # u
  <2> DEFINE e == [op |-> "RemovePlayer", about |-> UserOf(h)]
  <2>1. e \in Requested /\ e \notin LeaveOf(u)
    BY <1>2, <1>5, PacketTypes DEF LeaveOf
  <2>2. requests' = [requests EXCEPT ![ServerOf(h)] = Append(@, e)]
    BY <1>1
  <2> HIDE DEF e
  <2>3. Alike(requests, requests', LeaveOf(u))
    BY ONLY TypeInv, <1>2, <2>1, <2>2, RequestSent
  <2>4. \A g \in Allowed(u)' : handler'[g] = handler[g]
    BY <1>3 DEF Allowed, Handlers
  <2> QED BY <1>1, <2>3, <2>4, PresentFrame
<1> QED BY <1>4, <1>5

(* The coroutine makes the player it was allowed a client. *)
LEMMA AddClientStep ==
    ASSUME TypeInv, ConnectionInv, [Next]_vars, \A h \in Handlers : HandlerInv(h), NEW u \in Users, Present(u),
           NEW h \in Handlers, AddClient(h)
    PROVE  Present(u)'
<1> DEFINE n == [user |-> UserOf(h), session |-> handler[h].session,
                 server |-> ServerOf(h), instance |-> handler[h].instance]
<1>1. /\ handler \in [Handlers -> Authentications]
      /\ handler[h].pc = "allowed" /\ handler' = At(h, "added") /\ users' = users /\ requests' = requests
      /\ clients' = clients \union {n}
  BY DEF AddClient, Added, TypeInv, GameTypes, registryVars, linkVars
<1>2. n.user = UserOf(h) /\ n.instance = handler[h].instance
  OBVIOUS
<1> HIDE DEF n
<1>3. handler'[h].pc = "added" /\ \A g \in Handlers : g # h => handler'[g] = handler[g]
  BY <1>1 DEF At
<1>4. CASE UserOf(h) = u
  <2>1. h \in Allowed(u)
    BY <1>1, <1>4 DEF Allowed
  <2>2. /\ Settled(u, handler[h].instance) /\ Nowhere(requests, LeaveOf(u))
        /\ \A c \in clients : c.user # u
        /\ \A g \in Allowed(u) : g = h
    BY <2>1 DEF Present
  <2>3. Allowed(u)' = {}
    <3>1. ASSUME NEW g \in Handlers, handler'[g].pc = "allowed", UserOf(g)' = u PROVE FALSE
      <4>1. g # h /\ handler'[g] = handler[g]
        BY <1>3, <3>1
      <4>2. UserOf(g)' = UserOf(g)
        BY <3>1, <4>1, AllowedStays
      <4> QED BY <2>2, <3>1, <4>1, <4>2 DEF Allowed
    <3> QED BY <3>1 DEF Allowed, Handlers
  <2>4. \A c \in clients' : c.user = u => c = n
    BY <1>1, <2>2
  <2>5. Only(requests, LeaveOf(u))
    BY DEF Present
  <2> QED BY ONLY u \in Users, <1>1, <1>2, <2>2, <2>3, <2>4, <2>5 DEF Present, Settled, LeaveOf, Nowhere
<1>5. CASE UserOf(h) # u
  <2>1. \A g \in Allowed(u)' : handler'[g] = handler[g]
    <3>1. UserOf(h)' = UserOf(h)
      BY <1>1, AllowedStays DEF At, Authentications
    <3> QED BY <1>3, <1>5, <3>1 DEF Allowed, Handlers
  <2>2. \A c \in clients' : c.user = u => c \in clients
    BY <1>1, <1>2, <1>5
  <2> QED BY <1>1, <2>1, <2>2, PresentFrame, AlikeSame
<1> QED BY <1>4, <1>5

(* The connection of a client breaks. *)
LEMMA LoseStep ==
    ASSUME TypeInv, ConnectionInv, [Next]_vars, \A h \in Handlers : HandlerInv(h), NEW u \in Users, Present(u),
           NEW k \in Sessions, Lose(k)
    PROVE  Present(u)'
<1>1. /\ session[k].server \in Servers /\ handler' = handler /\ users' = users
      /\ \A c \in clients : c.user \in Users /\ c.instance \in Instances
  BY DEF Lose, ConnectionInv, TypeInv, GameTypes, registryVars
<1>2. CASE requests' = requests /\ clients' = clients
  BY <1>1, <1>2, PresentFrame, AlikeSame
<1>3. ASSUME NEW c \in clients, clients' = clients \ {c},
             requests' = [requests EXCEPT ![session[k].server] = Append(@, [op |-> "RemovePlayer", about |-> c.user])]
      PROVE  Present(u)'
  <2>1. CASE c.user = u
    <3>1. Settled(u, c.instance) /\ Nowhere(requests, LeaveOf(u)) /\ \A d \in clients : d.user = u => d = c
      BY <2>1 DEF Present
    <3>2. Allowed(u)' = {}
      <4>1. ASSUME NEW g \in Handlers, handler'[g].pc = "allowed", UserOf(g)' = u PROVE FALSE
        <5>1. UserOf(g)' = UserOf(g)
          BY <1>1, <4>1, AllowedStays
        <5> QED BY <1>1, <2>1, <4>1, <5>1 DEF Allowed, Present
      <4> QED BY <4>1 DEF Allowed, Handlers
    <3>3. \A d \in clients' : d.user # u
      BY <1>3, <3>1
    <3>4. requests' = [requests EXCEPT ![session[k].server] = Append(@, [op |-> "RemovePlayer", about |-> u])]
      BY <1>3, <2>1
    <3>5. c.instance \in Instances
      BY <1>1
    <3> QED BY ONLY TypeInv, u \in Users, <1>1, <3>1, <3>2, <3>3, <3>4, <3>5, LeavingStep
  <2>2. CASE c.user # u
    <3> DEFINE e == [op |-> "RemovePlayer", about |-> c.user]
    <3>1. e \in Requested /\ e \notin LeaveOf(u)
      BY <1>1, <2>2, PacketTypes DEF LeaveOf
    <3>2. requests' = [requests EXCEPT ![session[k].server] = Append(@, e)]
      BY <1>3
    <3> HIDE DEF e
    <3>3. Alike(requests, requests', LeaveOf(u))
      BY ONLY TypeInv, <1>1, <3>1, <3>2, RequestSent
    <3> QED BY <1>1, <1>3, <3>3, PresentFrame
  <2> QED BY <2>1, <2>2
<1> QED BY <1>2, <1>3 DEF Lose, Removed, RemoveRequested, Request, FindClient

(* The coordination service serves a request about a player. *)
LEMMA ServeStep ==
    ASSUME TypeInv, ConnectionInv, [Next]_vars, \A h \in Handlers : HandlerInv(h), NEW u \in Users, Present(u),
           NEW s \in Servers, ServeRequest(s)
    PROVE  Present(u)'
<1> DEFINE p == Head(requests[s])
<1>1. /\ p \in Requested
      /\ \A T : /\ p \notin T => Alike(requests, requests', T)
                /\ p \in T => Holds(requests[s], T)
                /\ Only(requests, T) => Only(requests', T)
                /\ Only(requests, T) /\ p \in T => Nowhere(requests', T)
  BY RequestServed
<1>2. /\ clients' = clients
      /\ \/ p.op = "AuthenticatePlayer" /\ ServesAuthenticate(s, p.about)
         \/ p.op = "RemovePlayer" /\ ServesRemove(s, p.about)
         \/ p.op = "RemoveGameInstance" /\ users' = users /\ handler' = handler
  BY DEF ServeRequest
<1> HIDE DEF p
<1>3. handler \in [Handlers -> Authentications] /\ users \in [Users -> Registered]
  BY DEF TypeInv, GameTypes, RegistryTypes
<1>4. CASE p.op = "RemovePlayer" /\ ServesRemove(s, p.about)
  <2>1. p.about \in Users /\ handler' = handler
    BY <1>1, <1>4, PacketFacts DEF ServesRemove
  <2>2. CASE p.about # u
    <3>1. users'[u] = users[u]
      BY <1>3, <1>4, <2>1, <2>2 DEF ServesRemove
    <3>2. Alike(requests, requests', LeaveOf(u))
      BY <1>1, <2>2, AboutRequest
    <3> QED BY <1>2, <2>1, <3>1, <3>2, PresentFrame
  <2>3. CASE p.about = u
    <3>1. p \in LeaveOf(u)
      BY <1>1, <1>4, <2>3, AboutRequest
    <3>2. Nowhere(requests', LeaveOf(u)) /\ Holds(requests[s], LeaveOf(u))
      BY <1>1, <3>1 DEF Present
    <3>3. (\A c \in clients : c.user # u) /\ Allowed(u) = {}
      BY <3>2 DEF Present, Nowhere
    <3>4. Allowed(u)' = {}
      <4>1. ASSUME NEW g \in Handlers, handler'[g].pc = "allowed", UserOf(g)' = u PROVE FALSE
        <5>1. UserOf(g)' = UserOf(g)
          BY <2>1, <4>1, AllowedStays
        <5> QED BY <2>1, <3>3, <4>1, <5>1 DEF Allowed
      <4> QED BY <4>1 DEF Allowed, Handlers
    <3>5. Absent(u)'
      BY <1>2, <3>2, <3>3, <3>4 DEF Absent, LeaveOf
    <3> QED BY <3>5, AbsentAfter
  <2> QED BY <2>2, <2>3
<1>5. CASE p.op = "RemoveGameInstance" /\ users' = users /\ handler' = handler
  <2>1. Alike(requests, requests', LeaveOf(u))
    BY <1>1, <1>5, AboutRequest
  <2> QED BY <1>2, <1>5, <2>1, PresentFrame
<1>6. ASSUME NEW h \in Handlers, p.op = "AuthenticatePlayer", p.about = h, ServesAuthenticate(s, h)
      PROVE  Present(u)'
  <2>1. p \in AskOf(h) /\ p \notin LeaveOf(u)
    BY <1>1, <1>6, AboutRequest
  <2>2. Alike(requests, requests', LeaveOf(u)) /\ handler[h].pc = "asked"
    BY <1>1, <2>1 DEF HandlerInv
  <2>3. UserOf(h) \in Users
    BY <2>2 DEF HandlerInv
  <2>4. CASE handler' = At(h, "refused") /\ users' = users
    <3>1. \A g \in Allowed(u)' : handler'[g] = handler[g]
      BY <1>3, <2>4 DEF Allowed, Handlers, At
    <3> QED BY <1>2, <2>2, <2>4, <3>1, PresentFrame
  <2>5. CASE /\ users[UserOf(h)].migrating /\ users' = Migrated(UserOf(h))
             /\ handler' = [handler EXCEPT ![h].pc = "allowed", ![h].instance = users[UserOf(h)].parent]
    <3>1. /\ handler'[h].session = handler[h].session /\ handler'[h].instance = users[UserOf(h)].parent
          /\ \A g \in Handlers : g # h => handler'[g] = handler[g]
      BY <1>3, <2>5 DEF Authentications
    <3>2. UserOf(h)' = UserOf(h)
      BY <2>2, <3>1, AllowedStays
    <3>3. CASE UserOf(h) # u
      <4>1. users'[u] = users[u]
        BY <1>3, <2>5, <3>3 DEF Migrated
      <4>2. \A g \in Allowed(u)' : handler'[g] = handler[g]
        BY <3>1, <3>2, <3>3 DEF Allowed, Handlers
      <4> QED BY <1>2, <2>2, <4>1, <4>2, PresentFrame
    <3>4. CASE UserOf(h) = u
      <4>1. Absent(u)
        BY <2>5, <3>4, AbsentBefore
      <4>2. \A g \in Allowed(u)' : g = h
        <5>1. ASSUME NEW g \in Handlers, handler'[g].pc = "allowed", UserOf(g)' = u, g # h PROVE FALSE
          <6>1. handler'[g] = handler[g]
            BY <3>1, <5>1
          <6>2. UserOf(g)' = UserOf(g)
            BY <5>1, <6>1, AllowedStays
          <6> QED BY <4>1, <5>1, <6>1, <6>2 DEF Absent, Allowed
        <5> QED BY <5>1 DEF Allowed, Handlers
      <4>3. users'[u] = [parent |-> handler'[h].instance, migrating |-> FALSE]
        BY <1>3, <2>5, <3>1, <3>4 DEF Migrated, Registered
      <4>4. Nowhere(requests', LeaveOf(u)) /\ \A c \in clients' : c.user # u
        BY <1>2, <2>2, <4>1, AlikeOnly DEF Absent
      <4>5. Only(requests', LeaveOf(u))
        BY <1>1 DEF Present
      <4> QED BY ONLY u \in Users, <4>2, <4>3, <4>4, <4>5 DEF Present, Settled, LeaveOf, Nowhere
    <3> QED BY <3>3, <3>4
  <2> QED BY <1>6, <2>4, <2>5 DEF ServesAuthenticate
<1>7. p.op = "AuthenticatePlayer" => p.about \in Handlers
  BY <1>1, PacketFacts
<1> QED BY <1>2, <1>4, <1>5, <1>6, <1>7

(* What any step does to a player. *)
LEMMA PresentStep ==
    ASSUME TypeInv, ConnectionInv, [Next]_vars, \A h \in Handlers : HandlerInv(h),
           NEW u \in Users, UserInv(u)
    PROVE  Present(u)'
<1> USE DEF registryVars, linkVars, gameVars
<1>0. /\ Present(u) /\ Entering(u)
      /\ running \in [Instances -> Servers \union {None}] /\ handler \in [Handlers -> Authentications]
      /\ users \in [Users -> Registered]
  BY DEF UserInv, TypeInv, GameTypes, RegistryTypes
<1>1. ASSUME UNCHANGED <<clients, handler>>, users'[u] = users[u], Alike(requests, requests', LeaveOf(u))
      PROVE  Present(u)'
  BY <1>0, <1>1, PresentFrame
<1>2. ASSUME NEW v \in Users, AddPlayer(v) \/ AddPlayerResumes(v) PROVE Present(u)'
  <2>1. UNCHANGED <<clients, handler, requests>>
    BY <1>2 DEF AddPlayer, AddPlayerResumes
  <2>2. CASE v # u
    <3>1. users'[u] = users[u]
      BY <1>0, <1>2, <2>2 DEF AddPlayer, AddPlayerResumes, AddUser
    <3> QED BY <1>1, <2>1, <3>1, AlikeSame
  <2>3. CASE v = u
    <3>1. users[u] = NoUser
      BY <1>0, <1>2, <2>3 DEF AddPlayer, AddPlayerResumes, Entering
    <3>2. Absent(u)
      BY <1>0, <3>1, AbsentBefore
    <3>3. Allowed(u)' = {}
      <4>1. ASSUME NEW g \in Handlers, handler'[g].pc = "allowed", UserOf(g)' = u PROVE FALSE
        <5>1. UserOf(g)' = UserOf(g)
          BY <2>1, <4>1, AllowedStays
        <5> QED BY <2>1, <3>2, <4>1, <5>1 DEF Absent, Allowed
      <4> QED BY <4>1 DEF Allowed, Handlers
    <3>4. Absent(u)'
      BY <2>1, <3>2, <3>3 DEF Absent, LeaveOf, Nowhere
    <3> QED BY <3>4, AbsentAfter
  <2> QED BY <2>2, <2>3
<1>3. ASSUME NEW g \in Handlers, NEW k \in Sessions, Authenticate(g, k) PROVE Present(u)'
  <2>1. /\ users' = users /\ clients' = clients
        /\ session[k].server \in Servers
        /\ \A h \in Handlers : h # g => handler'[h] = handler[h]
        /\ handler'[g].pc # "allowed"
    BY <1>0, <1>3 DEF Authenticate, ConnectionInv
  <2>2. \A h \in Allowed(u)' : handler'[h] = handler[h]
    BY <2>1 DEF Allowed, Handlers
  <2> DEFINE e == [op |-> "AuthenticatePlayer", about |-> g]  d == session[k].server
  <2>3. e \in Requested /\ e \notin LeaveOf(u) /\ d \in Servers
    BY <2>1, PacketTypes DEF LeaveOf
  <2>4. requests' = requests \/ requests' = [requests EXCEPT ![d] = Append(@, e)]
    BY <1>3 DEF Authenticate, Request
  <2> HIDE DEF d, e
  <2>5. Alike(requests, requests', LeaveOf(u))
    BY ONLY TypeInv, <2>3, <2>4, RequestSent, AlikeSame
  <2> QED BY <1>0, <2>1, <2>2, <2>5, PresentFrame
<1>4. ASSUME NEW h \in Handlers, Refused(h) \/ Spawn(h) PROVE Present(u)'
  <2>1. /\ users' = users /\ clients' = clients /\ requests' = requests /\ handler' = At(h, "done")
    BY <1>4 DEF Refused, Spawn
  <2>2. \A g \in Allowed(u)' : handler'[g] = handler[g]
    BY <1>0, <2>1 DEF Allowed, Handlers, At
  <2> QED BY <1>0, <2>1, <2>2, PresentFrame, AlikeSame
<1>5. ASSUME NEW j \in Instances, ShutdownInstance(j) PROVE Present(u)'
  <2> DEFINE e == [op |-> "RemoveGameInstance", about |-> j]  d == running[j]
  <2>1. e \in Requested /\ e \notin LeaveOf(u) /\ d \in Servers
    BY <1>0, <1>5, PacketTypes DEF LeaveOf, ShutdownInstance
  <2>2. requests' = [requests EXCEPT ![d] = Append(@, e)] /\ UNCHANGED <<users, clients, handler>>
    BY <1>5 DEF ShutdownInstance, Request
  <2> HIDE DEF d, e
  <2>3. Alike(requests, requests', LeaveOf(u))
    BY ONLY TypeInv, <2>1, <2>2, RequestSent
  <2> QED BY <1>1, <2>2, <2>3
<1>6. CASE UNCHANGED <<users, clients, requests, handler>>
  BY <1>1, <1>6, AlikeSame
<1>7. \/ \E v \in Users : AddPlayer(v) \/ AddPlayerResumes(v)
      \/ \E s \in Servers : ServeRequest(s)
      \/ \E k \in Sessions : Lose(k) \/ \E g \in Handlers : Authenticate(g, k)
      \/ \E h \in Handlers : Refused(h) \/ Spawn(h) \/ GiveUp(h) \/ AddClient(h)
      \/ \E j \in Instances : ShutdownInstance(j)
      \/ UNCHANGED <<users, clients, requests, handler>>
  BY DEF Next, vars, Launching, Coordination, Handling, RegisterServer, OpenChannel, LaunchGameInstance,
     LaunchThrows, HandleResponse, Connect, Despawn, Left
<1> QED BY <1>0, <1>2, <1>3, <1>4, <1>5, <1>6, <1>7, GiveUpStep, AddClientStep, LoseStep, ServeStep

-----------------------------------------------------------------------------
(* The theorems *)

(* At first all queues and tables are empty. *)
LEMMA InitWorld == Init => WorldInv
<1> SUFFICES ASSUME Init PROVE WorldInv
  OBVIOUS
<1>1. \A T : /\ Nowhere(commands, T) /\ Nowhere(responses, T) /\ Nowhere(requests, T)
             /\ Only(commands, T) /\ Only(responses, T) /\ Only(requests, T)
  BY DEF Init, Nowhere, Only, Once, Holds
<1>2. ChannelInv
  BY <1>1 DEF Init, ChannelInv, Nowhere
<1>3. ASSUME NEW i \in Instances PROVE InstanceInv(i)
  <2>1. running[i] = None /\ instances[i].server = None
    BY DEF Init
  <2> QED BY <1>1, <2>1, ConstantFacts DEF InstanceInv, Nowhere
<1>4. ASSUME NEW h \in Handlers PROVE HandlerInv(h)
  <2>1. handler[h].pc = "idle"
    BY DEF Init, Idle
  <2> QED BY <1>1, <2>1 DEF HandlerInv, Nowhere
<1>5. ASSUME NEW u \in Users PROVE UserInv(u)
  <2>1. users[u] = NoUser /\ adding[u].pc = "no" /\ clients = {}
    BY DEF Init
  <2>2. Allowed(u) = {}
    BY DEF Init, Allowed, Idle
  <2>3. Entering(u)
    BY <2>1 DEF Entering, NoUser
  <2>4. Present(u)
    BY <1>1, <2>1, <2>2 DEF Present, Nowhere
  <2> QED BY <2>3, <2>4 DEF UserInv
<1> QED BY <1>2, <1>3, <1>4, <1>5, InitTypes DEF WorldInv

(* And no step breaks what holds of each instance, coroutine and player. *)
LEMMA NextWorld == WorldInv /\ [Next]_vars => WorldInv'
<1> SUFFICES ASSUME WorldInv, [Next]_vars PROVE WorldInv'
  OBVIOUS
<1>1. /\ TypeInv /\ ConnectionInv /\ ChannelInv
      /\ \A i \in Instances : InstanceInv(i)
      /\ \A h \in Handlers : HandlerInv(h)
      /\ \A u \in Users : UserInv(u)
  BY DEF WorldInv
<1>2. TypeInv'
  BY <1>1, QueueTypesStep, RegistryTypesStep, GameTypesStep DEF TypeInv
<1>3. ConnectionInv' /\ ChannelInv'
  BY <1>1, ConnectionStep, ChannelStep
<1>4. \A i \in Instances : InstanceInv(i)'
  BY <1>1, InstanceStep
<1>5. \A h \in Handlers : HandlerInv(h)'
  BY <1>1, HandlerStep
<1>6. ASSUME NEW u \in Users PROVE UserInv(u)'
  <2>1. UserInv(u) /\ Entering(u)
    BY <1>1 DEF UserInv
  <2>2. Entering(u)'
    BY <1>1, <2>1, EnteringStep
  <2>3. Present(u)'
    BY <1>1, <2>1, PresentStep
  <2> QED BY <2>2, <2>3 DEF UserInv
<1> QED BY <1>2, <1>3, <1>4, <1>5, <1>6 DEF WorldInv, Instances, Handlers

(* The registry of the coordination service and the game servers are, at   *)
(* every moment, what the packets between them make of each other.         *)
THEOREM WorldInvariant == Spec => []WorldInv
BY InitWorld, NextWorld, PTL DEF Spec

(* The tables keep their types: a client is a player of a session, in an   *)
(* instance that was launched.                                             *)
THEOREM WorldTypes == Spec => []TypeOK
<1>1. WorldInv => TypeOK
  BY DEF WorldInv, TypeInv, RegistryTypes, GameTypes, ChannelInv, TypeOK
<1> QED BY <1>1, WorldInvariant, PTL

(* An instance that the registry names runs on that server, or its removal *)
(* is on the way to the registry; one that runs is in the registry, or the *)
(* response to its launch is on the way.                                   *)
THEOREM WorldRegistry == Spec => []RegistryMatchesServers
<1>1. WorldInv => RegistryMatchesServers
  <2> SUFFICES ASSUME WorldInv, NEW i \in Instances, NEW s \in Servers
               PROVE  /\ instances[i].server = s =>
                            \/ running[i] = s
                            \/ \E n \in 1 .. Len(requests[s]) :
                                  requests[s][n] = [op |-> "RemoveGameInstance", about |-> i]
                      /\ running[i] = s =>
                            \/ instances[i].server = s
                            \/ \E n \in 1 .. Len(responses[s]) : responses[s][n].instance = i
    BY DEF RegistryMatchesServers
  <2>1. /\ instances[i].server = s => running[i] = s \/ Holds(requests[s], RemovalOf(i))
        /\ running[i] = s => instances[i].server = s \/ Holds(responses[s], LaunchedOf(i))
    BY DEF WorldInv, InstanceInv
  <2> QED BY <2>1 DEF Holds, RemovalOf, LaunchedOf
<1> QED BY <1>1, WorldInvariant, PTL

(* However often a token is presented, a player is the client of one       *)
(* session at most, of the instance that the registry has as his parent.   *)
THEOREM WorldClients == Spec => []ClientsAreUsers
<1>1. WorldInv => ClientsAreUsers
  <2> SUFFICES ASSUME WorldInv, NEW c \in clients
               PROVE  /\ users[c.user] = [parent |-> c.instance, migrating |-> FALSE]
                      /\ \A d \in clients : d.user = c.user => d = c
    BY DEF ClientsAreUsers
  <2>1. c.user \in Users
    BY DEF WorldInv, TypeInv, GameTypes
  <2>2. Present(c.user)
    BY <2>1 DEF WorldInv, UserInv
  <2> QED BY <2>2 DEF Present, Settled
<1> QED BY <1>1, WorldInvariant, PTL

-----------------------------------------------------------------------------
(***************************************************************************)
(* Snowflake keys                                                          *)
(***************************************************************************)

(* What Append does to a sequence, by index. *)
LEMMA AppendTo ==
    ASSUME NEW S, NEW q \in Seq(S), NEW x \in S
    PROVE  /\ Append(q, x) \in Seq(S)
           /\ DOMAIN q = 1 .. Len(q) /\ Len(q) \in Nat
           /\ DOMAIN Append(q, x) = 1 .. Len(q) + 1
           /\ \A i \in 1 .. Len(q) : Append(q, x)[i] = q[i]
           /\ Append(q, x)[Len(q) + 1] = x
  OBVIOUS

(* What Head and Tail do to a sequence, by index. *)
LEMMA TailOf ==
    ASSUME NEW S, NEW q \in Seq(S), q # <<>>
    PROVE  /\ Tail(q) \in Seq(S) /\ Head(q) \in S /\ Head(q) = q[1]
           /\ DOMAIN q = 1 .. Len(q) /\ Len(q) \in Nat /\ 1 \in DOMAIN q
           /\ DOMAIN Tail(q) = 1 .. Len(q) - 1
           /\ \A i \in 1 .. Len(q) - 1 : Tail(q)[i] = q[i + 1]
  OBVIOUS

-----------------------------------------------------------------------------
(* The keys *)

(* All keys are still to be given out at first. *)
LEMMA KeysInit == KeyInit => KeysInv
<1> SUFFICES ASSUME KeyInit PROVE KeysInv
  OBVIOUS
<1> USE SizeAssumption, BoundAssumption
<1>1. KeyTypeOK
  <2>1. returned \in Seq(0 .. Keys) /\ DOMAIN returned = {}
    BY DEF KeyInit
  <2>2. 0 \in 0 .. MaxTime /\ 0 \in 0 .. Sequences - 1 /\ 1 \in 1 .. MaxTime
    OBVIOUS
  <2>3. QED
    BY <2>1, <2>2 DEF KeyInit, KeyTypeOK
<1>2. EveryKeyOnce /\ KeysAreOld
  BY DEF KeyInit, EveryKeyOnce, KeysAreOld
<1>3. QED
  BY <1>1, <1>2 DEF KeysInv

(* A key is published when it has been nowhere: the counter's is not below *)
(* the counter, and the first that was returned leaves the sequence.       *)
LEMMA RequestKeeps ==
    ASSUME KeysInv, NEW r \in Requesters, RequestSnowflakeKey(r)
    PROVE  KeysInv'
<1> USE SizeAssumption, BoundAssumption
<1>1. KeyTypeOK /\ EveryKeyOnce /\ KeysAreOld
  BY DEF KeysInv
<1>2. /\ next \in Nat /\ next' = next + 1
      /\ keyRequests' \in 0 .. MaxRequests /\ key[r] = NoKey
      /\ UNCHANGED <<clock, ids, doubles>>
  BY <1>1 DEF RequestSnowflakeKey, Advanced, KeyTypeOK
<1>3. CASE /\ InPool
           /\ publishedKeys' = Publish(r, next)
           /\ Equip(r, next)
           /\ UNCHANGED returned
  <2>1. next \in 0 .. Keys
    BY <1>2, <1>3 DEF InPool
  <2>2. KeyTypeOK'
    BY <1>1, <1>2, <1>3, <2>1 DEF KeyTypeOK, Publish, Equip
  <2>3. KeysAreOld'
    BY <1>1, <1>2, <1>3, <2>1 DEF KeysAreOld, Publish, KeyTypeOK
  <2>4. EveryKeyOnce'
    <3>1. /\ publishedKeys' = publishedKeys \cup {<<r, next>>}
          /\ key' = [key EXCEPT ![r] = next]
          /\ \A e \in publishedKeys : e[2] # next
          /\ \A i \in DOMAIN returned : returned[i] # next
      BY <1>1, <1>2, <1>3 DEF KeysAreOld, Publish, Equip, KeyTypeOK
    <3>2. \A e, f \in publishedKeys' : e[2] = f[2] => e = f
      BY <1>1, <3>1 DEF EveryKeyOnce
    <3>3. \A e \in publishedKeys' : \A i \in DOMAIN returned' : e[2] # returned'[i]
      BY <1>1, <1>3, <3>1 DEF EveryKeyOnce
    <3>4. \A s \in Requesters : key'[s] # NoKey => <<s, key'[s]>> \in publishedKeys'
      BY <1>1, <3>1 DEF EveryKeyOnce, KeyTypeOK
    <3>5. QED
      BY <1>1, <1>3, <3>2, <3>3, <3>4 DEF EveryKeyOnce
  <2>5. QED
    BY <2>2, <2>3, <2>4 DEF KeysInv
<1>4. CASE /\ ~InPool /\ returned # <<>>
           /\ publishedKeys' = Publish(r, Head(returned))
           /\ Equip(r, Head(returned))
           /\ returned' = Tail(returned)
  <2> DEFINE k == Head(returned)
  <2>1. /\ returned' \in Seq(0 .. Keys) /\ k \in 0 .. Keys /\ k = returned[1]
        /\ DOMAIN returned = 1 .. Len(returned) /\ Len(returned) \in Nat /\ 1 \in DOMAIN returned
        /\ DOMAIN returned' = 1 .. Len(returned) - 1
        /\ \A i \in 1 .. Len(returned) - 1 : returned'[i] = returned[i + 1]
    BY <1>1, <1>4, TailOf DEF KeyTypeOK
  <2>2. /\ \A i \in DOMAIN returned' : i + 1 \in DOMAIN returned /\ returned'[i] = returned[i + 1]
        /\ \A i \in DOMAIN returned' : i \in Nat /\ i + 1 # 1
    BY <2>1
  <2>3. /\ publishedKeys' = publishedKeys \cup {<<r, k>>}
        /\ key' = [key EXCEPT ![r] = k]
    BY <1>4 DEF Publish, Equip
  <2> HIDE DEF k
  <2>4. KeyTypeOK'
    BY <1>1, <1>2, <1>4, <2>1, <2>3 DEF KeyTypeOK, Equip
  <2>5. KeysAreOld'
    <3>1. k < next /\ \A e \in publishedKeys : e[2] < next
      BY <1>1, <2>1 DEF KeysAreOld
    <3>2. /\ \A e \in publishedKeys : e[2] \in 0 .. Keys
          /\ \A i \in DOMAIN returned : returned[i] \in 0 .. Keys
      BY <1>1, <2>1 DEF KeyTypeOK
    <3>3. \A e \in publishedKeys' : e[2] < next'
      BY <1>2, <2>1, <2>3, <3>1, <3>2
    <3>4. \A i \in DOMAIN returned' : returned'[i] < next'
      BY <1>1, <1>2, <2>2, <3>2 DEF KeysAreOld
    <3>5. QED
      BY <3>3, <3>4 DEF KeysAreOld
  <2>6. \A i \in DOMAIN returned' : returned'[i] # k
    <3>1. TAKE i \in DOMAIN returned'
    <3>2. i + 1 \in DOMAIN returned /\ i + 1 # 1 /\ returned'[i] = returned[i + 1]
      BY <2>2
    <3>3. \A a, b \in DOMAIN returned : returned[a] = returned[b] => a = b
      BY <1>1 DEF EveryKeyOnce
    <3>4. 1 \in DOMAIN returned /\ returned[1] = k
      BY <2>1
    <3>5. QED
      BY <3>2, <3>3, <3>4
  <2>7. EveryKeyOnce'
    <3>0. \A e \in publishedKeys : e[2] # k
      <4>1. 1 \in DOMAIN returned /\ returned[1] = k
        BY <2>1
      <4>2. QED
        BY <1>1, <4>1 DEF EveryKeyOnce
    <3>1. \A e, f \in publishedKeys' : e[2] = f[2] => e = f
      BY <1>1, <2>3, <3>0 DEF EveryKeyOnce
    <3>2. \A i, j \in DOMAIN returned' : returned'[i] = returned'[j] => i = j
      BY <1>1, <2>2 DEF EveryKeyOnce
    <3>3. \A e \in publishedKeys' : \A i \in DOMAIN returned' : e[2] # returned'[i]
      BY <1>1, <2>2, <2>3, <2>6 DEF EveryKeyOnce
    <3>4. \A s \in Requesters : key'[s] # NoKey => <<s, key'[s]>> \in publishedKeys'
      BY <1>1, <2>3 DEF EveryKeyOnce, KeyTypeOK
    <3>5. QED
      BY <3>1, <3>2, <3>3, <3>4 DEF EveryKeyOnce
  <2>8. QED
    BY <2>4, <2>5, <2>7 DEF KeysInv
<1>5. CASE UNCHANGED <<publishedKeys, key, generator, returned>>
  BY <1>1, <1>2, <1>5 DEF KeysInv, KeyTypeOK, EveryKeyOnce, KeysAreOld, generator
<1>6. QED
  BY <1>3, <1>4, <1>5 DEF RequestSnowflakeKey

(* A key that is returned leaves the published ones.                       *)
LEMMA ReturnKeeps ==
    ASSUME KeysInv, NEW r \in Requesters, ReturnSnowflakeKey(r)
    PROVE  KeysInv'
<1> DEFINE k == key[r]
<1>1. KeyTypeOK /\ EveryKeyOnce /\ KeysAreOld
  BY DEF KeysInv
<1>2. /\ <<r, k>> \in publishedKeys
      /\ returned' = Append(returned, k)
      /\ publishedKeys' = publishedKeys \ {<<r, k>>}
      /\ key' = [key EXCEPT ![r] = NoKey]
      /\ UNCHANGED <<next, generator, clock, ids, doubles, keyRequests>>
  BY DEF ReturnSnowflakeKey, Unpublish
<1>3. k \in 0 .. Keys /\ k < next
  <2>1. <<r, k>> \in Requesters \X (0 .. Keys) /\ <<r, k>>[2] < next
    BY <1>1, <1>2 DEF KeyTypeOK, KeysAreOld
  <2>2. QED
    BY <2>1
<1> HIDE DEF k
<1>4. /\ returned' \in Seq(0 .. Keys)
      /\ DOMAIN returned = 1 .. Len(returned) /\ Len(returned) \in Nat
      /\ DOMAIN returned' = 1 .. Len(returned) + 1
      /\ \A i \in 1 .. Len(returned) : returned'[i] = returned[i]
      /\ returned'[Len(returned) + 1] = k
  BY <1>1, <1>2, <1>3, AppendTo DEF KeyTypeOK
<1>5. KeyTypeOK'
  BY <1>1, <1>2, <1>4 DEF KeyTypeOK, generator
<1>6. KeysAreOld'
  BY <1>1, <1>2, <1>3, <1>4 DEF KeysAreOld, KeyTypeOK
<1>7. EveryKeyOnce'
  <2>1. \A i \in DOMAIN returned : returned[i] # k
    BY <1>1, <1>2 DEF EveryKeyOnce
  <2>2. \A i, j \in DOMAIN returned' : returned'[i] = returned'[j] => i = j
    BY <1>1, <1>4, <2>1 DEF EveryKeyOnce
  <2>3. \A e \in publishedKeys' : e \in publishedKeys /\ e[2] # k
    BY <1>1, <1>2 DEF EveryKeyOnce
  <2>4. \A e \in publishedKeys' : \A i \in DOMAIN returned' : e[2] # returned'[i]
    BY <1>1, <1>4, <2>3 DEF EveryKeyOnce
  <2>5. \A s \in Requesters : key'[s] # NoKey => <<s, key'[s]>> \in publishedKeys'
    BY <1>1, <1>2 DEF EveryKeyOnce, KeyTypeOK
  <2>6. \A e, f \in publishedKeys' : e[2] = f[2] => e = f
    BY <1>1, <2>3 DEF EveryKeyOnce
  <2>7. QED
    BY <2>2, <2>4, <2>5, <2>6 DEF EveryKeyOnce
<1>8. QED
  BY <1>5, <1>6, <1>7 DEF KeysInv

(* What happens in the servers leaves the keys of the service alone.       *)
LEMMA ServersKeep ==
    ASSUME KeysInv, \/ \E r \in Requesters : Crash(r) \/ Generate(r)
                    \/ Tick
                    \/ UNCHANGED keyVars
    PROVE  KeysInv'
<1> USE SizeAssumption, BoundAssumption
<1>1. KeyTypeOK /\ EveryKeyOnce /\ KeysAreOld
  BY DEF KeysInv
<1>2. ASSUME NEW r \in Requesters, Crash(r)
      PROVE  KeysInv'
  BY <1>1, <1>2 DEF Crash, KeysInv, KeyTypeOK, EveryKeyOnce, KeysAreOld, generator, NoKey
<1>3. ASSUME NEW r \in Requesters, Generate(r)
      PROVE  KeysInv'
  <2> DEFINE s == IF clock = last[r] THEN (sequence[r] + 1) % Sequences ELSE 0
  <2>1. s \in 0 .. Sequences - 1
    BY <1>1 DEF KeyTypeOK
  <2>2. /\ sequence' = [sequence EXCEPT ![r] = s]
        /\ last' = [last EXCEPT ![r] = clock]
        /\ ids' = ids \cup {<<clock, key[r] % Keys, s>>}
        /\ UNCHANGED <<next, publishedKeys, returned, key, clock, keyRequests>>
    BY <1>3 DEF Generate, Id
  <2>3. key[r] \in 0 .. Keys
    BY <1>1, <1>3 DEF Generate, KeyTypeOK
  <2> HIDE DEF s
  <2>4. <<clock, key[r] % Keys, s>> \in Nat \X Nat \X Nat
    BY <1>1, <2>1, <2>3 DEF KeyTypeOK
  <2>5. KeyTypeOK'
    BY <1>1, <2>1, <2>2, <2>4 DEF KeyTypeOK
  <2>6. EveryKeyOnce' /\ KeysAreOld'
    BY <1>1, <2>2 DEF EveryKeyOnce, KeysAreOld
  <2>7. QED
    BY <2>5, <2>6 DEF KeysInv
<1>4. CASE Tick
  BY <1>1, <1>4 DEF Tick, KeysInv, KeyTypeOK, EveryKeyOnce, KeysAreOld, generator
<1>5. CASE UNCHANGED keyVars
  BY <1>1, <1>5 DEF keyVars, KeysInv, KeyTypeOK, EveryKeyOnce, KeysAreOld, generator
<1>6. QED
  BY <1>2, <1>3, <1>4, <1>5

(* Every step keeps what is said of the keys. *)
LEMMA KeysStep == KeysInv /\ [KeyNext]_keyVars => KeysInv'
  BY RequestKeeps, ReturnKeeps, ServersKeep DEF KeyNext

(* A key is in one place: with a server, returned, or not given out yet. *)
THEOREM KeysInvariant == KeySpec => []KeysInv
  BY KeysInit, KeysStep, PTL DEF KeySpec

(* Every variable keeps its type. *)
THEOREM SnowflakeTypes == KeySpec => []KeyTypeOK
<1>1. KeysInv => KeyTypeOK
  BY DEF KeysInv
<1>2. QED
  BY <1>1, KeysInvariant, PTL

(* A key is never published twice, or published and up for publication.    *)
THEOREM KeysAreOutOnce == KeySpec => []EveryKeyOnce
<1>1. KeysInv => EveryKeyOnce
  BY DEF KeysInv
<1>2. QED
  BY <1>1, KeysInvariant, PTL

-----------------------------------------------------------------------------
(* The ids *)

(* There is no id at first. *)
LEMMA IdsInit == KeyInit => IdsArePast /\ UniqueWithinPool
  BY DEF KeyInit, IdsArePast, UniqueWithinPool

(* A new generator starts at no millisecond, and its key, which the counter *)
(* has just given out, is in no id.                                        *)
LEMMA RequestKeepsIds ==
    ASSUME IndInv, NEW r \in Requesters, RequestSnowflakeKey(r)
    PROVE  IdsArePast' /\ UniqueWithinPool'
<1> USE SizeAssumption, BoundAssumption
<1>1. KeyTypeOK /\ IdsArePast /\ UniqueWithinPool
  BY DEF IndInv, KeysInv
<1>2. next' = next + 1 /\ next \in Nat /\ UNCHANGED <<clock, ids, doubles>>
  BY <1>1 DEF RequestSnowflakeKey, Advanced, KeyTypeOK
<1>3. CASE next + 1 <= Keys
  <2>1. InPool /\ next <= Keys
    BY <1>2, <1>3 DEF InPool
  <2>2. Equip(r, next)
    BY <2>1 DEF RequestSnowflakeKey
  <2>3. \A id \in ids : id[1] <= clock /\ id[2] < next /\ id[2] \in Nat
    BY <1>1, <2>1 DEF IdsArePast, KeyTypeOK
  <2>4. \A id \in ids : id[2] < next + 1 /\ id[2] # next
    BY <1>2, <2>3
  <2>5. ASSUME NEW s \in Requesters, NEW id \in ids, key'[s] = id[2], clock = id[1]
        PROVE  last'[s] = clock /\ id[3] <= sequence'[s]
    <3>1. s # r
      BY <1>1, <2>2, <2>4, <2>5 DEF Equip, KeyTypeOK
    <3>2. key'[s] = key[s] /\ last'[s] = last[s] /\ sequence'[s] = sequence[s]
      BY <1>1, <2>2, <3>1 DEF Equip, KeyTypeOK
    <3>3. QED
      BY <1>1, <2>1, <2>5, <3>2 DEF IdsArePast
  <2>6. IdsArePast'
    BY <1>2, <2>3, <2>4, <2>5 DEF IdsArePast
  <2>7. QED
    BY <1>1, <1>2, <2>1, <2>6 DEF UniqueWithinPool
<1>4. CASE ~(next + 1 <= Keys)
  BY <1>2, <1>4 DEF IdsArePast, UniqueWithinPool
<1>5. QED
  BY <1>3, <1>4

(* A server's number in this millisecond is greater than those of the ids  *)
(* that have its key, and other servers have other keys.                   *)
LEMMA GenerateKeepsIds ==
    ASSUME IndInv, NEW r \in Requesters, Generate(r)
    PROVE  IdsArePast' /\ UniqueWithinPool'
<1> USE SizeAssumption, BoundAssumption
<1> DEFINE s == IF clock = last[r] THEN (sequence[r] + 1) % Sequences ELSE 0
           id == <<clock, key[r] % Keys, s>>
<1>1. KeyTypeOK /\ EveryKeyOnce /\ KeysAreOld /\ IdsArePast /\ UniqueWithinPool
  BY DEF IndInv, KeysInv
<1>2. /\ key[r] # NoKey /\ HasNumber(r)
      /\ sequence' = [sequence EXCEPT ![r] = s]
      /\ last' = [last EXCEPT ![r] = clock]
      /\ ids' = ids \cup {id}
      /\ doubles' = IF id \in ids THEN doubles \cup {id} ELSE doubles
      /\ UNCHANGED <<next, publishedKeys, returned, key, clock, keyRequests>>
  BY DEF Generate, Id
<1>3. SUFFICES ASSUME next <= Keys
               PROVE  IdsArePast' /\ UniqueWithinPool'
  BY <1>2 DEF IdsArePast, UniqueWithinPool
<1>4. /\ \A i \in ids : i[1] <= clock /\ i[2] < next
      /\ \A q \in Requesters : \A i \in ids :
            key[q] = i[2] /\ clock = i[1] => last[q] = clock /\ i[3] <= sequence[q]
  BY <1>1, <1>3 DEF IdsArePast
<1>5. key[r] \in Nat /\ key[r] < next /\ key[r] % Keys = key[r]
  <2>1. key[r] \in 0 .. Keys /\ next \in Nat /\ <<r, key[r]>> \in publishedKeys
    BY <1>1, <1>2 DEF KeyTypeOK, EveryKeyOnce
  <2>2. <<r, key[r]>>[2] < next
    BY <1>1, <2>1 DEF KeysAreOld
  <2>3. QED
    BY <1>3, <2>1, <2>2
<1>6. /\ s \in Nat
      /\ clock = last[r] => s = sequence[r] + 1
  <2>1. sequence[r] \in Nat
    BY <1>1 DEF KeyTypeOK
  <2>2. clock = last[r] => (sequence[r] + 1) % Sequences = sequence[r] + 1
    <3>1. clock = last[r] => sequence[r] + 1 < Sequences
      BY <1>2 DEF HasNumber
    <3>2. QED
      BY <2>1, <3>1
  <2>3. QED
    BY <2>1, <2>2
<1>7. id[1] = clock /\ id[2] = key[r] /\ id[3] = s
  BY <1>5
<1> HIDE DEF s, id
<1>8. /\ clock \in Nat /\ sequence \in [Requesters -> 0 .. Sequences - 1]
      /\ last \in [Requesters -> 0 .. MaxTime]
  BY <1>1 DEF KeyTypeOK
<1>9. id \notin ids
  <2>1. SUFFICES ASSUME id \in ids PROVE FALSE
    OBVIOUS
  <2>2. last[r] = clock /\ s <= sequence[r]
    BY <1>4, <1>7, <2>1
  <2>3. QED
    BY <1>6, <1>8, <2>2
<1>10. \A i \in ids' : i[1] <= clock /\ i[2] < next
  BY <1>2, <1>4, <1>5, <1>7, <1>8
<1>11. ASSUME NEW q \in Requesters, NEW i \in ids', key[q] = i[2], clock = i[1]
       PROVE  last'[q] = clock /\ i[3] <= sequence'[q]
  <2>1. CASE q = r
    <3>1. last'[q] = clock /\ sequence'[q] = s
      BY <1>2, <1>8, <2>1
    <3>2. i = id \/ (i \in ids /\ last[r] = clock /\ i[3] <= sequence[r])
      BY <1>2, <1>4, <1>11, <2>1
    <3>3. i[3] \in Nat
      BY <1>1, <1>2, <1>6, <1>7 DEF KeyTypeOK
    <3>4. QED
      BY <1>6, <1>7, <1>8, <3>1, <3>2, <3>3
  <2>2. CASE q # r
    <3>1. last'[q] = last[q] /\ sequence'[q] = sequence[q]
      BY <1>2, <1>8, <2>2
    <3>2. i # id
      <4>1. SUFFICES ASSUME i = id PROVE FALSE
        OBVIOUS
      <4>2. key[q] = key[r]
        BY <1>7, <1>11, <4>1
      <4>3. <<q, key[q]>> \in publishedKeys /\ <<r, key[r]>> \in publishedKeys
        BY <1>1, <1>2, <4>2 DEF EveryKeyOnce
      <4>4. <<q, key[q]>> = <<r, key[r]>>
        BY <1>1, <4>2, <4>3 DEF EveryKeyOnce
      <4>5. QED
        BY <2>2, <4>4
    <3>3. QED
      BY <1>2, <1>4, <1>11, <3>1, <3>2
  <2>3. QED
    BY <2>1, <2>2
<1>12. IdsArePast'
  BY <1>2, <1>10, <1>11 DEF IdsArePast
<1>13. UniqueWithinPool'
  BY <1>1, <1>2, <1>3, <1>9 DEF UniqueWithinPool
<1>14. QED
  BY <1>12, <1>13

(* Returning a key and crashing make no id. *)
LEMMA OthersKeepIds ==
    ASSUME IndInv, \/ \E r \in Requesters : ReturnSnowflakeKey(r) \/ Crash(r)
                   \/ Tick
                   \/ UNCHANGED keyVars
    PROVE  IdsArePast' /\ UniqueWithinPool'
<1>1. KeyTypeOK /\ IdsArePast /\ UniqueWithinPool
  BY DEF IndInv, KeysInv
<1>2. ASSUME NEW r \in Requesters, ReturnSnowflakeKey(r) \/ Crash(r)
      PROVE  IdsArePast' /\ UniqueWithinPool'
  <2>1. /\ key' = [key EXCEPT ![r] = NoKey]
        /\ UNCHANGED <<next, last, sequence, clock, ids, doubles>>
    BY <1>2 DEF ReturnSnowflakeKey, Crash, generator
  <2>2. \A id \in ids : id[2] # NoKey
    BY <1>1 DEF KeyTypeOK, NoKey
  <2>3. \A q \in Requesters : \A id \in ids : key'[q] = id[2] => key[q] = id[2]
    BY <1>1, <2>1, <2>2 DEF KeyTypeOK
  <2>4. QED
    BY <1>1, <2>1, <2>3 DEF IdsArePast, UniqueWithinPool
<1>3. CASE Tick
  <2>1. clock' = clock + 1 /\ clock \in Nat /\ UNCHANGED <<next, key, last, sequence, ids, doubles>>
    BY <1>1, <1>3 DEF Tick, KeyTypeOK, generator
  <2>2. \A id \in ids : id[1] \in Nat
    BY <1>1 DEF KeyTypeOK
  <2>3. ASSUME next <= Keys
        PROVE  \A id \in ids : id[1] <= clock' /\ id[2] < next /\ id[1] # clock'
    BY <1>1, <2>1, <2>2, <2>3 DEF IdsArePast
  <2>4. QED
    BY <1>1, <2>1, <2>3 DEF IdsArePast, UniqueWithinPool
<1>4. CASE UNCHANGED keyVars
  BY <1>1, <1>4 DEF keyVars, generator, IdsArePast, UniqueWithinPool
<1>5. QED
  BY <1>2, <1>3, <1>4

(* Every step keeps what is said of the ids. *)
LEMMA IdsStep == IndInv /\ [KeyNext]_keyVars => IndInv'
<1>1. ASSUME IndInv, [KeyNext]_keyVars
      PROVE  IdsArePast' /\ UniqueWithinPool'
  BY <1>1, RequestKeepsIds, GenerateKeepsIds, OthersKeepIds DEF KeyNext
<1>2. QED
  BY <1>1, KeysStep DEF IndInv

(* Until the counter has given out all the keys there is room for, no id   *)
(* is generated twice.                                                     *)
THEOREM IdsAreUnique == KeySpec => []UniqueWithinPool
<1>1. KeyInit => IndInv
  BY KeysInit, IdsInit DEF IndInv
<1>2. IndInv => UniqueWithinPool
  BY DEF IndInv
<1>3. QED
  BY <1>1, <1>2, IdsStep, PTL DEF KeySpec
=============================================================================
