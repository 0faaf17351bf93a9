--------------------------- MODULE Network_proofs ---------------------------
(***************************************************************************)
(* Proofs about the RPC and about the sessions below it.                   *)
(*                                                                         *)
(* The RPC, for any clients, services, calls and kinds of calls: every     *)
(* answer finds its call (AnswersFindTheirCall) and streams are whole      *)
(* (StreamsAreWhole), however packets of different calls overtake each     *)
(* other and whichever connections break.                                  *)
(*                                                                         *)
(* The argument is made call by call (CallInv): a call is at one stage at  *)
(* a time, with its request in one queue, in the hands of the server, or   *)
(* its procedure running, or its result on the way back; and the items of  *)
(* a stream that have left and have not arrived are, in order, in the      *)
(* queues between its two ends (Chain), the first one with the request.  A *)
(* result is the last that a provider sends, so that whoever reads a       *)
(* graceful one has read every item that was relayed; the channel of the   *)
(* procedure holds the others, which are the last (OutInv).  A connection  *)
(* that breaks cuts a queue at any place: a chain is shorter then, and     *)
(* nobody relies on its end, unless the result is still in it              *)
(* (CutBehindResult).                                                      *)
(*                                                                         *)
(* A step is about one call, and leaves the invariant of every other one   *)
(* as it is: the queues are alike for that call (Elsewhere).               *)
(*                                                                         *)
(* A session, for any number of them, any sizes of buffers and any         *)
(* MaxWrite: what it writes is what it is given, in that order             *)
(* (SentInOrder), and after OnError nothing more is heard of it            *)
(* (NothingAfterError).  The bytes between what is on the wire and what    *)
(* was given to Send are, in order, in the write under way, in             *)
(* _sendWaitQueue and in the tasks of the strand, where each buffer begins *)
(* where the one before it ends (Follow); and as long as _sendPending is   *)
(* set, exactly one write or its completion is there, unless it has        *)
(* failed (Ordered).                                                       *)
(***************************************************************************)
EXTENDS Rpc, SessionServer, SequenceTheorems, WellFoundedInduction, TLAPS

(* The types of all variables. *)
CallKinds == {"unary", "server", "client", "duplex", "unknown"}
CallCodes == {"RpcErrorNone", "RpcErrorInternalError", "RpcErrorInvalidRpcName",
              "RpcErrorStreamingClosedGracefully", "RpcErrorStreamingClosedByServer"}
Graceful == "RpcErrorStreamingClosedGracefully"
Packets ==
    [op : {"NotifySnowflake"}, id : {None}, arg : {0}]
      \union [op : {"Register"}, id : Services, arg : {0}]
      \union [op : {"ResultRegister"}, id : Services,
              arg : {"RpcErrorNone", "RpcErrorDuplicatedServiceName"}]
      \union [op : {"Result"}, id : Calls, arg : CallCodes]
      \union [op : {"Abort"}, id : Calls, arg : {0}]
      \union [op : {"Request", "ClientStreaming", "ServerStreaming"}, id : Calls, arg : Nat]
Sides == [host : Clients \union {None}, state : {"none", "running", "closed", "threw", "done"},
          input : Seq(Nat), open : BOOLEAN, out : Seq(Nat), yielded : Nat,
          relay : {"take", "test", "waiting", "look", "deaf"}]
Sources == [items : Seq(Nat), next : Nat \ {0}, open : BOOLEAN, threw : BOOLEAN]
Types ==
    /\ TypeOK
    /\ toServer \in [Clients -> Seq(Packets)] /\ toClient \in [Clients -> Seq(Packets)]
    /\ serving \in [Clients -> Packets \union {None}]
    /\ kind \in [Calls -> CallKinds \union {None}]
    /\ result \in [Calls -> CallCodes \union {"none"}]
    /\ received \in [Calls -> Seq(Nat)]
    /\ source \in [Calls -> Sources]
    /\ loop \in [Calls -> {"none", "HasNext", "await", "test", "waiting", "ended", "aborted"}]
    /\ procedure \in [Calls -> Sides]

(* The channel of a procedure holds the last items it has yielded; the     *)
(* others have been relayed.                                               *)
Relayed(r) == procedure[r].yielded - Len(procedure[r].out)
OutOf(r) == Relayed(r) >= 0 /\ Counts(procedure[r].out, Relayed(r))
OutInv == \A r \in Calls : OutOf(r)

TypeInv == Types /\ OutInv

(* What is in a queue of packets about call r: packets of a kind; a request *)
(* at most once; nothing that its provider sent behind its result; a result *)
(* that closes a stream gracefully; the first item with the request only;  *)
(* items a + 1 to b, each once, in order.                                  *)
Is(p, op, r) == p.op = op /\ p.id = r
Has(q, op, r) == \E i \in 1 .. Len(q) : Is(q[i], op, r)
AsksOnce(q, r) == \A i, j \in 1 .. Len(q) : Is(q[i], "Request", r) /\ Is(q[j], "Request", r) => i = j
EndsIt(q, r) == \A i, j \in 1 .. Len(q) :
    Is(q[i], "Result", r) /\ (Is(q[j], "Result", r) \/ Is(q[j], "ServerStreaming", r)) => j <= i
Gracefully(q, r) == \E i \in 1 .. Len(q) : Is(q[i], "Result", r) /\ q[i].arg = Graceful
Numbered(q, r, first) == \A i \in 1 .. Len(q) :
    /\ Is(q[i], "Request", r) => q[i].arg = first
    /\ Is(q[i], "ClientStreaming", r) => q[i].arg # first
Params == {"Request", "ClientStreaming"}
Yields == {"ServerStreaming"}
ItemOf(p, ops, r) == p.op \in ops /\ p.id = r
Chain(q, ops, r, a, b) ==
    /\ a <= b
    /\ \A i \in 1 .. Len(q) : ItemOf(q[i], ops, r) => q[i].arg \in a + 1 .. b
    /\ \A n \in a + 1 .. b : \E i \in 1 .. Len(q) : ItemOf(q[i], ops, r) /\ q[i].arg = n
    /\ \A i, j \in 1 .. Len(q) : ItemOf(q[i], ops, r) /\ ItemOf(q[j], ops, r) /\ i < j =>
          q[i].arg < q[j].arg

(* The stages of a call.  Its packets are between its caller and its       *)
(* provider, who never changes once it is registered.                      *)
Provider(r) == sessions[Target[r]]
Streamed(r) == source[r].next - 1 - Len(source[r].items)
Fresh(r) == kind[r] = None \/ (ParamStreaming(r) /\ Streamed(r) = 0)
AtServer(op, r) == \E c \in Clients : Has(toServer[c], op, r)
AtClient(op, r) == \E c \in Clients : Has(toClient[c], op, r)
Serving(op, r) == \E c \in Clients : serving[c] # None /\ Is(serving[c], op, r)
Started(r) == procedure[r].state # "none"

WhereOf(r) ==
    /\ \A c \in Clients : \A op \in Params :
          /\ Has(toServer[c], op, r) => c = Caller[r]
          /\ Has(toClient[c], op, r) => c = Provider(r)
    /\ \A c \in Clients : \A op \in {"Result", "ServerStreaming"} :
          /\ Has(toServer[c], op, r) => c = Provider(r)
          /\ Has(toClient[c], op, r) => c = Caller[r]
    /\ \A c \in Clients : serving[c] # None /\ Is(serving[c], "Request", r) =>
          c = Caller[r] /\ Provider(r) # None
    /\ Started(r) => procedure[r].host = Provider(r) /\ Provider(r) # None
    /\ pendingRPCs[r] \in {Caller[r], None}

(* The items of a caller are numbered; Streamed(r) of them have left.      *)
SourceOf(r) ==
    /\ Streamed(r) >= 0
    /\ \A i \in 1 .. Len(source[r].items) : source[r].items[i] = Streamed(r) + i
    /\ ~ ParamStreaming(r) => Streamed(r) = 0 /\ source[r].items = <<>>
    /\ kind[r] = None => loop[r] = "none" /\ r \notin remoteProcedures
    /\ loop[r] # "none" => ParamStreaming(r)

(* A call is at one stage at a time, and pending until its result has been *)
(* handled; a result is the last that its provider sends.                  *)
StageOf(r) ==
    /\ Fresh(r) => /\ ~ AtServer("Request", r) /\ ~ Serving("Request", r) /\ ~ AtClient("Request", r)
                   /\ ~ Started(r) /\ ~ AtServer("Result", r) /\ ~ AtClient("Result", r)
                   /\ ~ AtServer("ClientStreaming", r) /\ ~ AtClient("ClientStreaming", r)
    /\ AtServer("Request", r) =>
          /\ ~ Serving("Request", r) /\ ~ AtClient("Request", r)
          /\ ~ Started(r) /\ ~ AtServer("Result", r) /\ ~ AtClient("Result", r)
    /\ Serving("Request", r) =>
          /\ ~ AtClient("Request", r) /\ ~ Started(r)
          /\ ~ AtServer("Result", r) /\ ~ AtClient("Result", r)
    /\ AtClient("Request", r) => ~ Started(r) /\ ~ AtServer("Result", r) /\ ~ AtClient("Result", r)
    /\ Executing(r) => ~ AtServer("Result", r) /\ ~ AtClient("Result", r)
    /\ AtServer("Result", r) => ~ AtClient("Result", r)
    /\ r \notin remoteProcedures =>
          /\ Fresh(r) => kind[r] = None
          /\ ~ AtServer("Request", r) /\ ~ Serving("Request", r) /\ ~ AtClient("Request", r)
          /\ ~ Executing(r) /\ ~ AtServer("Result", r) /\ ~ AtClient("Result", r)

(* In every queue: one request, which carries the first item; no second    *)
(* result, and nothing that the procedure yielded behind it.               *)
FirstItem(r) == IF ParamStreaming(r) THEN 1 ELSE 0
Shaped(q, r, first) == AsksOnce(q, r) /\ EndsIt(q, r) /\ Numbered(q, r, first)
ShapeOf(r) == \A c \in Clients :
    Shaped(toServer[c], r, FirstItem(r)) /\ Shaped(toClient[c], r, FirstItem(r))

(* While a call is in the hands of the server or of its provider the       *)
(* server knows its caller.                                                *)
RouteOf(r) ==
    /\ \/ Serving("Request", r) \/ AtClient("Request", r) \/ Executing(r)
       \/ AtServer("Result", r) \/ AtServer("ServerStreaming", r)
       => pendingRPCs[r] = Caller[r]
    /\ Serving("Result", r) =>
          /\ ~ Fresh(r) /\ ~ AtServer("Request", r) /\ ~ Serving("Request", r) /\ ~ AtClient("Request", r)
          /\ ~ Executing(r) /\ ~ AtServer("Result", r) /\ ~ AtServer("ServerStreaming", r)

(* The items that a procedure yields are received in order; until the      *)
(* result, those that are not are on their way, in order.                  *)
Got(r) == Len(received[r])
YieldsUnderWay(r, m, b) ==
    /\ Chain(toClient[Caller[r]], Yields, r, Got(r), m)
    /\ Chain(toServer[Provider(r)], Yields, r, m, b)
    /\ b <= Relayed(r)
    /\ connection[Provider(r)] # "lost" \/ AtServer("Result", r) \/ AtClient("Result", r) =>
          b = Relayed(r)
YieldOf(r) ==
    /\ \A i \in 1 .. Got(r) : received[r][i] = i
    /\ ~ Started(r) => Relayed(r) = 0 /\ Got(r) = 0
    /\ AtServer("ServerStreaming", r) => Started(r) /\ ~ AtClient("Result", r) /\ r \in remoteProcedures
    /\ AtClient("ServerStreaming", r) => Started(r) /\ r \in remoteProcedures
    /\ result[r] # "none" => r \notin remoteProcedures /\ kind[r] # None
    /\ result[r] = Graceful => Got(r) = Relayed(r) /\ Started(r)
    /\ \A c \in Clients : Gracefully(toServer[c], r) \/ Gracefully(toClient[c], r) => Started(r)
    /\ Started(r) /\ r \in remoteProcedures /\ connection[Caller[r]] # "lost" =>
          \E m, b \in Nat : YieldsUnderWay(r, m, b)

(* The items that its caller streams are given to the procedure in order;  *)
(* the others that have left, if the provider can still be given them, are *)
(* on their way, in order, the first one with the request.                 *)
Fed(r) == Len(procedure[r].input)
Active(r) ==
    AtServer("Request", r) \/ Serving("Request", r) \/ AtClient("Request", r) \/ r \in running
ParamsUnderWay(r, m, k, b) ==
    /\ IF Provider(r) = None THEN m = 0
       ELSE Chain(toClient[Provider(r)], Params, r, IF r \in running THEN Fed(r) ELSE 0, m)
    /\ IF Serving("Request", r) THEN m = 0 /\ k = 1 ELSE k = m
    /\ Chain(toServer[Caller[r]], Params, r, k, b)
    /\ b <= Streamed(r)
    /\ connection[Caller[r]] # "lost" => b = Streamed(r)
ParamOf(r) ==
    /\ \A i \in 1 .. Fed(r) : procedure[r].input[i] = i
    /\ ~ Started(r) => Fed(r) = 0
    /\ r \in running => Executing(r) /\ ParamStreaming(r)
    /\ \A c \in Clients : serving[c] # None /\ Is(serving[c], "Request", r) =>
          serving[c].arg = FirstItem(r)
    /\ /\ ParamStreaming(r) /\ Active(r)
       /\ Provider(r) # None => connection[Provider(r)] # "lost"
       => \E m, k, b \in Nat : ParamsUnderWay(r, m, k, b)

CallInv(r) ==
    WhereOf(r) /\ SourceOf(r) /\ StageOf(r) /\ ShapeOf(r) /\ RouteOf(r) /\ YieldOf(r) /\ ParamOf(r)
LinkInv ==
    /\ \A c \in Clients : serving[c] # None => serving[c].op \in {"Request", "Result"}
    /\ \A c \in Clients : connection[c] = "lost" => toClient[c] = <<>>
RpcInv == TypeInv /\ LinkInv /\ \A r \in Calls : CallInv(r)

-----------------------------------------------------------------------------
(* Queues of packets *)

(* The packet at the head is taken.                                        *)
LEMMA TakeFacts ==
    ASSUME NEW q \in Seq(Packets), q # <<>>
    PROVE  /\ Head(q) \in Packets /\ Tail(q) \in Seq(Packets) /\ Head(q) = q[1]
           /\ Len(Tail(q)) = Len(q) - 1 /\ Len(q) \in Nat \ {0}
           /\ \A i \in 1 .. Len(Tail(q)) : i + 1 \in 1 .. Len(q) /\ Tail(q)[i] = q[i + 1]
OBVIOUS

(* A packet in a queue is its head or in the rest.                         *)
LEMMA HasTail ==
    ASSUME NEW q \in Seq(Packets), q # <<>>, NEW op, NEW r
    PROVE  Has(q, op, r) <=> Is(Head(q), op, r) \/ Has(Tail(q), op, r)
<1>1. ASSUME Has(q, op, r), ~ Is(Head(q), op, r) PROVE Has(Tail(q), op, r)
  <2>1. PICK i \in 1 .. Len(q) : Is(q[i], op, r)
    BY <1>1 DEF Has
  <2>2. i # 1
    BY <1>1, <2>1, TakeFacts
  <2>3. i - 1 \in 1 .. Len(Tail(q)) /\ Tail(q)[i - 1] = q[i]
    BY <2>2, TakeFacts
  <2> QED BY <2>1, <2>3 DEF Has
<1>2. ASSUME Has(Tail(q), op, r) PROVE Has(q, op, r)
  BY <1>2, TakeFacts DEF Has
<1>3. ASSUME Is(Head(q), op, r) PROVE Has(q, op, r)
  BY <1>3, TakeFacts DEF Has
<1> QED BY <1>1, <1>2, <1>3

(* Behind the one request there is no other.                               *)
LEMMA OnceTail ==
    ASSUME NEW q \in Seq(Packets), q # <<>>, NEW r
    PROVE  /\ AsksOnce(q, r) => AsksOnce(Tail(q), r)
           /\ AsksOnce(q, r) /\ Is(Head(q), "Request", r) => ~ Has(Tail(q), "Request", r)
<1>1. ASSUME AsksOnce(q, r) PROVE AsksOnce(Tail(q), r)
  <2> SUFFICES ASSUME NEW i \in 1 .. Len(Tail(q)), NEW j \in 1 .. Len(Tail(q)),
                      Is(Tail(q)[i], "Request", r), Is(Tail(q)[j], "Request", r)
               PROVE  i = j
    BY DEF AsksOnce
  <2>1. i + 1 = j + 1
    BY <1>1, TakeFacts DEF AsksOnce
  <2> QED BY <2>1
<1>2. ASSUME AsksOnce(q, r), Is(Head(q), "Request", r), Has(Tail(q), "Request", r) PROVE FALSE
  <2>1. PICK i \in 1 .. Len(Tail(q)) : Is(Tail(q)[i], "Request", r)
    BY <1>2 DEF Has
  <2>2. i + 1 = 1
    BY <1>2, <2>1, TakeFacts DEF AsksOnce
  <2> QED BY <2>2
<1> QED BY <1>1, <1>2

(* Behind a result there is nothing more of the provider.                  *)
LEMMA EndsTail ==
    ASSUME NEW q \in Seq(Packets), q # <<>>, NEW r
    PROVE  /\ EndsIt(q, r) => EndsIt(Tail(q), r)
           /\ EndsIt(q, r) /\ Is(Head(q), "Result", r) =>
                 ~ Has(Tail(q), "Result", r) /\ ~ Has(Tail(q), "ServerStreaming", r)
<1>1. ASSUME EndsIt(q, r) PROVE EndsIt(Tail(q), r)
  <2> SUFFICES ASSUME NEW i \in 1 .. Len(Tail(q)), NEW j \in 1 .. Len(Tail(q)),
                      Is(Tail(q)[i], "Result", r),
                      Is(Tail(q)[j], "Result", r) \/ Is(Tail(q)[j], "ServerStreaming", r)
               PROVE  j <= i
    BY DEF EndsIt
  <2>1. j + 1 <= i + 1
    BY <1>1, TakeFacts DEF EndsIt
  <2> QED BY <2>1
<1>2. ASSUME EndsIt(q, r), Is(Head(q), "Result", r), NEW i \in 1 .. Len(Tail(q)),
             Is(Tail(q)[i], "Result", r) \/ Is(Tail(q)[i], "ServerStreaming", r)
      PROVE  FALSE
  <2>2. i + 1 <= 1
    BY <1>2, TakeFacts DEF EndsIt
  <2> QED BY <2>2
<1> QED BY <1>1, <1>2 DEF Has

(* The head of a chain is its next item, and the rest is a chain from      *)
(* there.                                                                  *)
LEMMA ChainTail ==
    ASSUME NEW q \in Seq(Packets), q # <<>>, NEW ops, NEW r, NEW a \in Nat, NEW b \in Nat,
           Chain(q, ops, r, a, b)
    PROVE  /\ ItemOf(Head(q), ops, r) =>
                 Head(q).arg = a + 1 /\ a + 1 <= b /\ Chain(Tail(q), ops, r, a + 1, b)
           /\ ~ ItemOf(Head(q), ops, r) => Chain(Tail(q), ops, r, a, b)
<1> DEFINE t == Tail(q)
<1>1. /\ Len(t) = Len(q) - 1 /\ Len(q) \in Nat \ {0} /\ Head(q) = q[1]
      /\ \A i \in 1 .. Len(t) : i + 1 \in 1 .. Len(q) /\ t[i] = q[i + 1]
      /\ \A i \in 1 .. Len(q) : i # 1 => i - 1 \in 1 .. Len(t) /\ t[i - 1] = q[i]
  BY TakeFacts
<1> HIDE DEF t
<1>2. /\ a <= b
      /\ \A i \in 1 .. Len(q) : ItemOf(q[i], ops, r) => q[i].arg \in a + 1 .. b
      /\ \A n \in a + 1 .. b : \E i \in 1 .. Len(q) : ItemOf(q[i], ops, r) /\ q[i].arg = n
      /\ \A i, j \in 1 .. Len(q) : ItemOf(q[i], ops, r) /\ ItemOf(q[j], ops, r) /\ i < j =>
            q[i].arg < q[j].arg
  BY DEF Chain
<1>3. \A i, j \in 1 .. Len(t) : ItemOf(t[i], ops, r) /\ ItemOf(t[j], ops, r) /\ i < j =>
         t[i].arg < t[j].arg
  BY <1>1, <1>2
<1>4. CASE ItemOf(Head(q), ops, r)
  <2>1. 1 \in 1 .. Len(q) /\ ItemOf(q[1], ops, r)
    BY <1>1, <1>4
  <2>2. q[1].arg \in a + 1 .. b
    BY <1>2, <2>1
  <2>3. PICK i \in 1 .. Len(q) : ItemOf(q[i], ops, r) /\ q[i].arg = a + 1
    BY <1>2, <2>2
  <2>4. i = 1
    BY <1>2, <2>1, <2>2, <2>3
  <2>5. ASSUME NEW j \in 1 .. Len(t), ItemOf(t[j], ops, r) PROVE t[j].arg \in (a + 1) + 1 .. b
    <3>1. j + 1 \in 1 .. Len(q) /\ 1 < j + 1 /\ t[j] = q[j + 1]
      BY <1>1
    <3>2. ItemOf(q[j + 1], ops, r)
      BY <2>5, <3>1
    <3>3. q[1].arg < q[j + 1].arg /\ q[j + 1].arg \in a + 1 .. b
      BY <1>2, <2>1, <3>1, <3>2
    <3> QED BY <3>1, <3>3, <2>3, <2>4
  <2>6. ASSUME NEW n \in (a + 1) + 1 .. b PROVE \E j \in 1 .. Len(t) : ItemOf(t[j], ops, r) /\ t[j].arg = n
    <3>1. PICK j \in 1 .. Len(q) : ItemOf(q[j], ops, r) /\ q[j].arg = n
      BY <1>2
    <3>2. j # 1
      BY <3>1, <2>3, <2>4
    <3> QED BY <3>1, <3>2, <1>1
  <2>7. Head(q).arg = a + 1 /\ a + 1 <= b
    BY <1>1, <2>2, <2>3, <2>4
  <2> QED BY <1>3, <1>4, <2>5, <2>6, <2>7 DEF Chain, t
<1>5. CASE ~ ItemOf(Head(q), ops, r)
  <2>1. ASSUME NEW j \in 1 .. Len(t), ItemOf(t[j], ops, r) PROVE t[j].arg \in a + 1 .. b
    BY <1>1, <1>2, <2>1
  <2>2. ASSUME NEW n \in a + 1 .. b PROVE \E j \in 1 .. Len(t) : ItemOf(t[j], ops, r) /\ t[j].arg = n
    <3>1. PICK j \in 1 .. Len(q) : ItemOf(q[j], ops, r) /\ q[j].arg = n
      BY <1>2
    <3>2. j # 1
      BY <3>1, <1>5, <1>1
    <3> QED BY <3>1, <3>2, <1>1
  <2> QED BY <1>2, <1>3, <1>5, <2>1, <2>2 DEF Chain, t
<1> QED BY <1>4, <1>5

(* A packet is appended.                                                   *)
LEMMA AppendFacts ==
    ASSUME NEW q \in Seq(Packets), NEW p \in Packets
    PROVE  /\ Append(q, p) \in Seq(Packets) /\ Len(Append(q, p)) = Len(q) + 1 /\ Len(q) \in Nat
           /\ \A i \in 1 .. Len(q) : i \in 1 .. Len(Append(q, p)) /\ Append(q, p)[i] = q[i]
           /\ Len(q) + 1 \in 1 .. Len(Append(q, p)) /\ Append(q, p)[Len(q) + 1] = p
           /\ \A i \in 1 .. Len(Append(q, p)) : i \in 1 .. Len(q) \/ i = Len(q) + 1
OBVIOUS

(* What is in a queue after an append.                                     *)
LEMMA HasAppend ==
    ASSUME NEW q \in Seq(Packets), NEW p \in Packets, NEW op, NEW r
    PROVE  Has(Append(q, p), op, r) <=> Has(q, op, r) \/ Is(p, op, r)
<1> DEFINE s == Append(q, p)
<1>1. /\ Len(q) \in Nat
      /\ \A i \in 1 .. Len(q) : i \in 1 .. Len(s) /\ s[i] = q[i]
      /\ Len(q) + 1 \in 1 .. Len(s) /\ s[Len(q) + 1] = p
      /\ \A i \in 1 .. Len(s) : i \in 1 .. Len(q) \/ i = Len(q) + 1
  BY AppendFacts
<1> HIDE DEF s
<1>2. Has(s, op, r) <=> Has(q, op, r) \/ Is(p, op, r)
  BY <1>1 DEF Has
<1> QED BY <1>2 DEF s

(* A request may be appended to a queue that has none.                     *)
LEMMA OnceAppend ==
    ASSUME NEW q \in Seq(Packets), NEW p \in Packets, NEW r, AsksOnce(q, r),
           ~ Is(p, "Request", r) \/ ~ Has(q, "Request", r)
    PROVE  AsksOnce(Append(q, p), r)
<1> DEFINE s == Append(q, p)
<1>1. /\ Len(q) \in Nat
      /\ \A i \in 1 .. Len(q) : s[i] = q[i]
      /\ s[Len(q) + 1] = p
      /\ \A i \in 1 .. Len(s) : i \in 1 .. Len(q) \/ i = Len(q) + 1
  BY AppendFacts
<1> HIDE DEF s
<1>2. AsksOnce(s, r)
  BY <1>1 DEF Has, AsksOnce
<1> QED BY <1>2 DEF s

(* What a provider sends may be appended to a queue without its result.    *)
LEMMA EndsAppend ==
    ASSUME NEW q \in Seq(Packets), NEW p \in Packets, NEW r, EndsIt(q, r),
           Is(p, "Result", r) \/ Is(p, "ServerStreaming", r) => ~ Has(q, "Result", r)
    PROVE  EndsIt(Append(q, p), r)
<1> DEFINE s == Append(q, p)
<1>1. /\ Len(q) \in Nat
      /\ \A i \in 1 .. Len(q) : s[i] = q[i]
      /\ s[Len(q) + 1] = p
      /\ \A i \in 1 .. Len(s) : i \in 1 .. Len(q) \/ i = Len(q) + 1
  BY AppendFacts
<1> HIDE DEF s
<1>2. EndsIt(s, r)
  BY <1>1 DEF Has, EndsIt
<1> QED BY <1>2 DEF s

(* The next item extends a chain, any other packet leaves it alone.        *)
LEMMA ChainAppend ==
    ASSUME NEW q \in Seq(Packets), NEW p \in Packets, NEW ops, NEW r, NEW a \in Nat, NEW b \in Nat,
           Chain(q, ops, r, a, b)
    PROVE  /\ ~ ItemOf(p, ops, r) => Chain(Append(q, p), ops, r, a, b)
           /\ ItemOf(p, ops, r) /\ p.arg = b + 1 => Chain(Append(q, p), ops, r, a, b + 1)
<1> DEFINE s == Append(q, p)
<1>1. /\ Len(q) \in Nat
      /\ \A i \in 1 .. Len(q) : i \in 1 .. Len(s) /\ s[i] = q[i]
      /\ Len(q) + 1 \in 1 .. Len(s) /\ s[Len(q) + 1] = p
      /\ \A i \in 1 .. Len(s) : i \in 1 .. Len(q) \/ i = Len(q) + 1
  BY AppendFacts
<1> HIDE DEF s
<1>2. /\ a <= b
      /\ \A i \in 1 .. Len(q) : ItemOf(q[i], ops, r) => q[i].arg \in a + 1 .. b
      /\ \A n \in a + 1 .. b : \E i \in 1 .. Len(q) : ItemOf(q[i], ops, r) /\ q[i].arg = n
      /\ \A i, j \in 1 .. Len(q) : ItemOf(q[i], ops, r) /\ ItemOf(q[j], ops, r) /\ i < j =>
            q[i].arg < q[j].arg
  BY DEF Chain
<1>3. ASSUME ~ ItemOf(p, ops, r) PROVE Chain(s, ops, r, a, b)
  BY <1>1, <1>2, <1>3 DEF Chain
<1>4. ASSUME ItemOf(p, ops, r), p.arg = b + 1 PROVE Chain(s, ops, r, a, b + 1)
  <2>1. \A i \in 1 .. Len(s) : ItemOf(s[i], ops, r) => s[i].arg \in a + 1 .. b + 1
    BY <1>1, <1>2, <1>4
  <2>2. \A n \in a + 1 .. b + 1 : \E i \in 1 .. Len(s) : ItemOf(s[i], ops, r) /\ s[i].arg = n
    <3> TAKE n \in a + 1 .. b + 1
    <3>1. CASE n = b + 1
      BY <3>1, <1>1, <1>4
    <3>2. CASE n \in a + 1 .. b
      BY <3>2, <1>1, <1>2
    <3> QED BY <3>1, <3>2
  <2>3. ASSUME NEW i \in 1 .. Len(s), NEW j \in 1 .. Len(s),
               ItemOf(s[i], ops, r), ItemOf(s[j], ops, r), i < j
        PROVE  s[i].arg < s[j].arg
    <3>1. i \in 1 .. Len(q)
      BY <1>1, <2>3
    <3>2. s[i].arg \in a + 1 .. b
      BY <3>1, <1>1, <1>2, <2>3
    <3>3. CASE j = Len(q) + 1
      BY <3>2, <3>3, <1>1, <1>4
    <3>4. CASE j \in 1 .. Len(q)
      BY <3>1, <3>4, <1>1, <1>2, <2>3
    <3> QED BY <3>3, <3>4, <1>1
  <2>4. a <= b + 1
    BY <1>2
  <2> QED BY <2>1, <2>2, <2>3, <2>4 DEF Chain
<1> QED BY <1>3, <1>4 DEF s

(* The same of graceful results, for the rest of a queue.                  *)
LEMMA GraceTail ==
    ASSUME NEW q \in Seq(Packets), q # <<>>, NEW r
    PROVE  Gracefully(q, r) <=>
              (Is(Head(q), "Result", r) /\ Head(q).arg = Graceful) \/ Gracefully(Tail(q), r)
<1>1. ASSUME Gracefully(q, r), ~ (Is(Head(q), "Result", r) /\ Head(q).arg = Graceful)
      PROVE  Gracefully(Tail(q), r)
  <2>1. PICK i \in 1 .. Len(q) : Is(q[i], "Result", r) /\ q[i].arg = Graceful
    BY <1>1 DEF Gracefully
  <2>2. i # 1
    BY <1>1, <2>1, TakeFacts
  <2>3. i - 1 \in 1 .. Len(Tail(q)) /\ Tail(q)[i - 1] = q[i]
    BY <2>2, TakeFacts
  <2> QED BY <2>1, <2>3 DEF Gracefully
<1>2. ASSUME Gracefully(Tail(q), r) PROVE Gracefully(q, r)
  BY <1>2, TakeFacts DEF Gracefully
<1>3. ASSUME Is(Head(q), "Result", r), Head(q).arg = Graceful PROVE Gracefully(q, r)
  BY <1>3, TakeFacts DEF Gracefully
<1> QED BY <1>1, <1>2, <1>3

(* The same for an append.                                                 *)
LEMMA GraceAppend ==
    ASSUME NEW q \in Seq(Packets), NEW p \in Packets, NEW r
    PROVE  Gracefully(Append(q, p), r) <=>
              Gracefully(q, r) \/ (Is(p, "Result", r) /\ p.arg = Graceful)
<1> DEFINE s == Append(q, p)
<1>1. /\ Len(q) \in Nat
      /\ \A i \in 1 .. Len(q) : i \in 1 .. Len(s) /\ s[i] = q[i]
      /\ Len(q) + 1 \in 1 .. Len(s) /\ s[Len(q) + 1] = p
      /\ \A i \in 1 .. Len(s) : i \in 1 .. Len(q) \/ i = Len(q) + 1
  BY AppendFacts
<1> HIDE DEF s
<1>2. Gracefully(s, r) <=> Gracefully(q, r) \/ (Is(p, "Result", r) /\ p.arg = Graceful)
  BY <1>1 DEF Gracefully
<1> QED BY <1>2 DEF s

(* Nothing is in an empty queue, or in one without items.                  *)
LEMMA EmptyFacts ==
    /\ \A op, r : ~ Has(<<>>, op, r)
    /\ \A r : AsksOnce(<<>>, r) /\ EndsIt(<<>>, r) /\ ~ Gracefully(<<>>, r)
<1>1. \A i \in 1 .. Len(<<>>) : FALSE
  OBVIOUS
<1> QED BY <1>1 DEF Has, AsksOnce, EndsIt, Gracefully

(* A queue without items is an empty chain ...                             *)
LEMMA ChainNone ==
    ASSUME NEW q, NEW ops, NEW r, NEW a \in Nat, \A op \in ops : ~ Has(q, op, r)
    PROVE  Chain(q, ops, r, a, a)
<1>1. \A i \in 1 .. Len(q) : ~ ItemOf(q[i], ops, r)
  BY DEF Has, ItemOf, Is
<1>2. \A n \in a + 1 .. a : FALSE
  OBVIOUS
<1> QED BY <1>1, <1>2 DEF Chain

(* ... and no other.                                                       *)
LEMMA ChainEmptyBounds ==
    ASSUME NEW q, NEW ops, NEW r, NEW a \in Nat, NEW b \in Nat, Chain(q, ops, r, a, b),
           \A op \in ops : ~ Has(q, op, r)
    PROVE  a = b
<1>1. \A i \in 1 .. Len(q) : ~ ItemOf(q[i], ops, r)
  BY DEF Has, ItemOf, Is
<1>2. CASE a < b
  <2>1. b \in a + 1 .. b
    BY <1>2
  <2> QED BY <1>1, <2>1 DEF Chain
<1> QED BY <1>2 DEF Chain

(* A set of numbers that is not empty has a least one.                     *)
LEMMA LeastNat == ASSUME NEW T, T \subseteq Nat, T # {} PROVE \E x \in T : \A y \in T : x <= y
<1> DEFINE R == {ss \in Nat \X Nat : ss[1] < ss[2]}
<1>1. IsWellFoundedOn(R, Nat)
  BY NatLessThanWellFounded DEF OpToRel
<1>2. \A x, y \in Nat : y < x => <<y, x>> \in R
  OBVIOUS
<1> HIDE DEF R
<1>3. PICK x \in T : \A y \in T : ~ (<<y, x>> \in R)
  BY <1>1, WFMin
<1>4. ASSUME NEW y \in T PROVE x <= y
  <2>1. ~ (<<y, x>> \in R)
    BY <1>3
  <2>2. y \in Nat /\ x \in Nat
    BY <1>3
  <2>3. ~ (y < x)
    BY <2>1, <2>2, <1>2, Zenon
  <2> QED BY <2>2, <2>3
<1> QED BY <1>3, <1>4

(* A connection breaks: what is left of a queue is a prefix.               *)
LEMMA CutFacts ==
    ASSUME NEW q \in Seq(Packets), NEW n \in 0 .. Len(q)
    PROVE  /\ SubSeq(q, 1, n) \in Seq(Packets) /\ Len(SubSeq(q, 1, n)) = n
           /\ \A i \in 1 .. n : i \in 1 .. Len(q) /\ SubSeq(q, 1, n)[i] = q[i]
OBVIOUS

(* A prefix keeps the shape of its queue.                                  *)
LEMMA Cut ==
    ASSUME NEW q \in Seq(Packets), NEW n \in 0 .. Len(q), NEW r
    PROVE  LET s == SubSeq(q, 1, n) IN
           /\ \A op : Has(s, op, r) => Has(q, op, r)
           /\ AsksOnce(q, r) => AsksOnce(s, r)
           /\ EndsIt(q, r) => EndsIt(s, r)
           /\ Gracefully(s, r) => Gracefully(q, r)
<1> DEFINE s == SubSeq(q, 1, n)
<1>1. Len(s) = n /\ \A i \in 1 .. n : i \in 1 .. Len(q) /\ s[i] = q[i]
  BY CutFacts
<1> HIDE DEF s
<1>2. (\A op : Has(s, op, r) => Has(q, op, r)) /\ (Gracefully(s, r) => Gracefully(q, r))
  BY <1>1 DEF Has, Gracefully
<1>3. (AsksOnce(q, r) => AsksOnce(s, r)) /\ (EndsIt(q, r) => EndsIt(s, r))
  BY <1>1 DEF AsksOnce, EndsIt
<1> QED BY <1>2, <1>3 DEF s

(* What is left of a chain is one with fewer items, ...                    *)
LEMMA CutChain ==
    ASSUME NEW q \in Seq(Packets), NEW n \in 0 .. Len(q), NEW ops, NEW r, NEW a \in Nat, NEW b \in Nat,
           Chain(q, ops, r, a, b)
    PROVE  \E x \in Nat : x <= b /\ Chain(SubSeq(q, 1, n), ops, r, a, x)
<1> DEFINE s == SubSeq(q, 1, n)
           T == {x \in a .. b : \A i \in 1 .. n : ItemOf(q[i], ops, r) => q[i].arg <= x}
<1>1. Len(s) = n /\ \A i \in 1 .. n : i \in 1 .. Len(q) /\ s[i] = q[i]
  BY CutFacts
<1>2. /\ a <= b
      /\ \A i \in 1 .. Len(q) : ItemOf(q[i], ops, r) => q[i].arg \in a + 1 .. b
      /\ \A m \in a + 1 .. b : \E i \in 1 .. Len(q) : ItemOf(q[i], ops, r) /\ q[i].arg = m
      /\ \A i, j \in 1 .. Len(q) : ItemOf(q[i], ops, r) /\ ItemOf(q[j], ops, r) /\ i < j =>
            q[i].arg < q[j].arg
  BY DEF Chain
<1>3. b \in T /\ T \subseteq Nat
  BY <1>1, <1>2
<1>4. PICK x \in T : \A y \in T : x <= y
  <2>1. T # {}
    BY <1>3
  <2> HIDE DEF T
  <2> QED BY <1>3, <2>1, LeastNat
<1> HIDE DEF s
<1>5. x \in a .. b /\ \A i \in 1 .. n : ItemOf(q[i], ops, r) => q[i].arg <= x
  BY <1>4
<1>6. x = a \/ \E i \in 1 .. n : ItemOf(q[i], ops, r) /\ q[i].arg = x
  <2> SUFFICES ASSUME x # a, \A i \in 1 .. n : ItemOf(q[i], ops, r) => q[i].arg # x PROVE FALSE
    OBVIOUS
  <2>1. ASSUME NEW i \in 1 .. n, ItemOf(q[i], ops, r) PROVE q[i].arg <= x - 1
    <3>1. q[i].arg \in a + 1 .. b /\ q[i].arg <= x /\ q[i].arg # x
      BY <1>1, <1>2, <1>5, <2>1
    <3> QED BY <3>1, <1>5
  <2>2. x - 1 \in T
    BY <2>1, <1>5
  <2>3. x <= x - 1
    BY <2>2, <1>4
  <2> QED BY <2>3, <1>5
<1>7. ASSUME NEW m \in a + 1 .. x PROVE \E i \in 1 .. n : ItemOf(q[i], ops, r) /\ q[i].arg = m
  <2>1. PICK i \in 1 .. n : ItemOf(q[i], ops, r) /\ q[i].arg = x
    BY <1>5, <1>6
  <2>2. PICK j \in 1 .. Len(q) : ItemOf(q[j], ops, r) /\ q[j].arg = m
    BY <1>2, <1>5
  <2>3. i \in 1 .. Len(q)
    BY <1>1
  <2>4. ~ (i < j)
    <3>1. i < j => q[i].arg < q[j].arg
      BY <1>2, <2>1, <2>2, <2>3
    <3> QED BY <3>1, <2>1, <2>2, <1>5
  <2>5. j \in 1 .. n
    BY <2>3, <2>4
  <2> QED BY <2>2, <2>5
<1>8. Chain(s, ops, r, a, x)
  <2>1. \A i \in 1 .. Len(s) : ItemOf(s[i], ops, r) => s[i].arg \in a + 1 .. x
    <3> SUFFICES ASSUME NEW i \in 1 .. n, ItemOf(q[i], ops, r) PROVE q[i].arg \in a + 1 .. x
      BY <1>1
    <3>1. q[i].arg \in a + 1 .. b /\ q[i].arg <= x
      BY <1>1, <1>2, <1>5
    <3> QED BY <3>1, <1>5
  <2>2. \A i, j \in 1 .. Len(s) : ItemOf(s[i], ops, r) /\ ItemOf(s[j], ops, r) /\ i < j =>
            s[i].arg < s[j].arg
    BY <1>1, <1>2
  <2>3. \A m \in a + 1 .. x : \E i \in 1 .. Len(s) : ItemOf(s[i], ops, r) /\ s[i].arg = m
    BY <1>1, <1>7
  <2>4. a <= x
    BY <1>5
  <2> QED BY <2>1, <2>2, <2>3, <2>4 DEF Chain
<1>9. x \in Nat /\ x <= b
  BY <1>5
<1> QED BY <1>8, <1>9 DEF s

(* ... and all of it if the result is left.                                *)
LEMMA CutBehindResult ==
    ASSUME NEW q \in Seq(Packets), NEW n \in 0 .. Len(q), NEW r, NEW a \in Nat, NEW b \in Nat,
           Chain(q, Yields, r, a, b), EndsIt(q, r), Has(SubSeq(q, 1, n), "Result", r)
    PROVE  Chain(SubSeq(q, 1, n), Yields, r, a, b)
<1> DEFINE s == SubSeq(q, 1, n)
<1>1. Len(s) = n /\ \A i \in 1 .. n : i \in 1 .. Len(q) /\ s[i] = q[i]
  BY CutFacts
<1> HIDE DEF s
<1>2. /\ a <= b
      /\ \A i \in 1 .. Len(q) : ItemOf(q[i], Yields, r) => q[i].arg \in a + 1 .. b
      /\ \A m \in a + 1 .. b : \E i \in 1 .. Len(q) : ItemOf(q[i], Yields, r) /\ q[i].arg = m
      /\ \A i, j \in 1 .. Len(q) : ItemOf(q[i], Yields, r) /\ ItemOf(q[j], Yields, r) /\ i < j =>
            q[i].arg < q[j].arg
  BY DEF Chain
<1>3. PICK k \in 1 .. n : Is(q[k], "Result", r)
  BY <1>1 DEF Has, s
<1>4. \A j \in 1 .. Len(q) : ItemOf(q[j], Yields, r) => j <= k
  BY <1>1, <1>3 DEF EndsIt, ItemOf, Is, Yields
<1>5. \A j \in 1 .. Len(q) : ItemOf(q[j], Yields, r) => j \in 1 .. n
  BY <1>3, <1>4
<1>6. Chain(s, Yields, r, a, b)
  BY <1>1, <1>2, <1>5 DEF Chain
<1> QED BY <1>6 DEF s

(* The first items of what is in a queue.                                  *)
LEMMA NumberedTail ==
    ASSUME NEW q \in Seq(Packets), q # <<>>, NEW r, NEW first, Numbered(q, r, first)
    PROVE  /\ Numbered(Tail(q), r, first)
           /\ Is(Head(q), "Request", r) => Head(q).arg = first
           /\ Is(Head(q), "ClientStreaming", r) => Head(q).arg # first
<1>1. /\ \A i \in 1 .. Len(Tail(q)) : i + 1 \in 1 .. Len(q) /\ Tail(q)[i] = q[i + 1]
      /\ Head(q) = q[1] /\ 1 \in 1 .. Len(q)
  BY TakeFacts
<1> QED BY <1>1 DEF Numbered

(* A packet with the number its kind must have may be appended.            *)
LEMMA NumberedAppend ==
    ASSUME NEW q \in Seq(Packets), NEW p \in Packets, NEW r, NEW first, Numbered(q, r, first),
           Is(p, "Request", r) => p.arg = first, Is(p, "ClientStreaming", r) => p.arg # first
    PROVE  Numbered(Append(q, p), r, first)
<1> DEFINE s == Append(q, p)
<1>1. /\ \A i \in 1 .. Len(q) : s[i] = q[i]
      /\ s[Len(q) + 1] = p
      /\ \A i \in 1 .. Len(s) : i \in 1 .. Len(q) \/ i = Len(q) + 1
  BY AppendFacts
<1> HIDE DEF s
<1>2. Numbered(s, r, first)
  BY <1>1 DEF Numbered
<1> QED BY <1>2 DEF s

(* A queue without parameters has nothing to number.                       *)
LEMMA NumberedNone ==
    ASSUME NEW q, NEW r, NEW first, \A op \in Params : ~ Has(q, op, r)
    PROVE  Numbered(q, r, first)
BY DEF Params, Has, Numbered

(* A queue without a request has it at most once.                          *)
LEMMA OnceNone ==
    ASSUME NEW q, NEW r, ~ Has(q, "Request", r)
    PROVE  AsksOnce(q, r)
BY DEF Has, AsksOnce

(* Two queues hold the same of what the caller of r sent; of what its      *)
(* provider did.                                                           *)
Answers == {"Result", "ServerStreaming"}
AlikeParams(q, s, r) ==
    /\ \A op \in Params : Has(s, op, r) <=> Has(q, op, r)
    /\ AsksOnce(q, r) => AsksOnce(s, r)
    /\ \A first : Numbered(q, r, first) => Numbered(s, r, first)
    /\ \A a, b \in Nat : Chain(q, Params, r, a, b) => Chain(s, Params, r, a, b)
AlikeAnswers(q, s, r) ==
    /\ \A op \in Answers : Has(s, op, r) <=> Has(q, op, r)
    /\ EndsIt(q, r) => EndsIt(s, r)
    /\ Gracefully(s, r) => Gracefully(q, r)
    /\ \A a, b \in Nat : Chain(q, Yields, r, a, b) => Chain(s, Yields, r, a, b)

(* A queue that does not change is alike.                                  *)
LEMMA AlikeSame ==
    ASSUME NEW q, NEW r
    PROVE  AlikeParams(q, q, r) /\ AlikeAnswers(q, q, r)
BY DEF AlikeParams, AlikeAnswers

(* A packet about something else is taken or appended.                     *)
LEMMA AlikeTail ==
    ASSUME NEW q \in Seq(Packets), q # <<>>, NEW r
    PROVE  /\ ~ ItemOf(Head(q), Params, r) => AlikeParams(q, Tail(q), r)
           /\ ~ ItemOf(Head(q), Answers, r) => AlikeAnswers(q, Tail(q), r)
<1>1. ASSUME ~ ItemOf(Head(q), Params, r) PROVE AlikeParams(q, Tail(q), r)
  <2>1. \A op \in Params : Has(Tail(q), op, r) <=> Has(q, op, r)
    BY <1>1, HasTail DEF ItemOf, Is
  <2>2. \A first : Numbered(q, r, first) => Numbered(Tail(q), r, first)
    BY NumberedTail
  <2>3. \A a, b \in Nat : Chain(q, Params, r, a, b) => Chain(Tail(q), Params, r, a, b)
    BY <1>1, ChainTail
  <2> QED BY <2>1, <2>2, <2>3, OnceTail DEF AlikeParams
<1>2. ASSUME ~ ItemOf(Head(q), Answers, r) PROVE AlikeAnswers(q, Tail(q), r)
  <2>1. \A op \in Answers : Has(Tail(q), op, r) <=> Has(q, op, r)
    BY <1>2, HasTail DEF ItemOf, Is
  <2>2. ~ ItemOf(Head(q), Yields, r)
    BY <1>2 DEF ItemOf, Yields, Answers
  <2>3. \A a, b \in Nat : Chain(q, Yields, r, a, b) => Chain(Tail(q), Yields, r, a, b)
    BY <2>2, ChainTail
  <2>4. Gracefully(Tail(q), r) => Gracefully(q, r)
    BY GraceTail
  <2> QED BY <2>1, <2>3, <2>4, EndsTail DEF AlikeAnswers
<1> QED BY <1>1, <1>2

(* The same for an append.                                                 *)
LEMMA AlikeAppend ==
    ASSUME NEW q \in Seq(Packets), NEW p \in Packets, NEW r
    PROVE  /\ ~ ItemOf(p, Params, r) => AlikeParams(q, Append(q, p), r)
           /\ ~ ItemOf(p, Answers, r) => AlikeAnswers(q, Append(q, p), r)
<1> DEFINE s == Append(q, p)
<1>1. ASSUME ~ ItemOf(p, Params, r) PROVE AlikeParams(q, s, r)
  <2>0. ~ Is(p, "Request", r) /\ ~ Is(p, "ClientStreaming", r)
    BY <1>1 DEF ItemOf, Is, Params
  <2>1. \A op \in Params : Has(s, op, r) <=> Has(q, op, r)
    BY <1>1, HasAppend DEF ItemOf, Is
  <2>2. \A first : Numbered(q, r, first) => Numbered(s, r, first)
    BY <2>0, NumberedAppend
  <2>3. \A a, b \in Nat : Chain(q, Params, r, a, b) => Chain(s, Params, r, a, b)
    BY <1>1, ChainAppend
  <2>4. AsksOnce(q, r) => AsksOnce(s, r)
    BY <2>0, OnceAppend
  <2> HIDE DEF s
  <2> QED BY <2>1, <2>2, <2>3, <2>4 DEF AlikeParams
<1>2. ASSUME ~ ItemOf(p, Answers, r) PROVE AlikeAnswers(q, s, r)
  <2>0. ~ Is(p, "Result", r) /\ ~ Is(p, "ServerStreaming", r) /\ ~ ItemOf(p, Yields, r)
    BY <1>2 DEF ItemOf, Is, Answers, Yields
  <2>1. \A op \in Answers : Has(s, op, r) <=> Has(q, op, r)
    BY <1>2, HasAppend DEF ItemOf, Is
  <2>3. \A a, b \in Nat : Chain(q, Yields, r, a, b) => Chain(s, Yields, r, a, b)
    BY <2>0, ChainAppend
  <2>4. Gracefully(s, r) => Gracefully(q, r)
    BY <2>0, GraceAppend
  <2>5. EndsIt(q, r) => EndsIt(s, r)
    BY <2>0, EndsAppend
  <2> HIDE DEF s
  <2> QED BY <2>1, <2>3, <2>4, <2>5 DEF AlikeAnswers
<1> QED BY <1>1, <1>2

-----------------------------------------------------------------------------
(* The queues of all clients *)

(* Post, queue by queue: a lost connection gets nothing.                   *)
LEMMA PostFacts ==
    ASSUME NEW Q \in [Clients -> Seq(Packets)], NEW c \in Clients, NEW p \in Packets
    PROVE  /\ Post(Q, c, p) \in [Clients -> Seq(Packets)]
           /\ connection[c] = "lost" => Post(Q, c, p) = Q
           /\ connection[c] # "lost" => Post(Q, c, p)[c] = Append(Q[c], p)
           /\ \A d \in Clients : d # c => Post(Q, c, p)[d] = Q[d]
BY AppendFacts DEF Post

(* The head of one queue is taken: the others are as they were.            *)
LEMMA TakeAway ==
    ASSUME NEW Q \in [Clients -> Seq(Packets)], NEW c \in Clients, Q[c] # <<>>
    PROVE  LET T == [Q EXCEPT ![c] = Tail(@)] IN
           /\ T \in [Clients -> Seq(Packets)] /\ T[c] = Tail(Q[c])
           /\ \A d \in Clients : d # c => T[d] = Q[d]
BY TakeFacts

(* A packet about something else leaves every queue alike ...              *)
LEMMA AlikePost ==
    ASSUME NEW Q \in [Clients -> Seq(Packets)], NEW c \in Clients, NEW p \in Packets, NEW r
    PROVE  \A d \in Clients :
           /\ ~ ItemOf(p, Params, r) => AlikeParams(Q[d], Post(Q, c, p)[d], r)
           /\ ~ ItemOf(p, Answers, r) => AlikeAnswers(Q[d], Post(Q, c, p)[d], r)
<1> TAKE d \in Clients
<1>1. CASE d = c /\ connection[c] # "lost"
  <2>1. Post(Q, c, p)[d] = Append(Q[d], p) /\ Q[d] \in Seq(Packets)
    BY <1>1, PostFacts
  <2> QED BY <2>1, AlikeAppend
<1>2. CASE ~ (d = c /\ connection[c] # "lost")
  <2>1. Post(Q, c, p)[d] = Q[d]
    BY <1>2, PostFacts
  <2> QED BY <2>1, AlikeSame
<1> QED BY <1>1, <1>2

(* ... whether it is posted or taken.                                      *)
LEMMA AlikeTaken ==
    ASSUME NEW Q \in [Clients -> Seq(Packets)], NEW c \in Clients, Q[c] # <<>>, NEW r
    PROVE  \A d \in Clients :
           /\ ~ ItemOf(Head(Q[c]), Params, r) => AlikeParams(Q[d], [Q EXCEPT ![c] = Tail(@)][d], r)
           /\ ~ ItemOf(Head(Q[c]), Answers, r) => AlikeAnswers(Q[d], [Q EXCEPT ![c] = Tail(@)][d], r)
<1> TAKE d \in Clients
<1> DEFINE T == [Q EXCEPT ![c] = Tail(@)]
<1>1. CASE d = c
  <2>1. T[d] = Tail(Q[d]) /\ Q[d] \in Seq(Packets)
    BY <1>1, TakeAway
  <2> HIDE DEF T
  <2>2. /\ ~ ItemOf(Head(Q[c]), Params, r) => AlikeParams(Q[d], T[d], r)
        /\ ~ ItemOf(Head(Q[c]), Answers, r) => AlikeAnswers(Q[d], T[d], r)
    BY <1>1, <2>1, AlikeTail
  <2> QED BY <2>2 DEF T
<1>2. CASE d # c
  <2>1. T[d] = Q[d]
    BY <1>2, TakeAway
  <2> HIDE DEF T
  <2>2. AlikeParams(Q[d], T[d], r) /\ AlikeAnswers(Q[d], T[d], r)
    BY <2>1, AlikeSame
  <2> QED BY <2>2 DEF T
<1> QED BY <1>1, <1>2

-----------------------------------------------------------------------------
(* What a step leaves as it was for a call *)

SameParams(r) == \A c \in Clients :
    AlikeParams(toServer[c], toServer'[c], r) /\ AlikeParams(toClient[c], toClient'[c], r)
SameAnswers(r) == \A c \in Clients :
    AlikeAnswers(toServer[c], toServer'[c], r) /\ AlikeAnswers(toClient[c], toClient'[c], r)
OtherThan(p, r) == p = None \/ p.id # r
SameServing(r) == \A c \in Clients :
    serving'[c] = serving[c] \/ (OtherThan(serving[c], r) /\ OtherThan(serving'[c], r))
SameLinks(r) ==
    /\ sessions'[Target[r]] = sessions[Target[r]]
    /\ \A c \in Clients : connection'[c] = "lost" <=> connection[c] = "lost"
SameCall(r) ==
    kind'[r] = kind[r] /\ (r \in remoteProcedures' <=> r \in remoteProcedures)
SameSource(r) ==
    /\ source'[r].items = source[r].items /\ source'[r].next = source[r].next
    /\ loop[r] = "none" => loop'[r] = "none"
SameReceived(r) == result'[r] = result[r] /\ received'[r] = received[r]
SameStage(r) == (Started(r)' <=> Started(r)) /\ (Executing(r)' <=> Executing(r))
SameProcedure(r) ==
    /\ procedure'[r].host = procedure[r].host /\ SameStage(r)
    /\ procedure'[r].input = procedure[r].input /\ Relayed(r)' = Relayed(r)
Untouched(r) ==
    /\ SameParams(r) /\ SameAnswers(r) /\ SameServing(r) /\ SameLinks(r) /\ SameCall(r)
    /\ SameReceived(r) /\ SameProcedure(r)
    /\ pendingRPCs'[r] = pendingRPCs[r] /\ (r \in running' <=> r \in running)

(* Queues that are alike for a call have its caller's packets at the same  *)
(* places.                                                                 *)
LEMMA ParamsAt ==
    ASSUME NEW r \in Calls, SameParams(r)
    PROVE  \A op \in Params :
           /\ \A c \in Clients : /\ Has(toServer'[c], op, r) <=> Has(toServer[c], op, r)
                                 /\ Has(toClient'[c], op, r) <=> Has(toClient[c], op, r)
           /\ AtServer(op, r)' <=> AtServer(op, r)
           /\ AtClient(op, r)' <=> AtClient(op, r)
<1> TAKE op \in Params
<1>1. \A c \in Clients : /\ Has(toServer'[c], op, r) <=> Has(toServer[c], op, r)
                         /\ Has(toClient'[c], op, r) <=> Has(toClient[c], op, r)
  BY DEF SameParams, AlikeParams
<1> QED BY <1>1 DEF AtServer, AtClient

(* They have its provider's packets at the same places.                    *)
LEMMA AnswersAt ==
    ASSUME NEW r \in Calls, SameAnswers(r)
    PROVE  \A op \in Answers :
           /\ \A c \in Clients : /\ Has(toServer'[c], op, r) <=> Has(toServer[c], op, r)
                                 /\ Has(toClient'[c], op, r) <=> Has(toClient[c], op, r)
           /\ AtServer(op, r)' <=> AtServer(op, r)
           /\ AtClient(op, r)' <=> AtClient(op, r)
<1> TAKE op \in Answers
<1>1. \A c \in Clients : /\ Has(toServer'[c], op, r) <=> Has(toServer[c], op, r)
                         /\ Has(toClient'[c], op, r) <=> Has(toClient[c], op, r)
  BY DEF SameAnswers, AlikeAnswers
<1> QED BY <1>1 DEF AtServer, AtClient

(* What the server is serving of a call.                                   *)
LEMMA ServingAt ==
    ASSUME NEW r \in Calls, SameServing(r)
    PROVE  \A op :
           /\ \A c \in Clients : serving'[c] # None /\ Is(serving'[c], op, r) =>
                 serving'[c] = serving[c]
           /\ Serving(op, r)' <=> Serving(op, r)
<1> TAKE op
<1>1. \A c \in Clients : serving'[c] # None /\ Is(serving'[c], op, r) => serving'[c] = serving[c]
  BY DEF SameServing, OtherThan, Is
<1>2. \A c \in Clients : serving[c] # None /\ Is(serving[c], op, r) => serving'[c] = serving[c]
  BY DEF SameServing, OtherThan, Is
<1> QED BY <1>1, <1>2 DEF Serving

(* The types of what the invariant of a call is about.                     *)
LEMMA Parties ==
    ASSUME TypeInv, NEW r \in Calls
    PROVE  /\ Caller[r] \in Clients /\ Target[r] \in Services /\ Provider(r) \in Clients \union {None}
           /\ None \notin Clients
           /\ Got(r) \in Nat /\ Fed(r) \in Nat /\ Streamed(r) \in Int /\ received[r] \in Seq(Nat)
           /\ procedure[r].input \in Seq(Nat) /\ Relayed(r) \in Nat
           /\ procedure[r].out \in Seq(Nat) /\ procedure[r].yielded \in Nat
           /\ source[r].items \in Seq(Nat) /\ source[r].next \in Nat /\ Len(source[r].items) \in Nat
           /\ procedure[r].host \in Clients \union {None}
<1>1. /\ Caller[r] \in Clients /\ Target[r] \in Services
      /\ sessions[Target[r]] \in Clients \union {None} /\ None \notin Clients
  BY ConstantsAssumption DEF TypeInv, Types, TypeOK
<1>2. /\ received[r] \in Seq(Nat) /\ procedure[r].input \in Seq(Nat)
      /\ procedure[r].yielded \in Nat /\ procedure[r].out \in Seq(Nat)
      /\ procedure[r].host \in Clients \union {None}
      /\ source[r].items \in Seq(Nat) /\ source[r].next \in Nat
  BY DEF TypeInv, Types, Sides, Sources
<1>4. Relayed(r) \in Nat
  <2>1. Len(procedure[r].out) \in Nat /\ Relayed(r) >= 0
    BY <1>2 DEF TypeInv, OutInv, OutOf
  <2> QED BY <1>2, <2>1 DEF Relayed
<1>3. Len(received[r]) \in Nat /\ Len(procedure[r].input) \in Nat /\ Len(source[r].items) \in Nat
  BY <1>2
<1> QED BY <1>1, <1>2, <1>3, <1>4 DEF Provider, Got, Fed, Streamed

(* The provider's items are under way as before.                           *)
LEMMA YieldFrame ==
    ASSUME TypeInv, NEW r \in Calls, YieldOf(r), Started(r) => Provider(r) # None,
           SameAnswers(r), SameLinks(r), SameCall(r), SameReceived(r),
           SameStage(r), Relayed(r)' = Relayed(r)
    PROVE  YieldOf(r)'
<1>1. /\ \A op \in Answers : (AtServer(op, r)' <=> AtServer(op, r)) /\ (AtClient(op, r)' <=> AtClient(op, r))
      /\ Provider(r)' = Provider(r) /\ Got(r)' = Got(r) /\ (Started(r)' <=> Started(r))
      /\ \A c \in Clients : connection'[c] = "lost" <=> connection[c] = "lost"
  BY AnswersAt DEF SameLinks, SameReceived, Provider, Got, SameStage
<1>2. \A c \in Clients : Gracefully(toServer'[c], r) \/ Gracefully(toClient'[c], r) => Started(r)
  BY DEF SameAnswers, AlikeAnswers, YieldOf
<1>3. ASSUME Started(r), r \in remoteProcedures, connection[Caller[r]] # "lost"
      PROVE  \E m, b \in Nat : YieldsUnderWay(r, m, b)'
  <2>1. PICK m \in Nat, b \in Nat : YieldsUnderWay(r, m, b)
    BY <1>3 DEF YieldOf
  <2>2. Caller[r] \in Clients /\ Provider(r) \in Clients /\ Got(r) \in Nat
    BY <1>3, Parties
  <2>3. /\ Chain(toClient'[Caller[r]], Yields, r, Got(r), m)
        /\ Chain(toServer'[Provider(r)], Yields, r, m, b)
    BY <2>1, <2>2 DEF SameAnswers, AlikeAnswers, YieldsUnderWay
  <2>4. YieldsUnderWay(r, m, b)'
    BY <1>1, <2>1, <2>2, <2>3 DEF YieldsUnderWay, Answers
  <2> QED BY <2>4
<1> QED BY <1>1, <1>2, <1>3, Parties DEF YieldOf, SameCall, SameReceived, Got, Answers

(* So are the caller's.                                                    *)
LEMMA ParamFrame ==
    ASSUME TypeInv, NEW r \in Calls, ParamOf(r),
           SameParams(r), SameLinks(r), kind'[r] = kind[r], Streamed(r)' = Streamed(r),
           Serving("Request", r)' <=> Serving("Request", r),
           \A c \in Clients : serving'[c] # None /\ Is(serving'[c], "Request", r) =>
              serving'[c] = serving[c],
           SameStage(r), procedure'[r].input = procedure[r].input,
           r \in running' <=> r \in running
    PROVE  ParamOf(r)'
<1>1. /\ \A op \in Params : (AtServer(op, r)' <=> AtServer(op, r)) /\ (AtClient(op, r)' <=> AtClient(op, r))
      /\ Provider(r)' = Provider(r) /\ Fed(r)' = Fed(r) /\ (Started(r)' <=> Started(r))
      /\ (Executing(r)' <=> Executing(r)) /\ (ParamStreaming(r)' <=> ParamStreaming(r))
      /\ \A c \in Clients : connection'[c] = "lost" <=> connection[c] = "lost"
  BY ParamsAt DEF SameLinks, Provider, Fed, SameStage, ParamStreaming
<1>2. Active(r)' <=> Active(r)
  BY <1>1 DEF Active, Params
<1>3. ASSUME ParamStreaming(r), Active(r), Provider(r) # None => connection[Provider(r)] # "lost"
      PROVE  \E m, k, b \in Nat : ParamsUnderWay(r, m, k, b)'
  <2>1. PICK m \in Nat, k \in Nat, b \in Nat : ParamsUnderWay(r, m, k, b)
    BY <1>3 DEF ParamOf
  <2>2. Caller[r] \in Clients /\ Provider(r) \in Clients \union {None} /\ Fed(r) \in Nat
    BY Parties
  <2>3. Chain(toServer'[Caller[r]], Params, r, k, b)
    BY <2>1, <2>2 DEF SameParams, AlikeParams, ParamsUnderWay
  <2>4. Provider(r) # None =>
           Chain(toClient'[Provider(r)], Params, r, IF r \in running THEN Fed(r) ELSE 0, m)
    BY <2>1, <2>2 DEF SameParams, AlikeParams, ParamsUnderWay
  <2>5. ParamsUnderWay(r, m, k, b)'
    BY <1>1, <2>1, <2>2, <2>3, <2>4 DEF ParamsUnderWay
  <2> QED BY <2>5
<1>4. \A i \in 1 .. Fed(r)' : procedure'[r].input[i] = i
  BY <1>1 DEF ParamOf
<1>5. \A c \in Clients : serving'[c] # None /\ Is(serving'[c], "Request", r) =>
          serving'[c].arg = FirstItem(r)'
  BY <1>1 DEF ParamOf, FirstItem
<1>6. (Provider(r)' # None => connection'[Provider(r)'] # "lost")
      => (Provider(r) # None => connection[Provider(r)] # "lost")
  BY <1>1, Parties
<1> QED BY <1>1, <1>2, <1>3, <1>4, <1>5, <1>6 DEF ParamOf

(* What a call has streamed, and where its packets are.                    *)
LEMMA SourceFrame ==
    ASSUME NEW r \in Calls, SourceOf(r), SameCall(r), SameSource(r)
    PROVE  SourceOf(r)' /\ Streamed(r)' = Streamed(r) /\ (Fresh(r)' <=> Fresh(r))
<1>1. Streamed(r)' = Streamed(r) /\ (ParamStreaming(r)' <=> ParamStreaming(r))
  BY DEF SameSource, SameCall, Streamed, ParamStreaming
<1>2. Fresh(r)' <=> Fresh(r)
  BY <1>1 DEF Fresh, SameCall
<1>3. SourceOf(r)'
  BY <1>1 DEF SourceOf, SameSource, SameCall
<1> QED BY <1>1, <1>2, <1>3

(* The shape of the queues depends on nothing else.                        *)
LEMMA ShapeFrame ==
    ASSUME NEW r \in Calls, ShapeOf(r), SameParams(r), SameAnswers(r), kind'[r] = kind[r]
    PROVE  ShapeOf(r)'
<1>1. FirstItem(r)' = FirstItem(r)
  BY DEF FirstItem, ParamStreaming
<1> QED BY <1>1 DEF ShapeOf, Shaped, SameParams, SameAnswers, AlikeParams, AlikeAnswers

(* A step that leaves a call untouched, except for what its procedure was  *)
(* given, keeps the rest of its invariant; ...                             *)
LEMMA FrameButParams ==
    ASSUME TypeInv, NEW r \in Calls, CallInv(r),
           SameParams(r), SameAnswers(r), SameServing(r), SameLinks(r), SameCall(r), SameReceived(r),
           procedure'[r].host = procedure[r].host, SameStage(r),
           Relayed(r)' = Relayed(r), pendingRPCs'[r] = pendingRPCs[r],
           Fresh(r)' <=> Fresh(r)
    PROVE  WhereOf(r)' /\ StageOf(r)' /\ ShapeOf(r)' /\ RouteOf(r)' /\ YieldOf(r)'
<1>2. /\ \A op \in Params \union Answers :
            /\ \A c \in Clients : /\ Has(toServer'[c], op, r) <=> Has(toServer[c], op, r)
                                  /\ Has(toClient'[c], op, r) <=> Has(toClient[c], op, r)
            /\ AtServer(op, r)' <=> AtServer(op, r)
            /\ AtClient(op, r)' <=> AtClient(op, r)
      /\ \A op : Serving(op, r)' <=> Serving(op, r)
      /\ \A c \in Clients : serving'[c] # None /\ Is(serving'[c], "Request", r) =>
            serving'[c] = serving[c]
  BY ParamsAt, AnswersAt, ServingAt
<1>3. /\ Provider(r)' = Provider(r) /\ (Started(r)' <=> Started(r)) /\ (Executing(r)' <=> Executing(r))
  BY DEF SameLinks, Provider, SameStage
<1>5. ShapeOf(r)'
  BY ShapeFrame DEF CallInv, SameCall
<1>6. WhereOf(r)'
  BY <1>2, <1>3 DEF CallInv, WhereOf, Params, Answers
<1>7. StageOf(r)'
  BY <1>2, <1>3 DEF CallInv, StageOf, Params, Answers, SameCall
<1>8. RouteOf(r)'
  BY <1>2, <1>3 DEF CallInv, RouteOf, Params, Answers
<1>9. YieldOf(r)'
  BY YieldFrame DEF CallInv, WhereOf
<1> QED BY <1>5, <1>6, <1>7, <1>8, <1>9

(* ... one that leaves it untouched keeps it all.                          *)
LEMMA ElsewhereButSource ==
    ASSUME TypeInv, NEW r \in Calls, CallInv(r), Untouched(r), SourceOf(r)', Streamed(r)' = Streamed(r)
    PROVE  CallInv(r)'
<1>1. /\ SameParams(r) /\ SameAnswers(r) /\ SameServing(r) /\ SameLinks(r) /\ SameCall(r)
      /\ SameReceived(r) /\ SameProcedure(r)
      /\ pendingRPCs'[r] = pendingRPCs[r] /\ (r \in running' <=> r \in running)
  BY DEF Untouched
<1>4. Fresh(r)' <=> Fresh(r)
  BY <1>1 DEF Fresh, SameCall, ParamStreaming
<1>2. WhereOf(r)' /\ StageOf(r)' /\ ShapeOf(r)' /\ RouteOf(r)' /\ YieldOf(r)'
  BY <1>1, <1>4, FrameButParams DEF SameProcedure
<1>3. ParamOf(r)'
  BY <1>1, ServingAt, ParamFrame DEF CallInv, SameCall, SameProcedure
<1> QED BY <1>2, <1>3 DEF CallInv

(* The case of a step that does not touch the source either.               *)
LEMMA Elsewhere ==
    ASSUME TypeInv, NEW r \in Calls, CallInv(r), Untouched(r), SameSource(r)
    PROVE  CallInv(r)'
BY SourceFrame, ElsewhereButSource DEF CallInv, Untouched

-----------------------------------------------------------------------------
(* Types *)

(* The fields of a packet, by its kind.                                    *)
LEMMA PacketFacts ==
    ASSUME NEW p \in Packets
    PROVE  /\ p.op \in {"Request", "ClientStreaming", "ServerStreaming"} => p.id \in Calls /\ p.arg \in Nat
           /\ p.op = "Result" => p.id \in Calls /\ p.arg \in CallCodes
           /\ p.op = "Abort" => p.id \in Calls
           /\ p.op \in {"Register", "ResultRegister"} => p.id \in Services
BY DEF Packets

(* The packets that the code builds.                                       *)
LEMMA PacketIn ==
    /\ Packet("NotifySnowflake", None, 0) \in Packets
    /\ \A s \in Services : Packet("Register", s, 0) \in Packets
    /\ \A s \in Services : \A code \in {"RpcErrorNone", "RpcErrorDuplicatedServiceName"} :
          Packet("ResultRegister", s, code) \in Packets
    /\ \A r \in Calls : \A code \in CallCodes : Packet("Result", r, code) \in Packets
    /\ \A r \in Calls : Packet("Abort", r, 0) \in Packets
    /\ \A r \in Calls : \A n \in Nat : /\ Packet("Request", r, n) \in Packets
                                       /\ Packet("ClientStreaming", r, n) \in Packets
                                       /\ Packet("ServerStreaming", r, n) \in Packets
BY DEF Packet, Packets

(* The types of what a reader takes and leaves.                            *)
LEMMA HeadFacts ==
    ASSUME TypeInv, NEW c \in Clients
    PROVE  /\ toServer[c] # <<>> => Head(toServer[c]) \in Packets
           /\ toClient[c] # <<>> => Head(toClient[c]) \in Packets
           /\ Consumed(c) /\ toServer[c] # <<>> => toServer' \in [Clients -> Seq(Packets)]
           /\ toClient[c] # <<>> => Taken(c) \in [Clients -> Seq(Packets)]
           /\ toServer \in [Clients -> Seq(Packets)] /\ toClient \in [Clients -> Seq(Packets)]
<1>1. toServer \in [Clients -> Seq(Packets)] /\ toClient \in [Clients -> Seq(Packets)]
  BY DEF TypeInv, Types
<1>2. toServer[c] # <<>> => Head(toServer[c]) \in Packets
  BY <1>1, TakeFacts
<1>3. toClient[c] # <<>> => Head(toClient[c]) \in Packets
  BY <1>1, TakeFacts
<1>4. toServer[c] # <<>> => [toServer EXCEPT ![c] = Tail(@)] \in [Clients -> Seq(Packets)]
  BY <1>1, TakeAway
<1>5. toClient[c] # <<>> => [toClient EXCEPT ![c] = Tail(@)] \in [Clients -> Seq(Packets)]
  BY <1>1, TakeAway
<1> QED BY <1>1, <1>2, <1>3, <1>4, <1>5 DEF Consumed, Taken

(* A queue of packets stays one when a packet is posted ...                *)
LEMMA PostType ==
    ASSUME NEW Q \in [Clients -> Seq(Packets)], NEW c, NEW p \in Packets
    PROVE  Post(Q, c, p) \in [Clients -> Seq(Packets)]
BY AppendFacts DEF Post

(* ... or forwarded.                                                       *)
LEMMA ForwardedType ==
    ASSUME TypeInv, NEW c \in Clients \union {None}, NEW p \in Packets, Forwarded(c, p)
    PROVE  toClient' \in [Clients -> Seq(Packets)]
<1>1. toClient \in [Clients -> Seq(Packets)]
  BY DEF TypeInv, Types
<1>2. CASE c = None
  BY <1>1, <1>2 DEF Forwarded
<1>3. CASE c # None
  <2>1. c \in Clients
    BY <1>3
  <2> QED BY <1>1, <1>3, <2>1, PostFacts DEF Forwarded, Reply
<1> QED BY <1>2, <1>3

(* All queues and tables are empty at first.                               *)
LEMMA TypeInit == Init => TypeInv
<1> SUFFICES ASSUME Init PROVE TypeInv
  OBVIOUS
<1>1. TypeOK
  BY DEF Init, TypeOK
<1>2. \A T : <<>> \in Seq(T)
  OBVIOUS
<1>3. Types
  BY <1>1, <1>2 DEF Init, Types, Sides, Sources
<1>4. ASSUME NEW r \in Calls PROVE OutOf(r)
  <2>1. procedure[r].out = <<>> /\ procedure[r].yielded = 0
    BY DEF Init
  <2> QED BY <2>1 DEF OutOf, Relayed, Counts
<1> QED BY <1>3, <1>4 DEF TypeInv, OutInv

(* The handlers of the server respect the types.                           *)
LEMMA TypeStepServer ==
    ASSUME TypeInv, NEW c \in Clients, Server(c)
    PROVE  Types'
<1> USE DEF TypeInv, Types, TypeOK
<1>1. CASE HandleAccept(c)
  <2>1. toClient' \in [Clients -> Seq(Packets)]
    BY <1>1, PostFacts, PacketIn DEF HandleAccept, Reply
  <2> QED BY <1>1, <2>1 DEF HandleAccept, netVars, serverVars, callVars, streamVars, providerVars
<1>2. CASE ServeRegister(c)
  <2>1. toServer[c] # <<>> /\ Head(toServer[c]).op = "Register" /\ Consumed(c)
    BY <1>2 DEF ServeRegister, Arrives
  <2>2. Head(toServer[c]).id \in Services /\ toServer' \in [Clients -> Seq(Packets)]
    BY <2>1, HeadFacts, PacketFacts
  <2>3. PICK code \in {"RpcErrorNone", "RpcErrorDuplicatedServiceName"} :
           Reply(c, Packet("ResultRegister", Head(toServer[c]).id, code))
    BY <1>2 DEF ServeRegister
  <2>4. toClient' \in [Clients -> Seq(Packets)]
    BY <2>2, <2>3, PostFacts, PacketIn DEF Reply
  <2> QED BY <1>2, <2>2, <2>4 DEF ServeRegister, callVars, streamVars, providerVars
<1>3. CASE ServeRequest(c)
  <2>1. toServer[c] # <<>> /\ Head(toServer[c]).op = "Request" /\ Consumed(c)
    BY <1>3 DEF ServeRequest, Arrives
  <2>2. /\ Head(toServer[c]).id \in Calls /\ toServer' \in [Clients -> Seq(Packets)]
        /\ Head(toServer[c]) \in Packets
    BY <2>1, HeadFacts, PacketFacts
  <2>3. Packet("Result", Head(toServer[c]).id, "RpcErrorInternalError") \in Packets
    BY <2>2, PacketIn DEF CallCodes
  <2>4. toClient' \in [Clients -> Seq(Packets)]
    <3>1. \/ toClient' = toClient
          \/ toClient' = Post(toClient, c, Packet("Result", Head(toServer[c]).id, "RpcErrorInternalError"))
      BY <1>3 DEF ServeRequest, Reply
    <3>3. toClient \in [Clients -> Seq(Packets)]
      OBVIOUS
    <3>4. Post(toClient, c, Packet("Result", Head(toServer[c]).id, "RpcErrorInternalError")) \in [Clients -> Seq(Packets)]
      BY <2>3, PostType, <3>3
    <3> QED BY <3>1, <3>3, <3>4
  <2>5. serving' \in [Clients -> Packets \union {None}] /\ pendingRPCs' \in [Calls -> Clients \union {None}]
    BY <1>3, <2>2 DEF ServeRequest, Remembered
  <2> QED BY <1>3, <2>2, <2>4, <2>5 DEF ServeRequest, callVars, streamVars, providerVars
<1>4. CASE ForwardRequest(c)
  <2>1. /\ serving[c] \in Packets /\ serving[c].op = "Request"
        /\ Forwarded(sessions[Target[serving[c].id]], serving[c])
    BY <1>4 DEF ForwardRequest
  <2>2. sessions[Target[serving[c].id]] \in Clients \union {None}
    BY <2>1, PacketFacts, ConstantsAssumption
  <2>3. toClient' \in [Clients -> Seq(Packets)]
    BY <2>1, <2>2, ForwardedType
  <2> QED BY <1>4, <2>3 DEF ForwardRequest, callVars, streamVars, providerVars
<1>5. CASE ServeResult(c)
  <2>1. toServer[c] # <<>> /\ Head(toServer[c]).op = "Result" /\ Consumed(c)
    BY <1>5 DEF ServeResult, Arrives
  <2>2. /\ Head(toServer[c]).id \in Calls /\ toServer' \in [Clients -> Seq(Packets)]
        /\ Head(toServer[c]) \in Packets
    BY <2>1, HeadFacts, PacketFacts
  <2>3. toClient' \in [Clients -> Seq(Packets)]
    BY <1>5, <2>2, ForwardedType DEF ServeResult
  <2> QED BY <1>5, <2>2, <2>3 DEF ServeResult, callVars, streamVars, providerVars
<1>6. CASE EraseRoute(c)
  <2>1. serving[c] \in Packets /\ serving[c].op = "Result"
    BY <1>6 DEF EraseRoute
  <2> QED BY <1>6, <2>1 DEF EraseRoute, RouteErased, netVars, callVars, streamVars, providerVars
<1>7. CASE ServeStreaming(c)
  <2>1. PICK op \in {"ServerStreaming", "ClientStreaming", "Abort"} :
           /\ Arrives(c, op) /\ Consumed(c)
           /\ Forwarded(IF op = "ServerStreaming" THEN pendingRPCs[Head(toServer[c]).id]
                        ELSE sessions[Target[Head(toServer[c]).id]], Head(toServer[c]))
    BY <1>7 DEF ServeStreaming
  <2>2. /\ Head(toServer[c]).id \in Calls /\ toServer' \in [Clients -> Seq(Packets)]
        /\ Head(toServer[c]) \in Packets
    BY <2>1, HeadFacts, PacketFacts DEF Arrives
  <2>3. (IF op = "ServerStreaming" THEN pendingRPCs[Head(toServer[c]).id]
         ELSE sessions[Target[Head(toServer[c]).id]]) \in Clients \union {None}
    BY <2>2, ConstantsAssumption
  <2>4. toClient' \in [Clients -> Seq(Packets)]
    BY <2>1, <2>2, <2>3, ForwardedType
  <2> QED BY <1>7, <2>2, <2>4 DEF ServeStreaming, serverVars, callVars, streamVars, providerVars
<1> QED BY <1>1, <1>2, <1>3, <1>4, <1>5, <1>6, <1>7 DEF Server

(* So do those of a client, and the end of a connection.                   *)
LEMMA TypeStepRun ==
    ASSUME TypeInv, NEW c \in Clients, Run(c) \/ Lose(c)
    PROVE  Types'
<1> USE DEF TypeInv, Types, TypeOK
<1>1. CASE HandleNotifySnowflake(c)
  BY <1>1, HeadFacts DEF HandleNotifySnowflake, Receives, serverVars, callVars, streamVars, providerVars
<1>2. CASE HandleResultRegister(c)
  BY <1>2, HeadFacts DEF HandleResultRegister, Receives, serverVars, callVars, streamVars, providerVars
<1>3. CASE HandleRequest(c)
  <2>1. toClient[c] # <<>> /\ Head(toClient[c]).op = "Request" /\ toClient' = Taken(c)
    BY <1>3 DEF HandleRequest, Receives
  <2>2. /\ Head(toClient[c]).id \in Calls /\ Head(toClient[c]).arg \in Nat
        /\ toClient' \in [Clients -> Seq(Packets)]
    BY <2>1, HeadFacts, PacketFacts
  <2>3. Packet("Result", Head(toClient[c]).id, "RpcErrorInvalidRpcName") \in Packets
    BY <2>2, PacketIn DEF CallCodes
  <2>4. toServer' \in [Clients -> Seq(Packets)]
    <3>1. \/ toServer' = toServer
          \/ toServer' = Post(toServer, c, Packet("Result", Head(toClient[c]).id, "RpcErrorInvalidRpcName"))
      BY <1>3 DEF HandleRequest
    <3>3. toServer \in [Clients -> Seq(Packets)]
      OBVIOUS
    <3>4. Post(toServer, c, Packet("Result", Head(toClient[c]).id, "RpcErrorInvalidRpcName")) \in [Clients -> Seq(Packets)]
      BY <2>3, PostType, <3>3
    <3> QED BY <3>1, <3>3, <3>4
  <2>5. <<>> \in Seq(Nat) /\ <<Head(toClient[c]).arg>> \in Seq(Nat)
    BY <2>2
  <2>6. ASSUME NEW open \in BOOLEAN, NEW input \in Seq(Nat), NEW relay \in {"take", "look"}
        PROVE  [host |-> c, state |-> "running", open |-> open, input |-> input,
                out |-> <<>>, yielded |-> 0, relay |-> relay] \in Sides
    BY <2>5 DEF Sides
  <2>7. procedure \in [Calls -> Sides] /\ running \subseteq Calls
    OBVIOUS
  <2>8. ParamStreaming(Head(toClient[c]).id) \in BOOLEAN
    BY DEF ParamStreaming
  <2>9. procedure' \in [Calls -> Sides] /\ running' \subseteq Calls
    <3>1. CASE kind[Head(toClient[c]).id] = "unknown"
      BY <1>3, <2>7, <3>1 DEF HandleRequest, providerVars
    <3>2. CASE kind[Head(toClient[c]).id] # "unknown"
      <4> DEFINE p == Head(toClient[c])
                 side == [host |-> c, state |-> "running", open |-> ParamStreaming(p.id),
                          input |-> IF ParamStreaming(p.id) THEN FirstInput(p) ELSE <<>>,
                          out |-> <<>>, yielded |-> 0,
                          relay |-> IF kind[p.id] = "duplex" THEN "look" ELSE "take"]
      <4>1. /\ procedure' = [procedure EXCEPT ![p.id] = side]
            /\ running' = IF ParamStreaming(p.id) THEN running \union {p.id} ELSE running
        BY <1>3, <3>2 DEF HandleRequest
      <4>2. FirstInput(p) \in Seq(Nat)
        BY <2>5 DEF FirstInput
      <4>3. side \in Sides
        BY <2>5, <2>6, <2>8, <4>2
      <4> QED BY <4>1, <4>3, <2>2, <2>7
    <3> QED BY <3>1, <3>2
  <2> QED BY <1>3, <2>2, <2>4, <2>9 DEF HandleRequest, serverVars, callVars, streamVars
<1>4. CASE HandleClientStreaming(c)
  <2>1. toClient[c] # <<>> /\ Head(toClient[c]).op = "ClientStreaming" /\ toClient' = Taken(c)
    BY <1>4 DEF HandleClientStreaming, Receives
  <2>2. /\ Head(toClient[c]).id \in Calls /\ Head(toClient[c]).arg \in Nat
        /\ toClient' \in [Clients -> Seq(Packets)]
    BY <2>1, HeadFacts, PacketFacts
  <2>3. \A s \in Seq(Nat) : Append(s, Head(toClient[c]).arg) \in Seq(Nat)
    BY <2>2
  <2>4. ASSUME NEW x \in Sides, NEW relay \in {"take", "test", "waiting", "look", "deaf"}
        PROVE  [x EXCEPT !.input = Append(@, Head(toClient[c]).arg), !.relay = relay] \in Sides
    BY <2>3 DEF Sides
  <2>5. procedure \in [Calls -> Sides] /\ Woken(Head(toClient[c]).id) \in {"take", "test", "waiting", "look", "deaf"}
    BY <2>2 DEF Sides, Woken
  <2>6. procedure' \in [Calls -> Sides]
    BY <1>4, <2>2, <2>4, <2>5 DEF HandleClientStreaming
  <2> QED BY <1>4, <2>2, <2>6 DEF HandleClientStreaming, Sides, serverVars, callVars, streamVars
<1>5. CASE HandleAbort(c)
  <2>1. toClient[c] # <<>> /\ Head(toClient[c]).op = "Abort" /\ toClient' = Taken(c)
    BY <1>5 DEF HandleAbort, Receives
  <2>2. Head(toClient[c]).id \in Calls /\ toClient' \in [Clients -> Seq(Packets)]
    BY <2>1, HeadFacts, PacketFacts
  <2>3. ASSUME NEW x \in Sides, NEW relay \in {"take", "test", "waiting", "look", "deaf"}
        PROVE  [x EXCEPT !.open = FALSE, !.relay = relay] \in Sides
    BY DEF Sides
  <2>4. procedure \in [Calls -> Sides] /\ Woken(Head(toClient[c]).id) \in {"take", "test", "waiting", "look", "deaf"}
    BY <2>2 DEF Sides, Woken
  <2>5. procedure' \in [Calls -> Sides]
    BY <1>5, <2>2, <2>3, <2>4 DEF HandleAbort, InputClosed
  <2> QED BY <1>5, <2>2, <2>5 DEF HandleAbort, Sides, serverVars, callVars, streamVars
<1>6. CASE HandleServerStreaming(c)
  <2>1. toClient[c] # <<>> /\ Head(toClient[c]).op = "ServerStreaming" /\ toClient' = Taken(c)
    BY <1>6 DEF HandleServerStreaming, Receives
  <2>2. /\ Head(toClient[c]).id \in Calls /\ Head(toClient[c]).arg \in Nat
        /\ toClient' \in [Clients -> Seq(Packets)]
    BY <2>1, HeadFacts, PacketFacts
  <2>3. received' \in [Calls -> Seq(Nat)]
    BY <1>6, <2>2 DEF HandleServerStreaming
  <2> QED BY <1>6, <2>2, <2>3 DEF HandleServerStreaming, serverVars, streamVars, providerVars
<1>7. CASE HandleResult(c)
  <2>1. toClient[c] # <<>> /\ Head(toClient[c]).op = "Result" /\ toClient' = Taken(c)
    BY <1>7 DEF HandleResult, Receives
  <2>2. /\ Head(toClient[c]).id \in Calls /\ Head(toClient[c]).arg \in CallCodes
        /\ toClient' \in [Clients -> Seq(Packets)]
    BY <2>1, HeadFacts, PacketFacts
  <2>3. \A x \in Sources : [x EXCEPT !.open = FALSE] \in Sources
    BY DEF Sources
  <2>4. source \in [Calls -> Sources]
    BY DEF Sources
  <2>5. source' \in [Calls -> Sources] /\ remoteProcedures' \subseteq Calls
    BY <1>7, <2>2, <2>3, <2>4 DEF HandleResult
  <2>6. result' \in [Calls -> CallCodes \union {"none"}]
    BY <1>7, <2>2 DEF HandleResult
  <2> QED BY <1>7, <2>2, <2>5, <2>6 DEF HandleResult, Sources, serverVars, providerVars
<1>8. CASE Lose(c)
  <2>1. PICK n \in 0 .. Len(toServer[c]) : toServer' = [toServer EXCEPT ![c] = SubSeq(@, 1, n)]
    BY <1>8 DEF Lose
  <2>2. SubSeq(toServer[c], 1, n) \in Seq(Packets)
    BY CutFacts
  <2>3. <<>> \in Seq(Packets)
    OBVIOUS
  <2> QED BY <1>8, <2>1, <2>2, <2>3 DEF Lose, serverVars, callVars, streamVars, providerVars
<1> QED BY <1>1, <1>2, <1>3, <1>4, <1>5, <1>6, <1>7, <1>8 DEF Run

(* So do callers and procedures.                                           *)
LEMMA TypeStepCall ==
    ASSUME TypeInv, NEW r \in Calls,
           \/ \E k \in Kinds[r] : Call(r, k)
           \/ Stream(r) \/ Produce(r) \/ CloseSource(r) \/ Yield(r) \/ Finish(r) \/ Relay(r)
    PROVE  Types'
<1> USE DEF TypeInv, Types, TypeOK
<1>0. /\ Caller[r] \in Clients /\ None \notin Clients
      /\ procedure \in [Calls -> Sides] /\ procedure[r] \in Sides
      /\ procedure[r].host \in Clients \union {None}
      /\ procedure[r].out \in Seq(Nat) /\ procedure[r].yielded \in Nat
      /\ source \in [Calls -> Sources] /\ source[r] \in Sources
      /\ source[r].items \in Seq(Nat) /\ source[r].next \in Nat \ {0}
      /\ toServer \in [Clients -> Seq(Packets)]
  BY ConstantsAssumption DEF Sides, Sources
<1>9. ASSUME NEW code \in CallCodes, Ends(r, code) PROVE Types'
  <2>1. toServer' \in [Clients -> Seq(Packets)]
    BY <1>0, <1>9, PacketIn, PostType DEF Ends
  <2>2. procedure' = [procedure EXCEPT ![r].state = "done"]
    BY <1>9 DEF Ends
  <2>3. procedure' \in [Calls -> Sides]
    BY <1>0, <2>2 DEF Sides
  <2> QED BY <1>9, <2>1, <2>3 DEF Ends, serverVars, callVars, streamVars
<1>10. ASSUME Aborted(r) PROVE toServer' \in [Clients -> Seq(Packets)]
  BY <1>0, <1>10, PostFacts, PacketIn DEF Aborted, SentIfRunning
<1>1. ASSUME NEW k \in Kinds[r], Call(r, k) PROVE Types'
  <2>1. k \in CallKinds
    BY ConstantsAssumption DEF CallKinds
  <2>2. toServer' \in [Clients -> Seq(Packets)]
    <3>1. toServer' = toServer \/ toServer' = Post(toServer, Caller[r], Packet("Request", r, 0))
      BY <1>1 DEF Call
    <3>2. Packet("Request", r, 0) \in Packets
      BY PacketIn
    <3>3. toServer \in [Clients -> Seq(Packets)]
      OBVIOUS
    <3>4. Post(toServer, Caller[r], Packet("Request", r, 0)) \in [Clients -> Seq(Packets)]
      BY <3>2, PostType, <3>3
    <3> QED BY <3>1, <3>3, <3>4
  <2> QED BY <1>1, <2>1, <2>2 DEF Call, serverVars, providerVars
<1>2. CASE HasNext(r)
  BY <1>2 DEF HasNext, netVars, serverVars, callVars, providerVars
<1>3. CASE StreamItem(r)
  <2>1. source[r].items # <<>>
    BY <1>3 DEF StreamItem
  <2>2. Head(source[r].items) \in Nat /\ Tail(source[r].items) \in Seq(Nat)
    BY <1>0, <2>1
  <2>3. \A op \in Params : Packet(op, r, Head(source[r].items)) \in Packets
    BY <2>2, PacketIn DEF Params
  <2>4. Packet(IF IsFirst(r) THEN "Request" ELSE "ClientStreaming", r, Head(source[r].items)) \in Packets
    BY <2>3 DEF Params
  <2>5. toServer' \in [Clients -> Seq(Packets)]
    BY <1>0, <1>3, <2>4, PostFacts DEF StreamItem, SentIfRunning
  <2>6. source' = [source EXCEPT ![r].items = Tail(@)]
    BY <1>3 DEF StreamItem
  <2>7. source' \in [Calls -> Sources]
    BY <1>0, <2>2, <2>6 DEF Sources
  <2> QED BY <1>3, <2>5, <2>7 DEF StreamItem, serverVars, callVars, providerVars
<1>4. CASE StreamMisses(r) \/ StreamTests(r) \/ StreamThrows(r)
  <2>1. toServer' \in [Clients -> Seq(Packets)]
    BY <1>0, <1>4, <1>10 DEF StreamMisses, StreamTests, StreamThrows, netVars
  <2>2. /\ loop' \in [Calls -> {"none", "HasNext", "await", "test", "waiting", "ended", "aborted"}]
        /\ source' = source
    BY <1>4 DEF StreamMisses, StreamTests, StreamThrows, Aborted
  <2> QED BY <1>4, <2>1, <2>2 DEF StreamMisses, StreamTests, StreamThrows, netVars, serverVars, callVars, providerVars
<1>5. CASE Produce(r)
  <2>1. Append(source[r].items, source[r].next) \in Seq(Nat) /\ source[r].next + 1 \in Nat \ {0}
    BY <1>0
  <2>3. source' = [source EXCEPT ![r].items = Append(@, source[r].next), ![r].next = @ + 1]
    BY <1>5 DEF Produce
  <2>5. source' \in [Calls -> Sources]
    BY <1>0, <2>1, <2>3 DEF Sources
  <2> QED BY <1>5, <2>5 DEF Produce, netVars, serverVars, callVars, providerVars
<1>6. CASE CloseSource(r)
  <2>1. PICK threw \in BOOLEAN : source' = [source EXCEPT ![r].open = FALSE, ![r].threw = threw]
    BY <1>6 DEF CloseSource
  <2>2. source' \in [Calls -> Sources]
    BY <1>0, <2>1 DEF Sources
  <2> QED BY <1>6, <2>2 DEF CloseSource, netVars, serverVars, callVars, providerVars
<1>7. CASE Yield(r) \/ CloseOutput(r) \/ RelayLooks(r) \/ RelayMisses(r) \/ RelayWaits(r)
  <2>1. Append(procedure[r].out, procedure[r].yielded + 1) \in Seq(Nat) /\ procedure[r].yielded + 1 \in Nat
    BY <1>0
  <2>2. procedure' \in [Calls -> Sides]
    <3>1. CASE Yield(r)
      BY <1>0, <2>1, <3>1 DEF Yield, Sides
    <3>2. CASE CloseOutput(r)
      <4>1. PICK how \in {"closed", "threw"} : procedure' = [procedure EXCEPT ![r].state = how]
        BY <3>2 DEF CloseOutput
      <4> QED BY <1>0, <4>1 DEF Sides
    <3>3. CASE RelayLooks(r)
      <4>1. PICK next \in {"take", "deaf", "waiting"} : procedure' = [procedure EXCEPT ![r].relay = next]
        BY <3>3 DEF RelayLooks
      <4> QED BY <1>0, <4>1 DEF Sides
    <3>4. CASE RelayMisses(r)
      BY <1>0, <3>4 DEF RelayMisses, Sides
    <3>5. CASE RelayWaits(r)
      BY <1>0, <3>5 DEF RelayWaits, Sides
    <3> QED BY <1>7, <3>1, <3>2, <3>3, <3>4, <3>5
  <2>3. UNCHANGED <<netVars, serverVars, registers, callVars, streamVars, running>>
    BY <1>7 DEF Yield, CloseOutput, RelayLooks, RelayMisses, RelayWaits
  <2> QED BY <2>2, <2>3 DEF netVars, serverVars, callVars, streamVars
<1>8. CASE RelayItem(r)
  <2>1. procedure[r].out # <<>> /\ procedure' = [procedure EXCEPT ![r].out = Tail(@), ![r].relay = "take"]
    BY <1>8 DEF RelayItem
  <2>2. Head(procedure[r].out) \in Nat /\ Tail(procedure[r].out) \in Seq(Nat)
    BY <1>0, <2>1
  <2>3. procedure' \in [Calls -> Sides]
    BY <1>0, <2>1, <2>2 DEF Sides
  <2>4. Packet("ServerStreaming", r, Head(procedure[r].out)) \in Packets
    BY <2>2, PacketIn
  <2>5. toServer' \in [Clients -> Seq(Packets)]
    BY <1>0, <1>8, <2>4, PostType DEF RelayItem
  <2> QED BY <1>8, <2>3, <2>5 DEF RelayItem, serverVars, callVars, streamVars
<1>11. CASE Return(r) \/ RelayThrows(r) \/ RelayEnds(r)
  <2>1. PICK code \in CallCodes : Ends(r, code)
    BY <1>11 DEF Return, Failure, RelayThrows, RelayEnds, CallCodes
  <2> QED BY <1>9, <2>1
<1> QED BY <1>1, <1>2, <1>3, <1>4, <1>5, <1>6, <1>7, <1>8, <1>11 DEF Stream, Finish, Relay

-----------------------------------------------------------------------------
(* Packets that move *)

Moves(Q, N, ops, r) ==
    \/ N = Q
    \/ \E c \in Clients : Q[c] # <<>> /\ N = [Q EXCEPT ![c] = Tail(@)] /\ ~ ItemOf(Head(Q[c]), ops, r)
    \/ \E c \in Clients, p \in Packets : N = Post(Q, c, p) /\ ~ ItemOf(p, ops, r)

(* Queues that differ by a packet about something else are alike.          *)
LEMMA MovesAlike ==
    ASSUME NEW Q \in [Clients -> Seq(Packets)], NEW N, NEW r
    PROVE  /\ Moves(Q, N, Params, r) => \A d \in Clients : AlikeParams(Q[d], N[d], r)
           /\ Moves(Q, N, Answers, r) => \A d \in Clients : AlikeAnswers(Q[d], N[d], r)
<1>1. ASSUME Moves(Q, N, Params, r) PROVE \A d \in Clients : AlikeParams(Q[d], N[d], r)
  BY <1>1, AlikeSame, AlikeTaken, AlikePost DEF Moves
<1>2. ASSUME Moves(Q, N, Answers, r) PROVE \A d \in Clients : AlikeAnswers(Q[d], N[d], r)
  BY <1>2, AlikeSame, AlikeTaken, AlikePost DEF Moves
<1> QED BY <1>1, <1>2

(* Both directions: the caller's packets of a call are where they were ... *)
LEMMA MoveParams ==
    ASSUME TypeInv, NEW r, Moves(toServer, toServer', Params, r), Moves(toClient, toClient', Params, r)
    PROVE  SameParams(r)
BY MovesAlike DEF SameParams, TypeInv, Types

(* ... and so are its provider's.                                          *)
LEMMA MoveAnswers ==
    ASSUME TypeInv, NEW r, Moves(toServer, toServer', Answers, r), Moves(toClient, toClient', Answers, r)
    PROVE  SameAnswers(r)
BY MovesAlike DEF SameAnswers, TypeInv, Types

(* A packet that a move is not about.                                      *)
LEMMA NotAbout ==
    ASSUME NEW p, NEW r, p.id # r \/ p.op \notin Params \union Answers
    PROVE  ~ ItemOf(p, Params, r) /\ ~ ItemOf(p, Answers, r)
BY DEF ItemOf

(* What is where after a move.                                             *)
TakenFrom(Q, N, c) ==
    /\ Q[c] # <<>> /\ N[c] = Tail(Q[c])
    /\ \A d \in Clients : d # c => N[d] = Q[d]
PostedTo(Q, N, c, p) ==
    /\ connection[c] = "lost" => N[c] = Q[c]
    /\ connection[c] # "lost" => N[c] = Append(Q[c], p)
    /\ \A d \in Clients : d # c => N[d] = Q[d]

(* The two ways a queue changes, named: a packet is taken from one, ...    *)
LEMMA IsTaken ==
    ASSUME NEW Q \in [Clients -> Seq(Packets)], NEW c \in Clients, Q[c] # <<>>
    PROVE  TakenFrom(Q, [Q EXCEPT ![c] = Tail(@)], c)
BY TakeAway DEF TakenFrom

(* ... or posted to one.                                                   *)
LEMMA IsPosted ==
    ASSUME NEW Q \in [Clients -> Seq(Packets)], NEW c \in Clients, NEW p \in Packets
    PROVE  PostedTo(Q, Post(Q, c, p), c, p)
BY PostFacts DEF PostedTo

(* What is in the queues when a packet has been taken ...                  *)
LEMMA HasTaken ==
    ASSUME NEW Q \in [Clients -> Seq(Packets)], NEW N, NEW c \in Clients, TakenFrom(Q, N, c), NEW r
    PROVE  \A d \in Clients : \A op :
              /\ Has(N[d], op, r) => Has(Q[d], op, r)
              /\ Has(Q[d], op, r) => Has(N[d], op, r) \/ (d = c /\ Is(Head(Q[c]), op, r))
<1>1. \A op : Has(Q[c], op, r) <=> Is(Head(Q[c]), op, r) \/ Has(N[c], op, r)
  BY HasTail DEF TakenFrom
<1> QED BY <1>1 DEF TakenFrom

(* ... or posted.                                                          *)
LEMMA HasPosted ==
    ASSUME NEW Q \in [Clients -> Seq(Packets)], NEW N, NEW c \in Clients, NEW p \in Packets,
           PostedTo(Q, N, c, p), NEW r
    PROVE  \A d \in Clients : \A op :
              Has(N[d], op, r) <=>
                 Has(Q[d], op, r) \/ (d = c /\ connection[c] # "lost" /\ Is(p, op, r))
<1>1. \A op : Has(Append(Q[c], p), op, r) <=> Has(Q[c], op, r) \/ Is(p, op, r)
  BY HasAppend
<1> QED BY <1>1 DEF PostedTo

(* Queues keep their shape when a packet is taken ...                      *)
LEMMA ShapedTaken ==
    ASSUME NEW Q \in [Clients -> Seq(Packets)], NEW N, NEW c \in Clients, TakenFrom(Q, N, c),
           NEW r, NEW first, \A d \in Clients : Shaped(Q[d], r, first)
    PROVE  /\ \A d \in Clients : Shaped(N[d], r, first)
           /\ Is(Head(Q[c]), "Request", r) => Head(Q[c]).arg = first
           /\ Is(Head(Q[c]), "ClientStreaming", r) => Head(Q[c]).arg # first
           /\ Is(Head(Q[c]), "Request", r) => ~ Has(N[c], "Request", r)
           /\ Is(Head(Q[c]), "Result", r) => ~ Has(N[c], "Result", r) /\ ~ Has(N[c], "ServerStreaming", r)
<1>1. N[c] = Tail(Q[c]) /\ Q[c] # <<>> /\ \A d \in Clients : d # c => N[d] = Q[d]
  BY DEF TakenFrom
<1>2. Q[c] \in Seq(Packets) /\ AsksOnce(Q[c], r) /\ EndsIt(Q[c], r) /\ Numbered(Q[c], r, first)
  BY DEF Shaped
<1>3. Shaped(N[c], r, first)
  BY <1>1, <1>2, OnceTail, EndsTail, NumberedTail DEF Shaped
<1>4. \A d \in Clients : Shaped(N[d], r, first)
  BY <1>1, <1>3
<1>5. /\ Is(Head(Q[c]), "Request", r) => Head(Q[c]).arg = first
      /\ Is(Head(Q[c]), "ClientStreaming", r) => Head(Q[c]).arg # first
  BY <1>1, <1>2, NumberedTail
<1>6. /\ Is(Head(Q[c]), "Request", r) => ~ Has(N[c], "Request", r)
      /\ Is(Head(Q[c]), "Result", r) => ~ Has(N[c], "Result", r) /\ ~ Has(N[c], "ServerStreaming", r)
  BY <1>1, <1>2, OnceTail, EndsTail
<1> QED BY <1>4, <1>5, <1>6

(* ... or posted, if it fits behind what is there.                         *)
LEMMA ShapedPosted ==
    ASSUME NEW Q \in [Clients -> Seq(Packets)], NEW N, NEW c \in Clients, NEW p \in Packets,
           PostedTo(Q, N, c, p), NEW r, NEW first, \A d \in Clients : Shaped(Q[d], r, first),
           Is(p, "Request", r) => p.arg = first /\ ~ Has(Q[c], "Request", r),
           Is(p, "ClientStreaming", r) => p.arg # first,
           Is(p, "Result", r) \/ Is(p, "ServerStreaming", r) => ~ Has(Q[c], "Result", r)
    PROVE  \A d \in Clients : Shaped(N[d], r, first)
<1>1. Q[c] \in Seq(Packets) /\ AsksOnce(Q[c], r) /\ EndsIt(Q[c], r) /\ Numbered(Q[c], r, first)
  BY DEF Shaped
<1>2. AsksOnce(Append(Q[c], p), r)
  BY <1>1, OnceAppend
<1>3. EndsIt(Append(Q[c], p), r)
  BY <1>1, EndsAppend
<1>4. Numbered(Append(Q[c], p), r, first)
  BY <1>1, NumberedAppend
<1> QED BY <1>1, <1>2, <1>3, <1>4 DEF PostedTo, Shaped

(* What closes a stream gracefully, and the items under way.               *)
LEMMA GraceTaken ==
    ASSUME NEW Q \in [Clients -> Seq(Packets)], NEW N, NEW c \in Clients, TakenFrom(Q, N, c), NEW r
    PROVE  /\ \A d \in Clients : Gracefully(N[d], r) => Gracefully(Q[d], r)
           /\ Is(Head(Q[c]), "Result", r) /\ Head(Q[c]).arg = Graceful => Gracefully(Q[c], r)
<1>1. Q[c] # <<>> => (Gracefully(Q[c], r) <=>
         (Is(Head(Q[c]), "Result", r) /\ Head(Q[c]).arg = Graceful) \/ Gracefully(Tail(Q[c]), r))
  BY GraceTail
<1> QED BY <1>1 DEF TakenFrom

(* The same for a packet that is posted.                                   *)
LEMMA GracePosted ==
    ASSUME NEW Q \in [Clients -> Seq(Packets)], NEW N, NEW c \in Clients, NEW p \in Packets,
           PostedTo(Q, N, c, p), NEW r
    PROVE  \A d \in Clients : Gracefully(N[d], r) =>
              Gracefully(Q[d], r) \/ (d = c /\ Is(p, "Result", r) /\ p.arg = Graceful)
<1>1. Gracefully(Append(Q[c], p), r) <=> Gracefully(Q[c], r) \/ (Is(p, "Result", r) /\ p.arg = Graceful)
  BY GraceAppend
<1> QED BY <1>1 DEF PostedTo

(* A chain when a packet has been taken ...                                *)
LEMMA ChainTaken ==
    ASSUME NEW Q \in [Clients -> Seq(Packets)], NEW N, NEW c \in Clients, TakenFrom(Q, N, c),
           NEW r, NEW ops, NEW a \in Nat, NEW b \in Nat, Chain(Q[c], ops, r, a, b)
    PROVE  /\ ~ ItemOf(Head(Q[c]), ops, r) => Chain(N[c], ops, r, a, b)
           /\ ItemOf(Head(Q[c]), ops, r) =>
                 Head(Q[c]).arg = a + 1 /\ a + 1 <= b /\ Chain(N[c], ops, r, a + 1, b)
<1>1. Q[c] # <<>> /\ N[c] = Tail(Q[c]) /\ Q[c] \in Seq(Packets)
  BY DEF TakenFrom
<1> QED BY <1>1, ChainTail

(* ... or posted.                                                          *)
LEMMA ChainPosted ==
    ASSUME NEW Q \in [Clients -> Seq(Packets)], NEW N, NEW c \in Clients, NEW p \in Packets,
           PostedTo(Q, N, c, p), NEW r, NEW ops, NEW a \in Nat, NEW b \in Nat, Chain(Q[c], ops, r, a, b)
    PROVE  /\ connection[c] = "lost" \/ ~ ItemOf(p, ops, r) => Chain(N[c], ops, r, a, b)
           /\ connection[c] # "lost" /\ ItemOf(p, ops, r) /\ p.arg = b + 1 =>
                 Chain(N[c], ops, r, a, b + 1)
<1>1. /\ ~ ItemOf(p, ops, r) => Chain(Append(Q[c], p), ops, r, a, b)
      /\ ItemOf(p, ops, r) /\ p.arg = b + 1 => Chain(Append(Q[c], p), ops, r, a, b + 1)
  BY ChainAppend
<1> QED BY <1>1 DEF PostedTo

-----------------------------------------------------------------------------
(* Steps that are about no call *)

(* The queues are queues of packets.                                       *)
LEMMA QueueTypes ==
    ASSUME TypeInv
    PROVE  toServer \in [Clients -> Seq(Packets)] /\ toClient \in [Clients -> Seq(Packets)]
BY DEF TypeInv, Types

(* Nothing but queues changes, in packets about something else.            *)
LEMMA QueuesElsewhere ==
    ASSUME TypeInv, NEW r \in Calls, CallInv(r),
           \A ops \in {Params, Answers} :
              Moves(toServer, toServer', ops, r) /\ Moves(toClient, toClient', ops, r),
           SameServing(r), SameLinks(r), SameCall(r), SameSource(r), SameReceived(r), SameProcedure(r),
           pendingRPCs'[r] = pendingRPCs[r], r \in running' <=> r \in running
    PROVE  CallInv(r)'
<1>1. SameParams(r) /\ SameAnswers(r)
  BY MoveParams, MoveAnswers
<1> QED BY <1>1, Elsewhere DEF Untouched

(* A client connects, and is told its id and what it registered.           *)
LEMMA QuietConnecting ==
    ASSUME TypeInv, LinkInv, NEW r \in Calls, CallInv(r), NEW c \in Clients,
           HandleAccept(c) \/ HandleNotifySnowflake(c) \/ HandleResultRegister(c)
    PROVE  CallInv(r)'
<1>1. CASE HandleAccept(c)
  <2>1. toServer' = toServer /\ toClient' = Post(toClient, c, Packet("NotifySnowflake", None, 0))
    BY <1>1 DEF HandleAccept, Reply
  <2>2. \A ops \in {Params, Answers} : ~ ItemOf(Packet("NotifySnowflake", None, 0), ops, r)
    BY DEF ItemOf, Params, Answers, Packet
  <2>3. \A ops \in {Params, Answers} :
           Moves(toServer, toServer', ops, r) /\ Moves(toClient, toClient', ops, r)
    BY <2>1, <2>2, PacketIn DEF Moves
  <2>4. \A d \in Clients : connection'[d] = "lost" <=> connection[d] = "lost"
    BY <1>1 DEF HandleAccept, TypeInv, Types, TypeOK
  <2> QED BY <1>1, <2>3, <2>4, QueuesElsewhere
          DEF HandleAccept, serverVars, callVars, streamVars, providerVars,
              SameServing, SameLinks, SameCall, SameSource, SameReceived, SameProcedure, SameStage, Relayed, Started, Executing
<1>2. ASSUME HandleNotifySnowflake(c) \/ HandleResultRegister(c) PROVE CallInv(r)'
  <2>1. toServer' = toServer /\ toClient[c] # <<>> /\ toClient' = [toClient EXCEPT ![c] = Tail(@)]
    BY <1>2 DEF HandleNotifySnowflake, HandleResultRegister, Receives, Taken
  <2>2. \A ops \in {Params, Answers} : ~ ItemOf(Head(toClient[c]), ops, r)
    BY <1>2 DEF HandleNotifySnowflake, HandleResultRegister, Receives, ItemOf, Params, Answers
  <2>3. \A ops \in {Params, Answers} :
           Moves(toServer, toServer', ops, r) /\ Moves(toClient, toClient', ops, r)
    BY <2>1, <2>2 DEF Moves
  <2>4. \A d \in Clients : connection'[d] = "lost" <=> connection[d] = "lost"
    BY <1>2, <2>1 DEF HandleNotifySnowflake, HandleResultRegister, TypeInv, Types, TypeOK, LinkInv
  <2> QED BY <1>2, <2>3, <2>4, QueuesElsewhere
          DEF HandleNotifySnowflake, HandleResultRegister, serverVars, callVars, streamVars, providerVars,
              SameServing, SameLinks, SameCall, SameSource, SameReceived, SameProcedure, SameStage, Relayed, Started, Executing
<1> QED BY <1>1, <1>2

(* A client asks for a registration.                                       *)
LEMMA QuietRegister ==
    ASSUME TypeInv, NEW r \in Calls, CallInv(r), NEW c \in Clients, NEW s \in Services,
           RegisterToServer(c, s)
    PROVE  CallInv(r)'
<1>1. toClient' = toClient /\ toServer' = Post(toServer, c, Packet("Register", s, 0))
  BY DEF RegisterToServer
<1>2. \A ops \in {Params, Answers} : ~ ItemOf(Packet("Register", s, 0), ops, r)
  BY DEF ItemOf, Params, Answers, Packet
<1>3. \A ops \in {Params, Answers} :
         Moves(toServer, toServer', ops, r) /\ Moves(toClient, toClient', ops, r)
  BY <1>1, <1>2, PacketIn DEF Moves
<1> QED BY <1>3, QueuesElsewhere
        DEF RegisterToServer, serverVars, callVars, streamVars, providerVars,
            SameServing, SameLinks, SameCall, SameSource, SameReceived, SameProcedure, SameStage, Relayed, Started, Executing

(* A service gets its provider: no call of it has been passed on before.   *)
LEMMA StepServeRegister ==
    ASSUME TypeInv, NEW r \in Calls, CallInv(r), NEW c \in Clients, ServeRegister(c)
    PROVE  CallInv(r)'
<1> DEFINE s == Head(toServer[c]).id
<1>1. toServer[c] # <<>> /\ Head(toServer[c]).op = "Register" /\ s \in Services
      /\ toServer' = [toServer EXCEPT ![c] = Tail(@)]
  BY HeadFacts, PacketFacts DEF ServeRegister, Arrives, Consumed
<1>2. PICK code \in {"RpcErrorNone", "RpcErrorDuplicatedServiceName"} :
         toClient' = Post(toClient, c, Packet("ResultRegister", s, code))
  BY DEF ServeRegister, Reply
<1>3. sessions' = IF sessions[s] = None THEN [sessions EXCEPT ![s] = c] ELSE sessions
  BY DEF ServeRegister
<1>4. \A ops \in {Params, Answers} :
         ~ ItemOf(Packet("ResultRegister", s, code), ops, r) /\ ~ ItemOf(Head(toServer[c]), ops, r)
  BY <1>1 DEF ItemOf, Params, Answers, Packet
<1>5. \A ops \in {Params, Answers} :
         Moves(toServer, toServer', ops, r) /\ Moves(toClient, toClient', ops, r)
  BY <1>1, <1>2, <1>4, PacketIn DEF Moves
<1>6. /\ SameServing(r) /\ SameCall(r) /\ SameSource(r) /\ SameReceived(r) /\ SameProcedure(r)
      /\ pendingRPCs'[r] = pendingRPCs[r] /\ running' = running /\ connection' = connection
      /\ serving' = serving /\ kind' = kind /\ procedure' = procedure
      /\ remoteProcedures' = remoteProcedures /\ result' = result /\ received' = received
      /\ Relayed(r)' = Relayed(r)
  BY DEF ServeRegister, callVars, streamVars, providerVars,
         SameServing, SameCall, SameSource, SameReceived, SameProcedure, SameStage, Relayed, Started, Executing
<1> HIDE DEF s
<1>7. CASE sessions'[Target[r]] = sessions[Target[r]]
  BY <1>5, <1>6, <1>7, QueuesElsewhere DEF SameLinks
<1>8. CASE sessions'[Target[r]] # sessions[Target[r]]
  <2>1. Provider(r) = None /\ Provider(r)' = c
    BY <1>1, <1>3, <1>8, Parties DEF Provider, TypeInv, Types, TypeOK
  <2>2. SameParams(r) /\ SameAnswers(r)
    BY <1>5, MoveParams, MoveAnswers
  <2>3. /\ \A op \in Params \union Answers :
              /\ \A d \in Clients : /\ Has(toServer'[d], op, r) <=> Has(toServer[d], op, r)
                                    /\ Has(toClient'[d], op, r) <=> Has(toClient[d], op, r)
              /\ AtServer(op, r)' <=> AtServer(op, r)
              /\ AtClient(op, r)' <=> AtClient(op, r)
        /\ \A op : Serving(op, r)' <=> Serving(op, r)
    BY <1>6, <2>2, ParamsAt, AnswersAt, ServingAt
  <2>4. /\ ~ Started(r) /\ (Started(r)' <=> Started(r)) /\ (Executing(r)' <=> Executing(r))
        /\ ~ Executing(r)
    BY <1>6, <2>1 DEF Started, Executing, CallInv, WhereOf
  <2>5. /\ \A d \in Clients : \A op \in Params : ~ Has(toClient[d], op, r)
        /\ \A d \in Clients : \A op \in Answers : ~ Has(toServer[d], op, r)
        /\ \A d \in Clients : ~ (serving[d] # None /\ Is(serving[d], "Request", r))
    BY <2>1, Parties DEF CallInv, WhereOf, Answers
  <2>6. SourceOf(r)' /\ Streamed(r)' = Streamed(r) /\ (Fresh(r)' <=> Fresh(r))
    BY <1>6, SourceFrame DEF CallInv
  <2>7. ShapeOf(r)'
    BY <1>6, <2>2, ShapeFrame DEF CallInv
  <2>8. WhereOf(r)'
    BY <1>6, <2>3, <2>4, <2>5 DEF CallInv, WhereOf, Params, Answers
  <2>9. StageOf(r)'
    BY <1>6, <2>3, <2>4, <2>6 DEF CallInv, StageOf, Params, Answers
  <2>10. RouteOf(r)'
    BY <1>6, <2>3, <2>4, <2>6 DEF CallInv, RouteOf, Params, Answers
  <2>11. YieldOf(r)'
    <3>1. \A d \in Clients : Gracefully(toServer'[d], r) \/ Gracefully(toClient'[d], r) => Started(r)
      BY <2>2 DEF SameAnswers, AlikeAnswers, CallInv, YieldOf
    <3> QED BY <1>6, <2>3, <2>4, <3>1 DEF CallInv, YieldOf, Answers, Got
  <2>12. ParamOf(r)'
    <3>1. r \notin running
      BY <2>4 DEF CallInv, ParamOf
    <3>2. (Active(r)' <=> Active(r)) /\ (ParamStreaming(r)' <=> ParamStreaming(r)) /\ Fed(r)' = Fed(r)
      BY <1>6, <2>3 DEF Active, Params, ParamStreaming, Fed
    <3>3. ASSUME ParamStreaming(r), Active(r) PROVE \E m, k, b \in Nat : ParamsUnderWay(r, m, k, b)'
      <4>1. PICK m \in Nat, k \in Nat, b \in Nat : ParamsUnderWay(r, m, k, b)
        BY <3>3, <2>1 DEF CallInv, ParamOf
      <4>2. m = 0
        BY <4>1, <2>1 DEF ParamsUnderWay
      <4>3. Chain(toServer'[Caller[r]], Params, r, k, b)
        BY <2>2, <4>1, Parties DEF ParamsUnderWay, SameParams, AlikeParams
      <4>4. Chain(toClient'[c], Params, r, 0, 0)
        BY <2>3, <2>5, ChainNone
      <4>5. Provider(r)' # None
        BY <2>1, Parties
      <4>6. ParamsUnderWay(r, m, k, b)'
        BY <1>6, <2>1, <2>3, <2>6, <3>1, <4>1, <4>2, <4>3, <4>4, <4>5 DEF ParamsUnderWay
      <4> QED BY <4>6
    <3>4. FirstItem(r)' = FirstItem(r)
      BY <1>6 DEF FirstItem, ParamStreaming
    <3> QED BY <1>6, <2>3, <2>4, <3>1, <3>2, <3>3, <3>4 DEF CallInv, ParamOf, Fed
  <2> QED BY <2>6, <2>7, <2>8, <2>9, <2>10, <2>11, <2>12 DEF CallInv
<1> QED BY <1>7, <1>8

(* The loop over a source, and the source itself.                          *)
LEMMA QuietSource ==
    ASSUME TypeInv, NEW r \in Calls, CallInv(r), NEW x \in Calls,
           HasNext(x) \/ CloseSource(x) \/ StreamMisses(x) \/ StreamTests(x) \/ StreamThrows(x) \/ Produce(x)
    PROVE  CallInv(r)'
<1>0. source \in [Calls -> Sources] /\ source[r] \in Sources
  BY DEF TypeInv, Types
<1>1. CASE HasNext(x) \/ CloseSource(x) \/ StreamMisses(x)
  <2>1. toServer' = toServer /\ toClient' = toClient
    BY <1>1 DEF HasNext, CloseSource, StreamMisses, netVars
  <2>2. \A ops \in {Params, Answers} :
           Moves(toServer, toServer', ops, r) /\ Moves(toClient, toClient', ops, r)
    BY <2>1 DEF Moves
  <2>3. SameSource(r)
    <3>1. CASE HasNext(x) \/ StreamMisses(x)
      BY <3>1 DEF HasNext, StreamMisses, SameSource, TypeInv, Types
    <3>2. CASE CloseSource(x)
      <4>1. /\ source'[r].items = source[r].items /\ source'[r].next = source[r].next
            /\ loop' = loop
        <5>1. PICK threw \in BOOLEAN : source' = [source EXCEPT ![x].open = FALSE, ![x].threw = threw]
          BY <3>2 DEF CloseSource
        <5> QED BY <1>0, <3>2, <5>1 DEF CloseSource, Sources
      <4> QED BY <4>1 DEF SameSource
    <3> QED BY <1>1, <3>1, <3>2
  <2> QED BY <1>1, <2>2, <2>3, QueuesElsewhere
          DEF HasNext, CloseSource, StreamMisses, netVars, serverVars, callVars, streamVars, providerVars,
              SameServing, SameLinks, SameCall, SameReceived, SameProcedure, SameStage, Relayed, Started, Executing
<1>2. CASE StreamTests(x) \/ StreamThrows(x)
  <2>1. toClient' = toClient /\ (toServer' = toServer \/ toServer' = Post(toServer, Caller[x], Packet("Abort", x, 0)))
    BY <1>2 DEF StreamTests, StreamThrows, Aborted, SentIfRunning
  <2>2. \A ops \in {Params, Answers} : ~ ItemOf(Packet("Abort", x, 0), ops, r)
    BY DEF ItemOf, Params, Answers, Packet
  <2>3. \A ops \in {Params, Answers} :
           Moves(toServer, toServer', ops, r) /\ Moves(toClient, toClient', ops, r)
    BY <2>1, <2>2, PacketIn, Parties DEF Moves
  <2>4. SameSource(r)
    BY <1>2 DEF StreamTests, StreamThrows, Aborted, SameSource, TypeInv, Types
  <2> QED BY <1>2, <2>3, <2>4, QueuesElsewhere
          DEF StreamTests, StreamThrows, serverVars, callVars, streamVars, providerVars,
              SameServing, SameLinks, SameCall, SameReceived, SameProcedure, SameStage, Relayed, Started, Executing
<1>3. CASE Produce(x)
  <2>1. \A ops \in {Params, Answers} :
           Moves(toServer, toServer', ops, r) /\ Moves(toClient, toClient', ops, r)
    BY <1>3 DEF Produce, netVars, Moves
  <2>2. SameParams(r) /\ SameAnswers(r)
    BY <2>1, MoveParams, MoveAnswers
  <2>3. Untouched(r)
    BY <1>3, <2>2 DEF Untouched, Produce, netVars, serverVars, callVars, streamVars, providerVars,
              SameServing, SameLinks, SameCall, SameReceived, SameProcedure, SameStage, Relayed, Started, Executing
  <2>4. CASE r # x
    <3>1. SameSource(r)
      BY <1>3, <2>4 DEF Produce, SameSource, TypeInv, Types
    <3> QED BY <2>3, <3>1, Elsewhere
  <2>5. CASE r = x
    <3>1. /\ source[r].items \in Seq(Nat) /\ source[r].next \in Nat /\ ParamStreaming(r)
          /\ source'[r].items = Append(source[r].items, source[r].next)
          /\ source'[r].next = source[r].next + 1
      BY <1>0, <1>3, <2>5 DEF Produce, Sources
    <3>2. /\ Len(source'[r].items) = Len(source[r].items) + 1 /\ Len(source[r].items) \in Nat
          /\ \A i \in 1 .. Len(source'[r].items) :
                \/ i \in 1 .. Len(source[r].items) /\ source'[r].items[i] = source[r].items[i]
                \/ i = Len(source[r].items) + 1 /\ source'[r].items[i] = source[r].next
      BY <3>1
    <3>3. Streamed(r)' = Streamed(r) /\ source[r].next = Streamed(r) + (Len(source[r].items) + 1)
      <4> DEFINE n == Len(source[r].items)
                 e == source[r].next
      <4>1. n \in Nat /\ e \in Nat /\ Len(source'[r].items) = n + 1 /\ source'[r].next = e + 1
        BY <3>1, <3>2
      <4>2. Streamed(r) = e - 1 - n /\ Streamed(r)' = source'[r].next - 1 - Len(source'[r].items)
        BY DEF Streamed
      <4> HIDE DEF n, e
      <4>3. Streamed(r)' = Streamed(r) /\ e = Streamed(r) + (n + 1)
        BY <4>1, <4>2
      <4> QED BY <4>3 DEF n, e
    <3>4. \A i \in 1 .. Len(source'[r].items) : source'[r].items[i] = Streamed(r) + i
      BY <3>1, <3>2, <3>3 DEF CallInv, SourceOf
    <3>5. SourceOf(r)'
      BY <1>3, <3>1, <3>3, <3>4 DEF CallInv, SourceOf, Produce, callVars, ParamStreaming
    <3> QED BY <2>3, <3>3, <3>5, ElsewhereButSource
  <2> QED BY <2>4, <2>5
<1> QED BY <1>1, <1>2, <1>3

(* The provider is told that there are no more items.                      *)
LEMMA StepHandleAbort ==
    ASSUME TypeInv, NEW r \in Calls, CallInv(r), NEW c \in Clients, HandleAbort(c)
    PROVE  CallInv(r)'
<1> DEFINE x == Head(toClient[c]).id
<1>1. /\ toServer' = toServer /\ toClient[c] # <<>> /\ Head(toClient[c]).op = "Abort"
      /\ toClient' = [toClient EXCEPT ![c] = Tail(@)]
  BY DEF HandleAbort, Receives, Taken
<1>2. \A ops \in {Params, Answers} : ~ ItemOf(Head(toClient[c]), ops, r)
  BY <1>1 DEF ItemOf, Params, Answers
<1>3. \A ops \in {Params, Answers} :
         Moves(toServer, toServer', ops, r) /\ Moves(toClient, toClient', ops, r)
  BY <1>1, <1>2 DEF Moves
<1>4. /\ running' = running \ {x} /\ kind' = kind /\ serving' = serving
      /\ SameServing(r) /\ SameCall(r) /\ SameSource(r) /\ SameReceived(r) /\ SameLinks(r)
      /\ pendingRPCs'[r] = pendingRPCs[r]
  BY DEF HandleAbort, serverVars, callVars, streamVars,
         SameServing, SameCall, SameSource, SameReceived, SameLinks
<1>5. SameProcedure(r)
  BY DEF HandleAbort, InputClosed, SameProcedure, SameStage, Relayed, Started, Executing, TypeInv, Types
<1> HIDE DEF x
<1>6. CASE r \in running' <=> r \in running
  BY <1>3, <1>4, <1>5, <1>6, QueuesElsewhere
<1>7. CASE ~ (r \in running' <=> r \in running)
  <2>1. r \in running /\ r \notin running'
    BY <1>4, <1>7
  <2>2. SameParams(r) /\ SameAnswers(r)
    BY <1>3, MoveParams, MoveAnswers
  <2>3. SourceOf(r)' /\ Streamed(r)' = Streamed(r) /\ (Fresh(r)' <=> Fresh(r))
    BY <1>4, SourceFrame DEF CallInv
  <2>4. WhereOf(r)' /\ StageOf(r)' /\ ShapeOf(r)' /\ RouteOf(r)' /\ YieldOf(r)'
    BY <1>4, <1>5, <2>2, <2>3, FrameButParams DEF SameProcedure
  <2>5. Executing(r) /\ Started(r) /\ Started(r)'
    BY <1>5, <2>1 DEF CallInv, ParamOf, Executing, Started, SameProcedure, SameStage, Relayed
  <2>6. ~ AtServer("Request", r)' /\ ~ Serving("Request", r)' /\ ~ AtClient("Request", r)'
    BY <2>4, <2>5 DEF StageOf
  <2>7. ~ Active(r)'
    BY <2>1, <2>6 DEF Active
  <2>8. ParamOf(r)'
    <3>1. FirstItem(r)' = FirstItem(r)
      BY <1>4 DEF FirstItem, ParamStreaming
    <3> QED BY <1>4, <1>5, <2>1, <2>5, <2>7, <3>1 DEF CallInv, ParamOf, SameProcedure, SameStage, Relayed, Started, Executing, Fed
  <2> QED BY <2>3, <2>4, <2>8 DEF CallInv
<1> QED BY <1>6, <1>7

-----------------------------------------------------------------------------
(* The server *)

(* The packet that the server takes, and where it is from.                 *)
LEMMA ServerTakes ==
    ASSUME TypeInv, NEW c \in Clients, NEW op \in Params \union Answers, Arrives(c, op), Consumed(c)
    PROVE  LET p == Head(toServer[c]) IN
           /\ TakenFrom(toServer, toServer', c) /\ serving[c] = None
           /\ p \in Packets /\ p.op = op /\ p.id \in Calls
           /\ toServer' \in [Clients -> Seq(Packets)] /\ Is(p, op, p.id)
           /\ Has(toServer[c], op, p.id) /\ AtServer(op, p.id)
           /\ \A r : r # p.id =>
                 \A ops \in {Params, Answers} : Moves(toServer, toServer', ops, r)
<1> DEFINE p == Head(toServer[c])
<1>1. /\ toServer[c] # <<>> /\ toServer' = [toServer EXCEPT ![c] = Tail(@)] /\ serving[c] = None
      /\ p.op = op
  BY DEF Arrives, Consumed
<1>2. p \in Packets /\ p.id \in Calls /\ toServer' \in [Clients -> Seq(Packets)]
  BY <1>1, HeadFacts, PacketFacts DEF Params, Answers
<1>3. Is(p, op, p.id) /\ toServer \in [Clients -> Seq(Packets)]
  BY <1>1, QueueTypes DEF Is
<1>4. Has(toServer[c], op, p.id)
  <2>1. toServer[c] \in Seq(Packets)
    BY <1>3
  <2> QED BY <1>1, <1>3, <2>1, HasTail
<1>5. AtServer(op, p.id)
  BY <1>4 DEF AtServer
<1>6. \A r : r # p.id => \A ops \in {Params, Answers} : Moves(toServer, toServer', ops, r)
  BY <1>1 DEF Moves, ItemOf
<1>7. TakenFrom(toServer, toServer', c)
  BY <1>1, <1>3, IsTaken
<1> QED BY <1>1, <1>2, <1>3, <1>4, <1>5, <1>6, <1>7

(* The server's part of a call changes, its caller's and provider's do not. *)
StillCalled(r) ==
    /\ connection' = connection /\ sessions' = sessions /\ registers' = registers
    /\ kind' = kind /\ remoteProcedures' = remoteProcedures
    /\ result' = result /\ received' = received /\ source' = source /\ loop' = loop
    /\ procedure' = procedure /\ running' = running

(* What depends on the variables that a handler of the server leaves       *)
(* alone.                                                                  *)
LEMMA StillCalledFacts ==
    ASSUME NEW r \in Calls, StillCalled(r)
    PROVE  /\ SameLinks(r) /\ SameCall(r) /\ SameSource(r) /\ SameReceived(r) /\ SameProcedure(r)
           /\ (r \in running' <=> r \in running) /\ (Fresh(r)' <=> Fresh(r))
           /\ Provider(r)' = Provider(r) /\ (Started(r)' <=> Started(r)) /\ (Executing(r)' <=> Executing(r))
           /\ Streamed(r)' = Streamed(r) /\ (ParamStreaming(r)' <=> ParamStreaming(r))
           /\ FirstItem(r)' = FirstItem(r) /\ Got(r)' = Got(r) /\ Fed(r)' = Fed(r)
           /\ SameStage(r) /\ Relayed(r)' = Relayed(r)
           /\ (SourceOf(r) => SourceOf(r)')
<1>1. Streamed(r)' = Streamed(r) /\ (ParamStreaming(r)' <=> ParamStreaming(r))
  BY DEF StillCalled, Streamed, ParamStreaming
<1>2. Fresh(r)' <=> Fresh(r)
  BY <1>1 DEF StillCalled, Fresh
<1>3. FirstItem(r)' = FirstItem(r)
  BY <1>1 DEF FirstItem
<1>4. SourceOf(r) => SourceOf(r)'
  BY <1>1 DEF StillCalled, SourceOf
<1> QED BY <1>1, <1>2, <1>3, <1>4 DEF StillCalled, SameLinks, SameCall, SameSource, SameReceived,
           SameProcedure, SameStage, Relayed, Provider, Started, Executing, Got, Fed

(* A request is taken: its route is known, if its service has a provider;  *)
(* else it is answered.                                                    *)
LEMMA StepServeRequest ==
    ASSUME TypeInv, NEW r \in Calls, CallInv(r), NEW c \in Clients, ServeRequest(c)
    PROVE  CallInv(r)'
<1> DEFINE p == Head(toServer[c])
           answer == Packet("Result", p.id, "RpcErrorInternalError")
<1>1. /\ TakenFrom(toServer, toServer', c) /\ serving[c] = None
      /\ p \in Packets /\ p.op = "Request" /\ p.id \in Calls
      /\ toServer' \in [Clients -> Seq(Packets)] /\ Is(p, "Request", p.id)
      /\ Has(toServer[c], "Request", p.id) /\ AtServer("Request", p.id)
      /\ \A x : x # p.id => \A ops \in {Params, Answers} : Moves(toServer, toServer', ops, x)
  BY ServerTakes DEF ServeRequest, Params
<1>2. StillCalled(r)
  BY DEF ServeRequest, StillCalled, callVars, streamVars, providerVars
<1>3. \/ /\ sessions[Target[p.id]] # None /\ toClient' = toClient
         /\ pendingRPCs' = [pendingRPCs EXCEPT ![p.id] = IF @ = None THEN c ELSE @]
         /\ serving' = [serving EXCEPT ![c] = p]
      \/ /\ sessions[Target[p.id]] = None /\ pendingRPCs' = pendingRPCs /\ serving' = serving
         /\ toClient' = Post(toClient, c, answer)
  BY DEF ServeRequest, Remembered, Reply
<1>4. answer \in Packets /\ answer.id = p.id /\ answer.op = "Result"
      /\ answer.arg = "RpcErrorInternalError"
  BY <1>1, PacketIn DEF CallCodes, Packet
<1>5. serving \in [Clients -> Packets \union {None}] /\ pendingRPCs \in [Calls -> Clients \union {None}]
      /\ toServer \in [Clients -> Seq(Packets)] /\ toClient \in [Clients -> Seq(Packets)]
  BY DEF TypeInv, Types, TypeOK
<1>8. toClient' = Post(toClient, c, answer) => PostedTo(toClient, toClient', c, answer)
  BY <1>4, <1>5, IsPosted
<1> HIDE DEF p, answer
<1>6. CASE r # p.id
  <2>1. \A ops \in {Params, Answers} : Moves(toClient, toClient', ops, r)
    BY <1>3, <1>4, <1>6 DEF Moves, ItemOf
  <2>2. SameServing(r)
    BY <1>1, <1>3, <1>5, <1>6 DEF SameServing, OtherThan
  <2>3. pendingRPCs'[r] = pendingRPCs[r]
    BY <1>3, <1>5, <1>6
  <2> QED BY <1>1, <1>2, <1>6, <2>1, <2>2, <2>3, StillCalledFacts, QueuesElsewhere
<1>7. CASE r = p.id
  <2>1. c = Caller[r] /\ ShapeOf(r) /\ \A d \in Clients : Shaped(toServer[d], r, FirstItem(r))
    BY <1>1, <1>7 DEF CallInv, WhereOf, Params, ShapeOf
  <2>2. /\ \A d \in Clients : Shaped(toServer'[d], r, FirstItem(r))
        /\ p.arg = FirstItem(r) /\ ~ Has(toServer'[c], "Request", r)
    <3>1. Is(Head(toServer[c]), "Request", r) /\ TakenFrom(toServer, toServer', c)
      BY <1>1, <1>7 DEF p
    <3> QED BY <1>5, <2>1, <3>1, ShapedTaken DEF p
  <2>3. \A d \in Clients : \A op :
           /\ Has(toServer'[d], op, r) => Has(toServer[d], op, r)
           /\ Has(toServer[d], op, r) => Has(toServer'[d], op, r) \/ (d = c /\ op = "Request")
    <3>1. \A op : Is(p, op, r) <=> op = "Request"
      BY <1>1, <1>7 DEF Is
    <3> QED BY <1>1, <1>5, <3>1, HasTaken DEF p
  <2>4. /\ ~ AtServer("Request", r)'
        /\ \A op : op # "Request" => (AtServer(op, r)' <=> AtServer(op, r))
    BY <2>1, <2>2, <2>3 DEF AtServer, CallInv, WhereOf, Params
  <2>5. /\ AtServer("Request", r) /\ ~ Serving("Request", r) /\ ~ AtClient("Request", r)
        /\ ~ Started(r) /\ ~ Executing(r) /\ r \notin running
        /\ ~ AtServer("Result", r) /\ ~ AtClient("Result", r) /\ ~ Fresh(r) /\ r \in remoteProcedures
        /\ ~ AtServer("ServerStreaming", r) /\ ~ Serving("Result", r)
    BY <1>1, <1>7 DEF CallInv, StageOf, RouteOf, ParamOf, YieldOf, Started, Executing
  <2>6. SourceOf(r)'
    BY <1>2, StillCalledFacts DEF CallInv
  <2>7. AlikeAnswers(toServer[c], toServer'[c], r) /\ \A d \in Clients : AlikeAnswers(toServer[d], toServer'[d], r)
    <3>1. ~ ItemOf(p, Answers, r)
      BY <1>1 DEF ItemOf, Answers
    <3>2. AlikeAnswers(toServer[c], Tail(toServer[c]), r)
      BY <3>1, <1>1, <1>5, AlikeTail DEF p, TakenFrom
    <3> QED BY <3>2, <1>1, AlikeSame DEF TakenFrom
  <2>8. CASE sessions[Target[p.id]] # None
    <3>1. /\ toClient' = toClient /\ serving' = [serving EXCEPT ![c] = p]
          /\ pendingRPCs'[r] = IF pendingRPCs[r] = None THEN c ELSE pendingRPCs[r]
          /\ Provider(r) # None
      BY <1>3, <1>5, <1>7, <2>8 DEF Provider
    <3>2. pendingRPCs'[r] = Caller[r]
      BY <2>1, <3>1, Parties DEF CallInv, WhereOf
    <3>3. /\ \A op : AtClient(op, r)' <=> AtClient(op, r)
          /\ \A op : op # "Request" => (Serving(op, r)' <=> Serving(op, r))
          /\ \A d \in Clients : serving'[d] # None /\ Is(serving'[d], "Request", r) => d = c /\ serving'[d] = p
          /\ p # None => Serving("Request", r)'
          /\ Serving("Request", r)' => p # None
      <4>1. \A op : AtClient(op, r)' <=> AtClient(op, r)
        BY <3>1 DEF AtClient
      <4>2. \A d \in Clients : serving'[d] = IF d = c THEN p ELSE serving[d]
        BY <1>5, <3>1
      <4>3. \A d \in Clients : ~ (serving[d] # None /\ Is(serving[d], "Request", r))
        BY <2>5 DEF Serving
      <4>4. \A op : op # "Request" => (Serving(op, r)' <=> Serving(op, r))
        BY <1>1, <4>2 DEF Serving, Is
      <4>5. /\ p # None => Serving("Request", r)'
            /\ Serving("Request", r)' => p # None
        BY <1>1, <1>7, <4>2, <4>3 DEF Serving
      <4> QED BY <4>1, <4>2, <4>3, <4>4, <4>5
    <3>4. WhereOf(r)'
      BY <1>2, <2>1, <2>3, <3>1, <3>2, <3>3, StillCalledFacts DEF CallInv, WhereOf, StillCalled
    <3>5. StageOf(r)'
      BY <1>2, <2>4, <2>5, <3>3, StillCalledFacts DEF CallInv, StageOf, StillCalled
    <3>6. ShapeOf(r)'
      BY <1>2, <2>1, <2>2, <3>1, StillCalledFacts DEF ShapeOf
    <3>7. RouteOf(r)'
      BY <1>2, <2>4, <2>5, <3>2, <3>3, StillCalledFacts DEF RouteOf
    <3>8. SameAnswers(r)
      BY <2>7, <3>1, AlikeSame DEF SameAnswers
    <3>9. YieldOf(r)'
      BY <1>2, <2>5, <3>8, StillCalledFacts, YieldFrame DEF CallInv, StillCalled
    <3>10. ParamOf(r)'
      <4>1. Active(r)' <=> p # None
        BY <1>2, <2>4, <2>5, <3>3 DEF Active, StillCalled
      <4>2. ASSUME ParamStreaming(r), p # None, Provider(r) # None => connection[Provider(r)] # "lost"
            PROVE  \E m, k, b \in Nat : ParamsUnderWay(r, m, k, b)'
        <5>1. Active(r)
          BY <2>5 DEF Active
        <5>2. PICK m \in Nat, k \in Nat, b \in Nat : ParamsUnderWay(r, m, k, b)
          BY <4>2, <5>1 DEF CallInv, ParamOf
        <5>3. k = m /\ Chain(toServer[c], Params, r, k, b)
          BY <2>1, <2>5, <5>2 DEF ParamsUnderWay
        <5>4. p.arg = 1 /\ ItemOf(p, Params, r) /\ toServer[c] \in Seq(Packets)
          BY <1>1, <1>5, <1>7, <2>2, <4>2 DEF FirstItem, ItemOf, Params
        <5>5. p.arg = k + 1 /\ Chain(Tail(toServer[c]), Params, r, k + 1, b)
          BY <1>1, <5>2, <5>3, <5>4, ChainTail DEF p, TakenFrom
        <5>6. k = 0 /\ m = 0
          BY <5>3, <5>4, <5>5
        <5>7. Chain(toServer'[c], Params, r, 1, b)
          BY <1>1, <5>5, <5>6 DEF TakenFrom
        <5>8. ParamsUnderWay(r, m, 1, b)'
          BY <1>2, <2>1, <3>1, <3>3, <4>2, <5>2, <5>6, <5>7, StillCalledFacts
             DEF ParamsUnderWay, StillCalled
        <5> QED BY <5>8
      <4>3. \A d \in Clients : serving'[d] # None /\ Is(serving'[d], "Request", r) =>
                serving'[d].arg = FirstItem(r)'
        BY <1>2, <2>2, <3>3, StillCalledFacts
      <4> QED BY <1>2, <2>5, <4>1, <4>2, <4>3, StillCalledFacts DEF CallInv, ParamOf, StillCalled
    <3> QED BY <2>6, <3>4, <3>5, <3>6, <3>7, <3>9, <3>10 DEF CallInv
  <2>9. CASE sessions[Target[p.id]] = None
    <3>1. /\ serving' = serving /\ pendingRPCs' = pendingRPCs /\ Provider(r) = None
          /\ toClient' = Post(toClient, c, answer)
      BY <1>3, <1>7, <2>9 DEF Provider
    <3>2. \A d \in Clients : \A op :
             Has(toClient'[d], op, r) <=>
                Has(toClient[d], op, r) \/ (d = c /\ connection[c] # "lost" /\ op = "Result")
      <4>1. \A op : Is(answer, op, r) <=> op = "Result"
        BY <1>4, <1>7 DEF Is
      <4>2. PostedTo(toClient, toClient', c, answer)
        BY <1>8, <3>1
      <4>3. toClient \in [Clients -> Seq(Packets)] /\ answer \in Packets
        BY <1>4, <1>5
      <4>4. \A d \in Clients : \A op :
              Has(toClient'[d], op, r) <=>
                 Has(toClient[d], op, r) \/ (d = c /\ connection[c] # "lost" /\ Is(answer, op, r))
        BY <4>2, <4>3, HasPosted
      <4> QED BY <4>1, <4>4
    <3>3. /\ \A op : op # "Result" => (AtClient(op, r)' <=> AtClient(op, r))
          /\ \A op : Serving(op, r)' <=> Serving(op, r)
      BY <3>1, <3>2 DEF AtClient, Serving
    <3>4. WhereOf(r)'
      BY <1>2, <2>1, <2>3, <3>1, <3>2, <3>3, StillCalledFacts DEF CallInv, WhereOf, StillCalled, Params
    <3>5. StageOf(r)'
      BY <1>2, <2>4, <2>5, <3>3, StillCalledFacts DEF CallInv, StageOf, StillCalled
    <3>6. ShapeOf(r)'
      <4>1. ~ Has(toClient[c], "Result", r) /\ ~ Is(answer, "Request", r) /\ ~ Is(answer, "ClientStreaming", r)
        BY <1>4, <2>5 DEF AtClient, Is
      <4>2. \A d \in Clients : Shaped(toClient'[d], r, FirstItem(r))
        BY <1>4, <1>5, <1>8, <2>1, <3>1, <4>1, ShapedPosted DEF ShapeOf
      <4> QED BY <1>2, <2>2, <4>2, StillCalledFacts DEF ShapeOf
    <3>7. RouteOf(r)'
      BY <1>2, <2>4, <2>5, <3>1, <3>3, StillCalledFacts DEF CallInv, RouteOf
    <3>8. YieldOf(r)'
      <4>1. \A d \in Clients : ~ Gracefully(toServer'[d], r) /\ ~ Gracefully(toClient'[d], r)
        <5>1. \A d \in Clients : ~ Gracefully(toServer[d], r) /\ ~ Gracefully(toClient[d], r)
          BY <2>5 DEF CallInv, YieldOf
        <5>2. \A d \in Clients : ~ Gracefully(toServer'[d], r)
          BY <5>1, <2>7 DEF AlikeAnswers
        <5>3. \A d \in Clients : ~ Gracefully(toClient'[d], r)
          <6>1. PostedTo(toClient, toClient', c, answer)
            BY <1>8, <3>1
          <6>2. answer.arg # Graceful
            BY <1>4 DEF Graceful
          <6>3. toClient \in [Clients -> Seq(Packets)] /\ answer \in Packets
            BY <1>4, <1>5
          <6>4. \A d \in Clients : Gracefully(toClient'[d], r) =>
                   Gracefully(toClient[d], r) \/ (d = c /\ Is(answer, "Result", r) /\ answer.arg = Graceful)
            BY <6>1, <6>3, GracePosted
          <6> QED BY <5>1, <6>2, <6>4
        <5> QED BY <5>2, <5>3
      <4> QED BY <1>2, <2>4, <2>5, <3>3, <4>1, StillCalledFacts DEF CallInv, YieldOf, StillCalled
    <3>9. ParamOf(r)'
      <4>1. ~ Active(r)'
        BY <1>2, <2>4, <2>5, <3>3 DEF Active, StillCalled
      <4> QED BY <1>2, <2>5, <3>1, <4>1, StillCalledFacts DEF CallInv, ParamOf, StillCalled
    <3> QED BY <2>6, <3>4, <3>5, <3>6, <3>7, <3>8, <3>9 DEF CallInv
  <2> QED BY <2>8, <2>9
<1> QED BY <1>6, <1>7

(* Forwarded is a post to whoever is there.                                *)
LEMMA ForwardedFacts ==
    ASSUME TypeInv, NEW w \in Clients \union {None}, NEW p \in Packets, Forwarded(w, p)
    PROVE  /\ w # None => PostedTo(toClient, toClient', w, p)
           /\ w = None => toClient' = toClient
           /\ \A r : p.id # r => \A ops \in {Params, Answers} : Moves(toClient, toClient', ops, r)
<1>1. toClient \in [Clients -> Seq(Packets)]
  BY QueueTypes
<1>2. CASE w = None
  BY <1>2 DEF Forwarded, Moves
<1>3. CASE w # None
  <2>1. w \in Clients /\ toClient' = Post(toClient, w, p)
    BY <1>3 DEF Forwarded, Reply
  <2>2. PostedTo(toClient, toClient', w, p)
    BY <1>1, <2>1, IsPosted
  <2> QED BY <1>3, <2>1, <2>2 DEF Moves, ItemOf
<1> QED BY <1>2, <1>3

(* The request goes on to the provider, after its route has been entered.  *)
LEMMA StepForwardRequest ==
    ASSUME TypeInv, NEW r \in Calls, CallInv(r), NEW c \in Clients, ForwardRequest(c)
    PROVE  CallInv(r)'
<1> DEFINE p == serving[c]
           w == sessions[Target[serving[c].id]]
<1>1. /\ p # None /\ p.op = "Request" /\ p \in Packets /\ p.id \in Calls /\ Is(p, "Request", p.id)
      /\ serving' = [serving EXCEPT ![c] = None] /\ w \in Clients \union {None}
  BY PacketFacts, ConstantsAssumption DEF ForwardRequest, TypeInv, Types, TypeOK, Is
<1>2. StillCalled(r) /\ toServer' = toServer /\ pendingRPCs' = pendingRPCs
  BY DEF ForwardRequest, StillCalled, callVars, streamVars, providerVars
<1>3. /\ w # None => PostedTo(toClient, toClient', w, p)
      /\ w = None => toClient' = toClient
      /\ p.id # r => \A ops \in {Params, Answers} : Moves(toClient, toClient', ops, r)
  BY <1>1, ForwardedFacts DEF ForwardRequest
<1>4. /\ serving \in [Clients -> Packets \union {None}]
      /\ toServer \in [Clients -> Seq(Packets)] /\ toClient \in [Clients -> Seq(Packets)]
  BY DEF TypeInv, Types
<1>5. \A d \in Clients : serving'[d] = IF d = c THEN None ELSE serving[d]
  BY <1>1, <1>4
<1>6. CASE r # p.id
  <2>1. \A ops \in {Params, Answers} : Moves(toServer, toServer', ops, r)
    BY <1>2 DEF Moves
  <2>2. SameServing(r)
    BY <1>5, <1>6 DEF SameServing, OtherThan
  <2> QED BY <1>2, <1>3, <1>6, <2>1, <2>2, StillCalledFacts, QueuesElsewhere
<1>7. CASE r = p.id
  <2>1. /\ c = Caller[r] /\ w = Provider(r) /\ w \in Clients /\ PostedTo(toClient, toClient', w, p)
        /\ Is(p, "Request", r)
    BY <1>1, <1>3, <1>7, Parties DEF CallInv, WhereOf, Provider
  <2>2. Serving("Request", r)
    BY <1>1, <1>7 DEF Serving
  <2> HIDE DEF p, w
  <2>3. \A d \in Clients : \A op :
           Has(toClient'[d], op, r) <=>
              Has(toClient[d], op, r) \/ (d = w /\ connection[w] # "lost" /\ op = "Request")
    <3>1. \A op : Is(p, op, r) <=> op = "Request"
      BY <1>1, <1>7 DEF Is
    <3>2. \A d \in Clients : \A op :
             Has(toClient'[d], op, r) <=>
                Has(toClient[d], op, r) \/ (d = w /\ connection[w] # "lost" /\ Is(p, op, r))
      <4>1. toClient \in [Clients -> Seq(Packets)] /\ p \in Packets /\ w \in Clients
        BY <1>1, <1>4, <2>1
      <4>2. PostedTo(toClient, toClient', w, p)
        BY <2>1
      <4> QED BY <4>1, <4>2, HasPosted
    <3> QED BY <3>1, <3>2
  <2>4. /\ \A op : AtServer(op, r)' <=> AtServer(op, r)
        /\ \A op : op # "Request" => (AtClient(op, r)' <=> AtClient(op, r))
        /\ AtClient("Request", r)' <=> connection[w] # "lost" \/ AtClient("Request", r)
    BY <1>2, <2>1, <2>3 DEF AtServer, AtClient
  <2>5. /\ ~ Serving("Request", r)'
        /\ \A op : op # "Request" => (Serving(op, r)' <=> Serving(op, r))
    <3>1. \A d \in Clients : serving[d] # None /\ Is(serving[d], "Request", r) => d = c
      BY <2>1 DEF CallInv, WhereOf
    <3>2. \A op : op # "Request" => ~ Is(serving[c], op, r)
      BY <1>1 DEF Is, p
    <3> QED BY <1>5, <3>1, <3>2 DEF Serving
  <2>6. /\ ~ AtServer("Request", r) /\ ~ AtClient("Request", r) /\ ~ Started(r) /\ ~ Executing(r)
        /\ r \notin running /\ ~ AtServer("Result", r) /\ ~ AtClient("Result", r) /\ ~ Fresh(r)
        /\ r \in remoteProcedures /\ ~ AtServer("ServerStreaming", r) /\ ~ Serving("Result", r)
        /\ pendingRPCs[r] = Caller[r]
    BY <2>2 DEF CallInv, StageOf, RouteOf, ParamOf, YieldOf, Started, Executing
  <2>7. SourceOf(r)'
    BY <1>2, StillCalledFacts DEF CallInv
  <2>8. WhereOf(r)'
    BY <1>2, <1>5, <2>1, <2>3, <2>6, StillCalledFacts DEF CallInv, WhereOf, StillCalled
  <2>9. StageOf(r)'
    BY <1>2, <2>4, <2>5, <2>6, StillCalledFacts DEF CallInv, StageOf, StillCalled
  <2>10. p.arg = FirstItem(r)
    BY <1>1, <1>7 DEF CallInv, ParamOf, p
  <2>11. ShapeOf(r)'
    <3>1. ~ Is(p, "ClientStreaming", r) /\ ~ Is(p, "Result", r) /\ ~ Is(p, "ServerStreaming", r)
          /\ ~ Has(toClient[w], "Request", r)
      BY <1>1, <2>1, <2>6 DEF Is, AtClient
    <3>2. \A d \in Clients : Shaped(toClient'[d], r, FirstItem(r))
      BY <1>1, <1>4, <2>1, <2>10, <3>1, ShapedPosted DEF CallInv, ShapeOf
    <3> QED BY <1>2, <3>2, StillCalledFacts DEF CallInv, ShapeOf
  <2>12. RouteOf(r)'
    BY <1>2, <2>4, <2>5, <2>6, StillCalledFacts DEF RouteOf
  <2>13. YieldOf(r)'
    <3>1. ~ ItemOf(p, Answers, r) /\ w \in Clients
      BY <1>1, <2>1 DEF ItemOf, Answers
    <3>2. AlikeAnswers(toClient[w], Append(toClient[w], p), r)
      BY <1>1, <1>4, <3>1, AlikeAppend
    <3>3. SameAnswers(r)
      BY <1>2, <2>1, <3>2, AlikeSame DEF SameAnswers, PostedTo
    <3> QED BY <1>2, <2>6, <3>3, StillCalledFacts, YieldFrame DEF CallInv, StillCalled
  <2>14. ParamOf(r)'
    <3>1. ASSUME ParamStreaming(r), connection[Provider(r)] # "lost"
          PROVE  \E m, k, b \in Nat : ParamsUnderWay(r, m, k, b)'
      <4>1. Active(r)
        BY <2>2 DEF Active
      <4>2. PICK m \in Nat, k \in Nat, b \in Nat : ParamsUnderWay(r, m, k, b)
        BY <3>1, <4>1 DEF CallInv, ParamOf
      <4>3. m = 0 /\ k = 1 /\ Chain(toClient[w], Params, r, 0, 0) /\ Chain(toServer[Caller[r]], Params, r, 1, b)
        BY <2>1, <2>2, <2>6, <4>2, Parties DEF ParamsUnderWay
      <4>4. ItemOf(p, Params, r) /\ p.arg = 0 + 1 /\ connection[w] # "lost"
        BY <1>1, <2>1, <2>10, <3>1 DEF ItemOf, Params, Is, FirstItem
      <4>5. Chain(toClient'[w], Params, r, 0, 0 + 1)
        BY <1>1, <1>4, <2>1, <4>3, <4>4, ChainPosted
      <4>6. ParamsUnderWay(r, 1, 1, b)'
        BY <1>2, <2>1, <2>5, <2>6, <4>2, <4>3, <4>5, StillCalledFacts, Parties
           DEF ParamsUnderWay, StillCalled
      <4> QED BY <4>6
    <3>2. \A d \in Clients : serving'[d] # None /\ Is(serving'[d], "Request", r) =>
              serving'[d].arg = FirstItem(r)'
      BY <2>5 DEF Serving
    <3>3. Provider(r) # None
      BY <2>1, Parties
    <3> QED BY <1>2, <2>6, <3>1, <3>2, <3>3, StillCalledFacts DEF CallInv, ParamOf, StillCalled
  <2> QED BY <2>7, <2>8, <2>9, <2>11, <2>12, <2>13, <2>14 DEF CallInv
<1> QED BY <1>6, <1>7

(* A result is taken, and goes to the caller that the route names.         *)
LEMMA StepServeResult ==
    ASSUME TypeInv, NEW r \in Calls, CallInv(r), NEW c \in Clients, ServeResult(c)
    PROVE  CallInv(r)'
<1> DEFINE p == Head(toServer[c])
           w == pendingRPCs[Head(toServer[c]).id]
<1>1. /\ TakenFrom(toServer, toServer', c) /\ serving[c] = None
      /\ p \in Packets /\ p.op = "Result" /\ p.id \in Calls
      /\ toServer' \in [Clients -> Seq(Packets)] /\ Is(p, "Result", p.id)
      /\ Has(toServer[c], "Result", p.id) /\ AtServer("Result", p.id)
      /\ \A x : x # p.id => \A ops \in {Params, Answers} : Moves(toServer, toServer', ops, x)
  BY ServerTakes DEF ServeResult, Answers
<1>2. StillCalled(r) /\ pendingRPCs' = pendingRPCs
  BY DEF ServeResult, StillCalled, callVars, streamVars, providerVars
<1>3. w \in Clients \union {None} /\ Forwarded(w, p)
      /\ serving' = [serving EXCEPT ![c] = IF w = None THEN None ELSE p]
  BY <1>1 DEF ServeResult, TypeInv, Types, TypeOK
<1>4. /\ w # None => PostedTo(toClient, toClient', w, p)
      /\ w = None => toClient' = toClient
      /\ p.id # r => \A ops \in {Params, Answers} : Moves(toClient, toClient', ops, r)
  BY <1>1, <1>3, ForwardedFacts
<1>5. /\ serving \in [Clients -> Packets \union {None}]
      /\ toServer \in [Clients -> Seq(Packets)] /\ toClient \in [Clients -> Seq(Packets)]
  BY DEF TypeInv, Types
<1>6. \A d \in Clients : serving'[d] = IF d = c THEN (IF w = None THEN None ELSE p) ELSE serving[d]
  BY <1>3, <1>5
<1>7. CASE r # p.id
  <2>1. SameServing(r)
    BY <1>1, <1>6, <1>7 DEF SameServing, OtherThan
  <2> QED BY <1>1, <1>2, <1>4, <1>7, <2>1, StillCalledFacts, QueuesElsewhere
<1>8. CASE r = p.id
  <2>1. /\ AtServer("Result", r) /\ ~ AtServer("Request", r) /\ ~ Serving("Request", r)
        /\ ~ AtClient("Request", r) /\ ~ Executing(r) /\ ~ AtClient("Result", r) /\ ~ Fresh(r)
        /\ r \notin running /\ r \in remoteProcedures /\ pendingRPCs[r] = Caller[r]
    BY <1>1, <1>8 DEF CallInv, StageOf, RouteOf, ParamOf
  <2>2. /\ w = Caller[r] /\ w \in Clients /\ PostedTo(toClient, toClient', w, p)
        /\ c = Provider(r) /\ Is(p, "Result", r) /\ Provider(r) # None
    BY <1>1, <1>4, <1>8, <2>1, Parties DEF CallInv, WhereOf
  <2> HIDE DEF p, w
  <2>3. \A d \in Clients : \A op :
           Has(toClient'[d], op, r) <=>
              Has(toClient[d], op, r) \/ (d = w /\ connection[w] # "lost" /\ op = "Result")
    <3>1. \A op : Is(p, op, r) <=> op = "Result"
      BY <1>1, <1>8 DEF Is
    <3>2. \A d \in Clients : \A op :
             Has(toClient'[d], op, r) <=>
                Has(toClient[d], op, r) \/ (d = w /\ connection[w] # "lost" /\ Is(p, op, r))
      <4>1. toClient \in [Clients -> Seq(Packets)] /\ p \in Packets /\ w \in Clients
        BY <1>1, <1>5, <2>2
      <4>2. PostedTo(toClient, toClient', w, p)
        BY <2>2
      <4> QED BY <4>1, <4>2, HasPosted
    <3> QED BY <3>1, <3>2
  <2>4. \A d \in Clients : \A op :
           /\ Has(toServer'[d], op, r) => Has(toServer[d], op, r)
           /\ Has(toServer[d], op, r) => Has(toServer'[d], op, r) \/ (d = c /\ op = "Result")
    <3>1. \A op : Is(p, op, r) <=> op = "Result"
      BY <1>1, <1>8 DEF Is
    <3> QED BY <1>1, <1>5, <3>1, HasTaken DEF p
  <2>5. /\ \A d \in Clients : Shaped(toServer'[d], r, FirstItem(r))
        /\ ~ Has(toServer'[c], "Result", r) /\ ~ Has(toServer'[c], "ServerStreaming", r)
    <3>1. Is(Head(toServer[c]), "Result", r) /\ TakenFrom(toServer, toServer', c)
      BY <1>1, <2>2 DEF p
    <3> QED BY <1>5, <3>1, ShapedTaken DEF CallInv, ShapeOf
  <2>6. /\ ~ AtServer("Result", r)' /\ ~ AtServer("ServerStreaming", r)'
        /\ \A op : op # "Result" => (AtServer(op, r)' => AtServer(op, r))
        /\ \A op : op # "Result" => (AtClient(op, r)' <=> AtClient(op, r))
        /\ \A op \in Params : AtServer(op, r)' <=> AtServer(op, r)
    BY <2>2, <2>3, <2>4, <2>5 DEF AtServer, AtClient, CallInv, WhereOf, Params
  <2>7. \A op : op # "Result" => (Serving(op, r)' <=> Serving(op, r))
    <3>1. \A op : op # "Result" => ~ Is(p, op, r)
      BY <1>1 DEF Is
    <3> QED BY <1>1, <1>6, <3>1 DEF Serving
  <2>8. SourceOf(r)'
    BY <1>2, StillCalledFacts DEF CallInv
  <2>9. WhereOf(r)'
    <3>1. ASSUME NEW d \in Clients, serving'[d] # None, Is(serving'[d], "Request", r)
          PROVE  FALSE
      BY <2>1, <2>7, <3>1 DEF Serving
    <3>2. \A d \in Clients : \A op \in Params :
             /\ Has(toServer'[d], op, r) => d = Caller[r]
             /\ Has(toClient'[d], op, r) => d = Provider(r)
      BY <2>3, <2>4 DEF CallInv, WhereOf, Params
    <3>3. \A d \in Clients : \A op \in {"Result", "ServerStreaming"} :
             /\ Has(toServer'[d], op, r) => d = Provider(r)
             /\ Has(toClient'[d], op, r) => d = Caller[r]
      BY <2>2, <2>3, <2>4 DEF CallInv, WhereOf
    <3> QED BY <1>2, <3>1, <3>2, <3>3, StillCalledFacts DEF CallInv, WhereOf, StillCalled
  <2>10. StageOf(r)'
    BY <1>2, <2>1, <2>6, <2>7, StillCalledFacts DEF CallInv, StageOf, StillCalled, Params
  <2>11. ShapeOf(r)'
    <3>1. ~ Is(p, "ClientStreaming", r) /\ ~ Is(p, "Request", r) /\ ~ Has(toClient[w], "Result", r)
      BY <1>1, <2>1, <2>2 DEF Is, AtClient
    <3>2. \A d \in Clients : Shaped(toClient'[d], r, FirstItem(r))
      BY <1>1, <1>5, <2>2, <3>1, ShapedPosted DEF CallInv, ShapeOf
    <3> QED BY <1>2, <2>5, <3>2, StillCalledFacts DEF CallInv, ShapeOf
  <2>12. RouteOf(r)'
    BY <1>2, <2>1, <2>6, <2>7, StillCalledFacts DEF RouteOf, Params
  <2>13. YieldOf(r)'
    <3>1. \A d \in Clients : Gracefully(toServer'[d], r) \/ Gracefully(toClient'[d], r) => Started(r)
      <4>1. /\ \A d \in Clients : Gracefully(toServer'[d], r) => Gracefully(toServer[d], r)
            /\ Is(p, "Result", r) /\ p.arg = Graceful => Gracefully(toServer[c], r)
        BY <1>1, <1>5, GraceTaken DEF p
      <4>2. \A d \in Clients : Gracefully(toClient'[d], r) =>
               Gracefully(toClient[d], r) \/ (d = w /\ Is(p, "Result", r) /\ p.arg = Graceful)
        <5>1. toClient \in [Clients -> Seq(Packets)] /\ p \in Packets /\ w \in Clients
          BY <1>1, <1>5, <2>2
        <5>2. PostedTo(toClient, toClient', w, p)
          BY <2>2
        <5> QED BY <5>1, <5>2, GracePosted
      <4> QED BY <4>1, <4>2 DEF CallInv, YieldOf
    <3>2. ASSUME Started(r), connection[Caller[r]] # "lost"
          PROVE  \E m, b \in Nat : YieldsUnderWay(r, m, b)'
      <4>1. PICK m \in Nat, b \in Nat : YieldsUnderWay(r, m, b)
        BY <2>1, <3>2 DEF CallInv, YieldOf
      <4>2. ~ ItemOf(p, Yields, r) /\ Got(r) \in Nat
        BY <1>1, Parties DEF ItemOf, Yields
      <4>3. Chain(toClient[w], Yields, r, Got(r), m) /\ Chain(toServer[c], Yields, r, m, b)
        BY <2>2, <4>1 DEF YieldsUnderWay
      <4>4. Chain(toClient'[w], Yields, r, Got(r), m)
        BY <1>1, <1>5, <2>2, <4>2, <4>3, ChainPosted
      <4>5. Chain(toServer'[c], Yields, r, m, b)
        BY <1>1, <1>5, <4>2, <4>3, ChainTaken DEF p
      <4>6. YieldsUnderWay(r, m, b)'
        BY <1>2, <2>1, <2>2, <4>1, <4>4, <4>5, StillCalledFacts DEF YieldsUnderWay, StillCalled
      <4> QED BY <4>6
    <3> QED BY <1>2, <2>1, <2>6, <3>1, <3>2, StillCalledFacts DEF CallInv, YieldOf, StillCalled
  <2>14. ParamOf(r)'
    <3>1. ~ Active(r)'
      BY <1>2, <2>1, <2>6, <2>7 DEF Active, StillCalled
    <3>2. \A d \in Clients : ~ (serving'[d] # None /\ Is(serving'[d], "Request", r))
      BY <2>1, <2>7 DEF Serving
    <3> QED BY <1>2, <2>1, <3>1, <3>2, StillCalledFacts DEF CallInv, ParamOf, StillCalled
  <2> QED BY <2>8, <2>9, <2>10, <2>11, <2>12, <2>13, <2>14 DEF CallInv
<1> QED BY <1>7, <1>8

(* Its route goes afterwards: nothing needs it any more.                   *)
LEMMA StepEraseRoute ==
    ASSUME TypeInv, NEW r \in Calls, CallInv(r), NEW c \in Clients, EraseRoute(c)
    PROVE  CallInv(r)'
<1> DEFINE p == serving[c]
<1>1. /\ p # None /\ p.op = "Result" /\ p \in Packets /\ p.id \in Calls
      /\ serving' = [serving EXCEPT ![c] = None]
      /\ pendingRPCs' = [pendingRPCs EXCEPT ![p.id] = None]
  BY PacketFacts DEF EraseRoute, RouteErased, TypeInv, Types
<1>2. StillCalled(r) /\ toServer' = toServer /\ toClient' = toClient
  BY DEF EraseRoute, netVars, StillCalled, callVars, streamVars, providerVars
<1>3. /\ serving \in [Clients -> Packets \union {None}] /\ pendingRPCs \in [Calls -> Clients \union {None}]
  BY DEF TypeInv, Types, TypeOK
<1>4. \A d \in Clients : serving'[d] = IF d = c THEN None ELSE serving[d]
  BY <1>1, <1>3
<1>5. \A ops \in {Params, Answers} :
         Moves(toServer, toServer', ops, r) /\ Moves(toClient, toClient', ops, r)
  BY <1>2 DEF Moves
<1>6. CASE r # p.id
  <2>1. SameServing(r) /\ pendingRPCs'[r] = pendingRPCs[r]
    BY <1>1, <1>3, <1>4, <1>6 DEF SameServing, OtherThan
  <2> QED BY <1>2, <1>5, <2>1, StillCalledFacts, QueuesElsewhere
<1>7. CASE r = p.id
  <2>1. Serving("Result", r)
    BY <1>1, <1>7 DEF Serving, Is
  <2>2. /\ \A op : op # "Result" => (Serving(op, r)' <=> Serving(op, r))
        /\ \A d \in Clients : serving'[d] # None /\ Is(serving'[d], "Request", r) => serving'[d] = serving[d]
    <3>1. \A op : op # "Result" => ~ Is(p, op, r)
      BY <1>1 DEF Is
    <3> QED BY <1>4, <3>1 DEF Serving
  <2>3. SameParams(r) /\ SameAnswers(r)
    BY <1>5, MoveParams, MoveAnswers
  <2>4. /\ \A op : AtServer(op, r)' <=> AtServer(op, r)
        /\ \A op : AtClient(op, r)' <=> AtClient(op, r)
    BY <1>2 DEF AtServer, AtClient
  <2>5. SourceOf(r)' /\ pendingRPCs'[r] = None
    BY <1>1, <1>2, <1>3, <1>7, StillCalledFacts DEF CallInv
  <2>6. WhereOf(r)'
    BY <1>2, <2>2, <2>5, StillCalledFacts DEF CallInv, WhereOf, StillCalled
  <2>7. StageOf(r)'
    BY <1>2, <2>2, <2>4, StillCalledFacts DEF CallInv, StageOf, StillCalled
  <2>8. ShapeOf(r)'
    BY <1>2, StillCalledFacts DEF CallInv, ShapeOf
  <2>9. RouteOf(r)'
    BY <1>2, <2>1, <2>2, <2>4, StillCalledFacts DEF CallInv, RouteOf
  <2>10. YieldOf(r)'
    BY <1>2, <2>3, StillCalledFacts, YieldFrame DEF CallInv, WhereOf, StillCalled
  <2>11. ParamOf(r)'
    BY <1>2, <2>2, <2>3, StillCalledFacts, ParamFrame DEF CallInv, StillCalled
  <2> QED BY <2>5, <2>6, <2>7, <2>8, <2>9, <2>10, <2>11 DEF CallInv
<1> QED BY <1>6, <1>7

(* An item of either side is passed on.                                    *)
LEMMA PassYield ==
    ASSUME TypeInv, NEW r \in Calls, CallInv(r), NEW c \in Clients, NEW p \in Packets,
           p = Head(toServer[c]), Is(p, "ServerStreaming", r), TakenFrom(toServer, toServer', c),
           Forwarded(pendingRPCs[r], p), StillCalled(r), serving' = serving, pendingRPCs' = pendingRPCs
    PROVE  CallInv(r)'
<1> DEFINE w == pendingRPCs[r]
<1>1. /\ toServer \in [Clients -> Seq(Packets)] /\ toClient \in [Clients -> Seq(Packets)]
      /\ p.op = "ServerStreaming" /\ p.id = r
  BY QueueTypes DEF Is
<1>2. Has(toServer[c], "ServerStreaming", r) /\ AtServer("ServerStreaming", r)
  <2>1. Has(toServer[c], "ServerStreaming", r)
    BY <1>1, HasTail DEF TakenFrom
  <2> QED BY <2>1 DEF AtServer
<1>3. /\ w = Caller[r] /\ w \in Clients /\ c = Provider(r) /\ Provider(r) # None
      /\ Started(r) /\ ~ AtClient("Result", r) /\ r \in remoteProcedures
      /\ ~ Serving("Result", r)
  BY <1>2, Parties DEF CallInv, WhereOf, RouteOf, YieldOf
<1>4. PostedTo(toClient, toClient', w, p)
  BY <1>3, ForwardedFacts, Parties
<1> HIDE DEF w
<1>5. \A op : Is(p, op, r) <=> op = "ServerStreaming"
  BY <1>1 DEF Is
<1>6. \A d \in Clients : \A op :
         Has(toClient'[d], op, r) <=>
            Has(toClient[d], op, r) \/ (d = w /\ connection[w] # "lost" /\ op = "ServerStreaming")
  <2>1. \A d \in Clients : \A op :
           Has(toClient'[d], op, r) <=>
              Has(toClient[d], op, r) \/ (d = w /\ connection[w] # "lost" /\ Is(p, op, r))
    <3>1. toClient \in [Clients -> Seq(Packets)] /\ w \in Clients /\ p \in Packets
      BY <1>1, <1>3
    <3> QED BY ONLY <1>4, <3>1, HasPosted
  <2> QED BY <1>5, <2>1
<1>7. \A d \in Clients : \A op :
         /\ Has(toServer'[d], op, r) => Has(toServer[d], op, r)
         /\ Has(toServer[d], op, r) => Has(toServer'[d], op, r) \/ (d = c /\ op = "ServerStreaming")
  <2>1. \A d \in Clients : \A op :
           /\ Has(toServer'[d], op, r) => Has(toServer[d], op, r)
           /\ Has(toServer[d], op, r) => Has(toServer'[d], op, r) \/ (d = c /\ Is(p, op, r))
    <3>1. toServer \in [Clients -> Seq(Packets)]
      BY <1>1
    <3> QED BY <3>1, HasTaken
  <2> QED BY <1>5, <2>1
<1>8. /\ \A op : op # "ServerStreaming" => (AtServer(op, r)' <=> AtServer(op, r))
      /\ \A op : op # "ServerStreaming" => (AtClient(op, r)' <=> AtClient(op, r))
      /\ AtServer("ServerStreaming", r)' => AtServer("ServerStreaming", r)
      /\ \A op : Serving(op, r)' <=> Serving(op, r)
  BY <1>6, <1>7 DEF AtServer, AtClient, Serving
<1>9. SourceOf(r)'
  BY StillCalledFacts DEF CallInv
<1>10. WhereOf(r)'
  <2>1. \A d \in Clients : \A op \in Params :
           /\ Has(toServer'[d], op, r) => d = Caller[r]
           /\ Has(toClient'[d], op, r) => d = Provider(r)
    BY <1>6, <1>7 DEF CallInv, WhereOf, Params
  <2>2. \A d \in Clients : \A op \in {"Result", "ServerStreaming"} :
           /\ Has(toServer'[d], op, r) => d = Provider(r)
           /\ Has(toClient'[d], op, r) => d = Caller[r]
    BY <1>3, <1>6, <1>7 DEF CallInv, WhereOf
  <2> QED BY <2>1, <2>2, StillCalledFacts DEF CallInv, WhereOf, StillCalled
<1>11. StageOf(r)'
  BY <1>8, StillCalledFacts DEF CallInv, StageOf, StillCalled
<1>12. ShapeOf(r)'
  <2>1. \A d \in Clients : Shaped(toServer'[d], r, FirstItem(r))
    BY <1>1, ShapedTaken DEF CallInv, ShapeOf
  <2>2. ~ Is(p, "ClientStreaming", r) /\ ~ Is(p, "Request", r) /\ ~ Has(toClient[w], "Result", r)
    BY <1>1, <1>3 DEF Is, AtClient
  <2>3. \A d \in Clients : Shaped(toClient'[d], r, FirstItem(r))
    <3>1. toClient \in [Clients -> Seq(Packets)] /\ w \in Clients
      BY <1>1, <1>3
    <3>2. \A d \in Clients : Shaped(toClient[d], r, FirstItem(r))
      BY DEF CallInv, ShapeOf
    <3> QED BY <1>4, <2>2, <3>1, <3>2, ShapedPosted
  <2> QED BY <2>1, <2>3, StillCalledFacts DEF CallInv, ShapeOf
<1>13. RouteOf(r)'
  BY <1>8, StillCalledFacts DEF CallInv, RouteOf, StillCalled
<1>14. YieldOf(r)'
  <2>1. \A d \in Clients : Gracefully(toServer'[d], r) \/ Gracefully(toClient'[d], r) => Started(r)
    BY <1>3
  <2>2. ASSUME connection[Caller[r]] # "lost"
        PROVE  \E m, b \in Nat : YieldsUnderWay(r, m, b)'
    <3>1. PICK m \in Nat, b \in Nat : YieldsUnderWay(r, m, b)
      BY <1>3, <2>2 DEF CallInv, YieldOf
    <3>2. ItemOf(p, Yields, r) /\ Got(r) \in Nat
      BY <1>1, Parties DEF ItemOf, Yields
    <3>3. Chain(toClient[w], Yields, r, Got(r), m) /\ Chain(toServer[c], Yields, r, m, b)
      BY <1>3, <3>1 DEF YieldsUnderWay
    <3>4. p.arg = m + 1 /\ Chain(toServer'[c], Yields, r, m + 1, b)
      <4>1. toServer \in [Clients -> Seq(Packets)]
        BY <1>1
      <4> QED BY <3>2, <3>3, <4>1, ChainTaken
    <3>5. Chain(toClient'[w], Yields, r, Got(r), m + 1)
      BY <1>1, <1>3, <1>4, <2>2, <3>2, <3>3, <3>4, ChainPosted
    <3>6. YieldsUnderWay(r, m + 1, b)'
      BY <1>3, <1>8, <3>1, <3>4, <3>5, StillCalledFacts DEF YieldsUnderWay, StillCalled
    <3>7. m + 1 \in Nat
      OBVIOUS
    <3> QED BY <3>6, <3>7
  <2> QED BY <1>3, <1>8, <2>1, <2>2, StillCalledFacts DEF CallInv, YieldOf, StillCalled
<1>15. ParamOf(r)'
  <2>1. ~ ItemOf(p, Params, r)
    BY <1>1 DEF ItemOf, Params
  <2>2. AlikeParams(toServer[c], Tail(toServer[c]), r) /\ AlikeParams(toClient[w], Append(toClient[w], p), r)
    BY <1>1, <1>3, <2>1, AlikeTail, AlikeAppend DEF TakenFrom
  <2>3. SameParams(r)
    BY <1>3, <1>4, <2>2, AlikeSame DEF SameParams, PostedTo, TakenFrom
  <2> QED BY <1>8, <2>3, StillCalledFacts, ParamFrame DEF CallInv, StillCalled
<1> QED BY <1>9, <1>10, <1>11, <1>12, <1>13, <1>14, <1>15 DEF CallInv

(* The same for an item of the caller's.                                   *)
LEMMA PassParam ==
    ASSUME TypeInv, NEW r \in Calls, CallInv(r), NEW c \in Clients, NEW p \in Packets,
           p = Head(toServer[c]), Is(p, "ClientStreaming", r), TakenFrom(toServer, toServer', c),
           serving[c] = None,
           Forwarded(Provider(r), p), StillCalled(r), serving' = serving, pendingRPCs' = pendingRPCs
    PROVE  CallInv(r)'
<1> DEFINE w == Provider(r)
<1>1. /\ toServer \in [Clients -> Seq(Packets)] /\ toClient \in [Clients -> Seq(Packets)]
      /\ p.op = "ClientStreaming" /\ p.id = r /\ w \in Clients \union {None}
  BY QueueTypes, Parties DEF Is
<1>2. Has(toServer[c], "ClientStreaming", r) /\ AtServer("ClientStreaming", r)
  <2>1. Has(toServer[c], "ClientStreaming", r)
    BY <1>1, HasTail DEF TakenFrom
  <2> QED BY <2>1 DEF AtServer
<1>3. c = Caller[r] /\ ~ Fresh(r) /\ ~ Serving("Request", r)
  <2>1. c = Caller[r] /\ ~ Fresh(r)
    BY <1>2 DEF CallInv, WhereOf, StageOf, Params
  <2>2. \A d \in Clients : serving[d] # None /\ Is(serving[d], "Request", r) => d = c
    BY <2>1 DEF CallInv, WhereOf
  <2> QED BY <2>1, <2>2 DEF Serving
<1>4. /\ w # None => PostedTo(toClient, toClient', w, p)
      /\ w = None => toClient' = toClient
  BY <1>1, ForwardedFacts
<1> HIDE DEF w
<1>5. \A op : Is(p, op, r) <=> op = "ClientStreaming"
  BY <1>1 DEF Is
<1>6. \A d \in Clients : \A op :
         Has(toClient'[d], op, r) <=>
            Has(toClient[d], op, r) \/ (d = w /\ connection[w] # "lost" /\ op = "ClientStreaming")
  <2>1. CASE w = None
    BY <1>4, <2>1, ConstantsAssumption
  <2>2. CASE w # None
    <3>1. w \in Clients /\ PostedTo(toClient, toClient', w, p)
      BY <1>1, <1>4, <2>2
    <3>2. \A d \in Clients : \A op :
             Has(toClient'[d], op, r) <=>
                Has(toClient[d], op, r) \/ (d = w /\ connection[w] # "lost" /\ Is(p, op, r))
      <4>1. toClient \in [Clients -> Seq(Packets)] /\ w \in Clients /\ p \in Packets
        BY <1>1, <3>1
      <4>2. PostedTo(toClient, toClient', w, p)
        BY <3>1
      <4> QED BY ONLY <4>1, <4>2, HasPosted
    <3> QED BY <1>5, <3>2
  <2> QED BY <2>1, <2>2
<1>7. \A d \in Clients : \A op :
         /\ Has(toServer'[d], op, r) => Has(toServer[d], op, r)
         /\ Has(toServer[d], op, r) => Has(toServer'[d], op, r) \/ (d = c /\ op = "ClientStreaming")
  <2>1. \A d \in Clients : \A op :
           /\ Has(toServer'[d], op, r) => Has(toServer[d], op, r)
           /\ Has(toServer[d], op, r) => Has(toServer'[d], op, r) \/ (d = c /\ Is(p, op, r))
    <3>1. toServer \in [Clients -> Seq(Packets)]
      BY <1>1
    <3> QED BY <3>1, HasTaken
  <2> QED BY <1>5, <2>1
<1>8. /\ \A op : op # "ClientStreaming" => (AtServer(op, r)' <=> AtServer(op, r))
      /\ \A op : op # "ClientStreaming" => (AtClient(op, r)' <=> AtClient(op, r))
      /\ \A op : Serving(op, r)' <=> Serving(op, r)
  BY <1>6, <1>7 DEF AtServer, AtClient, Serving
<1>9. SourceOf(r)'
  BY StillCalledFacts DEF CallInv
<1>10. WhereOf(r)'
  <2>1. \A d \in Clients : \A op \in Params :
           /\ Has(toServer'[d], op, r) => d = Caller[r]
           /\ Has(toClient'[d], op, r) => d = Provider(r)
    BY <1>6, <1>7 DEF CallInv, WhereOf, Params, w
  <2>2. \A d \in Clients : \A op \in {"Result", "ServerStreaming"} :
           /\ Has(toServer'[d], op, r) => d = Provider(r)
           /\ Has(toClient'[d], op, r) => d = Caller[r]
    BY <1>3, <1>6, <1>7 DEF CallInv, WhereOf
  <2> QED BY <2>1, <2>2, StillCalledFacts DEF CallInv, WhereOf, StillCalled
<1>11. StageOf(r)'
  BY <1>3, <1>8, StillCalledFacts DEF CallInv, StageOf, StillCalled
<1>12. ShapeOf(r)'
  <2>1. /\ \A d \in Clients : Shaped(toServer'[d], r, FirstItem(r))
        /\ p.arg # FirstItem(r)
    BY <1>1, ShapedTaken DEF CallInv, ShapeOf
  <2>2. ~ Is(p, "Result", r) /\ ~ Is(p, "Request", r) /\ ~ Is(p, "ServerStreaming", r)
    BY <1>1 DEF Is
  <2>3. \A d \in Clients : Shaped(toClient'[d], r, FirstItem(r))
    <3>1. CASE w = None
      BY <1>4, <3>1 DEF CallInv, ShapeOf
    <3>2. CASE w # None
      BY <1>1, <1>4, <2>1, <2>2, <3>2, ShapedPosted DEF CallInv, ShapeOf
    <3> QED BY <3>1, <3>2
  <2> QED BY <2>1, <2>3, StillCalledFacts DEF CallInv, ShapeOf
<1>13. RouteOf(r)'
  BY <1>8, StillCalledFacts DEF CallInv, RouteOf, StillCalled
<1>14. YieldOf(r)'
  <2>1. ~ ItemOf(p, Answers, r)
    BY <1>1 DEF ItemOf, Answers
  <2>2. AlikeAnswers(toServer[c], Tail(toServer[c]), r)
    BY <1>1, <2>1, AlikeTail DEF TakenFrom
  <2>3. w # None => AlikeAnswers(toClient[w], Append(toClient[w], p), r)
    BY <1>1, <2>1, AlikeAppend
  <2>4. SameAnswers(r)
    BY <1>1, <1>4, <2>2, <2>3, AlikeSame DEF SameAnswers, PostedTo, TakenFrom
  <2> QED BY <2>4, StillCalledFacts, YieldFrame DEF CallInv, WhereOf, StillCalled
<1>15. ParamOf(r)'
  <2>1. Active(r)' <=> Active(r)
    BY <1>8 DEF Active, StillCalled
  <2>2. ASSUME ParamStreaming(r), Active(r), Provider(r) # None => connection[Provider(r)] # "lost"
        PROVE  \E m, k, b \in Nat : ParamsUnderWay(r, m, k, b)'
    <3>1. PICK m \in Nat, k \in Nat, b \in Nat : ParamsUnderWay(r, m, k, b)
      BY <2>2 DEF CallInv, ParamOf
    <3>2. k = m /\ Chain(toServer[c], Params, r, m, b) /\ ItemOf(p, Params, r) /\ m + 1 \in Nat
      BY <1>1, <1>3, <3>1 DEF ParamsUnderWay, ItemOf, Params
    <3>3. p.arg = m + 1 /\ Chain(toServer'[c], Params, r, m + 1, b)
      <4>1. toServer \in [Clients -> Seq(Packets)]
        BY <1>1
      <4> QED BY <3>2, <4>1, ChainTaken
    <3>4. p.arg # 1
      BY <1>1, <2>2, ShapedTaken DEF CallInv, ShapeOf, FirstItem
    <3>5. m # 0
      BY <3>3, <3>4
    <3>6. w # None
      BY <3>1, <3>5 DEF ParamsUnderWay, w
    <3>7. /\ w \in Clients /\ PostedTo(toClient, toClient', w, p) /\ connection[w] # "lost"
          /\ (IF r \in running THEN Fed(r) ELSE 0) \in Nat
          /\ Chain(toClient[w], Params, r, IF r \in running THEN Fed(r) ELSE 0, m)
      BY <1>1, <1>4, <2>2, <3>1, <3>6, Parties DEF ParamsUnderWay, w
    <3>8. Chain(toClient'[w], Params, r, IF r \in running THEN Fed(r) ELSE 0, m + 1)
      BY <1>1, <3>2, <3>3, <3>7, ChainPosted
    <3>9. ParamsUnderWay(r, m + 1, m + 1, b)'
      BY <1>3, <1>8, <3>1, <3>3, <3>6, <3>8, StillCalledFacts DEF ParamsUnderWay, StillCalled, w
    <3> QED BY <3>2, <3>9
  <2> QED BY <2>1, <2>2, StillCalledFacts DEF CallInv, ParamOf, StillCalled
<1> QED BY <1>9, <1>10, <1>11, <1>12, <1>13, <1>14, <1>15 DEF CallInv

(* Either way: the server passes a streamed item on, or has nobody to give *)
(* it to.                                                                  *)
LEMMA StepServeStreaming ==
    ASSUME TypeInv, NEW r \in Calls, CallInv(r), NEW c \in Clients, ServeStreaming(c)
    PROVE  CallInv(r)'
<1> DEFINE p == Head(toServer[c])
<1>1. PICK op \in {"ServerStreaming", "ClientStreaming", "Abort"} :
         /\ Arrives(c, op) /\ Consumed(c)
         /\ Forwarded(IF op = "ServerStreaming" THEN pendingRPCs[p.id] ELSE sessions[Target[p.id]], p)
  BY DEF ServeStreaming
<1>2. /\ p \in Packets /\ p.id \in Calls /\ p.op = op /\ serving[c] = None
      /\ toServer' = [toServer EXCEPT ![c] = Tail(@)]
      /\ toServer[c] # <<>> /\ toServer \in [Clients -> Seq(Packets)]
  BY <1>1, HeadFacts, PacketFacts DEF Arrives, Consumed
<1>3. StillCalled(r) /\ serving' = serving /\ pendingRPCs' = pendingRPCs
  BY DEF ServeStreaming, StillCalled, serverVars, callVars, streamVars, providerVars
<1>4. TakenFrom(toServer, toServer', c)
  BY <1>2, IsTaken
<1>5. CASE r # p.id \/ op = "Abort"
  <2>1. (IF op = "ServerStreaming" THEN pendingRPCs[p.id] ELSE sessions[Target[p.id]])
            \in Clients \union {None}
    BY <1>2, ConstantsAssumption DEF TypeInv, Types, TypeOK
  <2>2. \A ops \in {Params, Answers} : ~ ItemOf(p, ops, r)
    BY <1>2, <1>5 DEF ItemOf, Params, Answers
  <2>3. \A ops \in {Params, Answers} : Moves(toServer, toServer', ops, r)
    BY <1>2, <2>2 DEF Moves
  <2>4. \A ops \in {Params, Answers} : Moves(toClient, toClient', ops, r)
    <3>1. toClient' = toClient \/ \E d \in Clients : toClient' = Post(toClient, d, p)
      BY <1>1, <2>1 DEF Forwarded, Reply
    <3> QED BY <1>2, <2>2, <3>1 DEF Moves
  <2> QED BY <1>3, <2>3, <2>4, StillCalledFacts, QueuesElsewhere DEF SameServing
<1>6. CASE r = p.id /\ op = "ServerStreaming"
  <2>1. Is(p, "ServerStreaming", r) /\ Forwarded(pendingRPCs[r], p)
    BY <1>1, <1>2, <1>6 DEF Is
  <2> QED BY <1>2, <1>3, <1>4, <2>1, PassYield
<1>7. CASE r = p.id /\ op = "ClientStreaming"
  <2>1. Is(p, "ClientStreaming", r) /\ Forwarded(Provider(r), p)
    BY <1>1, <1>2, <1>7 DEF Is, Provider
  <2> QED BY <1>2, <1>3, <1>4, <2>1, PassParam
<1> QED BY <1>5, <1>6, <1>7

-----------------------------------------------------------------------------
(* The caller *)

(* Nothing of a call is anywhere before its request has been sent.         *)
LEMMA FreshFacts ==
    ASSUME TypeInv, NEW r \in Calls, CallInv(r), Fresh(r)
    PROVE  /\ \A op \in Params \union Answers : ~ AtServer(op, r) /\ ~ AtClient(op, r)
           /\ \A c \in Clients : \A op \in Params \union Answers :
                 ~ Has(toServer[c], op, r) /\ ~ Has(toClient[c], op, r)
           /\ ~ Serving("Request", r) /\ ~ Serving("Result", r)
           /\ ~ Started(r) /\ ~ Executing(r) /\ r \notin running
           /\ Got(r) = 0 /\ Fed(r) = 0 /\ Relayed(r) = 0 /\ Streamed(r) = 0
           /\ kind[r] = None => r \notin remoteProcedures /\ result[r] = "none" /\ loop[r] = "none"
           /\ \A c \in Clients : ~ Gracefully(toServer[c], r) /\ ~ Gracefully(toClient[c], r)
           /\ result[r] # Graceful
<1>1. /\ \A op \in Params \union Answers : ~ AtServer(op, r) /\ ~ AtClient(op, r)
      /\ ~ Serving("Request", r) /\ ~ Serving("Result", r)
      /\ ~ Started(r) /\ ~ Executing(r) /\ r \notin running
  BY DEF CallInv, StageOf, RouteOf, YieldOf, ParamOf, Params, Answers, Started, Executing
<1>2. \A c \in Clients : \A op \in Params \union Answers :
         ~ Has(toServer[c], op, r) /\ ~ Has(toClient[c], op, r)
  BY <1>1 DEF AtServer, AtClient
<1>3. /\ Got(r) = 0 /\ Fed(r) = 0 /\ Relayed(r) = 0
      /\ \A c \in Clients : ~ Gracefully(toServer[c], r) /\ ~ Gracefully(toClient[c], r)
      /\ result[r] # Graceful
  BY <1>1 DEF CallInv, YieldOf, ParamOf
<1>4. Streamed(r) = 0
  <2>1. ~ ParamStreaming(r) => Streamed(r) = 0
    BY DEF CallInv, SourceOf
  <2> QED BY <2>1, ConstantsAssumption DEF Fresh, ParamStreaming
<1>5. kind[r] = None => r \notin remoteProcedures /\ result[r] = "none" /\ loop[r] = "none"
  BY DEF CallInv, SourceOf, YieldOf
<1> QED BY <1>1, <1>2, <1>3, <1>4, <1>5

(* A call begins: nothing of it is under way.                              *)
LEMMA StepCall ==
    ASSUME TypeInv, NEW r \in Calls, CallInv(r), NEW x \in Calls, NEW k \in Kinds[x], Call(x, k)
    PROVE  CallInv(r)'
<1> DEFINE p == Packet("Request", x, 0)
           streams == k \in {"client", "duplex"}
<1>1. /\ kind[x] = None /\ kind' = [kind EXCEPT ![x] = k]
      /\ remoteProcedures' = remoteProcedures \union {x}
      /\ streams => loop' = [loop EXCEPT ![x] = "HasNext"] /\ toServer' = toServer
      /\ ~ streams => loop' = loop /\ toServer' = Post(toServer, Caller[x], p)
      /\ connection' = connection /\ toClient' = toClient /\ serving' = serving
      /\ sessions' = sessions /\ pendingRPCs' = pendingRPCs
      /\ result' = result /\ received' = received /\ source' = source
      /\ procedure' = procedure /\ running' = running
  BY DEF Call, serverVars, providerVars
<1>2. /\ p \in Packets /\ p.op = "Request" /\ p.id = x /\ p.arg = 0
      /\ Caller[x] \in Clients /\ k \in CallKinds /\ k # None
      /\ kind \in [Calls -> CallKinds \union {None}]
      /\ toServer \in [Clients -> Seq(Packets)] /\ toClient \in [Clients -> Seq(Packets)]
      /\ loop \in [Calls -> {"none", "HasNext", "await", "test", "waiting", "ended", "aborted"}]
  BY PacketIn, Parties, ConstantsAssumption DEF Packet, CallKinds, TypeInv, Types
<1> HIDE DEF p, streams
<1>3. CASE r # x
  <2>1. \A ops \in {Params, Answers} :
           Moves(toServer, toServer', ops, r) /\ Moves(toClient, toClient', ops, r)
    BY <1>1, <1>2, <1>3 DEF Moves, ItemOf
  <2>2. SameCall(r) /\ SameSource(r)
    BY <1>1, <1>2, <1>3 DEF SameCall, SameSource
  <2> QED BY <1>1, <2>1, <2>2, QueuesElsewhere DEF SameServing, SameLinks, SameReceived, SameProcedure, SameStage, Relayed, Started, Executing
<1>4. CASE r = x
  <2>1. Fresh(r) /\ ~ ParamStreaming(r)
    BY <1>1, <1>4, ConstantsAssumption DEF Fresh, ParamStreaming
  <2>2. /\ \A c \in Clients : \A op \in Params \union Answers :
              ~ Has(toServer[c], op, r) /\ ~ Has(toClient[c], op, r)
        /\ ~ Serving("Request", r) /\ ~ Serving("Result", r)
        /\ ~ Started(r) /\ ~ Executing(r) /\ r \notin running
        /\ Got(r) = 0 /\ Fed(r) = 0 /\ Relayed(r) = 0 /\ Streamed(r) = 0
        /\ r \notin remoteProcedures /\ result[r] = "none" /\ loop[r] = "none"
        /\ \A c \in Clients : ~ Gracefully(toServer[c], r) /\ ~ Gracefully(toClient[c], r)
    BY <1>1, <1>4, <2>1, FreshFacts
  <2>3. /\ kind'[r] = k /\ r \in remoteProcedures' /\ (ParamStreaming(r)' <=> streams)
        /\ Streamed(r)' = 0 /\ (Fresh(r)' <=> streams) /\ FirstItem(r)' = IF streams THEN 1 ELSE 0
    <3>1. kind'[r] = k /\ r \in remoteProcedures' /\ (ParamStreaming(r)' <=> streams)
      BY <1>1, <1>2, <1>4 DEF ParamStreaming, streams
    <3>2. Streamed(r)' = 0
      BY <1>1, <2>2 DEF Streamed
    <3>3. Fresh(r)' <=> streams
      BY <1>2, <3>1, <3>2 DEF Fresh
    <3> QED BY <3>1, <3>2, <3>3 DEF FirstItem
  <2>4. /\ \A c \in Clients : \A op : Has(toServer'[c], op, r) <=>
              Has(toServer[c], op, r) \/ (~ streams /\ c = Caller[r] /\ connection[c] # "lost" /\ op = "Request")
        /\ \A op : AtClient(op, r)' <=> AtClient(op, r)
        /\ \A op : Serving(op, r)' <=> Serving(op, r)
    <3>1. CASE streams
      BY <1>1, <3>1 DEF AtClient, Serving
    <3>2. CASE ~ streams
      <4>1. PostedTo(toServer, toServer', Caller[r], p)
        BY <1>1, <1>2, <1>4, <3>2, IsPosted
      <4>2. toServer \in [Clients -> Seq(Packets)] /\ Caller[r] \in Clients /\ p \in Packets
        BY <1>2, <1>4
      <4>3. \A c \in Clients : \A op : Has(toServer'[c], op, r) <=>
               Has(toServer[c], op, r) \/ (c = Caller[r] /\ connection[Caller[r]] # "lost" /\ Is(p, op, r))
        BY ONLY <4>1, <4>2, HasPosted
      <4>4. \A op : Is(p, op, r) <=> op = "Request"
        BY <1>2, <1>4 DEF Is
      <4> QED BY <1>1, <3>2, <4>3, <4>4 DEF AtClient, Serving
    <3> QED BY <3>1, <3>2
  <2>5. /\ \A op \in Params \union Answers : ~ AtClient(op, r)'
        /\ ~ Serving("Request", r)' /\ ~ Serving("Result", r)'
        /\ \A op \in {"ClientStreaming", "Result", "ServerStreaming"} : ~ AtServer(op, r)'
        /\ AtServer("Request", r)' => ~ streams
        /\ Started(r)' = Started(r) /\ Executing(r)' = Executing(r)
    BY <1>1, <2>2, <2>4 DEF AtServer, AtClient, Params, Answers, Started, Executing
  <2>6. SourceOf(r)'
    <3>1. source[r].items = source'[r].items /\ Streamed(r)' = Streamed(r)
      BY <1>1, <2>2, <2>3
    <3>2. loop'[r] # "none" => streams
      BY <1>1, <1>2, <1>4, <2>2
    <3> QED BY <1>2, <2>1, <2>2, <2>3, <3>1, <3>2 DEF CallInv, SourceOf
  <2>7. WhereOf(r)'
    <3>1. \A c \in Clients : ~ (serving'[c] # None /\ Is(serving'[c], "Request", r))
      BY <2>5 DEF Serving
    <3>2. Provider(r)' = Provider(r)
      BY <1>1 DEF Provider
    <3> QED BY <1>1, <2>2, <2>4, <2>5, <3>1, <3>2 DEF CallInv, WhereOf, Params, Answers
  <2>8. StageOf(r)'
    BY <2>2, <2>3, <2>5 DEF StageOf, Params, Answers
  <2>9. ShapeOf(r)'
    <3>1. \A c \in Clients : AsksOnce(toServer[c], r) /\ AsksOnce(toClient[c], r)
                             /\ EndsIt(toServer[c], r) /\ EndsIt(toClient[c], r)
      BY DEF CallInv, ShapeOf, Shaped
    <3>2. \A c \in Clients : Numbered(toServer[c], r, FirstItem(r)') /\ Numbered(toClient[c], r, FirstItem(r)')
      BY <2>2, NumberedNone
    <3>3. \A c \in Clients : Shaped(toServer[c], r, FirstItem(r)') /\ Shaped(toClient[c], r, FirstItem(r)')
      BY <3>1, <3>2 DEF Shaped
    <3>4. CASE streams
      BY <1>1, <3>3, <3>4 DEF ShapeOf
    <3>5. CASE ~ streams
      <4>1. PostedTo(toServer, toServer', Caller[r], p)
        BY <1>1, <1>2, <1>4, <3>5, IsPosted
      <4>2. /\ p.arg = FirstItem(r)' /\ ~ Has(toServer[Caller[r]], "Request", r)
            /\ ~ Is(p, "ClientStreaming", r) /\ ~ Is(p, "Result", r) /\ ~ Is(p, "ServerStreaming", r)
        BY <1>2, <1>4, <2>2, <2>3, <3>5 DEF Is, Params
      <4>3. toServer \in [Clients -> Seq(Packets)] /\ Caller[r] \in Clients /\ p \in Packets
        BY <1>2, <1>4
      <4>4. \A c \in Clients : Shaped(toServer[c], r, FirstItem(r)')
        BY <3>3
      <4>5. \A c \in Clients : Shaped(toServer'[c], r, FirstItem(r)')
        BY ONLY <4>1, <4>2, <4>3, <4>4, ShapedPosted
      <4> QED BY <1>1, <3>3, <4>5 DEF ShapeOf
    <3> QED BY <3>4, <3>5
  <2>10. RouteOf(r)'
    BY <2>2, <2>5 DEF RouteOf, Params, Answers
  <2>11. YieldOf(r)'
    <3>1. \A c \in Clients : ~ Gracefully(toServer'[c], r) /\ ~ Gracefully(toClient'[c], r)
      <4>1. CASE streams
        BY <1>1, <2>2, <4>1
      <4>2. CASE ~ streams
        <5>1. PostedTo(toServer, toServer', Caller[r], p)
          BY <1>1, <1>2, <1>4, <4>2, IsPosted
        <5>2. ~ Is(p, "Result", r)
          BY <1>2 DEF Is
        <5>3. toServer \in [Clients -> Seq(Packets)] /\ Caller[r] \in Clients /\ p \in Packets
          BY <1>2, <1>4
        <5>4. \A c \in Clients : Gracefully(toServer'[c], r) => Gracefully(toServer[c], r)
          BY ONLY <5>1, <5>2, <5>3, GracePosted
        <5> QED BY <1>1, <2>2, <5>4
      <4> QED BY <4>1, <4>2
    <3>2. result'[r] = "none" /\ received'[r] = received[r] /\ Got(r)' = 0 /\ Relayed(r)' = 0
      BY <1>1, <2>2 DEF Got, Relayed
    <3> QED BY <2>2, <2>5, <3>1, <3>2 DEF YieldOf, Answers, Params, Graceful
  <2>12. ParamOf(r)'
    <3>1. Fed(r)' = 0
      BY <1>1, <2>2 DEF Fed
    <3>2. ~ (ParamStreaming(r)' /\ Active(r)')
      BY <1>1, <2>2, <2>3, <2>5 DEF Active, Params
    <3>3. \A c \in Clients : ~ (serving'[c] # None /\ Is(serving'[c], "Request", r))
      BY <2>5 DEF Serving
    <3>4. r \notin running'
      BY <1>1, <2>2
    <3> QED BY <3>1, <3>2, <3>3, <3>4 DEF ParamOf
  <2> QED BY <2>6, <2>7, <2>8, <2>9, <2>10, <2>11, <2>12 DEF CallInv
<1> QED BY <1>3, <1>4


(* An item leaves its source, with the request if it is the first.         *)
LEMMA StepStreamItem ==
    ASSUME TypeInv, NEW r \in Calls, CallInv(r), NEW x \in Calls, StreamItem(x)
    PROVE  CallInv(r)'
<1> DEFINE h == Head(source[x].items)
           p == Packet(IF h = 1 THEN "Request" ELSE "ClientStreaming", x, h)
<1>1. /\ loop[x] \in {"await", "waiting"} /\ source[x].items # <<>>
      /\ loop' = [loop EXCEPT ![x] = "HasNext"]
      /\ source' = [source EXCEPT ![x].items = Tail(@)]
      /\ toServer' = IF x \in remoteProcedures THEN Post(toServer, Caller[x], p) ELSE toServer
      /\ connection' = connection /\ toClient' = toClient /\ serving' = serving
      /\ sessions' = sessions /\ pendingRPCs' = pendingRPCs
      /\ remoteProcedures' = remoteProcedures /\ kind' = kind
      /\ result' = result /\ received' = received
      /\ procedure' = procedure /\ running' = running
  BY DEF StreamItem, SentIfRunning, IsFirst, serverVars, callVars, providerVars
<1>2. /\ source[x].items \in Seq(Nat) /\ h \in Nat /\ Caller[x] \in Clients
      /\ toServer \in [Clients -> Seq(Packets)] /\ toClient \in [Clients -> Seq(Packets)]
      /\ loop \in [Calls -> {"none", "HasNext", "await", "test", "waiting", "ended", "aborted"}]
      /\ source \in [Calls -> Sources]
  <2>1. source[x].items \in Seq(Nat) /\ source[x].items # <<>> /\ Caller[x] \in Clients
    BY <1>1, Parties
  <2>2. h \in Nat
    BY <2>1
  <2> QED BY <2>1, <2>2 DEF TypeInv, Types, Sources
<1>3. /\ p \in Packets /\ p.id = x /\ p.arg = h
      /\ p.op = IF h = 1 THEN "Request" ELSE "ClientStreaming"
  BY <1>2, PacketIn DEF Packet
<1> HIDE DEF p, h
<1>4. CASE r # x
  <2>1. \A ops \in {Params, Answers} :
           Moves(toServer, toServer', ops, r) /\ Moves(toClient, toClient', ops, r)
    BY <1>1, <1>2, <1>3, <1>4 DEF Moves, ItemOf
  <2>2. SameSource(r)
    BY <1>1, <1>2, <1>4 DEF SameSource
  <2> QED BY <1>1, <2>1, <2>2, QueuesElsewhere
          DEF SameServing, SameLinks, SameCall, SameReceived, SameProcedure, SameStage, Relayed, Started, Executing
<1>5. CASE r = x
  <2>1. /\ SameServing(r) /\ SameLinks(r) /\ SameCall(r) /\ SameReceived(r) /\ SameProcedure(r)
        /\ ParamStreaming(r) /\ kind[r] # None /\ (ParamStreaming(r)' <=> ParamStreaming(r))
        /\ Provider(r)' = Provider(r) /\ (Started(r)' <=> Started(r)) /\ (Executing(r)' <=> Executing(r))
        /\ Got(r)' = Got(r) /\ Fed(r)' = Fed(r) /\ FirstItem(r)' = 1 /\ FirstItem(r) = 1
        /\ \A op : AtClient(op, r)' <=> AtClient(op, r)
        /\ \A op : Serving(op, r)' <=> Serving(op, r)
    BY <1>1, <1>5 DEF SameServing, SameLinks, SameCall, SameReceived, SameProcedure, SameStage, Relayed, Started, Executing,
          CallInv, SourceOf, ParamStreaming, Provider, Started, Executing, Got, Fed, FirstItem,
          AtClient, Serving
  <2>2. /\ h = Streamed(r) + 1 /\ Streamed(r)' = Streamed(r) + 1 /\ Streamed(r) \in Nat
        /\ \A i \in 1 .. Len(source'[r].items) : source'[r].items[i] = Streamed(r)' + i
    <3> DEFINE s == source[r].items
    <3>1. s \in Seq(Nat) /\ s # <<>> /\ Len(s) \in Nat \ {0} /\ source[r].next \in Nat
      BY <1>1, <1>2, <1>5, Parties
    <3>2. /\ h = s[1] /\ Len(Tail(s)) = Len(s) - 1
          /\ \A i \in 1 .. Len(Tail(s)) : i + 1 \in 1 .. Len(s) /\ Tail(s)[i] = s[i + 1]
      BY <1>5, <3>1 DEF h
    <3>3. source'[r].items = Tail(s) /\ source'[r].next = source[r].next
      BY <1>1, <1>2, <1>5 DEF Sources
    <3>4. Streamed(r) >= 0 /\ \A i \in 1 .. Len(s) : s[i] = Streamed(r) + i
      BY DEF CallInv, SourceOf
    <3>5. Streamed(r) = source[r].next - 1 - Len(s) /\ Streamed(r)' = source'[r].next - 1 - Len(source'[r].items)
      BY DEF Streamed
    <3> HIDE DEF s
    <3>6. Streamed(r)' = Streamed(r) + 1 /\ Streamed(r) \in Nat
      BY <3>1, <3>2, <3>3, <3>4, <3>5
    <3>7. h = Streamed(r) + 1
      BY <3>1, <3>2, <3>4
    <3>8. ASSUME NEW i \in 1 .. Len(source'[r].items) PROVE source'[r].items[i] = Streamed(r)' + i
      <4>1. i + 1 \in 1 .. Len(s) /\ source'[r].items[i] = s[i + 1]
        BY <3>2, <3>3
      <4> QED BY <3>4, <3>6, <4>1
    <3> QED BY <3>6, <3>7, <3>8
  <2>3. /\ ~ Fresh(r)' /\ (Fresh(r) <=> Streamed(r) = 0) /\ (h = 1 <=> Streamed(r) = 0)
        /\ Streamed(r)' >= 0
    BY <2>1, <2>2, <1>1 DEF Fresh
  <2>4. SourceOf(r)'
    <3>1. r \in Calls /\ loop'[r] = "HasNext" /\ kind'[r] = kind[r]
      BY <1>1, <1>2, <1>5
    <3> QED BY <2>1, <2>2, <2>3, <3>1 DEF SourceOf
  <2>5. CASE r \notin remoteProcedures
    <3>1. /\ ~ AtServer("Request", r) /\ ~ Serving("Request", r) /\ ~ AtClient("Request", r)
          /\ ~ Executing(r) /\ ~ Fresh(r) /\ r \notin running
      BY <2>1, <2>5 DEF CallInv, StageOf, ParamOf
    <3>2. \A ops \in {Params, Answers} :
             Moves(toServer, toServer', ops, r) /\ Moves(toClient, toClient', ops, r)
      BY <1>1, <1>5, <2>5 DEF Moves
    <3>3. SameParams(r) /\ SameAnswers(r)
      BY <3>2, MoveParams, MoveAnswers
    <3>4. WhereOf(r)' /\ StageOf(r)' /\ ShapeOf(r)' /\ RouteOf(r)' /\ YieldOf(r)'
      BY <1>1, <2>1, <2>3, <3>1, <3>3, FrameButParams DEF SameProcedure
    <3>5. AtServer("Request", r)' <=> AtServer("Request", r)
      BY <3>3, ParamsAt DEF Params
    <3>6. ~ Active(r)' /\ r \notin running'
      BY <1>1, <2>1, <3>1, <3>5 DEF Active
    <3>7. \A c \in Clients : ~ (serving'[c] # None /\ Is(serving'[c], "Request", r))
      BY <2>1, <3>1 DEF Serving
    <3>8. ParamOf(r)'
      BY <1>1, <2>1, <3>6, <3>7 DEF CallInv, ParamOf, Fed
    <3> QED BY <2>4, <3>4, <3>8 DEF CallInv
  <2>6. CASE r \in remoteProcedures
    <3> DEFINE w == Caller[r]
    <3>1. /\ toServer \in [Clients -> Seq(Packets)] /\ w \in Clients /\ p \in Packets
          /\ PostedTo(toServer, toServer', w, p)
      BY <1>1, <1>2, <1>3, <1>5, <2>6, IsPosted
    <3> HIDE DEF w
    <3>2. \A op : Is(p, op, r) <=> op = p.op
      BY <1>3, <1>5 DEF Is
    <3>3. \A c \in Clients : \A op : Has(toServer'[c], op, r) <=>
             Has(toServer[c], op, r) \/ (c = w /\ connection[w] # "lost" /\ op = p.op)
      <4>1. \A c \in Clients : \A op : Has(toServer'[c], op, r) <=>
               Has(toServer[c], op, r) \/ (c = w /\ connection[w] # "lost" /\ Is(p, op, r))
        BY ONLY <3>1, HasPosted
      <4> QED BY <3>2, <4>1
    <3>4. \A op : AtServer(op, r)' <=> AtServer(op, r) \/ (connection[w] # "lost" /\ op = p.op)
      BY <3>1, <3>3 DEF AtServer
    <3>5. SameAnswers(r)
      <4>1. \A c \in Clients : ~ ItemOf(p, Answers, r) => AlikeAnswers(toServer[c], Post(toServer, w, p)[c], r)
        BY <3>1, AlikePost
      <4>2. ~ ItemOf(p, Answers, r) /\ toServer' = Post(toServer, w, p)
        BY <1>1, <1>3, <1>5, <2>6 DEF ItemOf, Answers, w
      <4> QED BY <1>1, <4>1, <4>2, AlikeSame DEF SameAnswers
    <3>6. YieldOf(r)'
      BY <2>1, <3>5, YieldFrame DEF CallInv, WhereOf, SameProcedure, SameStage, Relayed, Started, Executing
    <3>7. WhereOf(r)'
      <4>1. \A c \in Clients : \A op \in Params :
               /\ Has(toServer'[c], op, r) => c = Caller[r]
               /\ Has(toClient'[c], op, r) => c = Provider(r)
        BY <1>1, <3>3 DEF CallInv, WhereOf, w
      <4>2. \A c \in Clients : \A op \in {"Result", "ServerStreaming"} :
               /\ Has(toServer'[c], op, r) => c = Provider(r)
               /\ Has(toClient'[c], op, r) => c = Caller[r]
        BY <1>1, <1>3, <3>3 DEF CallInv, WhereOf
      <4> QED BY <1>1, <2>1, <4>1, <4>2 DEF CallInv, WhereOf
    <3>8. ASSUME ShapeOf(r), Is(p, "Request", r) => ~ Has(toServer[w], "Request", r)
          PROVE  ShapeOf(r)'
      <4>1. /\ Is(p, "Request", r) => p.arg = 1 /\ ~ Has(toServer[w], "Request", r)
            /\ Is(p, "ClientStreaming", r) => p.arg # 1
            /\ ~ Is(p, "Result", r) /\ ~ Is(p, "ServerStreaming", r)
        BY <1>3, <3>2, <3>8
      <4>2. \A c \in Clients : Shaped(toServer[c], r, 1) /\ Shaped(toClient[c], r, 1)
        BY <2>1, <3>8 DEF ShapeOf
      <4>3. \A c \in Clients : Shaped(toServer'[c], r, 1)
        BY ONLY <3>1, <4>1, <4>2, ShapedPosted
      <4> QED BY <1>1, <2>1, <4>2, <4>3 DEF ShapeOf
    <3>9. CASE Streamed(r) = 0
      <4>1. Fresh(r) /\ p.op = "Request" /\ p.arg = 1
        BY <1>3, <2>2, <2>3, <3>9
      <4>2. /\ \A c \in Clients : \A op \in Params \union Answers :
                  ~ Has(toServer[c], op, r) /\ ~ Has(toClient[c], op, r)
            /\ \A op \in Params \union Answers : ~ AtServer(op, r) /\ ~ AtClient(op, r)
            /\ ~ Serving("Request", r) /\ ~ Serving("Result", r)
            /\ ~ Started(r) /\ ~ Executing(r) /\ r \notin running /\ Fed(r) = 0
        BY <4>1, FreshFacts
      <4>3. ShapeOf(r)'
        BY <3>1, <3>8, <4>2 DEF CallInv, Params
      <4>4. StageOf(r)'
        BY <1>1, <2>1, <2>3, <2>6, <3>4, <4>1, <4>2 DEF StageOf, Params, Answers
      <4>5. RouteOf(r)'
        BY <1>1, <2>1, <3>4, <4>1, <4>2 DEF RouteOf, Params, Answers
      <4>6. ParamOf(r)'
        <5>1. ASSUME Active(r)' PROVE \E m, k, b \in Nat : ParamsUnderWay(r, m, k, b)'
          <6>1. connection[w] # "lost"
            BY <1>1, <2>1, <3>4, <4>1, <4>2, <5>1 DEF Active, Params
          <6>2. Chain(toServer[w], Params, r, 0, 0) /\ ItemOf(p, Params, r) /\ p.arg = 0 + 1
            BY <1>3, <1>5, <3>1, <4>1, <4>2, ChainNone DEF ItemOf, Params
          <6>3. Chain(toServer'[w], Params, r, 0, 1)
            <7>1. Chain(toServer'[w], Params, r, 0, 0 + 1)
              BY <3>1, <6>1, <6>2, ChainPosted
            <7> QED BY <7>1
          <6>4. Provider(r) # None => Chain(toClient[Provider(r)], Params, r, 0, 0)
            BY <4>2, ChainNone, Parties
          <6>5. ParamsUnderWay(r, 0, 0, 1)'
            BY <1>1, <2>1, <2>2, <3>9, <4>2, <6>1, <6>3, <6>4 DEF ParamsUnderWay, w
          <6> QED BY <6>5
        <5>2. \A c \in Clients : ~ (serving'[c] # None /\ Is(serving'[c], "Request", r))
          BY <2>1, <4>2 DEF Serving
        <5>3. Fed(r)' = 0 /\ r \notin running'
          BY <1>1, <2>1, <4>2
        <5> QED BY <5>1, <5>2, <5>3 DEF ParamOf
      <4> QED BY <2>4, <3>6, <3>7, <4>3, <4>4, <4>5, <4>6 DEF CallInv
    <3>10. CASE Streamed(r) # 0
      <4>1. ~ Fresh(r) /\ p.op = "ClientStreaming" /\ p.arg = Streamed(r) + 1
        BY <1>3, <2>2, <2>3, <3>10
      <4>2. \A op : op # "ClientStreaming" => (AtServer(op, r)' <=> AtServer(op, r))
        BY <3>4, <4>1
      <4>3. ShapeOf(r)'
        BY <3>2, <3>8, <4>1 DEF CallInv
      <4>4. StageOf(r)'
        BY <1>1, <2>1, <2>3, <2>6, <4>1, <4>2 DEF CallInv, StageOf
      <4>5. RouteOf(r)'
        BY <1>1, <2>1, <2>3, <4>1, <4>2 DEF CallInv, RouteOf
      <4>6. ParamOf(r)'
        <5>1. Active(r)' <=> Active(r)
          BY <1>1, <2>1, <4>2 DEF Active
        <5>2. ASSUME Active(r), Provider(r) # None => connection[Provider(r)] # "lost"
              PROVE  \E m, k, b \in Nat : ParamsUnderWay(r, m, k, b)'
          <6>1. PICK m \in Nat, k \in Nat, b \in Nat : ParamsUnderWay(r, m, k, b)
            BY <2>1, <5>2 DEF CallInv, ParamOf
          <6>2. Chain(toServer[w], Params, r, k, b) /\ ItemOf(p, Params, r)
            BY <1>3, <1>5, <4>1, <6>1 DEF ParamsUnderWay, w, ItemOf, Params
          <6>3. CASE connection[w] = "lost"
            <7>1. Chain(toServer'[w], Params, r, k, b)
              BY <3>1, <6>2, <6>3, ChainPosted
            <7>2. ParamsUnderWay(r, m, k, b)'
              BY <1>1, <2>1, <2>2, <6>1, <6>3, <7>1 DEF ParamsUnderWay, w
            <7> QED BY <7>2
          <6>4. CASE connection[w] # "lost"
            <7>1. b = Streamed(r) /\ b + 1 \in Nat
              BY <6>1, <6>4 DEF ParamsUnderWay, w
            <7>2. Chain(toServer'[w], Params, r, k, b + 1)
              BY <3>1, <4>1, <6>2, <6>4, <7>1, ChainPosted
            <7>3. ParamsUnderWay(r, m, k, b + 1)'
              BY <1>1, <2>1, <2>2, <6>1, <7>1, <7>2 DEF ParamsUnderWay, w
            <7> QED BY <7>1, <7>3
          <6> QED BY <6>3, <6>4
        <5> QED BY <1>1, <2>1, <5>1, <5>2 DEF CallInv, ParamOf, Fed
      <4> QED BY <2>4, <3>6, <3>7, <4>3, <4>4, <4>5, <4>6 DEF CallInv
    <3> QED BY <3>9, <3>10
  <2> QED BY <2>5, <2>6
<1> QED BY <1>4, <1>5

-----------------------------------------------------------------------------
(* What a client handles *)

(* The packet that a client takes: its connection is not lost.             *)
LEMMA ClientTakes ==
    ASSUME TypeInv, LinkInv, NEW c \in Clients, NEW op \in Params \union Answers,
           Receives(c, op), toClient' = Taken(c)
    PROVE  LET p == Head(toClient[c]) IN
           /\ TakenFrom(toClient, toClient', c) /\ connection[c] # "lost"
           /\ p \in Packets /\ p.op = op /\ p.id \in Calls /\ Is(p, op, p.id)
           /\ Has(toClient[c], op, p.id) /\ AtClient(op, p.id)
           /\ \A r : r # p.id =>
                 \A ops \in {Params, Answers} : Moves(toClient, toClient', ops, r)
<1> DEFINE p == Head(toClient[c])
<1>1. /\ toClient[c] # <<>> /\ toClient' = [toClient EXCEPT ![c] = Tail(@)] /\ p.op = op
  BY DEF Receives, Taken
<1>2. p \in Packets /\ p.id \in Calls
  BY <1>1, HeadFacts, PacketFacts DEF Params, Answers
<1>3. Is(p, op, p.id) /\ toClient \in [Clients -> Seq(Packets)]
  BY <1>1, QueueTypes DEF Is
<1>4. Has(toClient[c], op, p.id)
  <2>1. toClient[c] \in Seq(Packets)
    BY <1>3
  <2> QED BY <1>1, <1>3, <2>1, HasTail
<1>5. AtClient(op, p.id)
  BY <1>4 DEF AtClient
<1>6. \A r : r # p.id => \A ops \in {Params, Answers} : Moves(toClient, toClient', ops, r)
  BY <1>1 DEF Moves, ItemOf
<1>7. TakenFrom(toClient, toClient', c)
  BY <1>1, <1>3, IsTaken
<1>8. connection[c] # "lost"
  BY <1>1 DEF LinkInv
<1> QED BY <1>1, <1>2, <1>3, <1>4, <1>5, <1>6, <1>7, <1>8

(* What is left of its call.                                               *)
LEMMA ClientLeaves ==
    ASSUME TypeInv, NEW c \in Clients, NEW p, p = Head(toClient[c]),
           TakenFrom(toClient, toClient', c), NEW r, p.id = r
    PROVE  /\ \A d \in Clients : \A op :
                 /\ Has(toClient'[d], op, r) => Has(toClient[d], op, r)
                 /\ Has(toClient[d], op, r) => Has(toClient'[d], op, r) \/ (d = c /\ op = p.op)
           /\ \A op : AtClient(op, r)' => AtClient(op, r)
           /\ \A op : op # p.op => (AtClient(op, r)' <=> AtClient(op, r))
           /\ p.op \notin Params => \A d \in Clients : AlikeParams(toClient[d], toClient'[d], r)
           /\ p.op \notin Answers => \A d \in Clients : AlikeAnswers(toClient[d], toClient'[d], r)
<1>1. toClient \in [Clients -> Seq(Packets)]
  BY QueueTypes
<1>2. \A d \in Clients : \A op :
         /\ Has(toClient'[d], op, r) => Has(toClient[d], op, r)
         /\ Has(toClient[d], op, r) => Has(toClient'[d], op, r) \/ (d = c /\ Is(p, op, r))
  <2>1. \A d \in Clients : \A op :
           /\ Has(toClient'[d], op, r) => Has(toClient[d], op, r)
           /\ Has(toClient[d], op, r) =>
                 Has(toClient'[d], op, r) \/ (d = c /\ Is(Head(toClient[c]), op, r))
    <3>1. TakenFrom(toClient, toClient', c) /\ c \in Clients
      OBVIOUS
    <3> QED BY ONLY <1>1, <3>1, HasTaken
  <2> QED BY <2>1
<1>3. \A op : Is(p, op, r) => op = p.op
  BY DEF Is
<1>4. /\ p.op \notin Params => AlikeParams(toClient[c], toClient'[c], r)
      /\ p.op \notin Answers => AlikeAnswers(toClient[c], toClient'[c], r)
  <2>1. toClient[c] \in Seq(Packets) /\ toClient[c] # <<>> /\ toClient'[c] = Tail(toClient[c])
    BY <1>1 DEF TakenFrom
  <2>2. /\ p.op \notin Params => ~ ItemOf(p, Params, r)
        /\ p.op \notin Answers => ~ ItemOf(p, Answers, r)
    BY DEF ItemOf
  <2> QED BY <2>1, <2>2, AlikeTail
<1>5. \A d \in Clients : d # c => /\ AlikeParams(toClient[d], toClient'[d], r)
                                  /\ AlikeAnswers(toClient[d], toClient'[d], r)
  BY AlikeSame DEF TakenFrom
<1> QED BY <1>2, <1>3, <1>4, <1>5 DEF AtClient

(* The procedure is given the item that comes next, unless it has          *)
(* returned.                                                               *)
LEMMA StepHandleClientStreaming ==
    ASSUME TypeInv, LinkInv, NEW r \in Calls, CallInv(r), NEW c \in Clients, HandleClientStreaming(c)
    PROVE  CallInv(r)'
<1> DEFINE p == Head(toClient[c])
<1>1. /\ TakenFrom(toClient, toClient', c) /\ connection[c] # "lost"
      /\ p \in Packets /\ p.op = "ClientStreaming" /\ p.id \in Calls /\ Is(p, "ClientStreaming", p.id)
      /\ Has(toClient[c], "ClientStreaming", p.id) /\ AtClient("ClientStreaming", p.id)
      /\ \A x : x # p.id => \A ops \in {Params, Answers} : Moves(toClient, toClient', ops, x)
  BY ClientTakes DEF HandleClientStreaming, Params
<1>2. /\ toServer' = toServer /\ connection' = connection /\ serving' = serving
      /\ sessions' = sessions /\ pendingRPCs' = pendingRPCs
      /\ remoteProcedures' = remoteProcedures /\ kind' = kind /\ running' = running
      /\ result' = result /\ received' = received /\ source' = source /\ loop' = loop
      /\ procedure' = IF p.id \in running
                      THEN [procedure EXCEPT ![p.id].input = Append(@, p.arg), ![p.id].relay = Woken(p.id)]
                      ELSE procedure
  BY DEF HandleClientStreaming, serverVars, callVars, streamVars
<1>3. /\ toServer \in [Clients -> Seq(Packets)] /\ toClient \in [Clients -> Seq(Packets)]
      /\ procedure \in [Calls -> Sides] /\ p.arg \in Nat
  BY <1>1, PacketFacts DEF TypeInv, Types, Sides
<1>4. /\ SameServing(r) /\ SameLinks(r) /\ SameCall(r) /\ SameSource(r) /\ SameReceived(r)
      /\ pendingRPCs'[r] = pendingRPCs[r] /\ (r \in running' <=> r \in running)
      /\ procedure'[r].host = procedure[r].host /\ SameStage(r)
      /\ Relayed(r)' = Relayed(r)
  <2>2. /\ procedure'[r].host = procedure[r].host /\ procedure'[r].state = procedure[r].state
        /\ procedure'[r].out = procedure[r].out /\ procedure'[r].yielded = procedure[r].yielded
    BY <1>2, <1>3 DEF Sides
  <2>1. /\ procedure'[r].host = procedure[r].host /\ SameStage(r)
        /\ Relayed(r)' = Relayed(r)
    BY <2>2 DEF SameStage, Started, Executing, Relayed
  <2> QED BY <1>2, <2>1 DEF SameServing, SameLinks, SameCall, SameSource, SameReceived
<1> HIDE DEF p
<1>5. CASE r # p.id
  <2>1. SameProcedure(r)
    <3>1. procedure'[r] = procedure[r]
      BY <1>2, <1>3, <1>5
    <3> QED BY <3>1 DEF SameProcedure, SameStage, Relayed, Started, Executing
  <2>2. \A ops \in {Params, Answers} : Moves(toServer, toServer', ops, r)
    BY <1>2 DEF Moves
  <2> QED BY <1>1, <1>4, <1>5, <2>1, <2>2, QueuesElsewhere
<1>6. CASE r = p.id
  <2>1. c = Provider(r) /\ ~ Fresh(r) /\ Provider(r) # None
    BY <1>1, <1>6, Parties DEF CallInv, WhereOf, StageOf, Params
  <2>2. /\ \A d \in Clients : \A op :
              /\ Has(toClient'[d], op, r) => Has(toClient[d], op, r)
              /\ Has(toClient[d], op, r) => Has(toClient'[d], op, r) \/ (d = c /\ op = p.op)
        /\ \A op : AtClient(op, r)' => AtClient(op, r)
        /\ \A op : op # p.op => (AtClient(op, r)' <=> AtClient(op, r))
        /\ \A d \in Clients : AlikeAnswers(toClient[d], toClient'[d], r)
    <3>1. p = Head(toClient[c]) /\ p.id = r /\ p.op \notin Answers
      BY <1>1, <1>6 DEF p, Answers
    <3> QED BY <1>1, <3>1, ClientLeaves
  <2>3. SourceOf(r)' /\ Streamed(r)' = Streamed(r) /\ (Fresh(r)' <=> Fresh(r))
    BY <1>4, SourceFrame DEF CallInv
  <2>4. /\ Provider(r)' = Provider(r) /\ (Started(r)' <=> Started(r)) /\ (Executing(r)' <=> Executing(r))
        /\ FirstItem(r)' = FirstItem(r) /\ (ParamStreaming(r)' <=> ParamStreaming(r))
        /\ \A op : AtServer(op, r)' <=> AtServer(op, r)
        /\ \A op : Serving(op, r)' <=> Serving(op, r)
    BY <1>2, <1>4 DEF Provider, SameStage, FirstItem, ParamStreaming, AtServer, Serving
  <2>5. WhereOf(r)'
    <3>1. \A d \in Clients : \A op \in Params :
             /\ Has(toServer'[d], op, r) => d = Caller[r]
             /\ Has(toClient'[d], op, r) => d = Provider(r)
      BY <1>2, <2>2 DEF CallInv, WhereOf
    <3>2. \A d \in Clients : \A op \in {"Result", "ServerStreaming"} :
             /\ Has(toServer'[d], op, r) => d = Provider(r)
             /\ Has(toClient'[d], op, r) => d = Caller[r]
      BY <1>2, <2>2 DEF CallInv, WhereOf
    <3> QED BY <1>2, <1>4, <2>4, <3>1, <3>2 DEF CallInv, WhereOf
  <2>6. StageOf(r)'
    BY <1>1, <1>2, <2>1, <2>2, <2>3, <2>4 DEF CallInv, StageOf
  <2>7. /\ \A d \in Clients : Shaped(toClient'[d], r, FirstItem(r))
        /\ p.arg # FirstItem(r)
    <3>1. Is(Head(toClient[c]), "ClientStreaming", r) /\ p = Head(toClient[c])
      BY <1>1, <1>6 DEF p
    <3> QED BY <1>1, <1>3, <3>1, ShapedTaken DEF CallInv, ShapeOf
  <2>8. ShapeOf(r)'
    BY <1>2, <2>4, <2>7 DEF CallInv, ShapeOf
  <2>9. RouteOf(r)'
    BY <1>1, <1>2, <2>1, <2>2, <2>3, <2>4 DEF CallInv, RouteOf
  <2>10. SameAnswers(r)
    BY <1>2, <2>2, AlikeSame DEF SameAnswers
  <2>11. YieldOf(r)'
    BY <1>4, <2>1, <2>10, YieldFrame DEF CallInv
  <2>12. ParamOf(r)'
    <3>1. Active(r)' <=> Active(r)
      BY <1>1, <1>2, <2>2, <2>4 DEF Active
    <3>2. \A d \in Clients : serving'[d] # None /\ Is(serving'[d], "Request", r) =>
             serving'[d].arg = FirstItem(r)'
      BY <1>2, <2>4 DEF CallInv, ParamOf
    <3>3. toClient \in [Clients -> Seq(Packets)] /\ ItemOf(p, Params, r) /\ p = Head(toClient[c])
      BY <1>1, <1>3, <1>6 DEF ItemOf, Params, p
    <3>4. CASE r \in running
      <4>1. ParamStreaming(r) /\ Active(r) /\ Executing(r) /\ Started(r)
        BY <3>4 DEF CallInv, ParamOf, Active, Executing, Started
      <4>2. PICK m \in Nat, k \in Nat, b \in Nat : ParamsUnderWay(r, m, k, b)
        BY <1>1, <2>1, <4>1 DEF CallInv, ParamOf
      <4>3. Chain(toClient[c], Params, r, Fed(r), m) /\ Fed(r) \in Nat
        BY <2>1, <3>4, <4>2, Parties DEF ParamsUnderWay
      <4>4. p.arg = Fed(r) + 1 /\ Chain(toClient'[c], Params, r, Fed(r) + 1, m)
        BY <1>1, <3>3, <4>3, ChainTaken
      <4>5. procedure'[r].input = Append(procedure[r].input, p.arg)
        BY <1>2, <1>3, <1>6, <3>4 DEF Sides
      <4>6. Fed(r)' = Fed(r) + 1 /\ \A i \in 1 .. Fed(r)' : procedure'[r].input[i] = i
        <5>1. procedure[r].input \in Seq(Nat) /\ \A i \in 1 .. Fed(r) : procedure[r].input[i] = i
          BY Parties DEF CallInv, ParamOf
        <5>2. Fed(r) = Len(procedure[r].input) /\ Fed(r)' = Len(procedure'[r].input)
          BY DEF Fed
        <5> QED BY <1>3, <4>4, <4>5, <5>1, <5>2
      <4>7. ParamsUnderWay(r, m, k, b)'
        BY <1>2, <2>1, <2>3, <2>4, <3>4, <4>2, <4>4, <4>6 DEF ParamsUnderWay
      <4> QED BY <1>2, <2>4, <3>2, <4>1, <4>6, <4>7 DEF ParamOf
    <3>5. CASE r \notin running
      <4>1. procedure' = procedure /\ Fed(r)' = Fed(r) /\ r \notin running'
        BY <1>2, <1>6, <3>5 DEF Fed
      <4>2. ASSUME ParamStreaming(r), Active(r) PROVE FALSE
        <5>1. PICK m \in Nat, k \in Nat, b \in Nat : ParamsUnderWay(r, m, k, b)
          BY <1>1, <2>1, <4>2 DEF CallInv, ParamOf
        <5>2. Chain(toClient[c], Params, r, 0, m)
          BY <2>1, <3>5, <5>1 DEF ParamsUnderWay
        <5>3. p.arg = 0 + 1
          BY <1>1, <3>3, <5>2, ChainTaken
        <5> QED BY <2>7, <4>2, <5>3 DEF FirstItem
      <4> QED BY <2>4, <3>1, <3>2, <4>1, <4>2 DEF CallInv, ParamOf
    <3> QED BY <3>4, <3>5
  <2> QED BY <2>3, <2>5, <2>6, <2>8, <2>9, <2>11, <2>12 DEF CallInv
<1> QED BY <1>5, <1>6

(* The caller is given the item that comes next.                           *)
LEMMA StepHandleServerStreaming ==
    ASSUME TypeInv, LinkInv, NEW r \in Calls, CallInv(r), NEW c \in Clients, HandleServerStreaming(c)
    PROVE  CallInv(r)'
<1> DEFINE p == Head(toClient[c])
<1>1. /\ TakenFrom(toClient, toClient', c) /\ connection[c] # "lost"
      /\ p \in Packets /\ p.op = "ServerStreaming" /\ p.id \in Calls /\ Is(p, "ServerStreaming", p.id)
      /\ Has(toClient[c], "ServerStreaming", p.id) /\ AtClient("ServerStreaming", p.id)
      /\ \A x : x # p.id => \A ops \in {Params, Answers} : Moves(toClient, toClient', ops, x)
  BY ClientTakes DEF HandleServerStreaming, Answers
<1>2. /\ toServer' = toServer /\ connection' = connection /\ serving' = serving
      /\ sessions' = sessions /\ pendingRPCs' = pendingRPCs
      /\ remoteProcedures' = remoteProcedures /\ kind' = kind /\ running' = running
      /\ result' = result /\ source' = source /\ loop' = loop /\ procedure' = procedure
      /\ received' = IF p.id \in remoteProcedures
                     THEN [received EXCEPT ![p.id] = Append(@, p.arg)] ELSE received
  BY DEF HandleServerStreaming, serverVars, streamVars, providerVars
<1>3. /\ toServer \in [Clients -> Seq(Packets)] /\ toClient \in [Clients -> Seq(Packets)]
      /\ received \in [Calls -> Seq(Nat)] /\ p.arg \in Nat
  BY <1>1, PacketFacts DEF TypeInv, Types
<1>4. /\ SameServing(r) /\ SameLinks(r) /\ SameCall(r) /\ SameSource(r) /\ SameProcedure(r)
      /\ pendingRPCs'[r] = pendingRPCs[r] /\ (r \in running' <=> r \in running)
  BY <1>2 DEF SameServing, SameLinks, SameCall, SameSource, SameProcedure, SameStage, Relayed, Started, Executing
<1> HIDE DEF p
<1>5. CASE r # p.id
  <2>1. SameReceived(r)
    BY <1>2, <1>3, <1>5 DEF SameReceived
  <2>2. \A ops \in {Params, Answers} : Moves(toServer, toServer', ops, r)
    BY <1>2 DEF Moves
  <2> QED BY <1>1, <1>4, <1>5, <2>1, <2>2, QueuesElsewhere
<1>6. CASE r = p.id
  <2>1. c = Caller[r] /\ Started(r) /\ r \in remoteProcedures /\ Provider(r) # None
    BY <1>1, <1>6 DEF CallInv, WhereOf, YieldOf
  <2>2. /\ \A d \in Clients : \A op :
              /\ Has(toClient'[d], op, r) => Has(toClient[d], op, r)
              /\ Has(toClient[d], op, r) => Has(toClient'[d], op, r) \/ (d = c /\ op = p.op)
        /\ \A op : AtClient(op, r)' => AtClient(op, r)
        /\ \A op : op # p.op => (AtClient(op, r)' <=> AtClient(op, r))
        /\ \A d \in Clients : AlikeParams(toClient[d], toClient'[d], r)
    <3>1. p = Head(toClient[c]) /\ p.id = r /\ p.op \notin Params
      BY <1>1, <1>6 DEF p, Params
    <3> QED BY <1>1, <3>1, ClientLeaves
  <2>3. SourceOf(r)' /\ Streamed(r)' = Streamed(r) /\ (Fresh(r)' <=> Fresh(r))
    BY <1>4, SourceFrame DEF CallInv
  <2>4. /\ Provider(r)' = Provider(r) /\ (Started(r)' <=> Started(r)) /\ (Executing(r)' <=> Executing(r))
        /\ FirstItem(r)' = FirstItem(r) /\ (ParamStreaming(r)' <=> ParamStreaming(r))
        /\ \A op : AtServer(op, r)' <=> AtServer(op, r)
        /\ \A op : Serving(op, r)' <=> Serving(op, r)
    BY <1>2, <1>4 DEF Provider, Started, Executing, FirstItem, ParamStreaming, AtServer, Serving
  <2>5. WhereOf(r)'
    <3>1. \A d \in Clients : \A op \in Params :
             /\ Has(toServer'[d], op, r) => d = Caller[r]
             /\ Has(toClient'[d], op, r) => d = Provider(r)
      BY <1>2, <2>2 DEF CallInv, WhereOf
    <3>2. \A d \in Clients : \A op \in {"Result", "ServerStreaming"} :
             /\ Has(toServer'[d], op, r) => d = Provider(r)
             /\ Has(toClient'[d], op, r) => d = Caller[r]
      BY <1>2, <2>2 DEF CallInv, WhereOf
    <3> QED BY <1>2, <1>4, <2>4, <3>1, <3>2 DEF CallInv, WhereOf
  <2>6. StageOf(r)'
    BY <1>1, <1>2, <2>2, <2>3, <2>4 DEF CallInv, StageOf
  <2>7. ShapeOf(r)'
    <3>1. \A d \in Clients : Shaped(toClient'[d], r, FirstItem(r))
      BY <1>1, <1>3, ShapedTaken DEF CallInv, ShapeOf
    <3> QED BY <1>2, <2>4, <3>1 DEF CallInv, ShapeOf
  <2>8. RouteOf(r)'
    BY <1>1, <1>2, <2>2, <2>3, <2>4 DEF CallInv, RouteOf
  <2>9. YieldOf(r)'
    <3>1. PICK m \in Nat, b \in Nat : YieldsUnderWay(r, m, b)
      BY <1>1, <2>1 DEF CallInv, YieldOf
    <3>2. /\ Chain(toClient[c], Yields, r, Got(r), m) /\ Got(r) \in Nat /\ ItemOf(p, Yields, r)
          /\ p = Head(toClient[c])
      BY <1>1, <1>6, <2>1, <3>1, Parties DEF YieldsUnderWay, ItemOf, Yields, p
    <3>3. p.arg = Got(r) + 1 /\ Got(r) + 1 <= m /\ Chain(toClient'[c], Yields, r, Got(r) + 1, m)
      <4>1. ItemOf(Head(toClient[c]), Yields, r) /\ TakenFrom(toClient, toClient', c)
        BY <1>1, <3>2
      <4>2. toClient \in [Clients -> Seq(Packets)] /\ c \in Clients /\ Got(r) \in Nat /\ m \in Nat
        BY <1>3, <3>2
      <4>3. Chain(toClient[c], Yields, r, Got(r), m)
        BY <3>2
      <4>4. /\ Head(toClient[c]).arg = Got(r) + 1 /\ Got(r) + 1 <= m
            /\ Chain(toClient'[c], Yields, r, Got(r) + 1, m)
        BY ONLY <4>1, <4>2, <4>3, ChainTaken
      <4> QED BY <3>2, <4>4
    <3>4. received'[r] = Append(received[r], p.arg) /\ received[r] \in Seq(Nat)
      BY <1>2, <1>3, <1>6, <2>1
    <3>5. Got(r)' = Got(r) + 1 /\ \A i \in 1 .. Got(r)' : received'[r][i] = i
      <4>1. Got(r) = Len(received[r]) /\ Got(r)' = Len(received'[r]) /\ \A i \in 1 .. Got(r) : received[r][i] = i
        BY DEF CallInv, YieldOf, Got
      <4> QED BY <1>3, <3>3, <3>4, <4>1
    <3>9. Relayed(r)' = Relayed(r)
      BY <1>2 DEF Relayed
    <3>6. YieldsUnderWay(r, m, b)'
      BY <1>1, <1>2, <2>1, <2>2, <2>4, <3>1, <3>3, <3>5, <3>9 DEF YieldsUnderWay
    <3>7. \A d \in Clients : Gracefully(toServer'[d], r) \/ Gracefully(toClient'[d], r) => Started(r)
      BY <2>1
    <3>8. result'[r] = "none"
      BY <1>2, <2>1 DEF CallInv, YieldOf
    <3> QED BY <1>1, <1>2, <2>1, <2>2, <2>4, <3>5, <3>6, <3>7, <3>8, <3>9 DEF CallInv, YieldOf, Graceful
  <2>10. ParamOf(r)'
    <3>1. SameParams(r)
      BY <1>2, <2>2, AlikeSame DEF SameParams
    <3> QED BY <1>2, <1>4, <2>3, <2>4, <3>1, ParamFrame DEF CallInv, SameProcedure, SameStage, Relayed, Started, Executing
  <2> QED BY <2>3, <2>5, <2>6, <2>7, <2>8, <2>9, <2>10 DEF CallInv
<1> QED BY <1>5, <1>6

(* The result ends the call: what was yielded has been received if it      *)
(* closes gracefully.                                                      *)
LEMMA StepHandleResult ==
    ASSUME TypeInv, LinkInv, NEW r \in Calls, CallInv(r), NEW c \in Clients, HandleResult(c)
    PROVE  CallInv(r)'
<1> DEFINE p == Head(toClient[c])
<1>1. /\ TakenFrom(toClient, toClient', c) /\ connection[c] # "lost"
      /\ p \in Packets /\ p.op = "Result" /\ p.id \in Calls /\ Is(p, "Result", p.id)
      /\ Has(toClient[c], "Result", p.id) /\ AtClient("Result", p.id)
      /\ \A x : x # p.id => \A ops \in {Params, Answers} : Moves(toClient, toClient', ops, x)
  BY ClientTakes DEF HandleResult, Answers
<1>2. /\ toServer' = toServer /\ connection' = connection /\ serving' = serving
      /\ sessions' = sessions /\ pendingRPCs' = pendingRPCs
      /\ remoteProcedures' = remoteProcedures \ {p.id} /\ kind' = kind /\ running' = running
      /\ received' = received /\ loop' = loop /\ procedure' = procedure
      /\ result' = IF p.id \in remoteProcedures
                   THEN [result EXCEPT ![p.id] = p.arg] ELSE result
      /\ source' = IF kind[p.id] = "client" THEN [source EXCEPT ![p.id].open = FALSE] ELSE source
  BY DEF HandleResult, serverVars, providerVars
<1>3. /\ toServer \in [Clients -> Seq(Packets)] /\ toClient \in [Clients -> Seq(Packets)]
      /\ source \in [Calls -> Sources] /\ result \in [Calls -> CallCodes \union {"none"}]
      /\ p.arg \in CallCodes
  BY <1>1, PacketFacts DEF TypeInv, Types, Sources
<1>4. /\ SameServing(r) /\ SameLinks(r) /\ SameSource(r) /\ SameProcedure(r)
      /\ pendingRPCs'[r] = pendingRPCs[r] /\ (r \in running' <=> r \in running)
  <2>1. source'[r].items = source[r].items /\ source'[r].next = source[r].next
    BY <1>2, <1>3 DEF Sources
  <2> QED BY <1>2, <2>1 DEF SameServing, SameLinks, SameSource, SameProcedure, SameStage, Relayed, Started, Executing
<1> HIDE DEF p
<1>5. CASE r # p.id
  <2>1. SameReceived(r) /\ SameCall(r)
    BY <1>2, <1>3, <1>5 DEF SameReceived, SameCall
  <2>2. \A ops \in {Params, Answers} : Moves(toServer, toServer', ops, r)
    BY <1>2 DEF Moves
  <2> QED BY <1>1, <1>4, <1>5, <2>1, <2>2, QueuesElsewhere
<1>6. CASE r = p.id
  <2>1. /\ c = Caller[r] /\ r \in remoteProcedures /\ ~ Fresh(r) /\ kind[r] # None
        /\ ~ AtServer("Request", r) /\ ~ Serving("Request", r) /\ ~ AtClient("Request", r)
        /\ ~ Executing(r) /\ ~ AtServer("Result", r) /\ ~ AtServer("ServerStreaming", r)
        /\ r \notin running
    BY <1>1, <1>6 DEF CallInv, WhereOf, StageOf, YieldOf, ParamOf, Fresh
  <2>2. /\ \A d \in Clients : \A op :
              /\ Has(toClient'[d], op, r) => Has(toClient[d], op, r)
              /\ Has(toClient[d], op, r) => Has(toClient'[d], op, r) \/ (d = c /\ op = p.op)
        /\ \A op : AtClient(op, r)' => AtClient(op, r)
        /\ \A op : op # p.op => (AtClient(op, r)' <=> AtClient(op, r))
        /\ \A d \in Clients : AlikeParams(toClient[d], toClient'[d], r)
    <3>1. p = Head(toClient[c]) /\ p.id = r /\ p.op \notin Params
      BY <1>1, <1>6 DEF p, Params
    <3> QED BY <1>1, <3>1, ClientLeaves
  <2>3. /\ \A d \in Clients : Shaped(toClient'[d], r, FirstItem(r))
        /\ ~ Has(toClient'[c], "Result", r) /\ ~ Has(toClient'[c], "ServerStreaming", r)
    <3>1. Is(Head(toClient[c]), "Result", r)
      BY <1>1, <1>6 DEF p
    <3> QED BY <1>1, <1>3, <3>1, ShapedTaken DEF CallInv, ShapeOf
  <2>4. ~ AtClient("Result", r)' /\ ~ AtClient("ServerStreaming", r)'
    BY <2>1, <2>2, <2>3 DEF AtClient, CallInv, WhereOf
  <2>5. /\ Provider(r)' = Provider(r) /\ (Started(r)' <=> Started(r)) /\ (Executing(r)' <=> Executing(r))
        /\ FirstItem(r)' = FirstItem(r) /\ (ParamStreaming(r)' <=> ParamStreaming(r))
        /\ Streamed(r)' = Streamed(r) /\ (Fresh(r)' <=> Fresh(r)) /\ Got(r)' = Got(r) /\ Fed(r)' = Fed(r)
        /\ \A op : AtServer(op, r)' <=> AtServer(op, r)
        /\ \A op : Serving(op, r)' <=> Serving(op, r)
    <3>1. Streamed(r)' = Streamed(r) /\ (ParamStreaming(r)' <=> ParamStreaming(r))
      BY <1>2, <1>4 DEF SameSource, Streamed, ParamStreaming
    <3>2. Fresh(r)' <=> Fresh(r)
      BY <1>2, <3>1 DEF Fresh
    <3> QED BY <1>2, <1>4, <3>1, <3>2 DEF Provider, Started, Executing, FirstItem, AtServer, Serving, Got, Fed
  <2>6. r \notin remoteProcedures' /\ result'[r] = p.arg /\ p.arg # "none" /\ kind'[r] # None
    BY <1>2, <1>3, <1>6, <2>1 DEF CallCodes
  <2>7. SourceOf(r)'
    BY <1>2, <1>4, <2>5, <2>6 DEF CallInv, SourceOf, SameSource
  <2>8. WhereOf(r)'
    <3>1. \A d \in Clients : \A op \in Params :
             /\ Has(toServer'[d], op, r) => d = Caller[r]
             /\ Has(toClient'[d], op, r) => d = Provider(r)
      BY <1>2, <2>2 DEF CallInv, WhereOf
    <3>2. \A d \in Clients : \A op \in {"Result", "ServerStreaming"} :
             /\ Has(toServer'[d], op, r) => d = Provider(r)
             /\ Has(toClient'[d], op, r) => d = Caller[r]
      BY <1>2, <2>2 DEF CallInv, WhereOf
    <3> QED BY <1>2, <1>4, <2>5, <3>1, <3>2 DEF CallInv, WhereOf
  <2>9. StageOf(r)'
    BY <2>1, <2>2, <2>4, <2>5, <2>6 DEF StageOf
  <2>10. ShapeOf(r)'
    BY <1>2, <2>3, <2>5 DEF CallInv, ShapeOf
  <2>11. RouteOf(r)'
    BY <2>1, <2>2, <2>5 DEF RouteOf
  <2>12. p.arg = Graceful => Got(r) = Relayed(r) /\ Started(r)
    <3> SUFFICES ASSUME p.arg = Graceful PROVE Got(r) = Relayed(r) /\ Started(r)
      OBVIOUS
    <3>1. Started(r)
      <4>1. Gracefully(toClient[c], r)
        <5>1. Is(Head(toClient[c]), "Result", r) /\ Head(toClient[c]).arg = Graceful
          BY <1>1, <1>6 DEF p
        <5> QED BY <1>1, <1>3, <5>1, GraceTaken
      <4> QED BY <4>1 DEF CallInv, YieldOf
    <3>2. PICK m \in Nat, b \in Nat : YieldsUnderWay(r, m, b)
      BY <1>1, <2>1, <3>1 DEF CallInv, YieldOf
    <3>3. Got(r) \in Nat /\ Provider(r) \in Clients
      BY <3>1, Parties DEF CallInv, WhereOf
    <3>4. \A op \in Yields : ~ Has(toClient[c], op, r) /\ ~ Has(toServer[Provider(r)], op, r)
      BY <1>1, <2>1, <2>2, <2>3, <3>3 DEF Yields, AtServer
    <3>5. Got(r) = m
      BY <2>1, <3>2, <3>3, <3>4, ChainEmptyBounds DEF YieldsUnderWay
    <3>6. m = b
      BY <3>2, <3>4, ChainEmptyBounds DEF YieldsUnderWay
    <3>7. b = Relayed(r)
      BY <1>1, <1>6, <3>2 DEF YieldsUnderWay
    <3> QED BY <3>1, <3>5, <3>6, <3>7
  <2>13. YieldOf(r)'
    <3>1. \A d \in Clients : Gracefully(toServer'[d], r) \/ Gracefully(toClient'[d], r) => Started(r)
      <4>1. \A d \in Clients : Gracefully(toClient'[d], r) => Gracefully(toClient[d], r)
        BY <1>1, <1>3, GraceTaken
      <4> QED BY <1>2, <4>1 DEF CallInv, YieldOf
    <3>2. Relayed(r)' = Relayed(r)
      BY <1>2 DEF Relayed
    <3> QED BY <1>2, <2>1, <2>4, <2>5, <2>6, <2>12, <3>1, <3>2 DEF CallInv, YieldOf
  <2>14. ParamOf(r)'
    <3>1. ~ Active(r)'
      BY <1>2, <2>1, <2>2, <2>5 DEF Active
    <3>2. \A d \in Clients : ~ (serving'[d] # None /\ Is(serving'[d], "Request", r))
      BY <2>1, <2>5 DEF Serving
    <3> QED BY <1>2, <2>1, <2>5, <3>1, <3>2 DEF CallInv, ParamOf
  <2> QED BY <2>7, <2>8, <2>9, <2>10, <2>11, <2>13, <2>14 DEF CallInv
<1> QED BY <1>5, <1>6

(* A request starts its procedure, or is answered that there is none.      *)
LEMMA StepHandleRequest ==
    ASSUME TypeInv, LinkInv, NEW r \in Calls, CallInv(r), NEW c \in Clients, HandleRequest(c)
    PROVE  CallInv(r)'
<1> DEFINE p == Head(toClient[c])
           answer == Packet("Result", p.id, "RpcErrorInvalidRpcName")
           side == [host |-> c, state |-> "running", open |-> ParamStreaming(p.id),
                    input |-> IF ParamStreaming(p.id) THEN <<p.arg>> ELSE <<>>,
                    out |-> <<>>, yielded |-> 0,
                    relay |-> IF kind[p.id] = "duplex" THEN "look" ELSE "take"]
           known == kind[p.id] # "unknown"
<1>1. /\ TakenFrom(toClient, toClient', c) /\ connection[c] # "lost"
      /\ p \in Packets /\ p.op = "Request" /\ p.id \in Calls /\ Is(p, "Request", p.id)
      /\ Has(toClient[c], "Request", p.id) /\ AtClient("Request", p.id)
      /\ \A x : x # p.id => \A ops \in {Params, Answers} : Moves(toClient, toClient', ops, x)
  BY ClientTakes DEF HandleRequest, Params
<1>2. /\ connection' = connection /\ serving' = serving
      /\ sessions' = sessions /\ pendingRPCs' = pendingRPCs
      /\ remoteProcedures' = remoteProcedures /\ kind' = kind
      /\ result' = result /\ received' = received /\ source' = source /\ loop' = loop
      /\ ~ known => toServer' = Post(toServer, c, answer) /\ procedure' = procedure /\ running' = running
      /\ known => /\ toServer' = toServer /\ procedure' = [procedure EXCEPT ![p.id] = side]
                  /\ running' = IF ParamStreaming(p.id) THEN running \union {p.id} ELSE running
  BY DEF HandleRequest, FirstInput, serverVars, callVars, streamVars, providerVars
<1>3. /\ toServer \in [Clients -> Seq(Packets)] /\ toClient \in [Clients -> Seq(Packets)]
      /\ procedure \in [Calls -> Sides]
  BY DEF TypeInv, Types, Sides
<1>4. /\ answer \in Packets /\ answer.op = "Result" /\ answer.id = p.id
      /\ answer.arg # Graceful
  BY <1>1, PacketIn DEF CallCodes, Packet, Graceful
<1>5. /\ side.host = c /\ side.state = "running" /\ side.out = <<>> /\ side.yielded = 0
      /\ side.input = IF ParamStreaming(p.id) THEN <<p.arg>> ELSE <<>>
  OBVIOUS
<1>6. /\ SameServing(r) /\ SameLinks(r) /\ SameCall(r) /\ SameSource(r) /\ SameReceived(r)
      /\ pendingRPCs'[r] = pendingRPCs[r]
      /\ (ParamStreaming(r)' <=> ParamStreaming(r)) /\ FirstItem(r)' = FirstItem(r)
      /\ Provider(r)' = Provider(r) /\ Got(r)' = Got(r)
      /\ \A op : Serving(op, r)' <=> Serving(op, r)
  BY <1>2 DEF SameServing, SameLinks, SameCall, SameSource, SameReceived, ParamStreaming, FirstItem,
              Provider, Got, Serving
<1>7. p = Head(toClient[c])
  OBVIOUS
<1> HIDE DEF p, answer, side, known
<1>8. CASE r # p.id
  <2>1. \A ops \in {Params, Answers} : Moves(toServer, toServer', ops, r)
    BY <1>1, <1>2, <1>4, <1>8 DEF Moves, ItemOf
  <2>2. SameProcedure(r) /\ (r \in running' <=> r \in running)
    <3>1. procedure'[r] = procedure[r]
      BY <1>2, <1>3, <1>8
    <3> QED BY <1>2, <1>8, <3>1 DEF SameProcedure, SameStage, Relayed, Started, Executing
  <2> QED BY <1>1, <1>6, <1>8, <2>1, <2>2, QueuesElsewhere
<1>9. CASE r = p.id
  <2>1. /\ c = Provider(r) /\ Provider(r) # None /\ ~ Fresh(r) /\ r \in remoteProcedures
        /\ ~ AtServer("Request", r) /\ ~ Serving("Request", r)
        /\ ~ Started(r) /\ ~ Executing(r) /\ r \notin running
        /\ ~ AtServer("Result", r) /\ ~ AtClient("Result", r)
        /\ ~ AtServer("ServerStreaming", r) /\ ~ AtClient("ServerStreaming", r)
        /\ pendingRPCs[r] = Caller[r] /\ ~ Serving("Result", r)
        /\ Got(r) = 0 /\ Fed(r) = 0 /\ Relayed(r) = 0
    <3>1. AtClient("Request", r) /\ Has(toClient[c], "Request", r)
      BY <1>1, <1>9
    <3>2. c = Provider(r) /\ Provider(r) # None
      BY <3>1, Parties DEF CallInv, WhereOf, Params
    <3>3. /\ ~ Fresh(r) /\ r \in remoteProcedures
          /\ ~ AtServer("Request", r) /\ ~ Serving("Request", r)
          /\ ~ Started(r) /\ ~ AtServer("Result", r) /\ ~ AtClient("Result", r)
      BY <3>1 DEF CallInv, StageOf
    <3>4. ~ Executing(r)
      BY <3>3 DEF Executing, Started
    <3>5. r \notin running /\ Fed(r) = 0
      BY <3>3, <3>4 DEF CallInv, ParamOf
    <3>6. /\ ~ AtServer("ServerStreaming", r) /\ ~ AtClient("ServerStreaming", r)
          /\ Got(r) = 0 /\ Relayed(r) = 0
      BY <3>3 DEF CallInv, YieldOf
    <3>7. pendingRPCs[r] = Caller[r] /\ ~ Serving("Result", r)
      BY <3>1 DEF CallInv, RouteOf
    <3> QED BY <3>2, <3>3, <3>4, <3>5, <3>6, <3>7
  <2>2. /\ \A d \in Clients : \A op :
              /\ Has(toClient'[d], op, r) => Has(toClient[d], op, r)
              /\ Has(toClient[d], op, r) => Has(toClient'[d], op, r) \/ (d = c /\ op = p.op)
        /\ \A op : AtClient(op, r)' => AtClient(op, r)
        /\ \A d \in Clients : AlikeAnswers(toClient[d], toClient'[d], r)
    <3>1. p.id = r /\ p.op \notin Answers
      BY <1>1, <1>9 DEF Answers
    <3> QED BY <1>1, <1>7, <3>1, ClientLeaves
  <2>3. /\ \A d \in Clients : Shaped(toClient'[d], r, FirstItem(r))
        /\ p.arg = FirstItem(r) /\ ~ Has(toClient'[c], "Request", r)
    <3>1. Is(Head(toClient[c]), "Request", r)
      BY <1>1, <1>7, <1>9
    <3> QED BY <1>1, <1>3, <1>7, <3>1, ShapedTaken DEF CallInv, ShapeOf
  <2>4. ~ AtClient("Request", r)'
    BY <2>1, <2>2, <2>3 DEF AtClient, CallInv, WhereOf, Params
  <2>5. SourceOf(r)' /\ Streamed(r)' = Streamed(r) /\ (Fresh(r)' <=> Fresh(r))
    BY <1>6, SourceFrame DEF CallInv
  <2>6. \A d \in Clients : ~ (serving'[d] # None /\ Is(serving'[d], "Request", r))
    BY <1>6, <2>1 DEF Serving
  <2>7. CASE known
    <3>1. /\ toServer' = toServer /\ procedure'[r] = side
          /\ running' = IF ParamStreaming(r) THEN running \union {r} ELSE running
          /\ Started(r)' /\ Executing(r)'
          /\ \A op : AtServer(op, r)' <=> AtServer(op, r)
      BY <1>2, <1>3, <1>5, <1>9, <2>7 DEF Started, Executing, AtServer
    <3>2. WhereOf(r)'
      <4>1. \A d \in Clients : \A op \in Params :
               /\ Has(toServer'[d], op, r) => d = Caller[r]
               /\ Has(toClient'[d], op, r) => d = Provider(r)
        BY <2>2, <3>1 DEF CallInv, WhereOf
      <4>2. \A d \in Clients : \A op \in {"Result", "ServerStreaming"} :
               /\ Has(toServer'[d], op, r) => d = Provider(r)
               /\ Has(toClient'[d], op, r) => d = Caller[r]
        BY <2>2, <3>1 DEF CallInv, WhereOf
      <4>3. procedure'[r].host = c
        BY <1>5, <3>1
      <4> QED BY <1>6, <2>1, <2>6, <4>1, <4>2, <4>3 DEF CallInv, WhereOf
    <3>3. StageOf(r)'
      BY <1>2, <1>6, <2>1, <2>2, <2>4, <2>5, <3>1 DEF StageOf
    <3>4. ShapeOf(r)'
      BY <1>6, <2>3, <3>1 DEF CallInv, ShapeOf
    <3>5. RouteOf(r)'
      BY <1>6, <2>1 DEF RouteOf
    <3>6. YieldOf(r)'
      <4>1. Relayed(r)' = 0 /\ Got(r)' = 0 /\ result'[r] = "none"
        BY <1>2, <1>5, <1>6, <2>1, <3>1 DEF CallInv, YieldOf, Relayed
      <4>2. \E m, b \in Nat : YieldsUnderWay(r, m, b)'
        <5>1. /\ Caller[r] \in Clients /\ Provider(r) \in Clients
              /\ \A op \in Yields : /\ ~ Has(toClient'[Caller[r]], op, r)
                                    /\ ~ Has(toServer'[Provider(r)], op, r)
          BY <2>1, <2>2, <3>1, Parties DEF Yields, AtServer, AtClient
        <5>2. Chain(toClient'[Caller[r]], Yields, r, 0, 0) /\ Chain(toServer'[Provider(r)], Yields, r, 0, 0)
          BY <5>1, ChainNone
        <5>3. YieldsUnderWay(r, 0, 0)'
          BY <1>6, <4>1, <5>2 DEF YieldsUnderWay
        <5> QED BY <5>3
      <4> QED BY <1>2, <1>6, <2>1, <2>2, <3>1, <4>1, <4>2 DEF YieldOf, Graceful
    <3>7. ParamOf(r)'
      <4>1. CASE ParamStreaming(r)
        <5>1. p.arg = 1 /\ procedure'[r].input = <<1>> /\ Fed(r)' = 1 /\ r \in running'
          BY <1>5, <1>9, <2>3, <3>1, <4>1 DEF FirstItem, Fed
        <5>2. \A i \in 1 .. Fed(r)' : procedure'[r].input[i] = i
          BY <5>1
        <5>3. Active(r)
          BY <1>1, <1>9 DEF Active
        <5>4. PICK m \in Nat, k \in Nat, b \in Nat : ParamsUnderWay(r, m, k, b)
          BY <1>1, <2>1, <4>1, <5>3 DEF CallInv, ParamOf
        <5>5. Chain(toClient[c], Params, r, 0, m) /\ ItemOf(Head(toClient[c]), Params, r)
          BY <1>1, <1>7, <1>9, <2>1, <5>4 DEF ParamsUnderWay, ItemOf, Params
        <5>6. Chain(toClient'[c], Params, r, 0 + 1, m)
          BY <1>1, <1>3, <5>5, ChainTaken
        <5>7. ParamsUnderWay(r, m, k, b)'
          BY <1>2, <1>6, <2>1, <2>5, <3>1, <5>1, <5>4, <5>6 DEF ParamsUnderWay
        <5> QED BY <1>6, <2>6, <3>1, <4>1, <5>2, <5>7 DEF ParamOf
      <4>2. CASE ~ ParamStreaming(r)
        <5>1. procedure'[r].input = <<>> /\ Fed(r)' = 0 /\ r \notin running'
          BY <1>5, <1>9, <2>1, <3>1, <4>2 DEF Fed
        <5> QED BY <1>6, <2>6, <4>2, <5>1 DEF ParamOf
      <4> QED BY <4>1, <4>2
    <3> QED BY <2>5, <3>2, <3>3, <3>4, <3>5, <3>6, <3>7 DEF CallInv
  <2>8. CASE ~ known
    <3>1. /\ toServer' = Post(toServer, c, answer) /\ procedure' = procedure /\ running' = running
          /\ ~ ParamStreaming(r) /\ (Started(r)' <=> Started(r)) /\ (Executing(r)' <=> Executing(r))
          /\ Fed(r)' = Fed(r)
      BY <1>2, <1>9, <2>8 DEF known, ParamStreaming, Started, Executing, Fed
    <3>2. PostedTo(toServer, toServer', c, answer) /\ toServer \in [Clients -> Seq(Packets)]
          /\ c \in Clients /\ answer \in Packets
      BY <1>3, <1>4, <3>1, IsPosted
    <3>3. \A d \in Clients : \A op : Has(toServer'[d], op, r) <=>
             Has(toServer[d], op, r) \/ (d = c /\ connection[c] # "lost" /\ op = "Result")
      <4>1. \A d \in Clients : \A op : Has(toServer'[d], op, r) <=>
               Has(toServer[d], op, r) \/ (d = c /\ connection[c] # "lost" /\ Is(answer, op, r))
        BY ONLY <3>2, HasPosted
      <4>2. \A op : Is(answer, op, r) <=> op = "Result"
        BY <1>4, <1>9 DEF Is
      <4> QED BY <4>1, <4>2
    <3>4. \A op : op # "Result" => (AtServer(op, r)' <=> AtServer(op, r))
      BY <3>3 DEF AtServer
    <3>5. WhereOf(r)'
      <4>1. \A d \in Clients : \A op \in Params :
               /\ Has(toServer'[d], op, r) => d = Caller[r]
               /\ Has(toClient'[d], op, r) => d = Provider(r)
        BY <2>2, <3>3 DEF CallInv, WhereOf, Params
      <4>2. \A d \in Clients : \A op \in {"Result", "ServerStreaming"} :
               /\ Has(toServer'[d], op, r) => d = Provider(r)
               /\ Has(toClient'[d], op, r) => d = Caller[r]
        BY <2>1, <2>2, <3>3 DEF CallInv, WhereOf
      <4> QED BY <1>6, <2>1, <2>6, <3>1, <4>1, <4>2 DEF CallInv, WhereOf
    <3>6. StageOf(r)'
      BY <1>2, <1>6, <2>1, <2>2, <2>4, <2>5, <3>1, <3>4 DEF StageOf
    <3>7. ShapeOf(r)'
      <4>1. /\ ~ Is(answer, "Request", r) /\ ~ Is(answer, "ClientStreaming", r)
            /\ ~ Has(toServer[c], "Result", r)
        BY <1>4, <2>1 DEF Is, AtServer
      <4>2. \A d \in Clients : Shaped(toServer[d], r, FirstItem(r))
        BY DEF CallInv, ShapeOf
      <4>3. \A d \in Clients : Shaped(toServer'[d], r, FirstItem(r))
        BY ONLY <3>2, <4>1, <4>2, ShapedPosted
      <4> QED BY <1>6, <2>3, <4>3 DEF ShapeOf
    <3>8. RouteOf(r)'
      BY <1>6, <2>1 DEF RouteOf
    <3>9. YieldOf(r)'
      <4>1. \A d \in Clients : ~ Gracefully(toServer[d], r) /\ ~ Gracefully(toClient[d], r)
        BY <2>1 DEF CallInv, YieldOf
      <4>2. \A d \in Clients : Gracefully(toServer'[d], r) =>
               Gracefully(toServer[d], r) \/ (d = c /\ Is(answer, "Result", r) /\ answer.arg = Graceful)
        BY ONLY <3>2, GracePosted
      <4>3. \A d \in Clients : Gracefully(toClient'[d], r) => Gracefully(toClient[d], r)
        BY <2>2 DEF AlikeAnswers
      <4>4. Relayed(r)' = Relayed(r)
        BY <3>1 DEF Relayed
      <4> QED BY <1>2, <1>4, <1>6, <2>1, <2>2, <3>1, <3>4, <4>1, <4>2, <4>3, <4>4 DEF CallInv, YieldOf
    <3>10. ParamOf(r)'
      BY <1>6, <2>1, <2>6, <3>1 DEF CallInv, ParamOf
    <3> QED BY <2>5, <3>5, <3>6, <3>7, <3>8, <3>9, <3>10 DEF CallInv
  <2> QED BY <2>7, <2>8
<1> QED BY <1>8, <1>9

-----------------------------------------------------------------------------
(* The provider *)

(* A procedure yields an item or is over, and its relay looks, misses or   *)
(* waits: nothing is sent.                                                 *)
LEMMA QuietOutput ==
    ASSUME TypeInv, NEW r \in Calls, CallInv(r), NEW x \in Calls,
           Yield(x) \/ CloseOutput(x) \/ RelayLooks(x) \/ RelayMisses(x) \/ RelayWaits(x)
    PROVE  CallInv(r)'
<1>1. UNCHANGED <<netVars, serverVars, registers, callVars, streamVars, running>>
  BY DEF Yield, CloseOutput, RelayLooks, RelayMisses, RelayWaits
<1>2. \A ops \in {Params, Answers} :
         Moves(toServer, toServer', ops, r) /\ Moves(toClient, toClient', ops, r)
  BY <1>1 DEF netVars, Moves
<1>3. procedure \in [Calls -> Sides] /\ procedure[r] \in Sides
  BY DEF TypeInv, Types
<1>4. procedure'[r].host = procedure[r].host /\ procedure'[r].input = procedure[r].input /\ SameStage(r)
  <2>1. /\ procedure'[r].host = procedure[r].host /\ procedure'[r].input = procedure[r].input
        /\ \/ procedure'[r].state = procedure[r].state
           \/ procedure[r].state = "running" /\ procedure'[r].state \in {"closed", "threw"}
    <3>1. CASE CloseOutput(x)
      <4>1. PICK how \in {"closed", "threw"} : procedure' = [procedure EXCEPT ![x].state = how]
        BY <3>1 DEF CloseOutput
      <4> QED BY <1>3, <3>1, <4>1 DEF CloseOutput, Sides
    <3>2. CASE RelayLooks(x)
      <4>1. PICK next \in {"take", "deaf", "waiting"} : procedure' = [procedure EXCEPT ![x].relay = next]
        BY <3>2 DEF RelayLooks
      <4> QED BY <1>3, <4>1 DEF Sides
    <3>3. CASE Yield(x)
      BY <1>3, <3>3 DEF Yield, Sides
    <3>4. CASE RelayMisses(x)
      BY <1>3, <3>4 DEF RelayMisses, Sides
    <3>5. CASE RelayWaits(x)
      BY <1>3, <3>5 DEF RelayWaits, Sides
    <3> QED BY <3>1, <3>2, <3>3, <3>4, <3>5
  <2> QED BY <2>1 DEF SameStage, Started, Executing
<1>5. Relayed(r)' = Relayed(r)
  <2>1. CASE x = r /\ Yield(r)
    <3> DEFINE q == procedure[r].out
               n == procedure[r].yielded
    <3>1. q \in Seq(Nat) /\ n \in Nat /\ procedure'[r].out = Append(q, n + 1) /\ procedure'[r].yielded = n + 1
      BY <1>3, <2>1 DEF Yield, Sides
    <3>4. Relayed(r) = n - Len(q) /\ Relayed(r)' = procedure'[r].yielded - Len(procedure'[r].out)
      BY DEF Relayed
    <3> HIDE DEF q, n
    <3>2. Len(procedure'[r].out) = Len(q) + 1 /\ Len(q) \in Nat
      BY <3>1
    <3>3. n + 1 - (Len(q) + 1) = n - Len(q)
      BY <3>1, <3>2
    <3> QED BY <3>1, <3>2, <3>3, <3>4
  <2>2. CASE ~ (x = r /\ Yield(r))
    <3>1. procedure'[r].out = procedure[r].out /\ procedure'[r].yielded = procedure[r].yielded
      <4>1. CASE CloseOutput(x)
        <5>1. PICK how \in {"closed", "threw"} : procedure' = [procedure EXCEPT ![x].state = how]
          BY <4>1 DEF CloseOutput
        <5> QED BY <1>3, <5>1 DEF Sides
      <4>2. CASE RelayLooks(x)
        <5>1. PICK next \in {"take", "deaf", "waiting"} : procedure' = [procedure EXCEPT ![x].relay = next]
          BY <4>2 DEF RelayLooks
        <5> QED BY <1>3, <5>1 DEF Sides
      <4>3. CASE Yield(x) \/ RelayMisses(x) \/ RelayWaits(x)
        BY <1>3, <2>2, <4>3 DEF Yield, RelayMisses, RelayWaits, Sides
      <4> QED BY <4>1, <4>2, <4>3
    <3> QED BY <3>1 DEF Relayed
  <2> QED BY <2>1, <2>2
<1> QED BY <1>1, <1>2, <1>4, <1>5, QueuesElsewhere
        DEF serverVars, callVars, streamVars, netVars,
            SameServing, SameLinks, SameCall, SameSource, SameReceived, SameProcedure

(* The relay sends the next item.                                          *)
LEMMA StepRelayItem ==
    ASSUME TypeInv, NEW r \in Calls, CallInv(r), NEW x \in Calls, CallInv(x), RelayItem(x)
    PROVE  CallInv(r)'
<1> DEFINE n == Head(procedure[x].out)
           p == Packet("ServerStreaming", x, n)
           c == procedure[x].host
<1>1. /\ Executing(x) /\ procedure[x].out # <<>>
      /\ procedure' = [procedure EXCEPT ![x].out = Tail(@), ![x].relay = "take"]
      /\ toServer' = Post(toServer, c, p) /\ toClient' = toClient /\ connection' = connection
      /\ serving' = serving /\ sessions' = sessions /\ pendingRPCs' = pendingRPCs
      /\ remoteProcedures' = remoteProcedures /\ kind' = kind /\ running' = running
      /\ result' = result /\ received' = received /\ source' = source /\ loop' = loop
  BY DEF RelayItem, Relays, serverVars, callVars, streamVars
<1>2. /\ n \in Nat /\ procedure \in [Calls -> Sides] /\ n = Relayed(x) + 1
      /\ Len(Tail(procedure[x].out)) = Len(procedure[x].out) - 1
      /\ toServer \in [Clients -> Seq(Packets)] /\ toClient \in [Clients -> Seq(Packets)]
      /\ Executing(x) /\ Started(x)
  <2>1. /\ procedure[x].out \in Seq(Nat) /\ procedure[x].out # <<>> /\ Relayed(x) \in Nat
        /\ \A i \in 1 .. Len(procedure[x].out) : procedure[x].out[i] = Relayed(x) + i
    BY <1>1, Parties DEF TypeInv, OutInv, OutOf, Counts
  <2> DEFINE q == procedure[x].out
  <2>2. n = q[1] /\ 1 \in 1 .. Len(q) /\ Len(Tail(q)) = Len(q) - 1 /\ n \in Nat
    <3> HIDE DEF q
    <3>1. q \in Seq(Nat) /\ q # <<>>
      BY <2>1 DEF q
    <3>2. Head(q) = q[1] /\ 1 \in 1 .. Len(q) /\ Len(Tail(q)) = Len(q) - 1 /\ Head(q) \in Nat
      BY <3>1
    <3> QED BY <3>2 DEF q
  <2>3. n = Relayed(x) + 1
    BY <2>1, <2>2
  <2> QED BY <1>1, <2>2, <2>3 DEF TypeInv, Types, Executing, Started
<1>3. c = Provider(x) /\ c \in Clients /\ Provider(x) # None
  BY <1>2, Parties DEF CallInv, WhereOf
<1>4. p \in Packets /\ p.op = "ServerStreaming" /\ p.id = x /\ p.arg = n
  BY <1>2, PacketIn DEF Packet
<1>5. /\ SameServing(r) /\ SameLinks(r) /\ SameCall(r) /\ SameSource(r) /\ SameReceived(r)
      /\ pendingRPCs'[r] = pendingRPCs[r] /\ (r \in running' <=> r \in running)
  BY <1>1 DEF SameServing, SameLinks, SameCall, SameSource, SameReceived
<1> HIDE DEF c, p, n
<1>6. CASE r # x
  <2>1. \A ops \in {Params, Answers} :
           Moves(toServer, toServer', ops, r) /\ Moves(toClient, toClient', ops, r)
    BY <1>1, <1>3, <1>4, <1>6 DEF Moves, ItemOf
  <2>2. SameProcedure(r)
    <3>1. procedure'[r] = procedure[r]
      BY <1>1, <1>2, <1>6
    <3> QED BY <3>1 DEF SameProcedure, SameStage, Relayed, Started, Executing
  <2> QED BY <1>5, <2>1, <2>2, QueuesElsewhere
<1>7. CASE r = x
  <2>1. /\ ~ AtServer("Result", r) /\ ~ AtClient("Result", r) /\ r \in remoteProcedures
        /\ pendingRPCs[r] = Caller[r] /\ ~ Serving("Result", r)
    BY <1>2, <1>7 DEF CallInv, StageOf, RouteOf
  <2>2. /\ procedure'[r].host = procedure[r].host /\ SameStage(r)
        /\ procedure'[r].input = procedure[r].input /\ Relayed(r)' = n
    <3> DEFINE q == procedure[r].out
               y == procedure[r].yielded
    <3>1. /\ procedure'[r].host = procedure[r].host /\ procedure'[r].state = procedure[r].state
          /\ procedure'[r].input = procedure[r].input
          /\ procedure'[r].out = Tail(q) /\ procedure'[r].yielded = y
      BY <1>1, <1>2, <1>7 DEF Sides
    <3>2. SameStage(r)
      BY <3>1 DEF SameStage, Started, Executing
    <3>3. /\ Len(procedure'[r].out) = Len(q) - 1 /\ Relayed(r) = y - Len(q) /\ n = Relayed(r) + 1
          /\ Len(q) \in Nat /\ y \in Nat
      BY <1>2, <1>7, <3>1, Parties DEF Relayed
    <3> HIDE DEF q, y
    <3>4. y - (Len(q) - 1) = n
      BY <3>3
    <3> QED BY <3>1, <3>2, <3>3, <3>4 DEF Relayed
  <2>3. /\ Provider(r)' = Provider(r) /\ (Started(r)' <=> Started(r)) /\ (Executing(r)' <=> Executing(r))
        /\ FirstItem(r)' = FirstItem(r) /\ (ParamStreaming(r)' <=> ParamStreaming(r))
        /\ Got(r)' = Got(r)
        /\ \A op : AtClient(op, r)' <=> AtClient(op, r)
        /\ \A op : Serving(op, r)' <=> Serving(op, r)
    BY <1>1, <2>2 DEF Provider, SameStage, FirstItem, ParamStreaming, Got, AtClient, Serving
  <2>4. PostedTo(toServer, toServer', c, p) /\ toServer \in [Clients -> Seq(Packets)]
        /\ c \in Clients /\ p \in Packets
    BY <1>1, <1>2, <1>3, <1>4, IsPosted
  <2>5. \A d \in Clients : \A op : Has(toServer'[d], op, r) <=>
           Has(toServer[d], op, r) \/ (d = c /\ connection[c] # "lost" /\ op = "ServerStreaming")
    <3>1. \A d \in Clients : \A op : Has(toServer'[d], op, r) <=>
             Has(toServer[d], op, r) \/ (d = c /\ connection[c] # "lost" /\ Is(p, op, r))
      BY ONLY <2>4, HasPosted
    <3>2. \A op : Is(p, op, r) <=> op = "ServerStreaming"
      BY <1>4, <1>7 DEF Is
    <3> QED BY <3>1, <3>2
  <2>6. \A op : op # "ServerStreaming" => (AtServer(op, r)' <=> AtServer(op, r))
    BY <2>5 DEF AtServer
  <2>7. SourceOf(r)' /\ Streamed(r)' = Streamed(r) /\ (Fresh(r)' <=> Fresh(r))
    BY <1>5, SourceFrame DEF CallInv
  <2>8. WhereOf(r)'
    <3>1. \A d \in Clients : \A op \in Params :
             /\ Has(toServer'[d], op, r) => d = Caller[r]
             /\ Has(toClient'[d], op, r) => d = Provider(r)
      BY <1>1, <2>5 DEF CallInv, WhereOf, Params
    <3>2. \A d \in Clients : \A op \in {"Result", "ServerStreaming"} :
             /\ Has(toServer'[d], op, r) => d = Provider(r)
             /\ Has(toClient'[d], op, r) => d = Caller[r]
      BY <1>1, <1>3, <1>7, <2>5 DEF CallInv, WhereOf
    <3> QED BY <1>1, <2>2, <2>3, <3>1, <3>2 DEF CallInv, WhereOf
  <2>9. StageOf(r)'
    BY <1>1, <2>3, <2>6, <2>7 DEF CallInv, StageOf
  <2>10. ShapeOf(r)'
    <3>1. /\ ~ Is(p, "Request", r) /\ ~ Is(p, "ClientStreaming", r)
          /\ ~ Has(toServer[c], "Result", r)
      BY <1>3, <1>4, <2>1 DEF Is, AtServer
    <3>2. \A d \in Clients : Shaped(toServer[d], r, FirstItem(r))
      BY DEF CallInv, ShapeOf
    <3>3. \A d \in Clients : Shaped(toServer'[d], r, FirstItem(r))
      BY ONLY <2>4, <3>1, <3>2, ShapedPosted
    <3> QED BY <1>1, <2>3, <3>3 DEF CallInv, ShapeOf
  <2>11. RouteOf(r)'
    BY <1>1, <2>1, <2>3 DEF RouteOf
  <2>12. YieldOf(r)'
    <3>1. ASSUME connection[Caller[r]] # "lost" PROVE \E m, b \in Nat : YieldsUnderWay(r, m, b)'
      <4>1. PICK m \in Nat, b \in Nat : YieldsUnderWay(r, m, b)
        BY <1>2, <1>7, <2>1, <3>1 DEF CallInv, YieldOf
      <4>2. Chain(toServer[c], Yields, r, m, b) /\ ItemOf(p, Yields, r)
        BY <1>3, <1>4, <1>7, <4>1 DEF YieldsUnderWay, ItemOf, Yields
      <4>3. CASE connection[c] = "lost"
        <5>1. Chain(toServer'[c], Yields, r, m, b)
          BY <2>4, <4>2, <4>3, ChainPosted
        <5>2. b <= n
          BY <1>2, <1>7, <4>1, Parties DEF YieldsUnderWay
        <5>3. YieldsUnderWay(r, m, b)'
          BY <1>1, <1>3, <1>7, <2>1, <2>2, <2>3, <2>6, <4>1, <4>3, <5>1, <5>2 DEF YieldsUnderWay
        <5> QED BY <5>3
      <4>4. CASE connection[c] # "lost"
        <5>1. b + 1 = n
          BY <1>2, <1>3, <1>7, <4>1, <4>4 DEF YieldsUnderWay
        <5>2. Chain(toServer'[c], Yields, r, m, b + 1)
          BY <1>4, <2>4, <4>2, <4>4, <5>1, ChainPosted
        <5>3. YieldsUnderWay(r, m, b + 1)'
          BY <1>1, <1>2, <1>3, <1>7, <2>1, <2>2, <2>3, <2>6, <4>1, <4>4, <5>1, <5>2 DEF YieldsUnderWay
        <5>4. b + 1 \in Nat
          OBVIOUS
        <5> QED BY <5>3, <5>4
      <4> QED BY <4>3, <4>4
    <3>2. result'[r] = "none"
      BY <1>1, <2>1 DEF CallInv, YieldOf
    <3>3. \A i \in 1 .. Got(r)' : received'[r][i] = i
      BY <1>1, <2>3 DEF CallInv, YieldOf
    <3> QED BY <1>1, <1>2, <1>7, <2>1, <2>3, <3>1, <3>2, <3>3 DEF YieldOf, Graceful
  <2>13. ParamOf(r)'
    <3>1. SameParams(r)
      <4>1. \A d \in Clients : ~ ItemOf(p, Params, r) => AlikeParams(toServer[d], Post(toServer, c, p)[d], r)
        BY <2>4, AlikePost
      <4>2. ~ ItemOf(p, Params, r)
        BY <1>4 DEF ItemOf, Params
      <4> QED BY <1>1, <4>1, <4>2, AlikeSame DEF SameParams
    <3> QED BY <1>1, <1>5, <2>2, <2>3, <2>7, <3>1, ParamFrame DEF CallInv
  <2> QED BY <2>7, <2>8, <2>9, <2>10, <2>11, <2>12, <2>13 DEF CallInv
<1> QED BY <1>6, <1>7

(* A call ends: its result is behind all that was relayed.                 *)
LEMMA StepEnds ==
    ASSUME TypeInv, NEW r \in Calls, CallInv(r), NEW x \in Calls, CallInv(x), Executing(x),
           NEW code \in CallCodes, Ends(x, code)
    PROVE  CallInv(r)'
<1> DEFINE p == Packet("Result", x, code)
           c == procedure[x].host
<1>2. /\ procedure' = [procedure EXCEPT ![x].state = "done"]
      /\ running' = running \ {x}
      /\ toServer' = Post(toServer, c, p) /\ toClient' = toClient /\ connection' = connection
      /\ serving' = serving /\ sessions' = sessions /\ pendingRPCs' = pendingRPCs
      /\ remoteProcedures' = remoteProcedures /\ kind' = kind
      /\ result' = result /\ received' = received /\ source' = source /\ loop' = loop
  BY DEF Ends, serverVars, callVars, streamVars
<1>3. /\ procedure \in [Calls -> Sides] /\ Executing(x) /\ Started(x)
      /\ toServer \in [Clients -> Seq(Packets)] /\ toClient \in [Clients -> Seq(Packets)]
  BY <1>2 DEF TypeInv, Types, Sides, Executing, Started
<1>4. c = Provider(x) /\ c \in Clients /\ Provider(x) # None
  BY <1>3, Parties DEF CallInv, WhereOf
<1>5. p \in Packets /\ p.op = "Result" /\ p.id = x
  BY PacketIn DEF Packet
<1>6. SameServing(r) /\ SameLinks(r) /\ SameCall(r) /\ SameSource(r) /\ SameReceived(r)
      /\ pendingRPCs'[r] = pendingRPCs[r]
  BY <1>2 DEF SameServing, SameLinks, SameCall, SameSource, SameReceived
<1> HIDE DEF c, p
<1>7. CASE r # x
  <2>1. \A ops \in {Params, Answers} :
           Moves(toServer, toServer', ops, r) /\ Moves(toClient, toClient', ops, r)
    BY <1>2, <1>4, <1>5, <1>7 DEF Moves, ItemOf
  <2>2. SameProcedure(r) /\ (r \in running' <=> r \in running)
    <3>1. procedure'[r] = procedure[r]
      BY <1>2, <1>3, <1>7
    <3> QED BY <1>2, <1>7, <3>1 DEF SameProcedure, SameStage, Relayed, Started, Executing
  <2> QED BY <1>6, <2>1, <2>2, QueuesElsewhere
<1>8. CASE r = x
  <2>1. /\ ~ AtServer("Result", r) /\ ~ AtClient("Result", r) /\ r \in remoteProcedures
        /\ pendingRPCs[r] = Caller[r] /\ ~ Serving("Result", r) /\ ~ Fresh(r)
        /\ ~ AtServer("Request", r) /\ ~ Serving("Request", r) /\ ~ AtClient("Request", r)
    BY <1>3, <1>8 DEF CallInv, StageOf, RouteOf
  <2>2. /\ procedure'[r].host = procedure[r].host /\ procedure'[r].state = "done"
        /\ procedure'[r].input = procedure[r].input /\ Relayed(r)' = Relayed(r)
    <3>1. /\ procedure'[r].host = procedure[r].host /\ procedure'[r].state = "done"
          /\ procedure'[r].input = procedure[r].input
          /\ procedure'[r].out = procedure[r].out /\ procedure'[r].yielded = procedure[r].yielded
      BY <1>2, <1>3, <1>8 DEF Sides
    <3> QED BY <3>1 DEF Relayed
  <2>3. /\ Provider(r)' = Provider(r) /\ Started(r)' /\ ~ Executing(r)' /\ r \notin running'
        /\ FirstItem(r)' = FirstItem(r) /\ (ParamStreaming(r)' <=> ParamStreaming(r))
        /\ Got(r)' = Got(r) /\ Fed(r)' = Fed(r)
        /\ \A op : AtClient(op, r)' <=> AtClient(op, r)
        /\ \A op : Serving(op, r)' <=> Serving(op, r)
    BY <1>2, <1>8, <2>2 DEF Provider, Started, Executing, FirstItem, ParamStreaming, Got, Fed, AtClient, Serving
  <2>4. PostedTo(toServer, toServer', c, p) /\ toServer \in [Clients -> Seq(Packets)]
        /\ c \in Clients /\ p \in Packets
    BY <1>2, <1>3, <1>4, <1>5, IsPosted
  <2>5. \A d \in Clients : \A op : Has(toServer'[d], op, r) <=>
           Has(toServer[d], op, r) \/ (d = c /\ connection[c] # "lost" /\ op = "Result")
    <3>1. \A d \in Clients : \A op : Has(toServer'[d], op, r) <=>
             Has(toServer[d], op, r) \/ (d = c /\ connection[c] # "lost" /\ Is(p, op, r))
      BY ONLY <2>4, HasPosted
    <3>2. \A op : Is(p, op, r) <=> op = "Result"
      BY <1>5, <1>8 DEF Is
    <3> QED BY <3>1, <3>2
  <2>6. /\ \A op : op # "Result" => (AtServer(op, r)' <=> AtServer(op, r))
        /\ AtServer("Result", r)' => connection[c] # "lost"
    BY <2>1, <2>5 DEF AtServer
  <2>7. SourceOf(r)' /\ Streamed(r)' = Streamed(r) /\ (Fresh(r)' <=> Fresh(r))
    BY <1>6, SourceFrame DEF CallInv
  <2>8. WhereOf(r)'
    <3>1. \A d \in Clients : \A op \in Params :
             /\ Has(toServer'[d], op, r) => d = Caller[r]
             /\ Has(toClient'[d], op, r) => d = Provider(r)
      BY <1>2, <2>5 DEF CallInv, WhereOf, Params
    <3>2. \A d \in Clients : \A op \in {"Result", "ServerStreaming"} :
             /\ Has(toServer'[d], op, r) => d = Provider(r)
             /\ Has(toClient'[d], op, r) => d = Caller[r]
      BY <1>2, <1>4, <1>8, <2>5 DEF CallInv, WhereOf
    <3>3. procedure'[r].host = Provider(r) /\ Provider(r) # None
      BY <1>4, <1>8, <2>2 DEF c
    <3> QED BY <1>2, <2>3, <3>1, <3>2, <3>3 DEF CallInv, WhereOf
  <2>9. StageOf(r)'
    BY <1>2, <2>1, <2>3, <2>6, <2>7 DEF StageOf
  <2>10. ShapeOf(r)'
    <3>1. /\ ~ Is(p, "Request", r) /\ ~ Is(p, "ClientStreaming", r)
          /\ ~ Has(toServer[c], "Result", r)
      BY <1>4, <1>5, <2>1 DEF Is, AtServer
    <3>2. \A d \in Clients : Shaped(toServer[d], r, FirstItem(r))
      BY DEF CallInv, ShapeOf
    <3>3. \A d \in Clients : Shaped(toServer'[d], r, FirstItem(r))
      BY ONLY <2>4, <3>1, <3>2, ShapedPosted
    <3> QED BY <1>2, <2>3, <3>3 DEF CallInv, ShapeOf
  <2>11. RouteOf(r)'
    BY <1>2, <2>1, <2>3 DEF RouteOf
  <2>12. YieldOf(r)'
    <3>1. ASSUME connection[Caller[r]] # "lost" PROVE \E m, b \in Nat : YieldsUnderWay(r, m, b)'
      <4>1. PICK m \in Nat, b \in Nat : YieldsUnderWay(r, m, b)
        BY <1>3, <1>8, <2>1, <3>1 DEF CallInv, YieldOf
      <4>2. Chain(toServer[c], Yields, r, m, b) /\ ~ ItemOf(p, Yields, r)
        BY <1>4, <1>5, <1>8, <4>1 DEF YieldsUnderWay, ItemOf, Yields
      <4>3. Chain(toServer'[c], Yields, r, m, b)
        BY <2>4, <4>2, ChainPosted
      <4>4. YieldsUnderWay(r, m, b)'
        BY <1>2, <1>4, <1>8, <2>1, <2>2, <2>3, <2>6, <4>1, <4>3 DEF YieldsUnderWay
      <4> QED BY <4>4
    <3>2. result'[r] = "none"
      BY <1>2, <2>1 DEF CallInv, YieldOf
    <3>3. \A i \in 1 .. Got(r)' : received'[r][i] = i
      BY <1>2, <2>3 DEF CallInv, YieldOf
    <3> QED BY <1>2, <2>1, <2>3, <3>1, <3>2, <3>3 DEF YieldOf, Graceful
  <2>13. ParamOf(r)'
    <3>1. ~ Active(r)'
      BY <2>1, <2>3, <2>6 DEF Active
    <3>2. \A d \in Clients : ~ (serving'[d] # None /\ Is(serving'[d], "Request", r))
      BY <2>1, <2>3 DEF Serving
    <3> QED BY <2>2, <2>3, <3>1, <3>2 DEF CallInv, ParamOf
  <2> QED BY <2>7, <2>8, <2>9, <2>10, <2>11, <2>12, <2>13 DEF CallInv
<1> QED BY <1>7, <1>8

-----------------------------------------------------------------------------
(* A connection breaks *)

(* What has not arrived is a part of what was sent, and keeps its order.   *)
LEMMA LoseFacts ==
    ASSUME TypeInv, NEW c \in Clients, Lose(c)
    PROVE  /\ connection' = [connection EXCEPT ![c] = "lost"] /\ connection'[c] = "lost"
           /\ \A d \in Clients : d # c => /\ connection'[d] = connection[d]
                                          /\ toServer'[d] = toServer[d] /\ toClient'[d] = toClient[d]
           /\ toClient'[c] = <<>>
           /\ \E n \in 0 .. Len(toServer[c]) : toServer'[c] = SubSeq(toServer[c], 1, n)
           /\ serving' = serving /\ sessions' = sessions /\ pendingRPCs' = pendingRPCs
           /\ remoteProcedures' = remoteProcedures /\ kind' = kind /\ running' = running
           /\ result' = result /\ received' = received /\ source' = source /\ loop' = loop
           /\ procedure' = procedure
<1>1. PICK n \in 0 .. Len(toServer[c]) : toServer' = [toServer EXCEPT ![c] = SubSeq(@, 1, n)]
  BY DEF Lose
<1>2. toServer \in [Clients -> Seq(Packets)] /\ toClient \in [Clients -> Seq(Packets)]
      /\ connection \in [Clients -> {"opening", "up", "ready", "lost"}]
  BY DEF TypeInv, Types, TypeOK
<1> QED BY <1>1, <1>2 DEF Lose, serverVars, callVars, streamVars, providerVars

(* What is left of a queue keeps its shape.                                *)
LEMMA ShapedCut ==
    ASSUME NEW q \in Seq(Packets), NEW n \in 0 .. Len(q), NEW r, NEW first, Shaped(q, r, first)
    PROVE  Shaped(SubSeq(q, 1, n), r, first) /\ Shaped(<<>>, r, first)
<1> DEFINE s == SubSeq(q, 1, n)
<1>1. Len(s) = n /\ \A i \in 1 .. n : i \in 1 .. Len(q) /\ s[i] = q[i]
  BY CutFacts
<1>2. AsksOnce(s, r) /\ EndsIt(s, r)
  BY Cut DEF Shaped
<1> HIDE DEF s
<1>3. Numbered(s, r, first)
  BY <1>1 DEF Shaped, Numbered
<1>4. Numbered(<<>>, r, first)
  BY EmptyFacts, NumberedNone
<1> QED BY <1>2, <1>3, <1>4, EmptyFacts DEF Shaped, s

(* What was on its way to the provider or to the caller is cut behind an   *)
(* item.                                                                   *)
LEMMA StepLose ==
    ASSUME TypeInv, NEW r \in Calls, CallInv(r), NEW c \in Clients, Lose(c)
    PROVE  CallInv(r)'
<1>1. /\ connection'[c] = "lost"
      /\ \A d \in Clients : d # c => /\ connection'[d] = connection[d]
                                     /\ toServer'[d] = toServer[d] /\ toClient'[d] = toClient[d]
      /\ toClient'[c] = <<>>
      /\ serving' = serving /\ sessions' = sessions /\ pendingRPCs' = pendingRPCs
      /\ remoteProcedures' = remoteProcedures /\ kind' = kind /\ running' = running
      /\ result' = result /\ received' = received /\ source' = source /\ loop' = loop
      /\ procedure' = procedure
  BY LoseFacts
<1>2. PICK n \in 0 .. Len(toServer[c]) : toServer'[c] = SubSeq(toServer[c], 1, n)
  BY LoseFacts
<1>3. toServer[c] \in Seq(Packets) /\ toClient[c] \in Seq(Packets)
  BY QueueTypes
<1>4. \A d \in Clients : \A op :
         /\ Has(toServer'[d], op, r) => Has(toServer[d], op, r)
         /\ Has(toClient'[d], op, r) => Has(toClient[d], op, r)
  <2>1. \A op : Has(toServer'[c], op, r) => Has(toServer[c], op, r)
    BY <1>2, <1>3, Cut
  <2>2. \A op : ~ Has(toClient'[c], op, r)
    BY <1>1, EmptyFacts
  <2> QED BY <1>1, <2>1, <2>2
<1>5. /\ \A op : AtServer(op, r)' => AtServer(op, r)
      /\ \A op : AtClient(op, r)' => AtClient(op, r)
      /\ \A op : Serving(op, r)' <=> Serving(op, r)
  BY <1>1, <1>4 DEF AtServer, AtClient, Serving
<1>6. /\ Provider(r)' = Provider(r) /\ (Started(r)' <=> Started(r)) /\ (Executing(r)' <=> Executing(r))
      /\ FirstItem(r)' = FirstItem(r) /\ (ParamStreaming(r)' <=> ParamStreaming(r))
      /\ Got(r)' = Got(r) /\ Fed(r)' = Fed(r) /\ Streamed(r)' = Streamed(r)
      /\ (Fresh(r)' <=> Fresh(r)) /\ Relayed(r)' = Relayed(r)
  <2>1. Streamed(r)' = Streamed(r) /\ (ParamStreaming(r)' <=> ParamStreaming(r))
    BY <1>1 DEF Streamed, ParamStreaming
  <2>2. Fresh(r)' <=> Fresh(r)
    BY <1>1, <2>1 DEF Fresh
  <2> QED BY <1>1, <2>1, <2>2 DEF Provider, Started, Executing, FirstItem, Got, Fed, Relayed
<1>7. SourceOf(r)'
  BY <1>1, <1>6 DEF CallInv, SourceOf
<1>8. WhereOf(r)'
  <2>1. \A d \in Clients : \A op \in Params :
           /\ Has(toServer'[d], op, r) => d = Caller[r]
           /\ Has(toClient'[d], op, r) => d = Provider(r)
    BY <1>4 DEF CallInv, WhereOf
  <2>2. \A d \in Clients : \A op \in {"Result", "ServerStreaming"} :
           /\ Has(toServer'[d], op, r) => d = Provider(r)
           /\ Has(toClient'[d], op, r) => d = Caller[r]
    BY <1>4 DEF CallInv, WhereOf
  <2> QED BY <1>1, <1>6, <2>1, <2>2 DEF CallInv, WhereOf
<1>9. StageOf(r)'
  BY <1>1, <1>5, <1>6 DEF CallInv, StageOf
<1>10. ShapeOf(r)'
  <2>1. \A d \in Clients : Shaped(toServer[d], r, FirstItem(r)) /\ Shaped(toClient[d], r, FirstItem(r))
    BY DEF CallInv, ShapeOf
  <2>2. Shaped(toServer'[c], r, FirstItem(r)) /\ Shaped(toClient'[c], r, FirstItem(r))
    BY <1>1, <1>2, <1>3, <2>1, ShapedCut
  <2> QED BY <1>1, <1>6, <2>1, <2>2 DEF ShapeOf
<1>11. RouteOf(r)'
  BY <1>1, <1>5, <1>6 DEF CallInv, RouteOf
<1>12. YieldOf(r)'
  <2>1. \A d \in Clients : Gracefully(toServer'[d], r) \/ Gracefully(toClient'[d], r) => Started(r)
    <3>1. Gracefully(toServer'[c], r) => Gracefully(toServer[c], r)
      BY <1>2, <1>3, Cut
    <3>2. ~ Gracefully(toClient'[c], r)
      BY <1>1, EmptyFacts
    <3> QED BY <1>1, <3>1, <3>2 DEF CallInv, YieldOf
  <2>2. ASSUME Started(r), r \in remoteProcedures, connection'[Caller[r]] # "lost"
        PROVE  \E m, b \in Nat : YieldsUnderWay(r, m, b)'
    <3>1. /\ Caller[r] \in Clients /\ Provider(r) \in Clients /\ Caller[r] # c /\ Got(r) \in Nat
          /\ connection[Caller[r]] # "lost"
      BY <1>1, <2>2, Parties DEF CallInv, WhereOf
    <3>2. PICK m \in Nat, b \in Nat : YieldsUnderWay(r, m, b)
      BY <2>2, <3>1 DEF CallInv, YieldOf
    <3>3. Chain(toClient'[Caller[r]], Yields, r, Got(r), m)
      BY <1>1, <3>1, <3>2 DEF YieldsUnderWay
    <3>4. CASE Provider(r) # c
      <4>1. Chain(toServer'[Provider(r)], Yields, r, m, b)
        BY <1>1, <3>1, <3>2, <3>4 DEF YieldsUnderWay
      <4>2. YieldsUnderWay(r, m, b)'
        BY <1>1, <1>5, <1>6, <3>1, <3>2, <3>3, <3>4, <4>1 DEF YieldsUnderWay
      <4> QED BY <4>2
    <3>5. CASE Provider(r) = c
      <4>1. Chain(toServer[c], Yields, r, m, b)
        BY <3>2, <3>5 DEF YieldsUnderWay
      <4>2. CASE AtServer("Result", r)'
        <5>1. Has(SubSeq(toServer[c], 1, n), "Result", r)
          BY <1>2, <1>8, <1>6, <3>5, <4>2 DEF AtServer, WhereOf
        <5>2. EndsIt(toServer[c], r)
          BY DEF CallInv, ShapeOf, Shaped
        <5>3. Chain(toServer'[c], Yields, r, m, b)
          BY <1>2, <1>3, <4>1, <5>1, <5>2, CutBehindResult
        <5>4. b = Relayed(r)
          BY <1>5, <3>2, <4>2 DEF YieldsUnderWay
        <5>5. YieldsUnderWay(r, m, b)'
          BY <1>1, <1>6, <3>2, <3>3, <3>5, <5>3, <5>4 DEF YieldsUnderWay
        <5> QED BY <5>5
      <4>3. CASE AtClient("Result", r)'
        <5>1. AtClient("Result", r) /\ ~ AtServer("ServerStreaming", r)
          BY <1>5, <4>3 DEF CallInv, YieldOf
        <5>2. \A op \in Yields : ~ Has(toServer[c], op, r) /\ ~ Has(toServer'[c], op, r)
          BY <1>4, <5>1 DEF Yields, AtServer
        <5>3. m = b
          BY <4>1, <5>2, ChainEmptyBounds
        <5>4. Chain(toServer'[c], Yields, r, m, b)
          BY <5>2, <5>3, ChainNone
        <5>5. b = Relayed(r)
          BY <3>2, <5>1 DEF YieldsUnderWay
        <5>6. YieldsUnderWay(r, m, b)'
          BY <1>1, <1>6, <3>2, <3>3, <3>5, <5>4, <5>5 DEF YieldsUnderWay
        <5> QED BY <5>6
      <4>4. CASE ~ AtServer("Result", r)' /\ ~ AtClient("Result", r)'
        <5>1. PICK y \in Nat : y <= b /\ Chain(toServer'[c], Yields, r, m, y)
          BY <1>2, <1>3, <4>1, CutChain
        <5>2. b <= Relayed(r) /\ Relayed(r) \in Nat
          BY <3>2, Parties DEF YieldsUnderWay
        <5>3. y <= Relayed(r)
          BY <5>1, <5>2
        <5>4. YieldsUnderWay(r, m, y)'
          BY <1>1, <1>6, <3>3, <3>5, <4>4, <5>1, <5>3 DEF YieldsUnderWay
        <5> QED BY <5>4
      <4> QED BY <4>2, <4>3, <4>4
    <3> QED BY <3>4, <3>5
  <2>3. \A i \in 1 .. Got(r)' : received'[r][i] = i
    BY <1>1, <1>6 DEF CallInv, YieldOf
  <2>4. AtServer("ServerStreaming", r)' =>
           Started(r)' /\ ~ AtClient("Result", r)' /\ r \in remoteProcedures'
    BY <1>1, <1>5, <1>6 DEF CallInv, YieldOf
  <2>5. AtClient("ServerStreaming", r)' => Started(r)' /\ r \in remoteProcedures'
    BY <1>1, <1>5, <1>6 DEF CallInv, YieldOf
  <2> QED BY <1>1, <1>6, <2>1, <2>2, <2>3, <2>4, <2>5 DEF CallInv, YieldOf
<1>13. ParamOf(r)'
  <2>1. Active(r)' => Active(r)
    BY <1>1, <1>5 DEF Active
  <2>2. ASSUME ParamStreaming(r), Active(r), Provider(r) # None => connection'[Provider(r)] # "lost"
        PROVE  \E m, k, b \in Nat : ParamsUnderWay(r, m, k, b)'
    <3>1. /\ Caller[r] \in Clients /\ Provider(r) \in Clients \union {None} /\ Streamed(r) \in Int
          /\ Provider(r) # None => Provider(r) # c /\ connection[Provider(r)] # "lost"
      BY <1>1, <2>2, Parties
    <3>2. PICK m \in Nat, k \in Nat, b \in Nat : ParamsUnderWay(r, m, k, b)
      BY <2>2, <3>1 DEF CallInv, ParamOf
    <3>3. IF Provider(r) = None THEN m = 0
          ELSE Chain(toClient'[Provider(r)], Params, r, IF r \in running THEN Fed(r) ELSE 0, m)
      BY <1>1, <3>1, <3>2 DEF ParamsUnderWay
    <3>4. CASE Caller[r] # c
      <4>1. toServer'[Caller[r]] = toServer[Caller[r]] /\ connection'[Caller[r]] = connection[Caller[r]]
        BY <1>1, <3>1, <3>4
      <4>2. ParamsUnderWay(r, m, k, b)'
        BY <1>1, <1>5, <1>6, <3>2, <3>3, <4>1 DEF ParamsUnderWay
      <4> QED BY <4>2
    <3>5. CASE Caller[r] = c
      <4>1. Chain(toServer[c], Params, r, k, b) /\ b <= Streamed(r)
        BY <3>2, <3>5 DEF ParamsUnderWay
      <4>2. PICK y \in Nat : y <= b /\ Chain(toServer'[c], Params, r, k, y)
        BY <1>2, <1>3, <4>1, CutChain
      <4>3. y <= Streamed(r)
        BY <3>1, <4>1, <4>2
      <4>4. ParamsUnderWay(r, m, k, y)'
        BY <1>1, <1>5, <1>6, <3>2, <3>3, <3>5, <4>2, <4>3 DEF ParamsUnderWay
      <4> QED BY <4>4
    <3> QED BY <3>4, <3>5
  <2>3. \A d \in Clients : serving'[d] # None /\ Is(serving'[d], "Request", r) =>
           serving'[d].arg = FirstItem(r)'
    BY <1>1, <1>6 DEF CallInv, ParamOf
  <2> QED BY <1>1, <1>6, <2>1, <2>2, <2>3 DEF CallInv, ParamOf
<1> QED BY <1>7, <1>8, <1>9, <1>10, <1>11, <1>12, <1>13 DEF CallInv

-----------------------------------------------------------------------------
(* The invariant *)

(* A registration respects the types.                                      *)
LEMMA TypeStepRegister ==
    ASSUME TypeInv, NEW c \in Clients, NEW s \in Services, RegisterToServer(c, s)
    PROVE  Types'
<1>1. toServer' = Post(toServer, c, Packet("Register", s, 0)) /\ toServer \in [Clients -> Seq(Packets)]
  BY QueueTypes DEF RegisterToServer
<1>2. toServer' \in [Clients -> Seq(Packets)]
  BY <1>1, PacketIn, PostFacts
<1> QED BY <1>2 DEF RegisterToServer, TypeInv, Types, TypeOK, serverVars, callVars, streamVars, providerVars

(* The channel of a procedure loses its head to the relay, and gets what   *)
(* is yielded at its end.                                                  *)
LEMMA OutStep ==
    ASSUME TypeInv, NEW r \in Calls,
           \/ procedure'[r].out = procedure[r].out /\ procedure'[r].yielded = procedure[r].yielded
           \/ procedure'[r].out = <<>> /\ procedure'[r].yielded = 0
           \/ /\ procedure'[r].out = Append(procedure[r].out, procedure[r].yielded + 1)
              /\ procedure'[r].yielded = procedure[r].yielded + 1
           \/ /\ procedure[r].out # <<>> /\ procedure'[r].out = Tail(procedure[r].out)
              /\ procedure'[r].yielded = procedure[r].yielded
    PROVE  OutOf(r)'
<1> DEFINE q == procedure[r].out
           n == procedure[r].yielded
           a == Relayed(r)
<1>1. /\ q \in Seq(Nat) /\ n \in Nat /\ a \in Nat /\ a = n - Len(q) /\ Len(q) \in Nat
      /\ \A i \in 1 .. Len(q) : q[i] = a + i
  BY Parties DEF TypeInv, OutInv, OutOf, Relayed, Counts
<1>2. CASE procedure'[r].out = q /\ procedure'[r].yielded = n
  BY <1>1, <1>2 DEF OutOf, Relayed, Counts
<1>3. CASE procedure'[r].out = <<>> /\ procedure'[r].yielded = 0
  BY <1>3 DEF OutOf, Relayed, Counts
<1>4. CASE procedure'[r].out = Append(q, n + 1) /\ procedure'[r].yielded = n + 1
  <2>5. Relayed(r)' = procedure'[r].yielded - Len(procedure'[r].out)
    BY DEF Relayed
  <2> HIDE DEF q, n, a
  <2>1. /\ Len(Append(q, n + 1)) = Len(q) + 1
        /\ \A i \in 1 .. Len(q) + 1 : Append(q, n + 1)[i] = IF i = Len(q) + 1 THEN n + 1 ELSE q[i]
    BY <1>1
  <2>2. \A i \in 1 .. Len(q) + 1 : Append(q, n + 1)[i] = a + i
    BY <1>1, <2>1
  <2>3. (n + 1) - (Len(q) + 1) = a /\ a >= 0
    BY <1>1
  <2>6. Len(procedure'[r].out) = Len(q) + 1
    BY <1>4, <2>1
  <2>7. procedure'[r].yielded - Len(procedure'[r].out) = (n + 1) - (Len(q) + 1)
    BY <1>4, <2>6
  <2>4. Relayed(r)' = a
    BY <2>3, <2>5, <2>7
  <2> QED BY <1>4, <2>1, <2>2, <2>3, <2>4 DEF OutOf, Counts
<1>5. CASE q # <<>> /\ procedure'[r].out = Tail(q) /\ procedure'[r].yielded = n
  <2>5. Relayed(r)' = procedure'[r].yielded - Len(procedure'[r].out)
    BY DEF Relayed
  <2> HIDE DEF q, n, a
  <2>1. /\ Len(Tail(q)) = Len(q) - 1 /\ Len(q) >= 1
        /\ \A i \in 1 .. Len(q) - 1 : Tail(q)[i] = q[i + 1] /\ i + 1 \in 1 .. Len(q)
    BY <1>1, <1>5
  <2>2. \A i \in 1 .. Len(q) - 1 : Tail(q)[i] = (a + 1) + i
    BY <1>1, <2>1
  <2>3. n - (Len(q) - 1) = a + 1 /\ a + 1 >= 0
    BY <1>1
  <2>4. Relayed(r)' = a + 1
    BY <1>5, <2>1, <2>3, <2>5
  <2> QED BY <1>5, <2>1, <2>2, <2>3, <2>4 DEF OutOf, Counts
<1> QED BY <1>2, <1>3, <1>4, <1>5

(* No other step changes the channel of a procedure.                       *)
LEMMA OutSteps ==
    ASSUME TypeInv, [Next]_vars
    PROVE  OutInv'
<1> SUFFICES ASSUME NEW r \in Calls PROVE OutOf(r)'
  BY DEF OutInv
<1>0. procedure \in [Calls -> Sides] /\ procedure[r] \in Sides /\ toClient \in [Clients -> Seq(Packets)]
  BY DEF TypeInv, Types
<1>1. ASSUME procedure' = procedure PROVE OutOf(r)'
  BY <1>1, OutStep
<1>2. ASSUME NEW c \in Clients, HandleRequest(c) PROVE OutOf(r)'
  <2>1. \/ procedure' = procedure
        \/ \E side : side.out = <<>> /\ side.yielded = 0
              /\ procedure' = [procedure EXCEPT ![Head(toClient[c]).id] = side]
    <3> DEFINE p == Head(toClient[c])
               side == [host |-> c, state |-> "running", open |-> ParamStreaming(p.id),
                        input |-> IF ParamStreaming(p.id) THEN FirstInput(p) ELSE <<>>,
                        out |-> <<>>, yielded |-> 0,
                        relay |-> IF kind[p.id] = "duplex" THEN "look" ELSE "take"]
    <3>1. procedure' = procedure \/ procedure' = [procedure EXCEPT ![p.id] = side]
      BY <1>2 DEF HandleRequest, providerVars
    <3>2. side.out = <<>> /\ side.yielded = 0
      OBVIOUS
    <3> QED BY <3>1, <3>2
  <2>2. \/ procedure'[r] = procedure[r]
        \/ procedure'[r].out = <<>> /\ procedure'[r].yielded = 0
    BY <1>0, <2>1
  <2> QED BY <2>2, OutStep
<1>3. ASSUME NEW c \in Clients, HandleClientStreaming(c) \/ HandleAbort(c) PROVE OutOf(r)'
  <2>1. procedure'[r].out = procedure[r].out /\ procedure'[r].yielded = procedure[r].yielded
    <3>1. CASE HandleClientStreaming(c)
      BY <1>0, <3>1 DEF HandleClientStreaming, Sides
    <3>2. CASE HandleAbort(c)
      BY <1>0, <3>2 DEF HandleAbort, InputClosed, Sides
    <3> QED BY <1>3, <3>1, <3>2
  <2> QED BY <2>1, OutStep
<1>4. ASSUME NEW x \in Calls, CloseOutput(x) \/ Return(x) \/ RelayThrows(x) \/ RelayEnds(x)
                              \/ RelayLooks(x) \/ RelayMisses(x) \/ RelayWaits(x)
      PROVE  OutOf(r)'
  <2>1. procedure'[r].out = procedure[r].out /\ procedure'[r].yielded = procedure[r].yielded
    <3>1. CASE CloseOutput(x)
      <4>1. PICK how \in {"closed", "threw"} : procedure' = [procedure EXCEPT ![x].state = how]
        BY <3>1 DEF CloseOutput
      <4> QED BY <1>0, <4>1 DEF Sides
    <3>2. CASE RelayLooks(x)
      <4>1. PICK next \in {"take", "deaf", "waiting"} : procedure' = [procedure EXCEPT ![x].relay = next]
        BY <3>2 DEF RelayLooks
      <4> QED BY <1>0, <4>1 DEF Sides
    <3>3. CASE Return(x) \/ RelayThrows(x) \/ RelayEnds(x)
      <4>1. procedure' = [procedure EXCEPT ![x].state = "done"]
        BY <3>3 DEF Return, RelayThrows, RelayEnds, Ends
      <4> QED BY <1>0, <4>1 DEF Sides
    <3>4. CASE RelayMisses(x)
      BY <1>0, <3>4 DEF RelayMisses, Sides
    <3>5. CASE RelayWaits(x)
      BY <1>0, <3>5 DEF RelayWaits, Sides
    <3> QED BY <1>4, <3>1, <3>2, <3>3, <3>4, <3>5
  <2> QED BY <2>1, OutStep
<1>5. ASSUME NEW x \in Calls, Yield(x) \/ RelayItem(x) PROVE OutOf(r)'
  <2>1. CASE x # r
    <3>1. procedure'[r] = procedure[r]
      BY <1>0, <1>5, <2>1 DEF Yield, RelayItem
    <3> QED BY <3>1, OutStep
  <2>2. CASE x = r /\ Yield(r)
    <3>1. /\ procedure'[r].out = Append(procedure[r].out, procedure[r].yielded + 1)
          /\ procedure'[r].yielded = procedure[r].yielded + 1
      BY <1>0, <2>2 DEF Yield, Sides
    <3> QED BY <3>1, OutStep
  <2>3. CASE x = r /\ RelayItem(r)
    <3>1. /\ procedure[r].out # <<>> /\ procedure'[r].out = Tail(procedure[r].out)
          /\ procedure'[r].yielded = procedure[r].yielded
      BY <1>0, <2>3 DEF RelayItem, Sides
    <3> QED BY <3>1, OutStep
  <2> QED BY <1>5, <2>1, <2>2, <2>3
<1>6. ASSUME NEW c \in Clients, Server(c) \/ Lose(c) PROVE procedure' = procedure
  BY <1>6 DEF Server, HandleAccept, ServeRegister, ServeRequest, ForwardRequest, ServeResult, EraseRoute,
              ServeStreaming, Lose, providerVars
<1>7. ASSUME NEW c \in Clients, HandleNotifySnowflake(c) \/ HandleResultRegister(c)
                                \/ HandleServerStreaming(c) \/ HandleResult(c)
      PROVE  procedure' = procedure
  BY <1>7 DEF HandleNotifySnowflake, HandleResultRegister, HandleServerStreaming, HandleResult, providerVars
<1>8. ASSUME NEW c \in Clients, NEW s \in Services, RegisterToServer(c, s) PROVE procedure' = procedure
  BY <1>8 DEF RegisterToServer, providerVars
<1>9. ASSUME NEW x \in Calls,
             (\E k \in Kinds[x] : Call(x, k)) \/ Stream(x) \/ Produce(x) \/ CloseSource(x)
      PROVE  procedure' = procedure
  BY <1>9 DEF Call, Stream, HasNext, StreamItem, StreamMisses, StreamTests, StreamThrows, Produce, CloseSource,
              providerVars
<1>10. CASE UNCHANGED vars
  BY <1>1, <1>10 DEF vars, providerVars
<1>11. ASSUME NEW c \in Clients, Run(c) PROVE OutOf(r)'
  BY <1>1, <1>2, <1>3, <1>7, <1>11 DEF Run
<1>12. ASSUME NEW x \in Calls, Yield(x) \/ Finish(x) \/ Relay(x) PROVE OutOf(r)'
  BY <1>4, <1>5, <1>12 DEF Finish, Relay
<1> QED BY <1>1, <1>6, <1>8, <1>9, <1>10, <1>11, <1>12 DEF Next

(* Every step respects the types.                                          *)
LEMMA TypeStep ==
    ASSUME TypeInv, [Next]_vars
    PROVE  TypeInv'
<1>2. ASSUME NEW c \in Clients, Server(c) \/ Run(c) \/ Lose(c) PROVE Types'
  BY <1>2, TypeStepServer, TypeStepRun
<1>3. ASSUME NEW c \in Clients, NEW s \in Services, RegisterToServer(c, s) PROVE Types'
  BY <1>3, TypeStepRegister
<1>4. ASSUME NEW r \in Calls,
             \/ \E k \in Kinds[r] : Call(r, k)
             \/ Stream(r) \/ Produce(r) \/ CloseSource(r) \/ Yield(r) \/ Finish(r) \/ Relay(r)
      PROVE  Types'
  BY <1>4, TypeStepCall
<1>5. ASSUME UNCHANGED vars PROVE Types'
  BY <1>5 DEF vars, netVars, serverVars, callVars, streamVars, providerVars, TypeInv, Types, TypeOK
<1>6. Types'
  BY <1>2, <1>3, <1>4, <1>5 DEF Next
<1> QED BY <1>6, OutSteps DEF TypeInv

(* A lost client is sent nothing, and handles nothing.                     *)
LEMMA LinkStep ==
    ASSUME TypeInv, LinkInv, [Next]_vars
    PROVE  LinkInv'
<1> DEFINE Idle == \A d \in Clients : connection'[d] = "lost" => toClient'[d] = <<>>
           Served == \A d \in Clients : serving'[d] # None => serving'[d].op \in {"Request", "Result"}
<1>0. /\ toClient \in [Clients -> Seq(Packets)] /\ serving \in [Clients -> Packets \union {None}]
      /\ connection \in [Clients -> {"opening", "up", "ready", "lost"}]
      /\ \A d \in Clients : serving[d] # None => serving[d].op \in {"Request", "Result"}
      /\ \A d \in Clients : connection[d] = "lost" => toClient[d] = <<>>
  BY DEF TypeInv, Types, TypeOK, LinkInv
<1>1. ASSUME connection' = connection, toClient' = toClient PROVE Idle
  BY <1>0, <1>1
<1>2. ASSUME NEW c \in Clients, NEW p \in Packets, toClient' = Post(toClient, c, p),
             \A d \in Clients : connection'[d] = "lost" => connection[d] = "lost"
      PROVE  Idle
  <2>1. \A d \in Clients : connection[d] = "lost" => toClient'[d] = toClient[d]
    <3>1. PostedTo(toClient, toClient', c, p)
      BY <1>0, <1>2, IsPosted
    <3> QED BY <3>1 DEF PostedTo
  <2> QED BY <1>0, <1>2, <2>1
<1>3. ASSUME NEW c \in Clients, toClient[c] # <<>>, toClient' = Taken(c),
             \A d \in Clients : connection'[d] = "lost" => connection[d] = "lost"
      PROVE  Idle
  <2>1. \A d \in Clients : d # c => toClient'[d] = toClient[d]
    BY <1>0, <1>3 DEF Taken
  <2> QED BY <1>0, <1>3, <2>1
<1>4. ASSUME serving' = serving PROVE Served
  BY <1>0, <1>4
<1>5. ASSUME NEW c \in Clients, Server(c) PROVE Idle /\ Served
  <2>1. CASE HandleAccept(c)
    <3>1. /\ toClient' = Post(toClient, c, Packet("NotifySnowflake", None, 0)) /\ serving' = serving
          /\ connection' = [connection EXCEPT ![c] = "up"]
      BY <2>1 DEF HandleAccept, Reply, serverVars
    <3>2. \A d \in Clients : connection'[d] = "lost" => connection[d] = "lost"
      BY <1>0, <3>1
    <3> QED BY <1>2, <1>4, <3>1, <3>2, PacketIn
  <2>2. ASSUME NEW w \in Clients \union {None}, NEW p \in Packets, Forwarded(w, p), connection' = connection
        PROVE  Idle
    <3>1. CASE w = None
      BY <1>1, <2>2, <3>1 DEF Forwarded
    <3>2. CASE w # None
      <4>1. w \in Clients /\ toClient' = Post(toClient, w, p)
        BY <2>2, <3>2 DEF Forwarded, Reply
      <4> QED BY <1>2, <2>2, <4>1
    <3> QED BY <3>1, <3>2
  <2>3. ASSUME NEW p, serving' = [serving EXCEPT ![c] = p], p # None => p.op \in {"Request", "Result"}
        PROVE  Served
    BY <1>0, <2>3
  <2> HIDE DEF Idle, Served
  <2>4. CASE ServeRegister(c)
    <3>1. /\ connection' = connection /\ serving' = serving
          /\ Head(toServer[c]).id \in Services
      BY <2>4, HeadFacts, PacketFacts DEF ServeRegister, Arrives
    <3>2. PICK code \in {"RpcErrorNone", "RpcErrorDuplicatedServiceName"} :
             toClient' = Post(toClient, c, Packet("ResultRegister", Head(toServer[c]).id, code))
      BY <2>4 DEF ServeRegister, Reply
    <3>3. Packet("ResultRegister", Head(toServer[c]).id, code) \in Packets
      BY <3>1, PacketIn
    <3> QED BY <1>2, <1>4, <3>1, <3>2, <3>3
  <2>5. CASE ServeRequest(c)
    <3>1. /\ connection' = connection /\ Head(toServer[c]).op = "Request" /\ toServer[c] # <<>>
          /\ \/ toClient' = toClient /\ serving' = [serving EXCEPT ![c] = Head(toServer[c])]
             \/ /\ toClient' = Post(toClient, c, Packet("Result", Head(toServer[c]).id, "RpcErrorInternalError"))
                /\ serving' = serving
      BY <2>5 DEF ServeRequest, Arrives, Reply
    <3>2. Packet("Result", Head(toServer[c]).id, "RpcErrorInternalError") \in Packets
      BY <3>1, HeadFacts, PacketFacts, PacketIn DEF CallCodes
    <3> QED BY <1>1, <1>2, <1>4, <2>3, <3>1, <3>2
  <2>6. CASE ForwardRequest(c)
    <3>1. /\ connection' = connection /\ serving' = [serving EXCEPT ![c] = None]
          /\ serving[c] \in Packets /\ serving[c].op = "Request"
          /\ Forwarded(sessions[Target[serving[c].id]], serving[c])
      BY <1>0, <2>6 DEF ForwardRequest
    <3>2. sessions[Target[serving[c].id]] \in Clients \union {None}
      BY <3>1, PacketFacts, ConstantsAssumption DEF TypeInv, Types, TypeOK
    <3> QED BY <2>2, <2>3, <3>1, <3>2
  <2>7. CASE ServeResult(c)
    <3>1. /\ connection' = connection /\ Head(toServer[c]) \in Packets /\ Head(toServer[c]).op = "Result"
          /\ Head(toServer[c]).id \in Calls
          /\ Forwarded(pendingRPCs[Head(toServer[c]).id], Head(toServer[c]))
          /\ \/ serving' = [serving EXCEPT ![c] = None]
             \/ serving' = [serving EXCEPT ![c] = Head(toServer[c])]
      BY <2>7, HeadFacts, PacketFacts DEF ServeResult, Arrives
    <3>2. pendingRPCs[Head(toServer[c]).id] \in Clients \union {None}
      BY <3>1 DEF TypeInv, Types, TypeOK
    <3> QED BY <2>2, <2>3, <3>1, <3>2
  <2>8. CASE EraseRoute(c)
    <3>1. connection' = connection /\ toClient' = toClient /\ serving' = [serving EXCEPT ![c] = None]
      BY <2>8 DEF EraseRoute, netVars
    <3> QED BY <1>1, <2>3, <3>1
  <2>9. CASE ServeStreaming(c)
    <3>1. PICK op \in {"ServerStreaming", "ClientStreaming", "Abort"} :
             /\ Arrives(c, op)
             /\ Forwarded(IF op = "ServerStreaming" THEN pendingRPCs[Head(toServer[c]).id]
                          ELSE sessions[Target[Head(toServer[c]).id]], Head(toServer[c]))
      BY <2>9 DEF ServeStreaming
    <3>2. connection' = connection /\ serving' = serving
      BY <2>9 DEF ServeStreaming, serverVars
    <3>3. Head(toServer[c]) \in Packets /\ Head(toServer[c]).id \in Calls
      BY <3>1, HeadFacts, PacketFacts DEF Arrives
    <3>4. (IF op = "ServerStreaming" THEN pendingRPCs[Head(toServer[c]).id]
           ELSE sessions[Target[Head(toServer[c]).id]]) \in Clients \union {None}
      BY <3>3, ConstantsAssumption DEF TypeInv, Types, TypeOK
    <3> QED BY <1>4, <2>2, <3>1, <3>2, <3>3, <3>4
  <2> QED BY <1>5, <2>1, <2>4, <2>5, <2>6, <2>7, <2>8, <2>9 DEF Server
<1>6. ASSUME NEW c \in Clients, Run(c) PROVE Idle /\ Served
  <2>1. /\ toClient[c] # <<>> /\ toClient' = Taken(c) /\ serving' = serving
        /\ \/ connection' = connection
           \/ connection' = [connection EXCEPT ![c] = "ready"]
    BY <1>6 DEF Run, HandleNotifySnowflake, HandleResultRegister, HandleRequest, HandleClientStreaming,
                HandleAbort, HandleServerStreaming, HandleResult, Receives, serverVars
  <2>2. \A d \in Clients : connection'[d] = "lost" => connection[d] = "lost"
    BY <1>0, <2>1
  <2> QED BY <1>3, <1>4, <2>1, <2>2
<1>7. ASSUME NEW c \in Clients, Lose(c) PROVE Idle /\ Served
  <2>1. Idle
    BY <1>0, <1>7, LoseFacts
  <2> QED BY <1>4, <1>7, <2>1, LoseFacts
<1>8. ASSUME NEW c \in Clients, NEW s \in Services, RegisterToServer(c, s) PROVE Idle /\ Served
  BY <1>1, <1>4, <1>8 DEF RegisterToServer, serverVars
<1>9. ASSUME NEW r \in Calls,
             \/ \E k \in Kinds[r] : Call(r, k)
             \/ Stream(r) \/ Produce(r) \/ CloseSource(r) \/ Yield(r) \/ Finish(r) \/ Relay(r)
      PROVE  Idle /\ Served
  <2>1. connection' = connection /\ toClient' = toClient /\ serving' = serving
    BY <1>9 DEF Call, Stream, HasNext, StreamItem, StreamMisses, StreamTests, StreamThrows, Produce,
                CloseSource, Yield, Finish, CloseOutput, Return, Ends, Relay, RelayLooks, RelayItem,
                RelayThrows, RelayMisses, RelayWaits, RelayEnds, netVars, serverVars
  <2> QED BY <1>1, <1>4, <2>1
<1>10. ASSUME UNCHANGED vars PROVE Idle /\ Served
  BY <1>1, <1>4, <1>10 DEF vars, netVars, serverVars
<1>11. Idle /\ Served
  <2> HIDE DEF Idle, Served
  <2> QED BY <1>5, <1>6, <1>7, <1>8, <1>9, <1>10 DEF Next
<1> QED BY <1>11 DEF LinkInv

(* What is true of a call stays true, whichever call a step is about.      *)
LEMMA CallStep ==
    ASSUME RpcInv, [Next]_vars, NEW r \in Calls
    PROVE  CallInv(r)'
<1>1. TypeInv /\ LinkInv /\ CallInv(r) /\ \A x \in Calls : CallInv(x)
  BY DEF RpcInv
<1>2. CASE UNCHANGED vars
  <2>1. \A ops \in {Params, Answers} :
           Moves(toServer, toServer', ops, r) /\ Moves(toClient, toClient', ops, r)
    BY <1>2 DEF vars, netVars, Moves
  <2> QED BY <1>1, <1>2, <2>1, QueuesElsewhere
          DEF vars, netVars, serverVars, callVars, streamVars, providerVars,
              SameServing, SameLinks, SameCall, SameSource, SameReceived, SameProcedure, SameStage, Relayed, Started, Executing
<1>3. ASSUME NEW c \in Clients, Server(c) PROVE CallInv(r)'
  BY <1>1, <1>3, QuietConnecting, StepServeRegister, StepServeRequest, StepForwardRequest,
     StepServeResult, StepEraseRoute, StepServeStreaming DEF Server
<1>4. ASSUME NEW c \in Clients, Run(c) PROVE CallInv(r)'
  BY <1>1, <1>4, QuietConnecting, StepHandleRequest, StepHandleClientStreaming, StepHandleAbort,
     StepHandleServerStreaming, StepHandleResult DEF Run
<1>5. ASSUME NEW c \in Clients, Lose(c) PROVE CallInv(r)'
  BY <1>1, <1>5, StepLose
<1>6. ASSUME NEW c \in Clients, NEW s \in Services, RegisterToServer(c, s) PROVE CallInv(r)'
  BY <1>1, <1>6, QuietRegister
<1>7. ASSUME NEW x \in Calls, NEW k \in Kinds[x], Call(x, k) PROVE CallInv(r)'
  BY <1>1, <1>7, StepCall
<1>8. ASSUME NEW x \in Calls, Stream(x) \/ Produce(x) \/ CloseSource(x) PROVE CallInv(r)'
  BY <1>1, <1>8, QuietSource, StepStreamItem DEF Stream
<1>9. ASSUME NEW x \in Calls, Yield(x) \/ Finish(x) \/ Relay(x) PROVE CallInv(r)'
  <2>1. ASSUME NEW code \in CallCodes, Executing(x), Ends(x, code) PROVE CallInv(r)'
    BY <1>1, <2>1, StepEnds
  <2>2. CASE Return(x) \/ RelayThrows(x) \/ RelayEnds(x)
    <3>1. Executing(x) /\ \E code \in CallCodes : Ends(x, code)
      BY <2>2 DEF Return, Failure, RelayThrows, RelayEnds, Relays, Executing, CallCodes
    <3> QED BY <2>1, <3>1
  <2>3. CASE Yield(x) \/ CloseOutput(x) \/ RelayLooks(x) \/ RelayMisses(x) \/ RelayWaits(x)
    BY <1>1, <2>3, QuietOutput
  <2>4. CASE RelayItem(x)
    BY <1>1, <2>4, StepRelayItem
  <2> QED BY <1>9, <2>2, <2>3, <2>4 DEF Finish, Relay
<1> QED BY <1>2, <1>3, <1>4, <1>5, <1>6, <1>7, <1>8, <1>9 DEF Next

(* No call has been made at first.                                         *)
LEMMA RpcInit == Init => RpcInv
<1> SUFFICES ASSUME Init PROVE RpcInv
  OBVIOUS
<1>1. TypeInv
  BY TypeInit
<1>2. /\ \A c \in Clients : toServer[c] = <<>> /\ toClient[c] = <<>> /\ serving[c] = None
                            /\ connection[c] = "opening"
  BY DEF Init
<1>3. LinkInv
  BY <1>2 DEF LinkInv
<1>4. ASSUME NEW r \in Calls PROVE CallInv(r)
  <2>1. /\ \A c \in Clients : \A op : ~ Has(toServer[c], op, r) /\ ~ Has(toClient[c], op, r)
        /\ \A op : ~ AtServer(op, r) /\ ~ AtClient(op, r) /\ ~ Serving(op, r)
    BY <1>2, EmptyFacts DEF AtServer, AtClient, Serving
  <2>2. /\ kind[r] = None /\ ~ ParamStreaming(r) /\ ~ Started(r) /\ ~ Executing(r)
        /\ source[r].items = <<>> /\ source[r].next = 1 /\ loop[r] = "none"
        /\ result[r] = "none" /\ received[r] = <<>> /\ procedure[r].input = <<>>
        /\ procedure[r].out = <<>> /\ procedure[r].yielded = 0 /\ pendingRPCs[r] = None
        /\ remoteProcedures = {} /\ running = {} /\ Fresh(r)
    BY ConstantsAssumption DEF Init, ParamStreaming, Started, Executing, Fresh
  <2>3. Len(<<>>) = 0
    OBVIOUS
  <2>4. Streamed(r) = 0 /\ Got(r) = 0 /\ Fed(r) = 0 /\ Relayed(r) = 0
    <3>1. Len(source[r].items) = 0 /\ Len(received[r]) = 0 /\ Len(procedure[r].input) = 0
      BY <2>2, <2>3
    <3>2. Streamed(r) = source[r].next - 1 - Len(source[r].items)
      BY DEF Streamed
    <3>3. Streamed(r) = 0
      BY <2>2, <3>1, <3>2
    <3>4. Relayed(r) = 0
      <4>1. Len(procedure[r].out) = 0 /\ procedure[r].yielded = 0
        BY <2>2, <2>3
      <4>2. Relayed(r) = procedure[r].yielded - Len(procedure[r].out)
        BY DEF Relayed
      <4> QED BY <4>1, <4>2
    <3> QED BY <3>1, <3>3, <3>4 DEF Got, Fed
  <2>5. WhereOf(r) /\ StageOf(r) /\ RouteOf(r)
    BY <1>2, <2>1, <2>2 DEF WhereOf, StageOf, RouteOf
  <2>6. SourceOf(r)
    BY <2>2, <2>3, <2>4 DEF SourceOf
  <2>7. ShapeOf(r)
    <3>1. \A c \in Clients : Shaped(toServer[c], r, FirstItem(r)) /\ Shaped(toClient[c], r, FirstItem(r))
      BY <1>2, <2>1, EmptyFacts, NumberedNone DEF Shaped
    <3> QED BY <3>1 DEF ShapeOf
  <2>8. YieldOf(r)
    BY <1>2, <2>1, <2>2, <2>4, EmptyFacts DEF YieldOf, Graceful
  <2>9. ParamOf(r)
    BY <1>2, <2>1, <2>2, <2>4 DEF ParamOf, Active
  <2> QED BY <2>5, <2>6, <2>7, <2>8, <2>9 DEF CallInv
<1> QED BY <1>1, <1>3, <1>4 DEF RpcInv

(* The packets, the tables and the streams are what RpcInv says of them in *)
(* every state, whatever connections break.                                *)
THEOREM RpcInvariant == Spec => []RpcInv
<1>1. RpcInv /\ [Next]_vars => RpcInv'
  BY TypeStep, LinkStep, CallStep DEF RpcInv
<1> QED BY RpcInit, <1>1, PTL DEF Spec

(* Type correctness of the tables of server and clients.                   *)
THEOREM RpcTypes == Spec => []TypeOK
<1>1. RpcInv => TypeOK
  BY DEF RpcInv, TypeInv, Types
<1> QED BY <1>1, RpcInvariant, PTL

(* RPCClient::HandleResultRemoteProcedureCall and HandleServerStreaming    *)
(* find the call they are told of, and no call starts its procedure twice. *)
THEOREM RpcAnswers == Spec => []AnswersFindTheirCall
<1>1. RpcInv => AnswersFindTheirCall
  <2> SUFFICES ASSUME RpcInv, NEW c \in Clients, toClient[c] # <<>>
               PROVE  LET p == Head(toClient[c]) IN
                      /\ p.op \in {"Result", "ServerStreaming"} => p.id \in remoteProcedures /\ Caller[p.id] = c
                      /\ p.op = "Request" => procedure[p.id].state = "none"
    BY DEF AnswersFindTheirCall
  <2> DEFINE p == Head(toClient[c])
  <2>1. /\ TypeInv /\ p \in Packets /\ toClient[c] \in Seq(Packets)
    BY HeadFacts, QueueTypes DEF RpcInv
  <2>2. \A op \in {"Request", "Result", "ServerStreaming"} : p.op = op =>
           p.id \in Calls /\ Has(toClient[c], op, p.id) /\ AtClient(op, p.id)
    <3> TAKE op \in {"Request", "Result", "ServerStreaming"}
    <3>1. p.op = op => p.id \in Calls /\ Is(p, op, p.id)
      BY <2>1, PacketFacts DEF Is
    <3>2. p.op = op => Has(toClient[c], op, p.id)
      BY <2>1, <3>1, HasTail
    <3> QED BY <3>1, <3>2 DEF AtClient
  <2> HIDE DEF p
  <2>3. p.op \in {"Result", "ServerStreaming"} => p.id \in remoteProcedures /\ Caller[p.id] = c
    BY <2>2 DEF RpcInv, CallInv, WhereOf, StageOf, YieldOf
  <2>4. p.op = "Request" => procedure[p.id].state = "none"
    BY <2>2 DEF RpcInv, CallInv, StageOf, Started
  <2> QED BY <2>3, <2>4 DEF p
<1> QED BY <1>1, RpcInvariant, PTL

(* A procedure is given the items its caller streams, and a caller those   *)
(* that the procedure yields, each once and in order; when the stream was  *)
(* closed gracefully, what is missing is what the relay left in the        *)
(* channel of the procedure (rpc_client.cpp:433-449, 517-533).             *)
THEOREM RpcStreams == Spec => []StreamsAreWhole
<1>1. RpcInv => StreamsAreWhole
  <2> SUFFICES ASSUME RpcInv, NEW r \in Calls
               PROVE  /\ Counts(procedure[r].input, 0) /\ Counts(received[r], 0)
                      /\ result[r] = Graceful =>
                            /\ Counts(procedure[r].out, Got(r))
                            /\ Got(r) + Len(procedure[r].out) = procedure[r].yielded
    BY DEF StreamsAreWhole, Graceful, Got
  <2>1. TypeInv /\ CallInv(r)
    BY DEF RpcInv
  <2>2. Counts(procedure[r].input, 0) /\ Counts(received[r], 0)
    BY <2>1 DEF CallInv, YieldOf, ParamOf, Counts, Fed, Got
  <2>3. result[r] = Graceful => Got(r) = Relayed(r)
    BY <2>1 DEF CallInv, YieldOf
  <2>4. Counts(procedure[r].out, Relayed(r))
    BY <2>1 DEF TypeInv, OutInv, OutOf
  <2>5. Relayed(r) + Len(procedure[r].out) = procedure[r].yielded
    <3>1. procedure[r].yielded \in Nat /\ Len(procedure[r].out) \in Nat
      BY <2>1, Parties
    <3> QED BY <3>1 DEF Relayed
  <2> QED BY <2>2, <2>3, <2>4, <2>5
<1> QED BY <1>1, RpcInvariant, PTL

-----------------------------------------------------------------------------
(* Bytes and buffers *)

(* The bytes after the a-th up to the c-th.                                *)
Bytes(a, c) == [k \in 1 .. c - a |-> a + k]

(* Buffers that follow each other from a to c.                             *)
Follow(q, a, c) ==
    \E cut \in [0 .. Len(q) -> Nat] :
        /\ cut[0] = a /\ cut[Len(q)] = c
        /\ \A i \in 1 .. Len(q) : cut[i - 1] <= cut[i] /\ q[i] = Bytes(cut[i - 1], cut[i])

(* Bytes are a sequence, ...                                               *)
LEMMA BytesType ==
    ASSUME NEW a \in Nat, NEW c \in Nat, a <= c
    PROVE  Bytes(a, c) \in Seq(Nat) /\ Len(Bytes(a, c)) = c - a
BY DEF Bytes

(* The k-th of them.                                                       *)
LEMMA ByteAt ==
    ASSUME NEW a \in Nat, NEW c \in Nat, NEW k \in 1 .. c - a
    PROVE  Bytes(a, c)[k] = a + k
BY DEF Bytes

(* ... two that meet are one, ...                                          *)
LEMMA BytesMeet ==
    ASSUME NEW a \in Nat, NEW b \in Nat, NEW c \in Nat, a <= b, b <= c
    PROVE  Bytes(a, b) \o Bytes(b, c) = Bytes(a, c)
<1> DEFINE x == Bytes(a, b)
           y == Bytes(b, c)
           z == Bytes(a, c)
           both == x \o y
<1>1. x \in Seq(Nat) /\ Len(x) = b - a
  BY BytesType
<1>2. y \in Seq(Nat) /\ Len(y) = c - b
  BY BytesType
<1>3. z \in Seq(Nat) /\ Len(z) = c - a
  <2>1. a <= c
    OBVIOUS
  <2> QED BY <2>1, BytesType
<1>4. /\ \A k \in 1 .. b - a : x[k] = a + k
      /\ \A k \in 1 .. c - b : y[k] = b + k
      /\ \A k \in 1 .. c - a : z[k] = a + k
  BY ByteAt
<1> HIDE DEF x, y, z
<1>5. /\ both \in Seq(Nat) /\ Len(both) = Len(x) + Len(y)
      /\ \A k \in 1 .. Len(x) + Len(y) : both[k] = IF k <= Len(x) THEN x[k] ELSE y[k - Len(x)]
  BY <1>1, <1>2, ConcatProperties
<1> HIDE DEF both
<1>6. Len(both) = c - a
  BY <1>1, <1>2, <1>5
<1>7. ASSUME NEW k \in 1 .. c - a PROVE both[k] = z[k]
  <2>1. both[k] = IF k <= b - a THEN x[k] ELSE y[k - (b - a)]
    <3>1. k \in 1 .. Len(x) + Len(y)
      BY <1>1, <1>2
    <3> QED BY <1>1, <1>5, <3>1
  <2>2. k > b - a => k - (b - a) \in 1 .. c - b
    OBVIOUS
  <2>3. k <= b - a => k \in 1 .. b - a
    OBVIOUS
  <2> QED BY <1>4, <2>1, <2>2, <2>3
<1>8. both = z
  BY <1>3, <1>5, <1>6, <1>7, SeqEqual
<1> QED BY <1>8 DEF both, x, y, z

(* ... and one can be cut anywhere.                                        *)
LEMMA BytesCut ==
    ASSUME NEW a \in Nat, NEW c \in Nat, NEW n \in Nat, n <= c - a
    PROVE  /\ SubSeq(Bytes(a, c), 1, n) = Bytes(a, a + n)
           /\ SubSeq(Bytes(a, c), n + 1, c - a) = Bytes(a + n, c)
<1> DEFINE z == Bytes(a, c)
<1>1. z \in Seq(Nat) /\ Len(z) = c - a
  BY BytesType
<1>2. \A k \in 1 .. c - a : z[k] = a + k
  BY ByteAt
<1> HIDE DEF z
<1>3. ASSUME NEW i \in Nat, NEW j \in Nat, i <= j, j <= c - a
      PROVE  SubSeq(z, i + 1, j) = Bytes(a + i, a + j)
  <2> DEFINE x == SubSeq(z, i + 1, j)
             y == Bytes(a + i, a + j)
  <2>1. y \in Seq(Nat) /\ Len(y) = j - i
    <3>1. a + i \in Nat /\ a + j \in Nat /\ a + i <= a + j /\ (a + j) - (a + i) = j - i
      BY <1>3
    <3> QED BY <3>1, BytesType
  <2>2. \A k \in 1 .. j - i : y[k] = (a + i) + k
    <3>1. a + i \in Nat /\ a + j \in Nat /\ (a + j) - (a + i) = j - i
      BY <1>3
    <3> QED BY <3>1, ByteAt
  <2>3. /\ x \in Seq(Nat) /\ Len(x) = j - i
        /\ \A k \in 1 .. j - i : x[k] = z[i + k]
    <3>1. \A k \in i + 1 .. j : z[k] \in Nat
      BY <1>1, <1>3
    <3>2. /\ x \in Seq(Nat)
          /\ Len(x) = IF i + 1 <= j THEN j - (i + 1) + 1 ELSE 0
          /\ \A k \in 1 .. j - (i + 1) + 1 : x[k] = z[(i + 1) + k - 1]
      BY <3>1, SubSeqProperties
    <3> HIDE DEF x
    <3>3. \A k \in 1 .. j - i : k \in 1 .. j - (i + 1) + 1 /\ (i + 1) + k - 1 = i + k
      OBVIOUS
    <3> QED BY <1>3, <3>2, <3>3
  <2> HIDE DEF x, y
  <2>4. ASSUME NEW k \in 1 .. j - i PROVE x[k] = y[k]
    <3>1. i + k \in 1 .. c - a /\ a + (i + k) = (a + i) + k
      BY <1>3
    <3> QED BY <1>2, <2>2, <2>3, <3>1
  <2>5. x = y
    BY <2>1, <2>3, <2>4, SeqEqual
  <2> QED BY <2>5 DEF x, y
<1>4. SubSeq(z, 0 + 1, n) = Bytes(a + 0, a + n)
  BY <1>3
<1>5. SubSeq(z, n + 1, c - a) = Bytes(a + n, a + (c - a))
  <2>1. c - a \in Nat /\ c - a <= c - a
    OBVIOUS
  <2> QED BY <1>3, <2>1
<1>6. 0 + 1 = 1 /\ a + 0 = a /\ a + (c - a) = c
  OBVIOUS
<1> QED BY <1>4, <1>5, <1>6 DEF z

(* Buffers that follow each other are the bytes from the first on.         *)
LEMMA FollowFlat ==
    ASSUME NEW q \in Seq(Seq(Nat)), NEW a \in Nat, NEW c \in Nat, Follow(q, a, c)
    PROVE  a <= c /\ FlattenSeq(q) = Bytes(a, c)
<1> DEFINE n == Len(q)
<1>1. PICK cut \in [0 .. n -> Nat] :
        /\ cut[0] = a /\ cut[n] = c
        /\ \A i \in 1 .. n : cut[i - 1] <= cut[i] /\ q[i] = Bytes(cut[i - 1], cut[i])
  BY DEF Follow
<1>n. n \in Nat /\ \A i \in 0 .. n : cut[i] \in Nat
  OBVIOUS
<1> HIDE DEF n
<1>2. \A i \in 0 .. n : a <= cut[i]
  <2> DEFINE T == {i \in 0 .. n : ~ (a <= cut[i])}
  <2>1. SUFFICES ASSUME T # {} PROVE FALSE
    OBVIOUS
  <2>2. PICK i \in T : \A j \in T : i <= j
    <3>1. T \subseteq Nat
      OBVIOUS
    <3> HIDE DEF T
    <3> QED BY <2>1, <3>1, LeastNat
  <2>3. i \in 1 .. n /\ i - 1 \in 0 .. n /\ i - 1 \notin T
    BY <1>1, <1>n, <2>2
  <2>4. a <= cut[i - 1] /\ cut[i - 1] <= cut[i] /\ cut[i] \in Nat /\ cut[i - 1] \in Nat
    BY <1>1, <1>n, <2>3
  <2>5. ~ (a <= cut[i])
    BY <2>2
  <2> QED BY <2>4, <2>5
<1>3. CASE n = 0
  <2>1. q = <<>> /\ a = c
    BY <1>1, <1>3 DEF n
  <2>2. FlattenSeq(q) = q
    BY <1>3 DEF FlattenSeq, n
  <2>3. Bytes(a, a) = <<>>
    BY BytesType
  <2> QED BY <2>1, <2>2, <2>3
<1>4. CASE n # 0
  <2> DEFINE Def(f) == f = [i \in 1 .. n |-> IF i = 1 THEN q[i] ELSE f[i - 1] \o q[i]]
             g == [i \in 1 .. n |-> Bytes(a, cut[i])]
  <2>1. Def(g)
    <3>1. ASSUME NEW i \in 1 .. n
          PROVE  g[i] = IF i = 1 THEN q[i] ELSE g[i - 1] \o q[i]
      <4>1. CASE i = 1
        BY <1>1, <4>1
      <4>2. CASE i # 1
        <5>1. i - 1 \in 1 .. n /\ g[i - 1] = Bytes(a, cut[i - 1])
          BY <1>n, <4>2
        <5>2. cut[i - 1] \in Nat /\ cut[i] \in Nat /\ a <= cut[i - 1] /\ cut[i - 1] <= cut[i]
          <6>1. i - 1 \in 0 .. n /\ i \in 0 .. n /\ i \in 1 .. n
            BY <1>n, <5>1
          <6> QED BY <1>1, <1>2, <1>n, <6>1
        <5>3. Bytes(a, cut[i - 1]) \o Bytes(cut[i - 1], cut[i]) = Bytes(a, cut[i])
          BY <5>2, BytesMeet
        <5> QED BY <1>1, <4>2, <5>1, <5>3
      <4> QED BY <4>1, <4>2
    <3> QED BY <3>1
  <2> DEFINE f == CHOOSE h : Def(h)
  <2>2. Def(f)
    <3> HIDE DEF Def, g
    <3> QED BY <2>1
  <2>3. FlattenSeq(q) = f[n]
    BY <1>4 DEF FlattenSeq, n
  <2> HIDE DEF f
  <2>4. \A i \in 1 .. n : f[i] = g[i]
    <3> DEFINE T == {i \in 1 .. n : f[i] # g[i]}
    <3>1. SUFFICES ASSUME T # {} PROVE FALSE
      OBVIOUS
    <3>2. PICK i \in T : \A j \in T : i <= j
      <4>1. T \subseteq Nat
        OBVIOUS
      <4> HIDE DEF T
      <4> QED BY <3>1, <4>1, LeastNat
    <3>3. /\ f[i] = IF i = 1 THEN q[i] ELSE f[i - 1] \o q[i]
          /\ g[i] = IF i = 1 THEN q[i] ELSE g[i - 1] \o q[i]
      BY <2>1, <2>2
    <3>4. i # 1 => i - 1 \in 1 .. n /\ i - 1 \notin T
      BY <1>n, <3>2
    <3>5. i # 1 => f[i - 1] = g[i - 1]
      <4> HIDE DEF g
      <4> QED BY <3>4
    <3>6. f[i] # g[i]
      BY <3>2
    <3> HIDE DEF g
    <3> QED BY <3>3, <3>5, <3>6
  <2>5. f[n] = Bytes(a, c)
    BY <1>1, <1>4, <1>n, <2>4
  <2> QED BY <1>1, <1>2, <1>4, <1>n, <2>3, <2>5
<1> QED BY <1>3, <1>4

(* A buffer that meets the last one may be appended, ...                   *)
LEMMA FollowAppend ==
    ASSUME NEW q \in Seq(Seq(Nat)), NEW a \in Nat, NEW b \in Nat, NEW c \in Nat,
           Follow(q, a, b), b <= c
    PROVE  Follow(Append(q, Bytes(b, c)), a, c)
<1> DEFINE n == Len(q)
           r == Append(q, Bytes(b, c))
<1>1. PICK cut \in [0 .. n -> Nat] :
        /\ cut[0] = a /\ cut[n] = b
        /\ \A i \in 1 .. n : cut[i - 1] <= cut[i] /\ q[i] = Bytes(cut[i - 1], cut[i])
  BY DEF Follow
<1>2. n \in Nat /\ Len(r) = n + 1 /\ r[n + 1] = Bytes(b, c) /\ \A i \in 1 .. n : r[i] = q[i]
  OBVIOUS
<1> HIDE DEF n, r
<1> DEFINE new == [i \in 0 .. n + 1 |-> IF i = n + 1 THEN c ELSE cut[i]]
<1>3. new \in [0 .. n + 1 -> Nat] /\ new[0] = a /\ new[n + 1] = c /\ \A i \in 0 .. n : new[i] = cut[i]
  BY <1>1, <1>2
<1> HIDE DEF new
<1>4. ASSUME NEW i \in 1 .. n + 1
      PROVE  new[i - 1] <= new[i] /\ r[i] = Bytes(new[i - 1], new[i])
  <2>1. CASE i = n + 1
    <3>1. n \in 0 .. n /\ i - 1 = n
      BY <1>2, <2>1
    <3> QED BY <1>1, <1>2, <1>3, <2>1, <3>1
  <2>2. CASE i # n + 1
    <3>1. i \in 1 .. n /\ i \in 0 .. n /\ i - 1 \in 0 .. n
      BY <1>2, <2>2
    <3>2. new[i - 1] = cut[i - 1] /\ new[i] = cut[i] /\ r[i] = q[i]
      BY <1>2, <1>3, <3>1
    <3> QED BY <1>1, <3>1, <3>2
  <2> QED BY <2>1, <2>2
<1>5. Follow(r, a, c)
  BY <1>2, <1>3, <1>4 DEF Follow
<1> QED BY <1>5 DEF r

(* ... and without the first one they start where it ended.                *)
LEMMA FollowTail ==
    ASSUME NEW q \in Seq(Seq(Nat)), NEW a \in Nat, NEW c \in Nat, q # <<>>, Follow(q, a, c)
    PROVE  \E b \in Nat : a <= b /\ b <= c /\ Head(q) = Bytes(a, b) /\ Follow(Tail(q), b, c)
<1> DEFINE n == Len(q)
           r == Tail(q)
<1>1. PICK cut \in [0 .. n -> Nat] :
        /\ cut[0] = a /\ cut[n] = c
        /\ \A i \in 1 .. n : cut[i - 1] <= cut[i] /\ q[i] = Bytes(cut[i - 1], cut[i])
  BY DEF Follow
<1>2. /\ n \in Nat \ {0} /\ r \in Seq(Seq(Nat)) /\ Len(r) = n - 1 /\ Head(q) = q[1]
      /\ \A i \in 1 .. n - 1 : r[i] = q[i + 1]
  OBVIOUS
<1> HIDE DEF n, r
<1> DEFINE new == [i \in 0 .. n - 1 |-> cut[i + 1]]
<1>3. new \in [0 .. n - 1 -> Nat] /\ \A i \in 0 .. n - 1 : new[i] = cut[i + 1]
  BY <1>1, <1>2
<1> HIDE DEF new
<1>4. ASSUME NEW i \in 1 .. n - 1
      PROVE  new[i - 1] <= new[i] /\ r[i] = Bytes(new[i - 1], new[i])
  <2>1. i - 1 \in 0 .. n - 1 /\ i \in 0 .. n - 1 /\ i + 1 \in 1 .. n /\ (i + 1) - 1 = i /\ (i - 1) + 1 = i
    BY <1>2
  <2>2. new[i - 1] = cut[i] /\ new[i] = cut[i + 1]
    BY <1>3, <2>1
  <2>3. r[i] = q[i + 1]
    BY <1>2
  <2>4. cut[(i + 1) - 1] <= cut[i + 1] /\ q[i + 1] = Bytes(cut[(i + 1) - 1], cut[i + 1])
    BY <1>1, <2>1
  <2> QED BY <2>1, <2>2, <2>3, <2>4
<1>5. new[0] = cut[1] /\ new[n - 1] = c
  <2>1. 0 \in 0 .. n - 1 /\ n - 1 \in 0 .. n - 1 /\ (n - 1) + 1 = n /\ 0 + 1 = 1
    BY <1>2
  <2> QED BY <1>1, <1>3, <2>1
<1>6. Follow(r, cut[1], c)
  BY <1>2, <1>3, <1>4, <1>5 DEF Follow
<1>7. cut[1] \in Nat /\ a <= cut[1] /\ Head(q) = Bytes(a, cut[1])
  <2>1. 1 \in 1 .. n /\ 1 \in 0 .. n /\ 1 - 1 = 0
    BY <1>2
  <2>2. cut[1 - 1] <= cut[1] /\ q[1] = Bytes(cut[1 - 1], cut[1])
    BY <1>1, <2>1
  <2> QED BY <1>1, <1>2, <2>1, <2>2
<1>8. cut[1] <= c
  BY <1>2, <1>6, <1>7, FollowFlat
<1> QED BY <1>6, <1>7, <1>8 DEF r

(* No buffer and one buffer.                                               *)
LEMMA FollowFew ==
    ASSUME NEW a \in Nat, NEW c \in Nat
    PROVE  /\ Follow(<<>>, a, c) <=> a = c
           /\ a <= c => Follow(<<Bytes(a, c)>>, a, c)
<1>1. Follow(<<>>, a, c) => a = c
  BY DEF Follow
<1>2. Follow(<<>>, a, a)
  <2> DEFINE cut == [i \in 0 .. 0 |-> a]
  <2>1. cut \in [0 .. 0 -> Nat] /\ cut[0] = a /\ Len(<<>>) = 0 /\ 1 .. 0 = {}
    OBVIOUS
  <2> HIDE DEF cut
  <2> QED BY <2>1 DEF Follow
<1>3. ASSUME a <= c PROVE Follow(<<Bytes(a, c)>>, a, c)
  <2>1. Follow(Append(<<>>, Bytes(a, c)), a, c)
    <3>1. <<>> \in Seq(Seq(Nat))
      OBVIOUS
    <3> QED BY <1>2, <1>3, <3>1, FollowAppend
  <2>2. Append(<<>>, Bytes(a, c)) = <<Bytes(a, c)>>
    OBVIOUS
  <2> QED BY <2>1, <2>2
<1> QED BY <1>1, <1>2, <1>3

(* Bytes that are none.                                                    *)
LEMMA NoBytes ==
    ASSUME NEW a \in Nat, NEW c \in Nat, a <= c
    PROVE  Bytes(a, c) = <<>> <=> a = c
<1>1. Bytes(a, c) \in Seq(Nat) /\ Len(Bytes(a, c)) = c - a
  BY BytesType
<1>2. Bytes(a, c) = <<>> <=> Len(Bytes(a, c)) = 0
  BY <1>1
<1> QED BY <1>1, <1>2

-----------------------------------------------------------------------------
(* What is posted to the strand of a session *)

Ops == {"StartReceive", "Run", "Close", "ReadDone", "ReadError", "Send", "WriteDone", "WriteError",
        "Resume"}
Jobs == {t \in [op : Ops, data : Seq(Nat)] : t.op # "Send" => t.data = <<>>}
Datas(st) == [i \in DOMAIN st |-> st[i].data]
Awaits(st, op) == \E i \in DOMAIN st : st[i].op = op
Once(st, op) == \A i, j \in DOMAIN st : st[i].op = op /\ st[j].op = op => i = j

(* The buffers of tasks are buffers.                                       *)
LEMMA DatasType == ASSUME NEW st \in Seq(Jobs) PROVE Datas(st) \in Seq(Seq(Nat))
<1>1. \A i \in 1 .. Len(st) : st[i].data \in Seq(Nat)
  BY DEF Jobs
<1> QED BY <1>1 DEF Datas

(* A task is posted behind the others, ...                                 *)
LEMMA PostedJob ==
    ASSUME NEW st \in Seq(Jobs), NEW t \in Jobs
    PROVE  /\ Append(st, t) \in Seq(Jobs)
           /\ Datas(st) \in Seq(Seq(Nat))
           /\ Datas(Append(st, t)) = Append(Datas(st), t.data)
           /\ \A op : Awaits(Append(st, t), op) <=> Awaits(st, op) \/ t.op = op
           /\ \A op : Once(st, op) /\ (t.op = op => ~ Awaits(st, op)) => Once(Append(st, t), op)
<1> DEFINE new == Append(st, t)
<1>1. /\ new \in Seq(Jobs) /\ Len(new) = Len(st) + 1 /\ Len(st) \in Nat
      /\ \A i \in 1 .. Len(st) : new[i] = st[i]
      /\ new[Len(st) + 1] = t
  OBVIOUS
<1>2. Datas(st) \in Seq(Seq(Nat)) /\ Len(Datas(st)) = Len(st)
  <2>1. \A i \in 1 .. Len(st) : st[i].data \in Seq(Nat)
    BY DEF Jobs
  <2> QED BY <2>1 DEF Datas
<1> HIDE DEF new
<1>3. Datas(new) = Append(Datas(st), t.data)
  <2> DEFINE x == Datas(new)
             y == Append(Datas(st), t.data)
  <2>1. t.data \in Seq(Nat)
    BY DEF Jobs
  <2>2. /\ y \in Seq(Seq(Nat)) /\ Len(y) = Len(st) + 1
        /\ \A i \in 1 .. Len(st) : y[i] = Datas(st)[i]
        /\ y[Len(st) + 1] = t.data
    BY <1>1, <1>2, <2>1
  <2>3. \A i \in 1 .. Len(st) + 1 : new[i].data \in Seq(Nat)
    BY <1>1 DEF Jobs
  <2>4. x \in Seq(Seq(Nat)) /\ Len(x) = Len(st) + 1 /\ \A i \in 1 .. Len(st) + 1 : x[i] = new[i].data
    BY <1>1, <2>3 DEF Datas
  <2>5. \A i \in 1 .. Len(st) : Datas(st)[i] = st[i].data
    BY DEF Datas
  <2> HIDE DEF x, y
  <2>6. ASSUME NEW i \in 1 .. Len(st) + 1 PROVE x[i] = y[i]
    <3>1. x[i] = new[i].data
      BY <2>4
    <3>2. CASE i = Len(st) + 1
      BY <1>1, <2>2, <3>1, <3>2
    <3>3. CASE i # Len(st) + 1
      <4>1. i \in 1 .. Len(st)
        BY <1>1, <3>3
      <4> QED BY <1>1, <2>2, <2>5, <3>1, <4>1
    <3> QED BY <3>2, <3>3
  <2>7. x = y
    BY <2>2, <2>4, <2>6, SeqEqual
  <2> QED BY <2>7 DEF x, y
<1>4. \A op : Awaits(new, op) <=> Awaits(st, op) \/ t.op = op
  BY <1>1 DEF Awaits
<1>5. \A op : Once(st, op) /\ (t.op = op => ~ Awaits(st, op)) => Once(new, op)
  BY <1>1 DEF Once, Awaits
<1> QED BY <1>1, <1>2, <1>3, <1>4, <1>5 DEF new

(* ... and run in front of them.                                           *)
LEMMA RunJob ==
    ASSUME NEW st \in Seq(Jobs), st # <<>>
    PROVE  /\ Tail(st) \in Seq(Jobs) /\ Head(st) \in Jobs
           /\ Datas(st) # <<>> /\ Datas(st) \in Seq(Seq(Nat))
           /\ Head(Datas(st)) = Head(st).data /\ Datas(Tail(st)) = Tail(Datas(st))
           /\ \A op : Awaits(st, op) <=> Awaits(Tail(st), op) \/ Head(st).op = op
           /\ \A op : Once(st, op) => Once(Tail(st), op) /\ (Head(st).op = op => ~ Awaits(Tail(st), op))
<1> DEFINE new == Tail(st)
<1>1. /\ new \in Seq(Jobs) /\ Head(st) \in Jobs /\ Len(st) \in Nat \ {0} /\ Len(new) = Len(st) - 1
      /\ Head(st) = st[1]
      /\ \A i \in 1 .. Len(new) : new[i] = st[i + 1]
  OBVIOUS
<1>2. Datas(st) \in Seq(Seq(Nat)) /\ Len(Datas(st)) = Len(st) /\ \A i \in 1 .. Len(st) : Datas(st)[i] = st[i].data
  <2>1. \A i \in 1 .. Len(st) : st[i].data \in Seq(Nat)
    BY DEF Jobs
  <2> QED BY <2>1 DEF Datas
<1>3. Datas(new) \in Seq(Seq(Nat)) /\ Len(Datas(new)) = Len(new) /\ \A i \in 1 .. Len(new) : Datas(new)[i] = new[i].data
  <2>1. \A i \in 1 .. Len(new) : new[i].data \in Seq(Nat)
    BY <1>1 DEF Jobs
  <2>2. DOMAIN new = 1 .. Len(new) /\ Len(new) \in Nat
    BY <1>1
  <2> HIDE DEF new
  <2>3. Datas(new) = [i \in 1 .. Len(new) |-> new[i].data]
    BY <2>2 DEF Datas
  <2> QED BY <2>1, <2>2, <2>3
<1> HIDE DEF new
<1>4. Datas(st) # <<>> /\ Head(Datas(st)) = Head(st).data
  BY <1>1, <1>2
<1>5. Datas(new) = Tail(Datas(st))
  <2> DEFINE y == Tail(Datas(st))
             x == Datas(new)
  <2>1. y \in Seq(Seq(Nat)) /\ Len(y) = Len(st) - 1 /\ \A i \in 1 .. Len(y) : y[i] = Datas(st)[i + 1]
    BY <1>2, <1>4
  <2> HIDE DEF x, y
  <2>2. ASSUME NEW i \in 1 .. Len(new) PROVE x[i] = y[i]
    <3>1. i + 1 \in 1 .. Len(st) /\ i \in 1 .. Len(y)
      BY <1>1, <2>1
    <3>2. y[i] = st[i + 1].data
      BY <1>2, <2>1, <3>1
    <3>3. x[i] = new[i].data /\ new[i] = st[i + 1]
      BY <1>1, <1>3 DEF x
    <3> QED BY <3>2, <3>3
  <2>3. x = y
    <3>1. x \in Seq(Seq(Nat)) /\ Len(x) = Len(new)
      BY <1>3 DEF x
    <3> QED BY <1>1, <2>1, <2>2, <3>1, SeqEqual
  <2> QED BY <2>3 DEF x, y
<1>6. /\ \A i \in DOMAIN new : i + 1 \in DOMAIN st /\ st[i + 1] = new[i]
      /\ \A i \in DOMAIN st : i = 1 \/ (i - 1 \in DOMAIN new /\ new[i - 1] = st[i])
      /\ 1 \in DOMAIN st /\ st[1] = Head(st) /\ DOMAIN new \subseteq Nat \ {0}
  BY <1>1
<1>7. \A op : Awaits(st, op) <=> Awaits(new, op) \/ Head(st).op = op
  BY <1>6 DEF Awaits
<1>8. ASSUME NEW op, Once(st, op) PROVE Once(new, op) /\ (Head(st).op = op => ~ Awaits(new, op))
  <2>1. Once(new, op)
    <3> SUFFICES ASSUME NEW i \in DOMAIN new, NEW j \in DOMAIN new, new[i].op = op, new[j].op = op
                 PROVE  i = j
      BY DEF Once
    <3>1. i + 1 = j + 1
      BY <1>6, <1>8 DEF Once
    <3> QED BY <1>6, <3>1
  <2>2. ASSUME Head(st).op = op, NEW i \in DOMAIN new, new[i].op = op PROVE FALSE
    <3>1. i + 1 = 1
      BY <1>6, <1>8, <2>2 DEF Once
    <3> QED BY <1>6, <3>1
  <2> QED BY <2>1, <2>2 DEF Awaits
<1> QED BY <1>1, <1>2, <1>4, <1>5, <1>7, <1>8 DEF new

-----------------------------------------------------------------------------
(* One session *)

(* A write has failed: nothing will be written any more.                   *)
Failed(st, pending, wr) == pending /\ ~ wr /\ ~ Awaits(st, "WriteDone")

(* The bytes after the a-th are in the write, in the queue and in the      *)
(* tasks, in this order.                                                   *)
Kept(st, wr, buf, q, n, a) ==
    \E m, e \in Nat :
        /\ a <= m /\ m <= e /\ e <= n
        /\ IF wr THEN buf = Bytes(a, m) ELSE m = a
        /\ Follow(q, m, e)
        /\ Follow(Datas(st), e, n)

(* At most one of a write and its completion is under way, and neither nor *)
(* a queue without _sendPending.                                           *)
Ordered(st, pending, wr, buf, q, n, w) ==
    /\ Once(st, "WriteDone")
    /\ ~ pending => ~ wr /\ ~ Awaits(st, "WriteDone") /\ q = <<>>
    /\ wr => ~ Awaits(st, "WriteDone")
    /\ \E a \in Nat : /\ a <= n /\ w = Bytes(0, a)
                      /\ Failed(st, pending, wr) \/ Kept(st, wr, buf, q, n, a)

(* Any other task may be posted, ...                                       *)
LEMMA PostKeeps ==
    ASSUME NEW st \in Seq(Jobs), NEW p \in BOOLEAN, NEW wr \in BOOLEAN, NEW buf,
           NEW q, NEW n \in Nat, NEW w, NEW t \in Jobs,
           t.op \notin {"Send", "WriteDone"}, Ordered(st, p, wr, buf, q, n, w)
    PROVE  /\ Ordered(Append(st, t), p, wr, buf, q, n, w)
           /\ Failed(Append(st, t), p, wr) <=> Failed(st, p, wr)
           /\ Awaits(Append(st, t), "Send") <=> Awaits(st, "Send")
<1> DEFINE new == Append(st, t)
<1>1. /\ Awaits(new, "WriteDone") <=> Awaits(st, "WriteDone")
      /\ Awaits(new, "Send") <=> Awaits(st, "Send")
      /\ Once(st, "WriteDone") => Once(new, "WriteDone")
      /\ Datas(new) = Append(Datas(st), <<>>)
      /\ Datas(st) \in Seq(Seq(Nat))
  <2>1. t.data = <<>>
    BY DEF Jobs
  <2> QED BY <2>1, PostedJob
<1> HIDE DEF new
<1>2. ASSUME NEW a \in Nat, Kept(st, wr, buf, q, n, a) PROVE Kept(new, wr, buf, q, n, a)
  <2>1. PICK m, e \in Nat : /\ a <= m /\ m <= e /\ e <= n
                            /\ IF wr THEN buf = Bytes(a, m) ELSE m = a
                            /\ Follow(q, m, e)
                            /\ Follow(Datas(st), e, n)
    BY <1>2 DEF Kept
  <2>2. Follow(Append(Datas(st), Bytes(n, n)), e, n)
    BY <1>1, <2>1, FollowAppend
  <2>3. Bytes(n, n) = <<>>
    BY NoBytes
  <2> QED BY <1>1, <2>1, <2>2, <2>3 DEF Kept
<1> QED BY <1>1, <1>2 DEF Ordered, Failed, new

(* ... and run.                                                            *)
LEMMA PopKeeps ==
    ASSUME NEW st \in Seq(Jobs), NEW p \in BOOLEAN, NEW wr \in BOOLEAN, NEW buf,
           NEW q, NEW n \in Nat, NEW w, st # <<>>,
           Head(st).op \notin {"Send", "WriteDone"}, Ordered(st, p, wr, buf, q, n, w)
    PROVE  /\ Ordered(Tail(st), p, wr, buf, q, n, w)
           /\ Failed(Tail(st), p, wr) <=> Failed(st, p, wr)
           /\ Awaits(Tail(st), "Send") <=> Awaits(st, "Send")
<1> DEFINE new == Tail(st)
<1>1. /\ Awaits(new, "WriteDone") <=> Awaits(st, "WriteDone")
      /\ Awaits(new, "Send") <=> Awaits(st, "Send")
      /\ Once(st, "WriteDone") => Once(new, "WriteDone")
      /\ Datas(new) = Tail(Datas(st)) /\ Head(Datas(st)) = <<>>
      /\ Datas(st) \in Seq(Seq(Nat)) /\ Datas(st) # <<>>
  <2>1. Head(st) \in Jobs => Head(st).data = <<>>
    BY DEF Jobs
  <2> QED BY <2>1, RunJob
<1> HIDE DEF new
<1>2. ASSUME NEW a \in Nat, Kept(st, wr, buf, q, n, a) PROVE Kept(new, wr, buf, q, n, a)
  <2>1. PICK m, e \in Nat : /\ a <= m /\ m <= e /\ e <= n
                            /\ IF wr THEN buf = Bytes(a, m) ELSE m = a
                            /\ Follow(q, m, e)
                            /\ Follow(Datas(st), e, n)
    BY <1>2 DEF Kept
  <2>2. PICK b \in Nat : /\ e <= b /\ b <= n /\ Head(Datas(st)) = Bytes(e, b)
                         /\ Follow(Tail(Datas(st)), b, n)
    BY <1>1, <2>1, FollowTail
  <2>3. b = e
    BY <1>1, <2>2, NoBytes
  <2> QED BY <1>1, <2>1, <2>2, <2>3 DEF Kept
<1> QED BY <1>1, <1>2 DEF Ordered, Failed, new

(* Send gives the next bytes.                                              *)
LEMMA SendKeeps ==
    ASSUME NEW st \in Seq(Jobs), NEW p \in BOOLEAN, NEW wr \in BOOLEAN, NEW buf,
           NEW q, NEW n \in Nat, NEW w, NEW end \in Nat, n <= end, NEW t \in Jobs,
           t.op = "Send", t.data = Bytes(n, end), Ordered(st, p, wr, buf, q, n, w)
    PROVE  /\ Ordered(Append(st, t), p, wr, buf, q, end, w)
           /\ Failed(Append(st, t), p, wr) <=> Failed(st, p, wr)
<1> DEFINE new == Append(st, t)
<1>1. /\ Awaits(new, "WriteDone") <=> Awaits(st, "WriteDone")
      /\ Once(st, "WriteDone") => Once(new, "WriteDone")
      /\ Datas(new) = Append(Datas(st), Bytes(n, end))
      /\ Datas(st) \in Seq(Seq(Nat))
  BY PostedJob
<1> HIDE DEF new
<1>2. ASSUME NEW a \in Nat, Kept(st, wr, buf, q, n, a) PROVE Kept(new, wr, buf, q, end, a)
  <2>1. PICK m, e \in Nat : /\ a <= m /\ m <= e /\ e <= n
                            /\ IF wr THEN buf = Bytes(a, m) ELSE m = a
                            /\ Follow(q, m, e)
                            /\ Follow(Datas(st), e, n)
    BY <1>2 DEF Kept
  <2>2. e <= end
    BY <2>1
  <2>3. Follow(Append(Datas(st), Bytes(n, end)), e, end)
    BY <1>1, <2>1, <2>2, FollowAppend
  <2> QED BY <1>1, <2>1, <2>2, <2>3 DEF Kept
<1>3. \A a \in Nat : a <= n => a <= end
  OBVIOUS
<1> QED BY <1>1, <1>2, <1>3 DEF Ordered, Failed, new

(* A write that completes puts its bytes on the wire.                      *)
LEMMA WriteCompletesKeeps ==
    ASSUME NEW st \in Seq(Jobs), NEW p \in BOOLEAN, NEW buf,
           NEW q \in Seq(Seq(Nat)), NEW n \in Nat, NEW w, NEW t \in Jobs,
           t.op = "WriteDone", Ordered(st, p, TRUE, buf, q, n, w)
    PROVE  /\ Ordered(Append(st, t), p, FALSE, buf, q, n, w \o buf)
           /\ ~ Failed(Append(st, t), p, FALSE)
           /\ Awaits(Append(st, t), "Send") <=> Awaits(st, "Send")
<1> DEFINE new == Append(st, t)
<1>1. /\ Awaits(new, "WriteDone") /\ ~ Awaits(st, "WriteDone")
      /\ Awaits(new, "Send") <=> Awaits(st, "Send")
      /\ Once(new, "WriteDone") /\ p
      /\ Datas(new) = Append(Datas(st), <<>>)
      /\ Datas(st) \in Seq(Seq(Nat))
  <2>1. t.data = <<>>
    BY DEF Jobs
  <2>2. Once(st, "WriteDone") /\ ~ Awaits(st, "WriteDone") /\ p
    BY DEF Ordered
  <2> QED BY <2>1, <2>2, PostedJob
<1> HIDE DEF new
<1>2. PICK a \in Nat : a <= n /\ w = Bytes(0, a) /\ Kept(st, TRUE, buf, q, n, a)
  BY DEF Ordered, Failed
<1>3. PICK m, e \in Nat : /\ a <= m /\ m <= e /\ e <= n
                          /\ buf = Bytes(a, m)
                          /\ Follow(q, m, e)
                          /\ Follow(Datas(st), e, n)
  BY <1>2 DEF Kept
<1>4. Follow(Append(Datas(st), Bytes(n, n)), e, n)
  BY <1>1, <1>3, FollowAppend
<1>5. Bytes(n, n) = <<>>
  BY NoBytes
<1>6. w \o buf = Bytes(0, m)
  <2>1. 0 \in Nat /\ 0 <= a
    OBVIOUS
  <2>2. Bytes(0, a) \o Bytes(a, m) = Bytes(0, m)
    BY <1>3, <2>1, BytesMeet
  <2> QED BY <1>2, <1>3, <2>2
<1>7. m <= n
  BY <1>3
<1>8. Kept(new, FALSE, buf, q, n, m)
  BY <1>1, <1>3, <1>4, <1>5 DEF Kept
<1> QED BY <1>1, <1>6, <1>7, <1>8 DEF Ordered, Failed, new

(* One that fails is the last.                                             *)
LEMMA WriteFailsKeeps ==
    ASSUME NEW st \in Seq(Jobs), NEW p \in BOOLEAN, NEW buf,
           NEW q, NEW n \in Nat, NEW w, NEW t \in Jobs,
           t.op \notin {"Send", "WriteDone"}, Ordered(st, p, TRUE, buf, q, n, w)
    PROVE  /\ Ordered(Append(st, t), p, FALSE, buf, q, n, w)
           /\ Awaits(Append(st, t), "Send") <=> Awaits(st, "Send")
<1> DEFINE new == Append(st, t)
<1>1. /\ ~ Awaits(new, "WriteDone") /\ Once(new, "WriteDone") /\ p
      /\ Awaits(new, "Send") <=> Awaits(st, "Send")
  <2>1. Once(st, "WriteDone") /\ ~ Awaits(st, "WriteDone") /\ p
    BY DEF Ordered
  <2> QED BY <2>1, PostedJob
<1> HIDE DEF new
<1>2. PICK a \in Nat : a <= n /\ w = Bytes(0, a)
  BY DEF Ordered
<1> QED BY <1>1, <1>2 DEF Ordered, Failed, new

(* What is sent while a write is pending waits.                            *)
LEMMA QueueKeeps ==
    ASSUME NEW st \in Seq(Jobs), NEW wr \in BOOLEAN, NEW buf,
           NEW q \in Seq(Seq(Nat)), NEW n \in Nat, NEW w, st # <<>>,
           Head(st).op = "Send", Ordered(st, TRUE, wr, buf, q, n, w)
    PROVE  /\ Ordered(Tail(st), TRUE, wr, buf, Append(q, Head(st).data), n, w)
           /\ Failed(Tail(st), TRUE, wr) <=> Failed(st, TRUE, wr)
<1> DEFINE new == Tail(st)
<1>1. /\ Awaits(new, "WriteDone") <=> Awaits(st, "WriteDone")
      /\ Once(st, "WriteDone") => Once(new, "WriteDone")
      /\ Datas(new) = Tail(Datas(st)) /\ Head(Datas(st)) = Head(st).data
      /\ Datas(st) \in Seq(Seq(Nat)) /\ Datas(st) # <<>>
  BY RunJob
<1> HIDE DEF new
<1>2. ASSUME NEW a \in Nat, Kept(st, wr, buf, q, n, a)
      PROVE  Kept(new, wr, buf, Append(q, Head(st).data), n, a)
  <2>1. PICK m, e \in Nat : /\ a <= m /\ m <= e /\ e <= n
                            /\ IF wr THEN buf = Bytes(a, m) ELSE m = a
                            /\ Follow(q, m, e)
                            /\ Follow(Datas(st), e, n)
    BY <1>2 DEF Kept
  <2>2. PICK b \in Nat : /\ e <= b /\ b <= n /\ Head(Datas(st)) = Bytes(e, b)
                         /\ Follow(Tail(Datas(st)), b, n)
    BY <1>1, <2>1, FollowTail
  <2>3. Follow(Append(q, Bytes(e, b)), m, b)
    BY <2>1, <2>2, FollowAppend
  <2>4. m <= b
    BY <2>1, <2>2
  <2> QED BY <1>1, <2>1, <2>2, <2>3, <2>4 DEF Kept
<1> QED BY <1>1, <1>2 DEF Ordered, Failed, new

(* What StartWrite writes of its bytes and what waits.                     *)
FirstOf(data) == SubSeq(data, 1, Min({MaxWrite, Len(data)}))
RestOf(data) == IF Len(data) > MaxWrite THEN <<SubSeq(data, MaxWrite + 1, Len(data))>> ELSE <<>>

(* The bytes of a write and of the rest that waits are those it is given.  *)
LEMMA WriteCuts ==
    ASSUME NEW a \in Nat, NEW b \in Nat, a <= b, MaxWrite \in Nat \ {0},
           NEW data, data = Bytes(a, b)
    PROVE  \E m \in Nat :
              /\ a <= m /\ m <= b
              /\ FirstOf(data) = Bytes(a, m)
              /\ Follow(RestOf(data), m, b)
<1>1. Len(data) = b - a /\ b - a \in Nat
  <2>1. Len(Bytes(a, b)) = b - a
    BY BytesType
  <2> QED BY <2>1
<1>2. CASE Len(data) > MaxWrite
  <2>1. Min({MaxWrite, Len(data)}) = MaxWrite
    BY <1>1, <1>2 DEF Min
  <2>2. /\ SubSeq(Bytes(a, b), 1, MaxWrite) = Bytes(a, a + MaxWrite)
        /\ SubSeq(Bytes(a, b), MaxWrite + 1, b - a) = Bytes(a + MaxWrite, b)
    <3>1. MaxWrite \in Nat /\ MaxWrite <= b - a
      BY <1>1, <1>2
    <3> QED BY <3>1, BytesCut
  <2>3. a + MaxWrite \in Nat /\ a <= a + MaxWrite /\ a + MaxWrite <= b
    BY <1>1, <1>2
  <2>4. Follow(<<Bytes(a + MaxWrite, b)>>, a + MaxWrite, b)
    BY <2>3, FollowFew
  <2> QED BY <1>1, <1>2, <2>1, <2>2, <2>3, <2>4 DEF FirstOf, RestOf
<1>3. CASE ~ (Len(data) > MaxWrite)
  <2>1. Min({MaxWrite, Len(data)}) = b - a
    BY <1>1, <1>3 DEF Min
  <2>2. SubSeq(Bytes(a, b), 1, b - a) = Bytes(a, a + (b - a))
    BY <1>1, BytesCut
  <2>3. a + (b - a) = b
    OBVIOUS
  <2>4. Follow(<<>>, b, b)
    BY FollowFew
  <2> QED BY <1>1, <1>3, <2>1, <2>2, <2>3, <2>4 DEF FirstOf, RestOf
<1> QED BY <1>2, <1>3

(* What is sent while no write is pending is written.                      *)
LEMMA FirstKeeps ==
    ASSUME NEW st \in Seq(Jobs), NEW wr \in BOOLEAN, NEW buf, MaxWrite \in Nat \ {0},
           NEW q, NEW n \in Nat, NEW w, st # <<>>,
           Head(st).op = "Send", Ordered(st, FALSE, wr, buf, q, n, w)
    PROVE  Ordered(Tail(st), TRUE, TRUE, FirstOf(Head(st).data), RestOf(Head(st).data), n, w)
<1> DEFINE new == Tail(st)
           data == Head(st).data
           first == FirstOf(data)
           rest == RestOf(data)
<1>1. /\ ~ Awaits(new, "WriteDone") /\ Once(new, "WriteDone")
      /\ Datas(new) = Tail(Datas(st)) /\ Head(Datas(st)) = data
      /\ Datas(st) \in Seq(Seq(Nat)) /\ Datas(st) # <<>>
  <2>1. Once(st, "WriteDone") /\ ~ Awaits(st, "WriteDone")
    BY DEF Ordered
  <2> QED BY <2>1, RunJob
<1> HIDE DEF new
<1>2. PICK a \in Nat : a <= n /\ w = Bytes(0, a) /\ Kept(st, FALSE, buf, <<>>, n, a)
  BY DEF Ordered, Failed
<1>3. PICK m, e \in Nat : /\ m = a /\ e <= n /\ Follow(<<>>, m, e) /\ Follow(Datas(st), e, n)
  BY <1>2 DEF Kept
<1>4. e = a
  BY <1>3, FollowFew
<1>5. PICK b \in Nat : /\ e <= b /\ b <= n /\ Head(Datas(st)) = Bytes(e, b)
                       /\ Follow(Tail(Datas(st)), b, n)
  BY <1>1, <1>3, FollowTail
<1>6. PICK c \in Nat : a <= c /\ c <= b /\ first = Bytes(a, c) /\ Follow(rest, c, b)
  BY <1>1, <1>4, <1>5, WriteCuts
<1> HIDE DEF first, rest
<1>7. Kept(new, TRUE, first, rest, n, a)
  BY <1>1, <1>5, <1>6 DEF Kept
<1>8. Ordered(new, TRUE, TRUE, first, rest, n, w)
  BY <1>1, <1>2, <1>7 DEF Ordered
<1> QED BY <1>8 DEF new, first, rest

(* The completion of a write runs while _sendPending and no write is.       *)
LEMMA DoneIsPending ==
    ASSUME NEW st \in Seq(Jobs), NEW p \in BOOLEAN, NEW wr \in BOOLEAN, NEW buf, NEW q,
           NEW n, NEW w, st # <<>>,
           Head(st).op = "WriteDone", Ordered(st, p, wr, buf, q, n, w)
    PROVE  p = TRUE /\ wr = FALSE
<1>1. Awaits(st, "WriteDone")
  BY RunJob
<1> QED BY <1>1 DEF Ordered

(* After a write all that has waited is written, ...                       *)
LEMMA NextKeeps ==
    ASSUME NEW st \in Seq(Jobs), NEW buf, MaxWrite \in Nat \ {0},
           NEW q \in Seq(Seq(Nat)), NEW n \in Nat, NEW w, st # <<>>,
           Head(st).op = "WriteDone", Ordered(st, TRUE, FALSE, buf, q, n, w)
    PROVE  /\ FlattenSeq(q) \in Seq(Nat)
           /\ Ordered(Tail(st), TRUE, TRUE, FirstOf(FlattenSeq(q)), RestOf(FlattenSeq(q)), n, w)
           /\ q = <<>> => Ordered(Tail(st), FALSE, FALSE, <<>>, q, n, w)
<1> DEFINE new == Tail(st)
           data == FlattenSeq(q)
           first == FirstOf(data)
           rest == RestOf(data)
<1>1. /\ Awaits(st, "WriteDone") /\ ~ Awaits(new, "WriteDone") /\ Once(new, "WriteDone")
      /\ Datas(new) = Tail(Datas(st)) /\ Head(Datas(st)) = <<>>
      /\ Datas(st) \in Seq(Seq(Nat)) /\ Datas(st) # <<>>
  <2>1. Once(st, "WriteDone")
    BY DEF Ordered
  <2>2. Head(st) \in Jobs => Head(st).data = <<>>
    BY DEF Jobs
  <2> QED BY <2>1, <2>2, RunJob
<1> HIDE DEF new
<1>3. PICK a \in Nat : a <= n /\ w = Bytes(0, a) /\ Kept(st, FALSE, buf, q, n, a)
  BY <1>1 DEF Ordered, Failed
<1>4. PICK m, e \in Nat : m = a /\ a <= e /\ e <= n /\ Follow(q, m, e) /\ Follow(Datas(st), e, n)
  BY <1>3 DEF Kept
<1>5. PICK b \in Nat : /\ e <= b /\ b <= n /\ Head(Datas(st)) = Bytes(e, b)
                       /\ Follow(Tail(Datas(st)), b, n)
  BY <1>1, <1>4, FollowTail
<1>6. b = e
  BY <1>1, <1>5, NoBytes
<1>7. data = Bytes(a, e)
  BY <1>4, FollowFlat
<1>f. data \in Seq(Nat)
  BY <1>4, <1>7, BytesType
<1>8. PICK c \in Nat : a <= c /\ c <= e /\ first = Bytes(a, c) /\ Follow(rest, c, e)
  BY <1>4, <1>7, WriteCuts
<1> HIDE DEF first, rest
<1>9. Ordered(new, TRUE, TRUE, first, rest, n, w)
  <2>1. Kept(new, TRUE, first, rest, n, a)
    BY <1>1, <1>4, <1>5, <1>6, <1>8 DEF Kept
  <2> QED BY <1>1, <1>3, <2>1 DEF Ordered
<1>10. ASSUME q = <<>> PROVE Ordered(new, FALSE, FALSE, <<>>, q, n, w)
  <2>1. Kept(new, FALSE, <<>>, q, n, a)
    BY <1>1, <1>4, <1>5, <1>6 DEF Kept
  <2> QED BY <1>1, <1>3, <1>10, <2>1 DEF Ordered
<1> QED BY <1>1, <1>f, <1>9, <1>10 DEF new, first, rest

-----------------------------------------------------------------------------
(* All sessions *)

SessionTypes ==
    /\ accepted \in Nat
    /\ held \in [Session -> BOOLEAN]
    /\ socket \in [Session -> {"none", "open", "closed"}]
    /\ peer \in [Session -> {"none", "up", "left", "gone"}]
    /\ strand \in [Session -> Seq(Jobs)]
    /\ writing \in [Session -> BOOLEAN]
    /\ sendPending \in [Session -> BOOLEAN]
    /\ sendBuffer \in [Session -> Seq(Nat)]
    /\ sendWaitQueue \in [Session -> Seq(Seq(Nat))]
    /\ submitted \in [Session -> Nat]
    /\ wire \in [Session -> Seq(Nat)]

(* The bytes of a session are in order.                                    *)
InOrder(s) ==
    Ordered(strand[s], sendPending[s], writing[s], sendBuffer[s], sendWaitQueue[s],
            submitted[s], wire[s])

(* No write of a connection that is well fails.                            *)
FailsWhenLost(s) ==
    Failed(strand[s], sendPending[s], writing[s]) => socket[s] = "closed" \/ peer[s] # "up"

(* Nothing is sent before a session is accepted.                           *)
NothingSent(s) ==
    s > accepted => ~ held[s] /\ ~ sendPending[s] /\ ~ Awaits(strand[s], "Send")

SessionInv == SessionTypes /\ \A s \in Session : InOrder(s) /\ FailsWhenLost(s) /\ NothingSent(s)

(* The next task of a session, and a task behind the others.               *)
Other(op) == op \in Ops \ {"Send", "WriteDone"}
PopsOther(st, new) == st # <<>> /\ Other(Head(st).op) /\ new = Tail(st)
PostsOther(st, new) == \E op : Other(op) /\ new = Append(st, Task(op))

(* A step that has nothing to do with the bytes.                           *)
Aside ==
    /\ UNCHANGED <<wire, submitted, sendVars, writing>>
    /\ strand' \in [Session -> Seq(Jobs)]
    /\ held' \in [Session -> BOOLEAN]
    /\ socket' \in [Session -> {"none", "open", "closed"}]
    /\ peer' \in [Session -> {"none", "up", "left", "gone"}]
    /\ accepted' \in Nat /\ accepted <= accepted'
    /\ \A s \in Session :
          /\ \/ strand'[s] = strand[s]
             \/ PopsOther(strand[s], strand'[s])
             \/ PostsOther(strand[s], strand'[s])
          /\ held'[s] => held[s] \/ s <= accepted
          /\ socket[s] = "closed" \/ peer[s] # "up" =>
                socket'[s] = "closed" \/ peer'[s] # "up" \/ s > accepted

(* The tasks that are not a Send carry nothing.                            *)
LEMMA TaskIsJob == \A op : Other(op) => Task(op) \in Jobs /\ Task(op).op = op
BY DEF Task, Jobs, Other

(* Such a step keeps the bytes in order.                                   *)
LEMMA AsideKeeps == SessionInv /\ Aside => SessionInv'
<1> SUFFICES ASSUME SessionInv, Aside PROVE SessionInv'
  OBVIOUS
<1>1. SessionTypes'
  BY DEF SessionInv, SessionTypes, Aside, sendVars
<1>2. ASSUME NEW s \in Session PROVE InOrder(s)' /\ FailsWhenLost(s)' /\ NothingSent(s)'
  <2> DEFINE st == strand[s]
             new == strand'[s]
             p == sendPending[s]
             wr == writing[s]
             buf == sendBuffer[s]
             q == sendWaitQueue[s]
             n == submitted[s]
             w == wire[s]
  <2>1. st \in Seq(Jobs) /\ p \in BOOLEAN /\ wr \in BOOLEAN /\ n \in Nat
    BY DEF SessionInv, SessionTypes
  <2>2. Ordered(st, p, wr, buf, q, n, w)
    BY DEF SessionInv, InOrder
  <2>3. st = new \/ PopsOther(st, new) \/ PostsOther(st, new)
    BY DEF Aside
  <2>4. UNCHANGED <<p, wr, buf, q, n, w>>
    BY DEF Aside, sendVars
  <2> HIDE DEF st, new, p, wr, buf, q, n, w
  <2>5. /\ Ordered(new, p, wr, buf, q, n, w)
        /\ Failed(new, p, wr) <=> Failed(st, p, wr)
        /\ Awaits(new, "Send") <=> Awaits(st, "Send")
    <3>1. CASE PopsOther(st, new)
      BY <2>1, <2>2, <3>1, PopKeeps DEF PopsOther, Other
    <3>2. CASE PostsOther(st, new)
      <4>1. PICK op : Other(op) /\ new = Append(st, Task(op))
        BY <3>2 DEF PostsOther
      <4>2. Task(op) \in Jobs /\ Task(op).op \notin {"Send", "WriteDone"}
        BY <4>1, TaskIsJob DEF Other
      <4> QED BY <2>1, <2>2, <4>1, <4>2, PostKeeps
    <3> QED BY <2>2, <2>3, <3>1, <3>2
  <2>6. InOrder(s)'
    BY <2>4, <2>5 DEF InOrder, new, p, wr, buf, q, n, w
  <2>7. FailsWhenLost(s) /\ NothingSent(s)
    BY DEF SessionInv
  <2>8. /\ accepted \in Nat /\ accepted' \in Nat /\ accepted <= accepted' /\ s \in Nat
        /\ held'[s] => held[s] \/ s <= accepted
        /\ socket[s] = "closed" \/ peer[s] # "up" =>
              socket'[s] = "closed" \/ peer'[s] # "up" \/ s > accepted
    BY DEF SessionInv, SessionTypes, Aside, Session
  <2>9. FailsWhenLost(s)'
    BY <2>4, <2>5, <2>7, <2>8 DEF FailsWhenLost, NothingSent, Failed, st, new, p, wr
  <2>10. NothingSent(s)'
    BY <2>4, <2>5, <2>7, <2>8 DEF NothingSent, st, new, p
  <2> QED BY <2>6, <2>9, <2>10
<1> QED BY <1>1, <1>2 DEF SessionInv

(* What posting and running another task changes.                          *)
LEMMA Posts ==
    ASSUME SessionTypes, NEW s, NEW op, Other(op), strand' = Posted(s, Task(op))
    PROVE  /\ strand' \in [Session -> Seq(Jobs)]
           /\ \A r \in Session : strand'[r] = strand[r] \/ PostsOther(strand[r], strand'[r])
<1>1. Task(op) \in Jobs
  BY TaskIsJob
<1>2. strand \in [Session -> Seq(Jobs)]
  BY DEF SessionTypes
<1>3. \A st \in Seq(Jobs) : Append(st, Task(op)) \in Seq(Jobs)
  BY <1>1
<1>4. strand' = [strand EXCEPT ![s] = Append(@, Task(op))]
  BY DEF Posted
<1>5. strand' \in [Session -> Seq(Jobs)]
  BY <1>2, <1>3, <1>4
<1>6. \A r \in Session : strand'[r] = IF r = s THEN Append(strand[r], Task(op)) ELSE strand[r]
  BY <1>2, <1>4
<1>7. ASSUME NEW r \in Session PROVE strand'[r] = strand[r] \/ PostsOther(strand[r], strand'[r])
  BY <1>6, Zenon DEF PostsOther
<1> QED BY <1>5, <1>7

(* The same of running it.                                                 *)
LEMMA Pops ==
    ASSUME SessionTypes, NEW s \in Session, NEW op, Other(op), Runs(s, op), strand' = Popped(s)
    PROVE  /\ strand' \in [Session -> Seq(Jobs)]
           /\ \A r \in Session : strand'[r] = strand[r] \/ PopsOther(strand[r], strand'[r])
<1>1. strand[s] # <<>> /\ Head(strand[s]).op = op
  BY DEF Runs
<1>2. strand \in [Session -> Seq(Jobs)]
  BY DEF SessionTypes
<1>3. Tail(strand[s]) \in Seq(Jobs)
  BY <1>1, <1>2
<1>4. strand' = [strand EXCEPT ![s] = Tail(@)]
  BY DEF Popped
<1>5. strand' \in [Session -> Seq(Jobs)]
  BY <1>2, <1>3, <1>4
<1>6. \A r \in Session : strand'[r] = IF r = s THEN Tail(strand[r]) ELSE strand[r]
  BY <1>2, <1>4
<1> QED BY <1>1, <1>5, <1>6 DEF PopsOther

(* The steps of the acceptor and of Shutdown.                              *)
LEMMA AcceptorIsAside ==
    ASSUME WriteAssumption, SessionTypes, Accept \/ Connect \/ CancelAccept \/ CloseAll
    PROVE  Aside
<1>o. Other("StartReceive") /\ Other("Run") /\ Other("Close")
  BY DEF Other, Ops
<1> USE DEF Aside, acceptVars, tableVars, socketVars, sendVars, eventVars
<1>1. CASE AcceptSession
  <2>1. /\ strand' \in [Session -> Seq(Jobs)]
        /\ \A r \in Session : strand'[r] = strand[r] \/ PostsOther(strand[r], strand'[r])
    BY <1>1, <1>o, Posts DEF AcceptSession
  <2>2. PICK keeps \in BOOLEAN : held' = [held EXCEPT ![accepted] = keeps]
    BY <1>1 DEF AcceptSession
  <2>3. accepted \in Nat /\ \A s \in Session : s \in Nat
    BY DEF Session, SessionTypes
  <2>4. held' \in [Session -> BOOLEAN] /\ \A s \in Session : held'[s] => held[s] \/ s <= accepted
    <3>1. held \in [Session -> BOOLEAN]
      BY DEF SessionTypes
    <3>2. held' \in [Session -> BOOLEAN]
      BY <2>2, <3>1
    <3>3. \A s \in Session : s # accepted => held'[s] = held[s]
      BY <2>2, <3>1
    <3>4. \A s \in Session : s = accepted => s <= accepted
      BY <2>3
    <3> QED BY <3>2, <3>3, <3>4
  <2>5. UNCHANGED <<wire, submitted, sendVars, writing, socket, peer, accepted>>
    BY <1>1 DEF AcceptSession
  <2>6. /\ socket \in [Session -> {"none", "open", "closed"}]
        /\ peer \in [Session -> {"none", "up", "left", "gone"}]
        /\ accepted <= accepted
    BY <2>3 DEF SessionTypes
  <2> QED BY <2>1, <2>3, <2>4, <2>5, <2>6
<1>2. CASE AcceptNext
  <2>1. /\ strand' \in [Session -> Seq(Jobs)]
        /\ \A r \in Session : strand'[r] = strand[r] \/ PostsOther(strand[r], strand'[r])
    BY <1>2, <1>o, Posts DEF AcceptNext
  <2> QED BY <1>2, <2>1 DEF AcceptNext, SessionTypes
<1>3. CASE AcceptAborted
  BY <1>3 DEF AcceptAborted, SessionTypes
<1>4. CASE Connect
  BY <1>4 DEF Connect, Session, SessionTypes
<1>5. CASE CancelAccept
  BY <1>5 DEF CancelAccept, SessionTypes
<1>6. CASE CloseAll
  <2>1. Task("Close") \in Jobs
    BY <1>o, TaskIsJob
  <2>2. \A s \in Session : strand[s] \in Seq(Jobs) /\ Append(strand[s], Task("Close")) \in Seq(Jobs)
    BY <2>1 DEF SessionTypes
  <2>3. strand' = [s \in Session |-> IF s \in table
                                     THEN Append(strand[s], Task("Close")) ELSE strand[s]]
    BY <1>6 DEF CloseAll
  <2>4. strand' \in [Session -> Seq(Jobs)]
    BY <2>2, <2>3
  <2>5. ASSUME NEW r \in Session PROVE strand'[r] = strand[r] \/ PostsOther(strand[r], strand'[r])
    <3>1. strand'[r] = strand[r] \/ strand'[r] = Append(strand[r], Task("Close"))
      BY <2>3
    <3> QED BY <1>o, <3>1, Zenon DEF PostsOther
  <2> QED BY <1>6, <2>4, <2>5 DEF CloseAll, SessionTypes
<1> QED BY <1>1, <1>2, <1>3, <1>4, <1>5, <1>6 DEF Accept

(* The steps of a strand and of Run that send nothing.                     *)
LEMMA StrandIsAside ==
    ASSUME SessionTypes, NEW s \in Session,
           \/ StartReceive(s) \/ ReadDone(s) \/ IoFailed(s) \/ Close(s) \/ Resume(s)
           \/ Wait(s) \/ OnReceive(s) \/ OnError(s) \/ OnDestruct(s)
    PROVE  Aside
<1>o. \A op \in Ops \ {"Send", "WriteDone"} : Other(op)
  BY DEF Other
<1>p. \A op \in Ops \ {"Send", "WriteDone"} : Runs(s, op) /\ strand' = Popped(s) =>
         /\ strand' \in [Session -> Seq(Jobs)]
         /\ \A r \in Session : strand'[r] = strand[r] \/ PopsOther(strand[r], strand'[r])
  BY <1>o, Pops
<1> USE DEF Aside, acceptVars, tableVars, socketVars, sendVars, eventVars
<1>1. CASE StartReceive(s)
  <2>1. /\ strand' \in [Session -> Seq(Jobs)]
        /\ \A r \in Session : strand'[r] = strand[r] \/ PopsOther(strand[r], strand'[r])
    BY <1>1, <1>p DEF StartReceive, Ops
  <2> QED BY <1>1, <2>1 DEF StartReceive, SessionTypes
<1>2. CASE ReadDone(s)
  <2>1. /\ strand' \in [Session -> Seq(Jobs)]
        /\ \A r \in Session : strand'[r] = strand[r] \/ PopsOther(strand[r], strand'[r])
    BY <1>2, <1>p DEF ReadDone, Ops
  <2> QED BY <1>2, <2>1 DEF ReadDone, SessionTypes
<1>3. CASE IoFailed(s)
  <2>1. /\ strand' \in [Session -> Seq(Jobs)]
        /\ \A r \in Session : strand'[r] = strand[r] \/ PopsOther(strand[r], strand'[r])
    BY <1>3, <1>p DEF IoFailed, Ops
  <2> QED BY <1>3, <2>1 DEF IoFailed, SessionTypes
<1>4. CASE Close(s)
  <2>1. /\ strand' \in [Session -> Seq(Jobs)]
        /\ \A r \in Session : strand'[r] = strand[r] \/ PopsOther(strand[r], strand'[r])
    BY <1>4, <1>p DEF Close, Ops
  <2>2. socket' = [socket EXCEPT ![s] = "closed"]
    BY <1>4 DEF Close
  <2>3. /\ socket' \in [Session -> {"none", "open", "closed"}]
        /\ \A r \in Session : socket[r] = "closed" => socket'[r] = "closed"
    BY <2>2 DEF SessionTypes
  <2>4. UNCHANGED <<wire, submitted, sendVars, writing, held, peer, accepted>>
    BY <1>4 DEF Close
  <2> QED BY <2>1, <2>3, <2>4 DEF SessionTypes
<1>5. CASE Resume(s)
  <2>1. /\ strand' \in [Session -> Seq(Jobs)]
        /\ \A r \in Session : strand'[r] = strand[r] \/ PopsOther(strand[r], strand'[r])
    BY <1>5, <1>p DEF Resume, Ops
  <2> QED BY <1>5, <2>1 DEF Resume, SessionTypes
<1>6. CASE Wait(s)
  BY <1>6 DEF Wait, SessionTypes
<1>7. CASE OnReceive(s)
  <2>1. /\ strand' \in [Session -> Seq(Jobs)]
        /\ \A r \in Session : strand'[r] = strand[r] \/ PostsOther(strand[r], strand'[r])
    <3>1. CASE UNCHANGED strand
      BY <3>1 DEF SessionTypes
    <3>2. CASE strand' = Posted(s, Task("Close"))
      <4>1. Other("Close")
        BY <1>o DEF Ops
      <4> QED BY <3>2, <4>1, Posts
    <3> QED BY <1>7, <3>1, <3>2 DEF OnReceive
  <2> QED BY <1>7, <2>1 DEF OnReceive, SessionTypes
<1>8. CASE OnError(s)
  BY <1>8 DEF OnError, SessionTypes
<1>9. CASE OnDestruct(s)
  BY <1>9 DEF OnDestruct, SessionTypes
<1> QED BY <1>1, <1>2, <1>3, <1>4, <1>5, <1>6, <1>7, <1>8, <1>9

(* The steps of the network, of the derived servers and of ~Session that   *)
(* send nothing.                                                           *)
LEMMA OthersAreAside ==
    ASSUME SessionTypes, NEW s \in Session,
           ReadCompletes(s) \/ PeerLeaves(s) \/ ReadFails(s) \/ UserClose(s) \/ UserDrops(s) \/ Destruct(s)
    PROVE  Aside
<1>o. Other("ReadDone") /\ Other("ReadError") /\ Other("Close") /\ Other("Resume")
  BY DEF Other, Ops
<1> USE DEF Aside, acceptVars, tableVars, socketVars, sendVars, eventVars
<1>1. CASE ReadCompletes(s)
  <2>1. /\ strand' \in [Session -> Seq(Jobs)]
        /\ \A r \in Session : strand'[r] = strand[r] \/ PostsOther(strand[r], strand'[r])
    BY <1>1, <1>o, Posts DEF ReadCompletes
  <2> QED BY <1>1, <2>1 DEF ReadCompletes, SessionTypes
<1>2. CASE PeerLeaves(s)
  BY <1>2 DEF PeerLeaves, SessionTypes
<1>3. CASE ReadFails(s)
  <2>1. /\ strand' \in [Session -> Seq(Jobs)]
        /\ \A r \in Session : strand'[r] = strand[r] \/ PostsOther(strand[r], strand'[r])
    BY <1>3, <1>o, Posts DEF ReadFails
  <2> QED BY <1>3, <2>1 DEF ReadFails, SessionTypes
<1>4. CASE UserClose(s)
  <2>1. /\ strand' \in [Session -> Seq(Jobs)]
        /\ \A r \in Session : strand'[r] = strand[r] \/ PostsOther(strand[r], strand'[r])
    BY <1>4, <1>o, Posts DEF UserClose
  <2> QED BY <1>4, <2>1 DEF UserClose, SessionTypes
<1>5. CASE UserDrops(s)
  BY <1>5 DEF UserDrops, SessionTypes
<1>6. CASE Destruct(s)
  <2>1. /\ strand' \in [Session -> Seq(Jobs)]
        /\ \A r \in Session : strand'[r] = strand[r] \/ PostsOther(strand[r], strand'[r])
    <3>1. CASE UNCHANGED strand
      BY <3>1 DEF SessionTypes
    <3>2. CASE strand' = Posted(s, Task("Resume"))
      BY <1>o, <3>2, Posts
    <3> QED BY <1>6, <3>1, <3>2 DEF Destruct
  <2>2. socket' = [socket EXCEPT ![s] = "closed"]
    BY <1>6 DEF Destruct
  <2>3. /\ socket' \in [Session -> {"none", "open", "closed"}]
        /\ \A r \in Session : socket[r] = "closed" => socket'[r] = "closed"
    BY <2>2 DEF SessionTypes
  <2>4. UNCHANGED <<wire, submitted, sendVars, writing, held, peer, accepted>>
    BY <1>6 DEF Destruct
  <2> QED BY <2>1, <2>3, <2>4 DEF SessionTypes
<1> QED BY <1>1, <1>2, <1>3, <1>4, <1>5, <1>6

(* The steps that move bytes: a step at one session leaves the others.     *)
LEMMA OneSession ==
    ASSUME SessionInv, SessionTypes', NEW s \in Session,
           InOrder(s)', FailsWhenLost(s)', NothingSent(s)',
           UNCHANGED <<accepted, held, socket, peer>>,
           \A r \in Session \ {s} :
              UNCHANGED <<strand[r], sendPending[r], writing[r], sendBuffer[r], sendWaitQueue[r],
                          submitted[r], wire[r]>>
    PROVE  SessionInv'
<1>1. ASSUME NEW r \in Session, r # s PROVE InOrder(r)' /\ FailsWhenLost(r)' /\ NothingSent(r)'
  <2>1. /\ strand'[r] = strand[r] /\ sendPending'[r] = sendPending[r] /\ writing'[r] = writing[r]
        /\ sendBuffer'[r] = sendBuffer[r] /\ sendWaitQueue'[r] = sendWaitQueue[r]
        /\ submitted'[r] = submitted[r] /\ wire'[r] = wire[r]
    BY <1>1
  <2>2. InOrder(r) /\ FailsWhenLost(r) /\ NothingSent(r)
    BY DEF SessionInv
  <2> QED BY <2>1, <2>2 DEF InOrder, FailsWhenLost, NothingSent
<1> QED BY <1>1 DEF SessionInv

(* Send posts the next bytes.                                              *)
LEMMA UserSendKeeps ==
    ASSUME WriteAssumption, SessionInv, NEW s \in Session, NEW size \in Sizes, UserSend(s, size)
    PROVE  SessionInv'
<1> DEFINE st == strand[s]
           n == submitted[s]
           data == [k \in 1 .. size |-> n + k]
           t == [op |-> "Send", data |-> data]
<1>1. SessionTypes /\ size \in Nat /\ n \in Nat /\ st \in Seq(Jobs)
  BY DEF SessionInv, SessionTypes, WriteAssumption
<1>2. data = Bytes(n, n + size) /\ data \in Seq(Nat)
  <2>1. (n + size) - n = size
    BY <1>1
  <2>2. data = Bytes(n, n + size)
    BY <2>1 DEF Bytes
  <2>3. n + size \in Nat /\ n <= n + size
    BY <1>1
  <2> QED BY <1>1, <2>2, <2>3, BytesType
<1> HIDE DEF data
<1>3. t \in Jobs /\ t.op = "Send" /\ t.data = Bytes(n, n + size)
  BY <1>2 DEF Jobs, Ops
<1>4. strand' = [strand EXCEPT ![s] = Append(@, t)] /\ submitted' = [submitted EXCEPT ![s] = @ + size]
  BY DEF UserSend, Posted, data
<1>5. /\ UNCHANGED <<accepted, held, socket, peer, writing, wire, sendPending, sendBuffer, sendWaitQueue>>
      /\ held[s]
  BY DEF UserSend, acceptVars, socketVars, sendVars
<1> HIDE DEF t
<1>6. Append(st, t) \in Seq(Jobs)
  BY <1>1, <1>3
<1>7. SessionTypes'
  <2>1. strand' \in [Session -> Seq(Jobs)]
    BY <1>1, <1>4, <1>6 DEF SessionTypes
  <2>2. submitted' \in [Session -> Nat]
    BY <1>1, <1>4 DEF SessionTypes
  <2> QED BY <1>1, <1>5, <2>1, <2>2 DEF SessionTypes
<1>8. /\ strand'[s] = Append(st, t) /\ submitted'[s] = n + size
      /\ \A r \in Session \ {s} : strand'[r] = strand[r] /\ submitted'[r] = submitted[r]
  BY <1>1, <1>4 DEF SessionTypes
<1>9. InOrder(s) /\ FailsWhenLost(s) /\ NothingSent(s)
  BY DEF SessionInv
<1> HIDE DEF st, n
<1>10. /\ Ordered(Append(st, t), sendPending[s], writing[s], sendBuffer[s], sendWaitQueue[s],
                  n + size, wire[s])
       /\ Failed(Append(st, t), sendPending[s], writing[s])
             <=> Failed(st, sendPending[s], writing[s])
  <2> DEFINE p == sendPending[s]
             wr == writing[s]
             buf == sendBuffer[s]
             q == sendWaitQueue[s]
             w == wire[s]
  <2>1. Ordered(st, p, wr, buf, q, n, w)
    BY <1>9 DEF InOrder, st, n
  <2>2. p \in BOOLEAN /\ wr \in BOOLEAN
    BY <1>1 DEF SessionTypes
  <2> HIDE DEF p, wr, buf, q, w
  <2> DEFINE end == n + size
  <2>3. st \in Seq(Jobs) /\ n \in Nat /\ end \in Nat /\ n <= end
    BY <1>1
  <2>4. t \in Jobs /\ t.op = "Send" /\ t.data = Bytes(n, end)
    BY <1>3
  <2> HIDE DEF end
  <2>5. /\ Ordered(Append(st, t), p, wr, buf, q, end, w)
        /\ Failed(Append(st, t), p, wr) <=> Failed(st, p, wr)
    BY <2>1, <2>2, <2>3, <2>4, SendKeeps
  <2> QED BY <2>5 DEF p, wr, buf, q, w, end
<1>11. InOrder(s)'
  BY <1>5, <1>8, <1>10 DEF InOrder
<1>12. FailsWhenLost(s)'
  BY <1>5, <1>8, <1>9, <1>10 DEF FailsWhenLost, st
<1>13. NothingSent(s)'
  BY <1>5, <1>9 DEF NothingSent
<1> QED BY <1>5, <1>7, <1>8, <1>11, <1>12, <1>13, OneSession

(* A write ends.                                                           *)
LEMMA WriteEndKeeps ==
    ASSUME SessionInv, NEW s \in Session, WriteCompletes(s) \/ WriteFails(s)
    PROVE  SessionInv'
<1> DEFINE st == strand[s]
           n == submitted[s]
<1>1. /\ SessionTypes /\ n \in Nat /\ st \in Seq(Jobs) /\ wire[s] \in Seq(Nat)
      /\ sendPending[s] \in BOOLEAN /\ sendBuffer[s] \in Seq(Nat) /\ sendWaitQueue[s] \in Seq(Seq(Nat))
  BY DEF SessionInv, SessionTypes
<1>2. InOrder(s) /\ FailsWhenLost(s) /\ NothingSent(s)
  BY DEF SessionInv
<1>3. writing[s] = TRUE
  BY <1>1 DEF WriteCompletes, WriteFails, SessionTypes
<1>4. /\ Task("WriteDone") \in Jobs /\ Task("WriteDone").op = "WriteDone"
      /\ Task("WriteError") \in Jobs /\ Task("WriteError").op = "WriteError"
  BY DEF Task, Jobs, Ops
<1>5. /\ UNCHANGED <<accepted, held, socket, peer, submitted, sendPending, sendBuffer, sendWaitQueue>>
      /\ writing' = [writing EXCEPT ![s] = FALSE]
  BY DEF WriteCompletes, WriteFails, acceptVars, sendVars
<1>6. Ordered(st, sendPending[s], TRUE, sendBuffer[s], sendWaitQueue[s], n, wire[s])
  BY <1>2, <1>3 DEF InOrder
<1>7. sendPending[s]
  BY <1>6 DEF Ordered
<1>8. CASE WriteCompletes(s)
  <2> DEFINE t == Task("WriteDone")
  <2>1. strand' = [strand EXCEPT ![s] = Append(@, t)] /\ wire' = [wire EXCEPT ![s] = @ \o sendBuffer[s]]
    BY <1>8 DEF WriteCompletes, Posted
  <2> HIDE DEF t
  <2>2. Append(st, t) \in Seq(Jobs) /\ wire[s] \o sendBuffer[s] \in Seq(Nat)
    BY <1>1, <1>4 DEF t
  <2>3. SessionTypes'
    <3>1. strand' \in [Session -> Seq(Jobs)]
      BY <1>1, <2>1, <2>2 DEF SessionTypes
    <3>2. wire' \in [Session -> Seq(Nat)]
      BY <1>1, <2>1, <2>2 DEF SessionTypes
    <3>3. writing' \in [Session -> BOOLEAN]
      BY <1>1, <1>5 DEF SessionTypes
    <3> QED BY <1>1, <1>5, <3>1, <3>2, <3>3 DEF SessionTypes
  <2>4. /\ strand'[s] = Append(st, t) /\ wire'[s] = wire[s] \o sendBuffer[s] /\ writing'[s] = FALSE
        /\ \A r \in Session \ {s} : strand'[r] = strand[r] /\ wire'[r] = wire[r] /\ writing'[r] = writing[r]
    BY <1>1, <1>5, <2>1 DEF SessionTypes
  <2>5. /\ Ordered(Append(st, t), sendPending[s], FALSE, sendBuffer[s], sendWaitQueue[s], n,
                   wire[s] \o sendBuffer[s])
        /\ ~ Failed(Append(st, t), sendPending[s], FALSE)
    BY <1>1, <1>4, <1>6, WriteCompletesKeeps DEF t
  <2>6. InOrder(s)'
    BY <1>5, <2>4, <2>5 DEF InOrder
  <2>7. FailsWhenLost(s)'
    BY <1>5, <2>4, <2>5 DEF FailsWhenLost
  <2>8. NothingSent(s)'
    BY <1>2, <1>5, <1>7 DEF NothingSent
  <2> QED BY <1>5, <2>3, <2>4, <2>6, <2>7, <2>8, OneSession
<1>9. CASE WriteFails(s)
  <2> DEFINE t == Task("WriteError")
  <2>1. strand' = [strand EXCEPT ![s] = Append(@, t)] /\ wire' = wire
    BY <1>9 DEF WriteFails, Posted
  <2> HIDE DEF t
  <2>2. Append(st, t) \in Seq(Jobs)
    BY <1>1, <1>4 DEF t
  <2>3. SessionTypes'
    <3>1. strand' \in [Session -> Seq(Jobs)]
      BY <1>1, <2>1, <2>2 DEF SessionTypes
    <3>2. writing' \in [Session -> BOOLEAN]
      BY <1>1, <1>5 DEF SessionTypes
    <3> QED BY <1>1, <1>5, <2>1, <3>1, <3>2 DEF SessionTypes
  <2>4. /\ strand'[s] = Append(st, t) /\ writing'[s] = FALSE
        /\ \A r \in Session \ {s} : strand'[r] = strand[r] /\ writing'[r] = writing[r]
    BY <1>1, <1>5, <2>1 DEF SessionTypes
  <2>5. Ordered(Append(st, t), sendPending[s], FALSE, sendBuffer[s], sendWaitQueue[s], n, wire[s])
    BY <1>1, <1>4, <1>6, WriteFailsKeeps DEF t
  <2>6. InOrder(s)'
    BY <1>5, <2>1, <2>4, <2>5 DEF InOrder
  <2>7. FailsWhenLost(s)'
    BY <1>5, <1>9 DEF FailsWhenLost, WriteFails
  <2>8. NothingSent(s)'
    BY <1>2, <1>5, <1>7 DEF NothingSent
  <2> QED BY <1>5, <2>1, <2>3, <2>4, <2>6, <2>7, <2>8, OneSession
<1> QED BY <1>8, <1>9

(* A write that starts.                                                    *)
LEMMA StartKeeps ==
    ASSUME WriteAssumption, SessionInv, NEW s \in Session, NEW data \in Seq(Nat),
           StartWrite(s, data), NothingSent(s)',
           UNCHANGED <<accepted, held, socket, peer, submitted, wire>>,
           strand' \in [Session -> Seq(Jobs)],
           \A r \in Session \ {s} : strand'[r] = strand[r],
           Ordered(strand'[s], TRUE, TRUE, FirstOf(data), RestOf(data), submitted[s], wire[s])
    PROVE  SessionInv'
<1> DEFINE first == FirstOf(data)
           rest == RestOf(data)
<1>1. SessionTypes
  BY DEF SessionInv
<1>2. first \in Seq(Nat) /\ rest \in Seq(Seq(Nat))
  <2>1. MaxWrite \in Nat \ {0} /\ Len(data) \in Nat
    BY DEF WriteAssumption
  <2>2. Min({MaxWrite, Len(data)}) \in Nat /\ Min({MaxWrite, Len(data)}) <= Len(data)
    <3>1. CASE MaxWrite <= Len(data)
      <4>1. Min({MaxWrite, Len(data)}) = MaxWrite
        BY <2>1, <3>1 DEF Min
      <4> QED BY <2>1, <3>1, <4>1
    <3>2. CASE ~ (MaxWrite <= Len(data))
      <4>1. Min({MaxWrite, Len(data)}) = Len(data)
        BY <2>1, <3>2 DEF Min
      <4> QED BY <2>1, <4>1
    <3> QED BY <3>1, <3>2
  <2>3. \A i, j \in Nat : i >= 1 /\ j <= Len(data) => SubSeq(data, i, j) \in Seq(Nat)
    <3> TAKE i, j \in Nat
    <3> HAVE i >= 1 /\ j <= Len(data)
    <3>1. \A k \in i .. j : data[k] \in Nat
      OBVIOUS
    <3> QED BY <3>1, SubSeqProperties
  <2>4. first \in Seq(Nat)
    <3> DEFINE most == Min({MaxWrite, Len(data)})
    <3>1. most \in Nat /\ most <= Len(data)
      BY <2>2
    <3> HIDE DEF most
    <3>2. SubSeq(data, 1, most) \in Seq(Nat)
      BY <2>3, <3>1
    <3> QED BY <3>2 DEF most, FirstOf
  <2>5. SubSeq(data, MaxWrite + 1, Len(data)) \in Seq(Nat)
    <3>1. MaxWrite + 1 \in Nat /\ MaxWrite + 1 >= 1
      BY <2>1
    <3> QED BY <2>1, <2>3, <3>1
  <2>6. rest \in Seq(Seq(Nat))
    <3> DEFINE tail == SubSeq(data, MaxWrite + 1, Len(data))
    <3>1. tail \in Seq(Nat)
      BY <2>5
    <3> HIDE DEF tail
    <3>2. <<tail>> \in Seq(Seq(Nat)) /\ <<>> \in Seq(Seq(Nat))
      BY <3>1
    <3> QED BY <3>2 DEF tail, RestOf
  <2> HIDE DEF first, rest
  <2> QED BY <2>4, <2>6
<1>3. /\ sendPending' = [sendPending EXCEPT ![s] = TRUE]
      /\ sendBuffer' = [sendBuffer EXCEPT ![s] = first]
      /\ sendWaitQueue' = [sendWaitQueue EXCEPT ![s] = rest]
      /\ writing' = [writing EXCEPT ![s] = TRUE]
  BY DEF StartWrite, FirstOf, RestOf
<1>4. Ordered(strand'[s], TRUE, TRUE, first, rest, submitted[s], wire[s])
  OBVIOUS
<1> HIDE DEF first, rest
<1>5. /\ sendPending' \in [Session -> BOOLEAN] /\ sendPending'[s] = TRUE
      /\ writing' \in [Session -> BOOLEAN] /\ writing'[s] = TRUE
      /\ \A r \in Session \ {s} : sendPending'[r] = sendPending[r] /\ writing'[r] = writing[r]
  BY <1>1, <1>3 DEF SessionTypes
<1>6. /\ sendBuffer' \in [Session -> Seq(Nat)] /\ sendBuffer'[s] = first
      /\ \A r \in Session \ {s} : sendBuffer'[r] = sendBuffer[r]
  BY <1>1, <1>2, <1>3 DEF SessionTypes
<1>7. /\ sendWaitQueue' \in [Session -> Seq(Seq(Nat))] /\ sendWaitQueue'[s] = rest
      /\ \A r \in Session \ {s} : sendWaitQueue'[r] = sendWaitQueue[r]
  BY <1>1, <1>2, <1>3 DEF SessionTypes
<1>8. SessionTypes'
  BY <1>1, <1>5, <1>6, <1>7 DEF SessionTypes
<1>9. InOrder(s)'
  BY <1>4, <1>5, <1>6, <1>7 DEF InOrder
<1>10. FailsWhenLost(s)'
  BY <1>5 DEF FailsWhenLost, Failed
<1> QED BY <1>5, <1>6, <1>7, <1>8, <1>9, <1>10, OneSession

(* A posted Send runs.                                                     *)
LEMMA SendAsyncKeeps ==
    ASSUME WriteAssumption, SessionInv, NEW s \in Session, SendAsync(s)
    PROVE  SessionInv'
<1> DEFINE st == strand[s]
           n == submitted[s]
           data == Head(st).data
           first == FirstOf(data)
           rest == RestOf(data)
<1>1. /\ SessionTypes /\ n \in Nat /\ st \in Seq(Jobs) /\ st # <<>> /\ Head(st).op = "Send"
      /\ sendPending[s] \in BOOLEAN /\ writing[s] \in BOOLEAN /\ sendWaitQueue[s] \in Seq(Seq(Nat))
  BY DEF SessionInv, SessionTypes, SendAsync, Runs
<1>2. InOrder(s) /\ FailsWhenLost(s) /\ NothingSent(s)
  BY DEF SessionInv
<1>3. Tail(st) \in Seq(Jobs) /\ data \in Seq(Nat)
  <2>1. Head(st) \in Jobs /\ Tail(st) \in Seq(Jobs)
    BY <1>1, RunJob
  <2> QED BY <2>1 DEF Jobs
<1>4. /\ strand' = [strand EXCEPT ![s] = Tail(@)]
      /\ UNCHANGED <<accepted, held, socket, peer, submitted, wire>>
  BY DEF SendAsync, Popped, acceptVars
<1>5. strand' \in [Session -> Seq(Jobs)] /\ strand'[s] = Tail(st)
  BY <1>1, <1>3, <1>4 DEF SessionTypes
<1>6. \A r \in Session \ {s} : strand'[r] = strand[r]
  BY <1>1, <1>4 DEF SessionTypes
<1>7. s <= accepted
  <2>1. Awaits(st, "Send")
    BY <1>1, RunJob
  <2>2. s \in Nat /\ accepted \in Nat
    BY <1>1 DEF SessionTypes, Session
  <2> QED BY <1>2, <2>1, <2>2 DEF NothingSent
<1>8. NothingSent(s)'
  <2>1. s \in Nat /\ accepted \in Nat /\ accepted' = accepted
    BY <1>1, <1>4 DEF SessionTypes, Session
  <2> QED BY <1>7, <2>1 DEF NothingSent
<1>9. CASE sendPending[s]
  <2>1. /\ sendWaitQueue' = [sendWaitQueue EXCEPT ![s] = Append(@, data)]
        /\ UNCHANGED <<sendPending, sendBuffer, writing>>
    BY <1>9 DEF SendAsync, Queued
  <2>2. /\ Ordered(Tail(st), TRUE, writing[s], sendBuffer[s], Append(sendWaitQueue[s], data), n, wire[s])
        /\ Failed(Tail(st), TRUE, writing[s]) <=> Failed(st, TRUE, writing[s])
    <3>1. sendPending[s] = TRUE
      BY <1>1, <1>9
    <3>2. Ordered(st, TRUE, writing[s], sendBuffer[s], sendWaitQueue[s], n, wire[s])
      BY <1>2, <3>1 DEF InOrder
    <3> HIDE DEF st, n
    <3> QED BY <1>1, <3>2, QueueKeeps
  <2> HIDE DEF data
  <2>3. Append(sendWaitQueue[s], data) \in Seq(Seq(Nat))
    BY <1>1, <1>3
  <2>4. /\ sendWaitQueue' \in [Session -> Seq(Seq(Nat))]
        /\ sendWaitQueue'[s] = Append(sendWaitQueue[s], data)
        /\ \A r \in Session \ {s} : sendWaitQueue'[r] = sendWaitQueue[r]
    BY <1>1, <2>1, <2>3 DEF SessionTypes
  <2>5. sendPending'[s] = TRUE /\ sendPending[s] = TRUE
    BY <1>1, <1>9, <2>1
  <2>6. SessionTypes'
    BY <1>1, <1>4, <1>5, <2>1, <2>4 DEF SessionTypes
  <2>7. InOrder(s)'
    BY <1>4, <1>5, <2>1, <2>2, <2>4, <2>5 DEF InOrder
  <2>8. FailsWhenLost(s)'
    BY <1>2, <1>4, <1>5, <2>1, <2>2, <2>5 DEF FailsWhenLost
  <2> QED BY <1>4, <1>6, <1>8, <2>1, <2>4, <2>6, <2>7, <2>8, OneSession
<1>10. CASE ~ sendPending[s]
  <2>1. StartWrite(s, data)
    BY <1>10 DEF SendAsync
  <2>2. Ordered(Tail(st), TRUE, TRUE, first, rest, n, wire[s])
    <3>1. sendPending[s] = FALSE
      BY <1>1, <1>10
    <3>2. Ordered(st, FALSE, writing[s], sendBuffer[s], sendWaitQueue[s], n, wire[s])
      BY <1>2, <3>1 DEF InOrder
    <3>3. MaxWrite \in Nat \ {0}
      BY DEF WriteAssumption
    <3> QED BY <1>1, <3>2, <3>3, FirstKeeps
  <2> QED BY <1>1, <1>3, <1>4, <1>5, <1>6, <1>8, <2>1, <2>2, StartKeeps
<1> QED BY <1>9, <1>10

(* The completion of a write runs.                                         *)
LEMMA OnWriteAsyncKeeps ==
    ASSUME WriteAssumption, SessionInv, NEW s \in Session, OnWriteAsync(s)
    PROVE  SessionInv'
<1> DEFINE st == strand[s]
           n == submitted[s]
           q == sendWaitQueue[s]
           data == FlattenSeq(q)
<1>1. /\ SessionTypes /\ n \in Nat /\ st \in Seq(Jobs) /\ st # <<>> /\ Head(st).op = "WriteDone"
      /\ sendPending[s] \in BOOLEAN /\ writing[s] \in BOOLEAN /\ q \in Seq(Seq(Nat))
  BY DEF SessionInv, SessionTypes, OnWriteAsync, Runs
<1>2. InOrder(s) /\ FailsWhenLost(s) /\ NothingSent(s) /\ MaxWrite \in Nat \ {0}
  BY DEF SessionInv, WriteAssumption
<1>3. Tail(st) \in Seq(Jobs)
  BY <1>1, RunJob
<1>4. /\ strand' = [strand EXCEPT ![s] = Tail(@)]
      /\ UNCHANGED <<accepted, held, socket, peer, submitted, wire>>
  BY DEF OnWriteAsync, Popped, acceptVars
<1>5. strand' \in [Session -> Seq(Jobs)] /\ strand'[s] = Tail(st)
  BY <1>1, <1>3, <1>4 DEF SessionTypes
<1>6. \A r \in Session \ {s} : strand'[r] = strand[r]
  BY <1>1, <1>4 DEF SessionTypes
<1>7. /\ data \in Seq(Nat)
      /\ Ordered(Tail(st), TRUE, TRUE, FirstOf(data), RestOf(data), n, wire[s])
      /\ q = <<>> => Ordered(Tail(st), FALSE, FALSE, <<>>, q, n, wire[s])
      /\ writing[s] = FALSE /\ sendPending[s] = TRUE
  <2>1. Ordered(st, sendPending[s], writing[s], sendBuffer[s], q, n, wire[s])
    BY <1>2 DEF InOrder
  <2> HIDE DEF st, n, q
  <2>2. writing[s] = FALSE /\ sendPending[s] = TRUE
    BY <1>1, <2>1, DoneIsPending
  <2>3. Ordered(st, TRUE, FALSE, sendBuffer[s], q, n, wire[s])
    BY <2>1, <2>2
  <2> QED BY <1>1, <1>2, <2>2, <2>3, NextKeeps
<1>8. NothingSent(s)'
  <2>1. s \in Nat /\ accepted \in Nat /\ accepted' = accepted
    BY <1>1, <1>4 DEF SessionTypes, Session
  <2> QED BY <1>2, <1>7, <2>1 DEF NothingSent
<1>9. CASE q = <<>>
  <2>1. /\ sendPending' = [sendPending EXCEPT ![s] = FALSE]
        /\ sendBuffer' = [sendBuffer EXCEPT ![s] = <<>>]
        /\ UNCHANGED <<sendWaitQueue, writing>>
    BY <1>9 DEF OnWriteAsync
  <2>2. /\ sendPending' \in [Session -> BOOLEAN] /\ sendPending'[s] = FALSE
        /\ \A r \in Session \ {s} : sendPending'[r] = sendPending[r]
    BY <1>1, <2>1 DEF SessionTypes
  <2>3. /\ sendBuffer' \in [Session -> Seq(Nat)] /\ sendBuffer'[s] = <<>>
        /\ \A r \in Session \ {s} : sendBuffer'[r] = sendBuffer[r]
    <3>1. <<>> \in Seq(Nat) /\ sendBuffer \in [Session -> Seq(Nat)]
      BY <1>1 DEF SessionTypes
    <3> QED BY <2>1, <3>1
  <2>4. SessionTypes'
    BY <1>1, <1>4, <1>5, <2>1, <2>2, <2>3 DEF SessionTypes
  <2>5. InOrder(s)'
    BY <1>4, <1>5, <1>7, <1>9, <2>1, <2>2, <2>3 DEF InOrder
  <2>6. FailsWhenLost(s)'
    BY <2>2 DEF FailsWhenLost, Failed
  <2> QED BY <1>4, <1>6, <1>8, <2>1, <2>2, <2>3, <2>4, <2>5, <2>6, OneSession
<1>10. CASE q # <<>>
  <2>1. StartWrite(s, data)
    BY <1>10 DEF OnWriteAsync
  <2> HIDE DEF data
  <2> QED BY <1>1, <1>4, <1>5, <1>6, <1>7, <1>8, <2>1, StartKeeps
<1> QED BY <1>9, <1>10

-----------------------------------------------------------------------------
(* The theorem *)

(* At first nothing has been sent.                                         *)
LEMMA SessionsStart == ServerInit => SessionInv
<1> SUFFICES ASSUME ServerInit PROVE SessionInv
  OBVIOUS
<1>1. SessionTypes
  <2>1. <<>> \in Seq(Jobs) /\ <<>> \in Seq(Nat) /\ <<>> \in Seq(Seq(Nat))
    OBVIOUS
  <2> QED BY <2>1 DEF ServerInit, SessionTypes
<1>2. ASSUME NEW s \in Session PROVE InOrder(s) /\ FailsWhenLost(s) /\ NothingSent(s)
  <2>1. /\ strand[s] = <<>> /\ ~ sendPending[s] /\ ~ writing[s] /\ sendWaitQueue[s] = <<>>
        /\ submitted[s] = 0 /\ wire[s] = <<>> /\ ~ held[s]
    BY DEF ServerInit
  <2>2. ~ Awaits(<<>>, "WriteDone") /\ ~ Awaits(<<>>, "Send") /\ Once(<<>>, "WriteDone")
    BY DEF Awaits, Once
  <2>3. Bytes(0, 0) = <<>> /\ Datas(<<>>) = <<>>
    <3>1. Bytes(0, 0) = <<>>
      BY NoBytes
    <3> QED BY <3>1 DEF Datas
  <2>4. Follow(<<>>, 0, 0)
    BY FollowFew
  <2>5. Kept(<<>>, writing[s], sendBuffer[s], <<>>, 0, 0)
    BY <2>1, <2>3, <2>4 DEF Kept
  <2>6. InOrder(s)
    BY <2>1, <2>2, <2>3, <2>5 DEF InOrder, Ordered
  <2> QED BY <2>1, <2>2, <2>6 DEF FailsWhenLost, Failed, NothingSent
<1> QED BY <1>1, <1>2 DEF SessionInv

(* Every step keeps the bytes in order.                                    *)
LEMMA SessionsStep == WriteAssumption /\ SessionInv /\ [ServerNext]_sessionVars => SessionInv'
<1> SUFFICES ASSUME WriteAssumption, SessionInv, [ServerNext]_sessionVars PROVE SessionInv'
  OBVIOUS
<1>1. SessionTypes
  BY DEF SessionInv
<1>2. CASE Accept \/ Connect \/ CancelAccept \/ CloseAll
  BY <1>1, <1>2, AcceptorIsAside, AsideKeeps
<1>3. ASSUME NEW s \in Session, Strand(s) PROVE SessionInv'
  <2>1. CASE SendAsync(s)
    BY <2>1, SendAsyncKeeps
  <2>2. CASE OnWriteAsync(s)
    BY <2>2, OnWriteAsyncKeeps
  <2>3. CASE \/ StartReceive(s) \/ ReadDone(s) \/ IoFailed(s) \/ Close(s) \/ Resume(s)
             \/ Wait(s) \/ OnReceive(s) \/ OnError(s) \/ OnDestruct(s)
    BY <1>1, <2>3, StrandIsAside, AsideKeeps
  <2> QED BY <1>3, <2>1, <2>2, <2>3 DEF Strand
<1>4. ASSUME NEW s \in Session, Network(s) PROVE SessionInv'
  <2>1. CASE WriteCompletes(s) \/ WriteFails(s)
    BY <2>1, WriteEndKeeps
  <2>2. CASE ReadCompletes(s) \/ PeerLeaves(s) \/ ReadFails(s)
    BY <1>1, <2>2, OthersAreAside, AsideKeeps
  <2> QED BY <1>4, <2>1, <2>2 DEF Network
<1>5. ASSUME NEW s \in Session, User(s) \/ Destruct(s) PROVE SessionInv'
  <2>1. ASSUME NEW size \in Sizes, UserSend(s, size) PROVE SessionInv'
    BY <2>1, UserSendKeeps
  <2>2. CASE UserClose(s) \/ UserDrops(s) \/ Destruct(s)
    BY <1>1, <2>2, OthersAreAside, AsideKeeps
  <2> QED BY <1>5, <2>1, <2>2 DEF User
<1>6. CASE UNCHANGED sessionVars
  BY <1>6 DEF SessionInv, SessionTypes, InOrder, FailsWhenLost, NothingSent,
              sessionVars, acceptVars, socketVars, sendVars
<1> QED BY <1>2, <1>3, <1>4, <1>5, <1>6 DEF ServerNext

(* Bytes in order are what the property says of one session.               *)
LEMMA InOrderSuffices ==
    ASSUME SessionInv, NEW s \in Session
    PROVE  LET all == [k \in 1 .. submitted[s] |-> k]
           IN  /\ IsPrefix(wire[s], all)
               /\ socket[s] = "open" /\ peer[s] = "up" => wire[s] \o Unsent(s) = all
<1> DEFINE st == strand[s]
           n == submitted[s]
           q == sendWaitQueue[s]
           all == [k \in 1 .. n |-> k]
<1>1. st \in Seq(Jobs) /\ n \in Nat /\ q \in Seq(Seq(Nat))
  BY DEF SessionInv, SessionTypes
<1>2. InOrder(s) /\ FailsWhenLost(s)
  BY DEF SessionInv
<1>3. all = Bytes(0, n)
  <2>1. n - 0 = n /\ \A k \in 1 .. n : 0 + k = k
    BY <1>1
  <2> QED BY <2>1 DEF Bytes
<1>4. PICK a \in Nat : /\ a <= n /\ wire[s] = Bytes(0, a)
                       /\ \/ Failed(st, sendPending[s], writing[s])
                          \/ Kept(st, writing[s], sendBuffer[s], q, n, a)
  BY <1>2 DEF InOrder, Ordered
<1>5. IsPrefix(wire[s], all)
  <2>1. Len(Bytes(0, a)) = a /\ Len(Bytes(0, n)) = n
    <3>1. Len(Bytes(0, a)) = a - 0 /\ Len(Bytes(0, n)) = n - 0
      <4>1. 0 \in Nat /\ 0 <= a /\ 0 <= n
        BY <1>1
      <4> QED BY <1>1, <4>1, BytesType
    <3> QED BY <1>1, <3>1
  <2>2. SubSeq(Bytes(0, a), 1, a) = Bytes(0, a) /\ SubSeq(Bytes(0, n), 1, a) = Bytes(0, a)
    <3>1. 0 \in Nat /\ a <= a - 0 /\ a <= n - 0 /\ 0 + a = a
      BY <1>1, <1>4
    <3>2. SubSeq(Bytes(0, a), 1, a) = Bytes(0, 0 + a) /\ SubSeq(Bytes(0, n), 1, a) = Bytes(0, 0 + a)
      BY <1>1, <3>1, BytesCut
    <3> QED BY <3>1, <3>2
  <2> HIDE DEF all
  <2> QED BY <1>3, <1>4, <2>1, <2>2 DEF IsPrefix
<1>6. ASSUME socket[s] = "open", peer[s] = "up" PROVE wire[s] \o Unsent(s) = all
  <2>1. Kept(st, writing[s], sendBuffer[s], q, n, a)
    BY <1>2, <1>4, <1>6 DEF FailsWhenLost
  <2>2. PICK m, e \in Nat : /\ a <= m /\ m <= e /\ e <= n
                            /\ IF writing[s] THEN sendBuffer[s] = Bytes(a, m) ELSE m = a
                            /\ Follow(q, m, e)
                            /\ Follow(Datas(st), e, n)
    BY <2>1 DEF Kept
  <2>3. (IF writing[s] THEN sendBuffer[s] ELSE <<>>) = Bytes(a, m)
    BY <2>2, NoBytes
  <2>4. FlattenSeq(q) = Bytes(m, e)
    BY <1>1, <2>2, FollowFlat
  <2>5. FlattenSeq(Datas(st)) = Bytes(e, n)
    <3>1. Datas(st) \in Seq(Seq(Nat))
      BY <1>1, DatasType
    <3> QED BY <1>1, <2>2, <3>1, FollowFlat
  <2>6. Unsent(s) = (Bytes(a, m) \o Bytes(m, e)) \o Bytes(e, n)
    BY <2>3, <2>4, <2>5, Zenon DEF Unsent, Datas
  <2>7. Unsent(s) = Bytes(a, n)
    <3>1. Bytes(a, m) \o Bytes(m, e) = Bytes(a, e)
      BY <2>2, BytesMeet
    <3>2. a <= e
      BY <2>2
    <3>3. Bytes(a, e) \o Bytes(e, n) = Bytes(a, n)
      BY <1>1, <2>2, <3>2, BytesMeet
    <3> QED BY <2>6, <3>1, <3>3
  <2>8. Bytes(0, a) \o Bytes(a, n) = Bytes(0, n)
    <3>1. 0 \in Nat /\ 0 <= a
      OBVIOUS
    <3> QED BY <1>1, <1>4, <3>1, BytesMeet
  <2> HIDE DEF all
  <2> QED BY <1>3, <1>4, <2>7, <2>8
<1> QED BY <1>5, <1>6

(* The inductive invariant of the sessions.                                *)
THEOREM SessionsInvariant == ServerSpec => []SessionInv
<1>1. ServerInit => SessionInv
  BY SessionsStart
<1>2. SessionInv /\ [ServerNext]_sessionVars => SessionInv'
  BY SessionsStep, WriteAssumption
<1> QED BY <1>1, <1>2, PTL DEF ServerSpec

(* What a session writes is what it was given, in that order, however the  *)
(* buffers were queued, merged and cut, whatever the sizes; and as long as *)
(* its connection is well, what is not written yet is not lost.            *)
THEOREM SessionsSendInOrder == ServerSpec => []SentInOrder
<1>1. SessionInv => SentInOrder
  BY InOrderSuffices DEF SentInOrder
<1> QED BY <1>1, SessionsInvariant, PTL

-----------------------------------------------------------------------------
(* What a server hears of a session *)

(* Its HandleAccept has put the session into the table.                    *)
Inserted(s) == s <= accepted /\ (acceptor = "accepted" => s # accepted)

ReportTypes ==
    /\ accepted \in Nat
    /\ reported \in [Session -> BOOLEAN]
    /\ events \in [Session -> Seq({"Receive", "IoError", "Destruct"})]

(* A session that was reported was in the table and is not any more.       *)
ReportInv ==
    /\ ReportTypes
    /\ \A s \in Session : s \in table \/ reported[s] => Inserted(s)
    /\ \A s \in Session : reported[s] => s \notin table

(* A step that neither accepts nor takes an event.                         *)
Unheard ==
    /\ UNCHANGED <<acceptor, accepted, table, reported>>
    /\ events' \in [Session -> Seq({"Receive", "IoError", "Destruct"})]
    /\ \A s \in Session : events'[s] = events[s] \/ \E e : events'[s] = Append(events[s], e)

HearsNothing(s) ==
    /\ reported'[s] /\ s \notin table'
    /\ events[s] # <<>> /\ Head(events[s]) = "Receive" /\ events'[s] = Tail(events[s]) =>
          UNCHANGED <<strand, consumer>>

(* A sequence without its first is another.                                *)
LEMMA TailIsOther ==
    ASSUME NEW S, NEW q \in Seq(S), q # <<>>
    PROVE  Tail(q) # q /\ \A e : Append(q, e) # Tail(q)
<1>1. Len(q) \in Nat \ {0} /\ Len(Tail(q)) = Len(q) - 1
  OBVIOUS
<1>2. Len(q) - 1 # Len(q) /\ Len(q) + 1 # Len(q) - 1
  <2>1. Len(q) \in Int
    BY <1>1
  <2> QED BY <2>1
<1>3. ASSUME NEW e PROVE Append(q, e) # Tail(q)
  <2>1. Len(Append(q, e)) = Len(q) + 1
    OBVIOUS
  <2>2. Len(Append(q, e)) # Len(Tail(q))
    BY <1>1, <1>2, <2>1
  <2> QED BY <2>2
<1>4. Len(Tail(q)) # Len(q)
  BY <1>1, <1>2
<1> QED BY <1>3, <1>4

(* Sending an event puts it behind the others.                             *)
LEMMA OneEventMore ==
    ASSUME ReportTypes, NEW s \in Session, NEW e \in {"Receive", "IoError", "Destruct"},
           events' = [events EXCEPT ![s] = Append(@, e)]
    PROVE  /\ events' \in [Session -> Seq({"Receive", "IoError", "Destruct"})]
           /\ \A r \in Session : events'[r] = events[r] \/ \E x : events'[r] = Append(events[r], x)
<1>1. events \in [Session -> Seq({"Receive", "IoError", "Destruct"})]
  BY DEF ReportTypes
<1>2. Append(events[s], e) \in Seq({"Receive", "IoError", "Destruct"})
  BY <1>1
<1>3. events' \in [Session -> Seq({"Receive", "IoError", "Destruct"})]
  BY <1>1, <1>2
<1>4. \A r \in Session : events'[r] = IF r = s THEN Append(events[r], e) ELSE events[r]
  BY <1>1
<1> QED BY <1>3, <1>4

(* Such a step tells the server nothing.                                   *)
LEMMA UnheardKeeps ==
    ASSUME ReportInv, Unheard
    PROVE  ReportInv' /\ \A s \in Session : reported[s] => HearsNothing(s)
<1>1. ReportInv'
  BY DEF ReportInv, ReportTypes, Unheard, Inserted
<1>2. ASSUME NEW s \in Session, reported[s], events[s] # <<>>, events'[s] = Tail(events[s]) PROVE FALSE
  <2>1. events[s] \in Seq({"Receive", "IoError", "Destruct"})
    BY DEF ReportInv, ReportTypes
  <2>2. Tail(events[s]) # events[s] /\ \A e : Append(events[s], e) # Tail(events[s])
    BY <1>2, <2>1, TailIsOther
  <2>3. events'[s] = events[s] \/ \E e : events'[s] = Append(events[s], e)
    BY DEF Unheard
  <2> QED BY <1>2, <2>2, <2>3
<1>3. ASSUME NEW s \in Session, reported[s] PROVE HearsNothing(s)
  <2>1. reported'[s] /\ s \notin table'
    BY <1>3 DEF ReportInv, Unheard
  <2> QED BY <1>2, <1>3, <2>1 DEF HearsNothing
<1> QED BY <1>1, <1>3

(* The steps of the sessions that hear nothing.                            *)
LEMMA MostAreUnheard ==
    ASSUME ReportTypes, NEW s \in Session,
           \/ StartReceive(s) \/ ReadDone(s) \/ IoFailed(s) \/ SendAsync(s) \/ OnWriteAsync(s)
           \/ Close(s) \/ Resume(s) \/ Wait(s) \/ Network(s) \/ User(s) \/ Destruct(s)
    PROVE  Unheard
<1>1. CASE ReadDone(s)
  <2>1. events' = [events EXCEPT ![s] = Append(@, "Receive")]
    BY <1>1 DEF ReadDone, SendEvent
  <2>2. UNCHANGED <<acceptor, accepted, table, reported>>
    BY <1>1 DEF ReadDone, acceptVars, tableVars
  <2> QED BY <2>1, <2>2, OneEventMore DEF Unheard
<1>2. CASE IoFailed(s)
  <2>1. events' = [events EXCEPT ![s] = Append(@, "IoError")]
    BY <1>2 DEF IoFailed, SendEvent
  <2>2. UNCHANGED <<acceptor, accepted, table, reported>>
    BY <1>2 DEF IoFailed, acceptVars, tableVars
  <2> QED BY <2>1, <2>2, OneEventMore DEF Unheard
<1>3. CASE Destruct(s)
  <2>1. events' = [events EXCEPT ![s] = Append(@, "Destruct")]
    BY <1>3 DEF Destruct
  <2>2. UNCHANGED <<acceptor, accepted, table, reported>>
    BY <1>3 DEF Destruct, acceptVars, tableVars
  <2> QED BY <2>1, <2>2, OneEventMore DEF Unheard
<1>4. CASE \/ StartReceive(s) \/ SendAsync(s) \/ OnWriteAsync(s) \/ Close(s) \/ Resume(s) \/ Wait(s)
  BY <1>4 DEF StartReceive, SendAsync, OnWriteAsync, Close, Resume, Wait,
              Unheard, ReportTypes, acceptVars, tableVars, eventVars
<1>5. CASE Network(s)
  BY <1>5 DEF Network, ReadCompletes, PeerLeaves, ReadFails, WriteCompletes, WriteFails,
              Unheard, ReportTypes, acceptVars, tableVars, eventVars
<1>6. CASE User(s)
  BY <1>6 DEF User, UserClose, UserDrops, UserSend,
              Unheard, ReportTypes, acceptVars, tableVars, eventVars
<1> QED BY <1>1, <1>2, <1>3, <1>4, <1>5, <1>6

(* Accepting, and the events that Run takes.                               *)
LEMMA AcceptorIsHeard ==
    ASSUME ReportInv, Accept \/ Connect \/ CancelAccept \/ CloseAll
    PROVE  ReportInv' /\ \A s \in Session : reported[s] => HearsNothing(s)
<1>1. UNCHANGED <<events, reported>>
  BY DEF Accept, AcceptSession, AcceptNext, AcceptAborted, Connect, CancelAccept, CloseAll,
         tableVars, eventVars
<1>2. /\ accepted \in Nat /\ accepted' \in Nat
      /\ \A s \in Session : Inserted(s) => Inserted(s)' /\ (s \in table' => s \in table)
      /\ \A s \in Session : s \in table' => Inserted(s)'
  <2>1. accepted \in Nat /\ \A s \in Session : s \in Nat /\ (s \in table => Inserted(s))
    BY DEF ReportInv, ReportTypes, Session
  <2>2. CASE AcceptSession
    BY <2>1, <2>2 DEF AcceptSession, Inserted
  <2>3. CASE Connect
    BY <2>1, <2>3 DEF Connect, tableVars, Inserted
  <2>4. CASE AcceptNext \/ AcceptAborted \/ CancelAccept \/ CloseAll
    BY <2>1, <2>4 DEF AcceptNext, AcceptAborted, CancelAccept, CloseAll, tableVars, Inserted
  <2> QED BY <2>2, <2>3, <2>4 DEF Accept
<1>3. ReportInv'
  BY <1>1, <1>2 DEF ReportInv, ReportTypes
<1>4. ASSUME NEW s \in Session, reported[s] PROVE HearsNothing(s)
  <2>1. reported'[s] /\ s \notin table'
    BY <1>1, <1>2, <1>4 DEF ReportInv
  <2>2. events[s] # <<>> => events'[s] # Tail(events[s])
    <3>1. events[s] \in Seq({"Receive", "IoError", "Destruct"})
      BY DEF ReportInv, ReportTypes
    <3>2. events[s] # <<>> => Tail(events[s]) # events[s]
      BY <3>1, TailIsOther
    <3> QED BY <1>1, <3>2
  <2> QED BY <2>1, <2>2 DEF HearsNothing
<1> QED BY <1>3, <1>4

(* Run takes an event.                                                     *)
LEMMA TakesIsHeard ==
    ASSUME ReportInv, NEW s \in Session, OnReceive(s) \/ OnError(s) \/ OnDestruct(s)
    PROVE  ReportInv' /\ \A r \in Session : reported[r] => HearsNothing(r)
<1>1. /\ events \in [Session -> Seq({"Receive", "IoError", "Destruct"})] /\ events[s] # <<>>
      /\ events' = [events EXCEPT ![s] = Tail(@)]
  BY DEF ReportInv, ReportTypes, OnReceive, OnError, OnDestruct, Takes
<1>2. events' \in [Session -> Seq({"Receive", "IoError", "Destruct"})]
  <2>1. Tail(events[s]) \in Seq({"Receive", "IoError", "Destruct"})
    BY <1>1
  <2> QED BY <1>1, <2>1
<1>3. /\ UNCHANGED <<acceptor, accepted>>
      /\ reported' \in [Session -> BOOLEAN]
      /\ \A r \in Session : reported[r] => reported'[r]
      /\ \A r \in Session : r \in table' \/ reported'[r] => r \in table \/ reported[r]
      /\ \A r \in Session : reported'[r] => r \notin table'
  <2>1. reported \in [Session -> BOOLEAN] /\ \A r \in Session : reported[r] => r \notin table
    BY DEF ReportInv, ReportTypes
  <2>2. CASE OnError(s)
    <3>1. /\ table' = table \ {s} /\ reported' = [reported EXCEPT ![s] = @ \/ s \in table]
          /\ UNCHANGED <<acceptor, accepted>>
      BY <2>2 DEF OnError, Erased, FindSession, acceptVars
    <3>2. reported' \in [Session -> BOOLEAN]
      BY <2>1, <3>1
    <3>3. \A r \in Session : reported'[r] = IF r = s THEN reported[r] \/ s \in table ELSE reported[r]
      BY <2>1, <3>1
    <3> QED BY <2>1, <3>1, <3>2, <3>3
  <2>3. CASE OnReceive(s)
    BY <2>1, <2>3 DEF OnReceive, acceptVars, tableVars
  <2>4. CASE OnDestruct(s)
    BY <2>1, <2>4 DEF OnDestruct, acceptVars
  <2> QED BY <2>2, <2>3, <2>4
<1>4. ReportInv'
  BY <1>2, <1>3 DEF ReportInv, ReportTypes, Inserted
<1>5. ASSUME NEW r \in Session, reported[r] PROVE HearsNothing(r)
  <2>1. reported'[r] /\ r \notin table' /\ r \notin table
    BY <1>3, <1>5 DEF ReportInv
  <2>2. ASSUME events[r] # <<>>, Head(events[r]) = "Receive", events'[r] = Tail(events[r])
        PROVE  UNCHANGED <<strand, consumer>>
    <3>1. r = s
      <4>1. events[r] \in Seq({"Receive", "IoError", "Destruct"})
        BY <1>1
      <4>2. Tail(events[r]) # events[r]
        BY <2>2, <4>1, TailIsOther
      <4>3. r # s => events'[r] = events[r]
        BY <1>1
      <4> QED BY <2>2, <4>2, <4>3
    <3>2. ~ OnError(s) /\ ~ OnDestruct(s)
      BY <2>2, <3>1 DEF OnError, OnDestruct, Takes
    <3>3. OnReceive(s)
      BY <3>2
    <3> QED BY <2>1, <3>1, <3>3 DEF OnReceive, FindSession
  <2> QED BY <2>1, <2>2 DEF HearsNothing
<1> QED BY <1>4, <1>5

(* At first nothing is reported.                                           *)
LEMMA ReportStart == ServerInit => ReportInv
BY DEF ServerInit, ReportInv, ReportTypes

(* No step tells a server of a session it was told the loss of.            *)
LEMMA ReportStep ==
    ASSUME ReportInv, ServerNext
    PROVE  ReportInv' /\ \A s \in Session : reported[s] => HearsNothing(s)
<1>1. CASE Accept \/ Connect \/ CancelAccept \/ CloseAll
  BY <1>1, AcceptorIsHeard
<1>2. ASSUME NEW r \in Session, Strand(r) \/ Network(r) \/ User(r) \/ Destruct(r)
      PROVE  ReportInv' /\ \A s \in Session : reported[s] => HearsNothing(s)
  <2>1. CASE OnReceive(r) \/ OnError(r) \/ OnDestruct(r)
    BY <2>1, TakesIsHeard
  <2>2. CASE ~ (OnReceive(r) \/ OnError(r) \/ OnDestruct(r))
    <3>1. ReportTypes
      BY DEF ReportInv
    <3>2. Unheard
      BY <1>2, <2>2, <3>1, MostAreUnheard DEF Strand
    <3> QED BY <3>2, UnheardKeeps
  <2> QED BY <2>1, <2>2
<1> QED BY <1>1, <1>2 DEF ServerNext

(* Once OnError has been called for a session, the session does not come   *)
(* back into the table and its OnReceive is not called again, although     *)
(* events that were sent before or after it are still taken.               *)
THEOREM SessionsStaySilent == ServerSpec => NothingAfterError
<1>1. ServerInit => ReportInv
  BY ReportStart
<1>2. ReportInv /\ [ServerNext]_sessionVars => ReportInv'
  <2>1. ReportInv /\ UNCHANGED sessionVars => ReportInv'
    BY DEF ReportInv, ReportTypes, Inserted, sessionVars, acceptVars, tableVars, eventVars
  <2> QED BY <2>1, ReportStep
<1>3. ReportInv /\ [ServerNext]_sessionVars =>
         [\A s \in Session : reported[s] =>
             /\ reported'[s] /\ s \notin table'
             /\ events[s] # <<>> /\ Head(events[s]) = "Receive" /\ events'[s] = Tail(events[s]) =>
                   UNCHANGED <<strand, consumer>>]_sessionVars
  BY ReportStep DEF HearsNothing
<1> QED BY <1>1, <1>2, <1>3, PTL DEF ServerSpec, NothingAfterError

====
