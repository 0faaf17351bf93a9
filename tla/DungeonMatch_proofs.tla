------------------------- MODULE DungeonMatch_proofs -------------------------
(***************************************************************************)
(* Proofs about DungeonMatch: for every set of users, dungeons and servers, *)
(* every size of a group and every number of groups, queues, groups and     *)
(* users of the match agree, whoever requests, cancels, decides or leaves   *)
(* and however the launches end.                                            *)
(*                                                                         *)
(* MatchInv is inductive.  GroupsAreWhole alone is not: that a new group    *)
(* has as many users as it should needs queues without repetitions          *)
(* (QueueInv), that no user of it is in another needs the numbers of the    *)
(* groups, and that a user whose group is gone has forgotten it needs that  *)
(* a group is in one place (GroupInv).                                      *)
(***************************************************************************)
EXTENDS DungeonMatch, FiniteSetTheorems, SequenceTheorems, TLAPS

-----------------------------------------------------------------------------
(* The invariant *)

(* Waiting users are in the queue of their dungeon, once. *)
Queued(u, d) == \E i \in DOMAIN queue[d] : queue[d][i] = u
QueueInv ==
    /\ \A d \in Dungeons : \A i \in DOMAIN queue[d] :
          LET u == queue[d][i] IN
          u \in DOMAIN match /\ match[u].state = "Waiting" /\ match[u].dungeon = d
    /\ \A d \in Dungeons : \A i, j \in DOMAIN queue[d] : queue[d][i] = queue[d][j] => i = j
    /\ \A u \in DOMAIN match : match[u].state = "Waiting" =>
          match[u].dungeon \in Dungeons /\ Queued(u, match[u].dungeon)
    /\ \A u \in DOMAIN match : match[u].state \in {"Waiting", "Grouped"}

(* Groups are numbered, and in one place; grouped users know their group. *)
Known == DOMAIN group \cup DOMAIN launching \cup failed
GroupInv ==
    /\ \A g \in Known : g \in GroupIds /\ g[2] <= nextGroup[g[1]]
    /\ DOMAIN group \cap DOMAIN launching = {}
    /\ failed \cap (DOMAIN group \cup DOMAIN launching) = {}
    /\ \A g \in DOMAIN launching : launching[g].server \in Servers
    /\ \A u \in DOMAIN match : match[u].state = "Grouped" =>
          \/ match[u].group \in DOMAIN group \cup DOMAIN launching /\ u \in Members(match[u].group)
          \/ match[u].group \in failed
    /\ \A g \in DOMAIN launching : IsApproval(launching[g].users)

MatchInv == TypeOK /\ QueueInv /\ GroupInv /\ GroupsAreWhole

-----------------------------------------------------------------------------
(* Pieces of a queue *)

(* A product grows with its second factor. *)
LEMMA Product ==
    ASSUME NEW a \in Nat, NEW m \in Nat, NEW n \in Nat, m <= n
    PROVE  a * m \in Nat /\ a * n \in Nat /\ a * m <= a * n
<1>1. PICK k \in Nat : n = m + k
  <2>1. n - m \in Nat /\ n = m + (n - m)
    OBVIOUS
  <2> QED BY <2>1
<1>2. a * n = a * m + a * k /\ a * k \in Nat /\ a * m \in Nat
  BY <1>1
<1> QED BY <1>2

(* As many whole groups as fit in a queue of l users take at most l. *)
LEMMA Quotient ==
    ASSUME NEW a \in Nat \ {0}, NEW l \in Nat
    PROVE  l \div a \in Nat /\ a * (l \div a) \in Nat /\ a * (l \div a) <= l
OBVIOUS

(* A piece of a queue without repetitions has as many users as it is long. *)
LEMMA Piece ==
    ASSUME NEW q \in Seq(Users), \A i, j \in DOMAIN q : q[i] = q[j] => i = j,
           NEW m \in Nat, NEW n \in Nat, m <= n, n <= Len(q)
    PROVE  /\ ToSet(SubSeq(q, m + 1, n)) = {q[i] : i \in m + 1 .. n}
           /\ Cardinality(ToSet(SubSeq(q, m + 1, n))) = n - m
           /\ SubSeq(q, m + 1, n) \in Seq(Users) /\ Len(SubSeq(q, m + 1, n)) = n - m
           /\ \A i \in 1 .. n - m : SubSeq(q, m + 1, n)[i] = q[m + i]
<1> DEFINE s == SubSeq(q, m + 1, n)
<1>1. \A i \in m + 1 .. n : q[i] \in Users /\ i \in DOMAIN q
  OBVIOUS
<1>2. s \in Seq(Users) /\ Len(s) = n - m /\ \A i \in 1 .. n - m : s[i] = q[m + i]
  <2>1. m + 1 \in Int /\ n \in Int
    OBVIOUS
  <2>2. /\ s \in Seq(Users) /\ Len(s) = IF m + 1 <= n THEN n - (m + 1) + 1 ELSE 0
        /\ \A i \in 1 .. n - (m + 1) + 1 : s[i] = q[(m + 1) + i - 1]
    BY <1>1, <2>1, SubSeqProperties
  <2> HIDE DEF s
  <2>3. \A i \in 1 .. n - m : (m + 1) + i - 1 = m + i
    OBVIOUS
  <2>4. n - (m + 1) + 1 = n - m /\ (m + 1 <= n \/ n - m = 0)
    OBVIOUS
  <2> QED BY <2>2, <2>3, <2>4
<1> HIDE DEF s
<1>3. ToSet(s) = {q[i] : i \in m + 1 .. n}
  <2>1. DOMAIN s = 1 .. n - m
    BY <1>2
  <2>2. \A i \in 1 .. n - m : m + i \in m + 1 .. n
    OBVIOUS
  <2>3. \A i \in m + 1 .. n : i - m \in 1 .. n - m /\ s[i - m] = q[i]
    BY <1>2
  <2>4. ToSet(s) = {s[i] : i \in 1 .. n - m}
    BY <2>1 DEF ToSet
  <2>5. \A i \in 1 .. n - m : s[i] = q[m + i] /\ m + i \in m + 1 .. n
    BY <1>2, <2>2
  <2>6. \A i \in m + 1 .. n : \E j \in 1 .. n - m : s[j] = q[i]
    BY <2>3
  <2>7. ASSUME NEW x \in {s[i] : i \in 1 .. n - m} PROVE x \in {q[i] : i \in m + 1 .. n}
    <3>1. PICK i \in 1 .. n - m : x = s[i]
      OBVIOUS
    <3>2. PICK j \in m + 1 .. n : x = q[j]
      BY <2>5, <3>1
    <3> QED BY <3>2
  <2>8. ASSUME NEW x \in {q[i] : i \in m + 1 .. n} PROVE x \in {s[i] : i \in 1 .. n - m}
    <3>1. PICK i \in m + 1 .. n : x = q[i]
      OBVIOUS
    <3>2. PICK j \in 1 .. n - m : x = s[j]
      BY <2>6, <3>1
    <3> QED BY <3>2
  <2> QED BY <2>4, <2>7, <2>8
<1>4. Cardinality({q[i] : i \in m + 1 .. n}) = n - m
  <2> DEFINE S == m + 1 .. n
             T == {q[i] : i \in S}
             f == [i \in S |-> q[i]]
  <2>1. f \in Bijection(S, T)
    <3>1. f \in [S -> T] /\ \A t \in T : \E i \in S : f[i] = t
      OBVIOUS
    <3>2. \A i, j \in S : f[i] = f[j] => i = j
      BY <1>1
    <3> QED BY <3>1, <3>2 DEF Bijection, Injection, Surjection, IsInjective
  <2>2. IsFiniteSet(S) /\ Cardinality(S) = n - m
    <3>1. m + 1 \in Int /\ n \in Int
      OBVIOUS
    <3>2. IsFiniteSet(S) /\ Cardinality(S) = IF m + 1 > n THEN 0 ELSE n - (m + 1) + 1
      BY <3>1, FS_Interval
    <3> HIDE DEF S
    <3> QED BY <3>2
  <2> HIDE DEF S, T, f
  <2>3. Cardinality(T) = Cardinality(S)
    BY <2>1, <2>2, FS_Bijection DEF ExistsBijection
  <2> QED BY <2>2, <2>3 DEF S, T
<1> QED BY <1>2, <1>3, <1>4 DEF s

(* One user is taken out of a queue. *)
LEMMA Dequeued ==
    ASSUME NEW q \in Seq(Users), \A i, j \in DOMAIN q : q[i] = q[j] => i = j,
           NEW u, u \in ToSet(q)
    PROVE  /\ Dequeue(q, u) \in Seq(Users)
           /\ \A i, j \in DOMAIN Dequeue(q, u) : Dequeue(q, u)[i] = Dequeue(q, u)[j] => i = j
           /\ ToSet(Dequeue(q, u)) = ToSet(q) \ {u}
<1> DEFINE k == CHOOSE i \in DOMAIN q : q[i] = u
           a == SubSeq(q, 1, k - 1)
           b == SubSeq(q, k + 1, Len(q))
           r == Dequeue(q, u)
<1>1. \E i \in DOMAIN q : q[i] = u
  BY DEF ToSet
<1>2. k \in DOMAIN q /\ q[k] = u
  BY <1>1
<1> HIDE DEF k
<1>3. k \in 1 .. Len(q) /\ Len(q) \in Nat
  BY <1>2
<1>4. a \in Seq(Users) /\ Len(a) = k - 1 /\ \A i \in 1 .. k - 1 : a[i] = q[i]
  <2>1. k - 1 \in Nat /\ 0 <= k - 1 /\ k - 1 <= Len(q) /\ (k - 1) - 0 = k - 1 /\ 0 + 1 = 1
    BY <1>3
  <2>2. a \in Seq(Users) /\ Len(a) = k - 1 /\ \A i \in 1 .. k - 1 : a[i] = q[0 + i]
    BY <2>1, Piece
  <2> QED BY <1>3, <2>2
<1>5. b \in Seq(Users) /\ Len(b) = Len(q) - k /\ \A i \in 1 .. Len(q) - k : b[i] = q[k + i]
  BY <1>3, Piece
<1>6. r = a \o b
  BY DEF Dequeue, RemoveAt, k
<1> HIDE DEF a, b, r
<1>7. /\ r \in Seq(Users) /\ DOMAIN r = 1 .. Len(q) - 1
      /\ \A i \in DOMAIN r : r[i] = q[IF i < k THEN i ELSE i + 1]
  <2>1. r \in Seq(Users) /\ Len(r) = Len(q) - 1
    BY <1>3, <1>4, <1>5, <1>6
  <2>2. ASSUME NEW i \in 1 .. Len(q) - 1
        PROVE  r[i] = q[IF i < k THEN i ELSE i + 1]
    <3>1. CASE i < k
      BY <1>3, <1>4, <1>5, <1>6, <3>1
    <3>2. CASE ~ (i < k)
      <4>1. i - (k - 1) \in 1 .. Len(q) - k /\ k + (i - (k - 1)) = i + 1
        BY <1>3, <3>2
      <4>2. r[i] = b[i - (k - 1)]
        BY <1>3, <1>4, <1>5, <1>6, <3>2
      <4> QED BY <1>5, <3>2, <4>1, <4>2
    <3> QED BY <3>1, <3>2
  <2> QED BY <2>1, <2>2
<1>8. \A i, j \in DOMAIN r : r[i] = r[j] => i = j
  <2> SUFFICES ASSUME NEW i \in DOMAIN r, NEW j \in DOMAIN r, r[i] = r[j] PROVE i = j
    OBVIOUS
  <2> DEFINE x == IF i < k THEN i ELSE i + 1
             y == IF j < k THEN j ELSE j + 1
  <2>1. x \in DOMAIN q /\ y \in DOMAIN q /\ q[x] = q[y]
    BY <1>3, <1>7
  <2>2. x = y
    BY <2>1
  <2> QED BY <1>3, <1>7, <2>2
<1>9. ToSet(r) = ToSet(q) \ {u}
  <2>1. ASSUME NEW i \in DOMAIN r PROVE r[i] \in ToSet(q) \ {u}
    <3> DEFINE x == IF i < k THEN i ELSE i + 1
    <3>1. x \in DOMAIN q /\ x # k /\ r[i] = q[x]
      BY <1>3, <1>7
    <3> QED BY <1>2, <3>1 DEF ToSet
  <2>2. ASSUME NEW x \in DOMAIN q, q[x] # u PROVE \E i \in DOMAIN r : r[i] = q[x]
    <3> DEFINE i == IF x < k THEN x ELSE x - 1
    <3>1. x # k /\ x \in 1 .. Len(q)
      BY <1>2, <2>2
    <3>2. i \in DOMAIN r /\ (IF i < k THEN i ELSE i + 1) = x
      BY <1>3, <1>7, <3>1
    <3> QED BY <1>7, <3>2
  <2> QED BY <2>1, <2>2 DEF ToSet
<1> QED BY <1>7, <1>8, <1>9 DEF r

-----------------------------------------------------------------------------
(* Steps that leave the match alone, and the type of everything *)

(* Nobody matches at first. *)
LEMMA InitMatch == Init => MatchInv
<1> SUFFICES ASSUME Init PROVE MatchInv
  OBVIOUS
<1>1. DOMAIN match = {} /\ DOMAIN group = {} /\ DOMAIN launching = {} /\ failed = {}
  BY DEF Init
<1>2. \A d \in Dungeons : queue[d] = <<>> /\ DOMAIN queue[d] = {}
  BY DEF Init
<1>3. TypeOK
  <2>1. DOMAIN host = {Home} /\ host[Home] = HomeServer /\ Home \in Instances
    BY DEF Init, Instances
  <2>2. queue \in [Dungeons -> Seq(Users)] /\ nextGroup \in [Dungeons -> 0 .. MaxGroups]
    BY BoundAssumption DEF Init
  <2>3. /\ online \subseteq Users /\ parent \in [Users -> DOMAIN host]
        /\ migrating \in [Users -> BOOLEAN] /\ client \in [Users -> DOMAIN host \cup {Gone}]
        /\ fault \in {"none", "null group", "no server"}
    BY <2>1 DEF Init
  <2> QED BY <1>1, <2>1, <2>2, <2>3, HomeAssumption DEF TypeOK
<1>4. QueueInv
  BY <1>1, <1>2 DEF QueueInv
<1>5. GroupInv /\ GroupsAreWhole
  BY <1>1 DEF GroupInv, GroupsAreWhole, Known
<1> QED BY <1>3, <1>4, <1>5 DEF MatchInv

(* The invariant speaks of the match, except for its types. *)
LEMMA MatchKept ==
    ASSUME MatchInv, UNCHANGED matchVars
    PROVE  QueueInv' /\ GroupInv' /\ GroupsAreWhole'
<1>1. UNCHANGED <<match, queue, group, nextGroup, launching, failed>>
  BY DEF matchVars
<1>2. QueueInv'
  BY <1>1 DEF MatchInv, QueueInv, Queued
<1>3. GroupInv' /\ GroupsAreWhole'
  BY <1>1 DEF MatchInv, GroupInv, GroupsAreWhole, Known, Members, IsApproval
<1> QED BY <1>2, <1>3

(* Users move, and are lost. *)
LEMMA UserSteps ==
    ASSUME MatchInv, NEW u \in Users,
           Arrive(u) \/ Leave(u) \/ LostOnTheWay(u) \/ DecideWithoutGroup(u)
    PROVE  MatchInv'
<1>1. UNCHANGED matchVars
  BY DEF Arrive, Leave, LostOnTheWay, DecideWithoutGroup
<1>2. TypeOK
  BY DEF MatchInv
<1>3. UNCHANGED <<match, queue, group, nextGroup, launching, failed>>
  BY <1>1 DEF matchVars
<1>4. TypeOK'
  <2>1. CASE Arrive(u)
    BY <1>2, <1>3, <2>1 DEF Arrive, TypeOK
  <2>2. CASE Leave(u)
    BY <1>2, <1>3, <2>2 DEF Leave, TypeOK
  <2>3. CASE LostOnTheWay(u)
    BY <1>2, <1>3, <2>3 DEF LostOnTheWay, TypeOK
  <2>4. CASE DecideWithoutGroup(u)
    BY <1>2, <1>3, <2>4 DEF DecideWithoutGroup, nodeVars, TypeOK
  <2> QED BY <2>1, <2>2, <2>3, <2>4
<1> QED BY <1>1, <1>4, MatchKept DEF MatchInv

-----------------------------------------------------------------------------
(* The queue *)

(* AddUser: the new one stands last in the queue, and was not in one. *)
LEMMA RequestStep ==
    ASSUME MatchInv, NEW u \in Users, NEW d \in Dungeons, RequestDungeonMatch(u, d)
    PROVE  MatchInv'
<1>1. /\ u \notin DOMAIN match
      /\ match' = [v \in DOMAIN match \cup {u} |->
                      IF v = u THEN [state |-> "Waiting", dungeon |-> d] ELSE match[v]]
      /\ queue' = [queue EXCEPT ![d] = Append(@, u)]
      /\ UNCHANGED <<online, parent, migrating, client, host, group, nextGroup, launching, failed, fault>>
  BY DEF RequestDungeonMatch, nodeVars
<1>2. TypeOK /\ QueueInv /\ GroupInv /\ GroupsAreWhole
  BY DEF MatchInv
<1>3. /\ DOMAIN match' = DOMAIN match \cup {u}
      /\ match'[u].state = "Waiting" /\ match'[u].dungeon = d
      /\ \A v \in DOMAIN match : match'[v] = match[v] /\ v # u
  BY <1>1
<1>4. queue[d] \in Seq(Users)
  BY <1>2 DEF TypeOK
<1>5. /\ \A e \in Dungeons : e # d => queue'[e] = queue[e]
      /\ queue'[d] \in Seq(Users) /\ DOMAIN queue'[d] = 1 .. Len(queue[d]) + 1
      /\ DOMAIN queue[d] = 1 .. Len(queue[d]) /\ Len(queue[d]) \in Nat
      /\ \A i \in DOMAIN queue[d] : queue'[d][i] = queue[d][i]
      /\ queue'[d][Len(queue[d]) + 1] = u
  <2>1. queue'[d] = Append(queue[d], u) /\ \A e \in Dungeons : e # d => queue'[e] = queue[e]
    BY <1>1, <1>2 DEF TypeOK
  <2> QED BY <1>4, <2>1
<1>6. TypeOK'
  <2>1. queue' \in [Dungeons -> Seq(Users)]
    BY <1>1, <1>2, <1>5 DEF TypeOK
  <2> QED BY <1>1, <1>2, <1>3, <2>1 DEF TypeOK
<1>7. QueueInv'
  <2> USE DEF QueueInv
  <2>1. \A i \in DOMAIN queue'[d] : i = Len(queue[d]) + 1 \/ i \in DOMAIN queue[d]
    BY <1>5
  <2>2. \A e \in Dungeons : \A i \in DOMAIN queue'[e] :
            /\ queue'[e][i] \in DOMAIN match'
            /\ match'[queue'[e][i]].state = "Waiting" /\ match'[queue'[e][i]].dungeon = e
    BY <1>2, <1>3, <1>5, <2>1
  <2>3. \A e \in Dungeons : \A i, j \in DOMAIN queue'[e] : queue'[e][i] = queue'[e][j] => i = j
    BY <1>1, <1>2, <1>5, <2>1
  <2>4. \A v \in DOMAIN match' : match'[v].state = "Waiting" =>
            match'[v].dungeon \in Dungeons /\ \E i \in DOMAIN queue'[match'[v].dungeon] : queue'[match'[v].dungeon][i] = v
    <3> SUFFICES ASSUME NEW v \in DOMAIN match', match'[v].state = "Waiting"
                 PROVE  match'[v].dungeon \in Dungeons /\ \E i \in DOMAIN queue'[match'[v].dungeon] : queue'[match'[v].dungeon][i] = v
      OBVIOUS
    <3>1. CASE v = u
      <4>1. Len(queue[d]) + 1 \in DOMAIN queue'[d]
        BY <1>5
      <4> QED BY <1>3, <1>5, <3>1, <4>1
    <3>2. CASE v # u
      <4>1. v \in DOMAIN match /\ match'[v] = match[v]
        BY <1>3, <3>2
      <4> DEFINE e == match[v].dungeon
      <4>2. e \in Dungeons /\ \E i \in DOMAIN queue[e] : queue[e][i] = v
        BY <1>2, <4>1 DEF Queued
      <4>3. \E i \in DOMAIN queue'[e] : queue'[e][i] = v
        <5>1. CASE e = d
          BY <1>5, <4>2, <5>1
        <5>2. CASE e # d
          BY <1>5, <4>2, <5>2
        <5> QED BY <5>1, <5>2
      <4> QED BY <4>1, <4>2, <4>3
    <3> QED BY <3>1, <3>2
  <2>5. \A v \in DOMAIN match' : match'[v].state \in {"Waiting", "Grouped"}
    BY <1>2, <1>3
  <2> QED BY <2>2, <2>3, <2>4, <2>5 DEF Queued
<1>8. GroupInv' /\ GroupsAreWhole'
  <2>1. \A g : Members(g)' = Members(g)
    BY <1>1 DEF Members
  <2>2. GroupsAreWhole'
    BY <1>1, <1>2, <1>3, <2>1 DEF GroupsAreWhole
  <2>3. \A v \in DOMAIN match' : match'[v].state = "Grouped" => v \in DOMAIN match /\ match'[v] = match[v]
    BY <1>3
  <2> QED BY <1>1, <1>2, <2>1, <2>2, <2>3 DEF GroupInv, Known, IsApproval
<1> QED BY <1>6, <1>7, <1>8 DEF MatchInv

(* CancelUserMatch: a user who waits leaves the one queue he is in. *)
LEMMA CancelStep ==
    ASSUME MatchInv, NEW u \in Users, CancelDungeonMatch(u)
    PROVE  MatchInv'
<1> DEFINE d == match[u].dungeon
<1>1. /\ u \in DOMAIN match /\ match[u].state # "Grouped" /\ u \in ToSet(queue[d])
      /\ match' = [v \in DOMAIN match \ {u} |-> match[v]]
      /\ queue' = [queue EXCEPT ![d] = Dequeue(@, u)]
      /\ UNCHANGED <<online, parent, migrating, client, host, group, nextGroup, launching, failed, fault>>
  BY DEF CancelDungeonMatch, MayCancel, Without, nodeVars
<1>2. TypeOK /\ QueueInv /\ GroupInv /\ GroupsAreWhole
  BY DEF MatchInv
<1>3. match[u].state = "Waiting" /\ d \in Dungeons
  BY <1>1, <1>2 DEF QueueInv
<1> HIDE DEF d
<1>4. /\ DOMAIN match' = DOMAIN match \ {u}
      /\ \A v \in DOMAIN match' : match'[v] = match[v] /\ v \in DOMAIN match
  BY <1>1
<1>5. /\ \A e \in Dungeons : e # d => queue'[e] = queue[e]
      /\ queue'[d] \in Seq(Users)
      /\ \A i, j \in DOMAIN queue'[d] : queue'[d][i] = queue'[d][j] => i = j
      /\ ToSet(queue'[d]) = ToSet(queue[d]) \ {u}
  <2>1. queue'[d] = Dequeue(queue[d], u) /\ \A e \in Dungeons : e # d => queue'[e] = queue[e]
    BY <1>1, <1>2, <1>3 DEF TypeOK
  <2>2. queue[d] \in Seq(Users)
    BY <1>2, <1>3 DEF TypeOK
  <2>3. \A i, j \in DOMAIN queue[d] : queue[d][i] = queue[d][j] => i = j
    BY <1>2, <1>3 DEF QueueInv
  <2> QED BY <1>1, <2>1, <2>2, <2>3, Dequeued
<1>6. TypeOK'
  <2>1. queue' \in [Dungeons -> Seq(Users)]
    BY <1>1, <1>2, <1>3, <1>5 DEF TypeOK
  <2> QED BY <1>1, <1>2, <1>4, <2>1 DEF TypeOK
<1>7. QueueInv'
  <2>1. \A e \in Dungeons : \A v : v \in ToSet(queue'[e]) <=> v \in ToSet(queue[e]) /\ v # u
    <3>1. \A e \in Dungeons : u \in ToSet(queue[e]) => e = d
      BY <1>2 DEF QueueInv, ToSet, d
    <3> QED BY <1>5, <3>1
  <2>2. \A e \in Dungeons : \A v \in ToSet(queue[e]) :
            v \in DOMAIN match /\ match[v].state = "Waiting" /\ match[v].dungeon = e
    BY <1>2 DEF QueueInv, ToSet
  <2>3. \A e \in Dungeons : \A i \in DOMAIN queue'[e] : queue'[e][i] \in ToSet(queue'[e])
    BY DEF ToSet
  <2>4. \A e \in Dungeons : \A i \in DOMAIN queue'[e] :
            /\ queue'[e][i] \in DOMAIN match'
            /\ match'[queue'[e][i]].state = "Waiting" /\ match'[queue'[e][i]].dungeon = e
    BY <1>4, <2>1, <2>2, <2>3
  <2>5. \A e \in Dungeons : \A i, j \in DOMAIN queue'[e] : queue'[e][i] = queue'[e][j] => i = j
    BY <1>2, <1>5 DEF QueueInv
  <2>6. \A v \in DOMAIN match' : match'[v].state = "Waiting" =>
            match'[v].dungeon \in Dungeons /\ \E i \in DOMAIN queue'[match'[v].dungeon] : queue'[match'[v].dungeon][i] = v
    <3> SUFFICES ASSUME NEW v \in DOMAIN match', match'[v].state = "Waiting"
                 PROVE  match'[v].dungeon \in Dungeons /\ \E i \in DOMAIN queue'[match'[v].dungeon] : queue'[match'[v].dungeon][i] = v
      OBVIOUS
    <3>1. v \in DOMAIN match /\ match'[v] = match[v] /\ v # u
      BY <1>4
    <3>2. match[v].dungeon \in Dungeons /\ v \in ToSet(queue[match[v].dungeon])
      BY <1>2, <3>1 DEF QueueInv, Queued, ToSet
    <3>3. v \in ToSet(queue'[match[v].dungeon])
      BY <2>1, <3>1, <3>2
    <3> QED BY <3>1, <3>2, <3>3 DEF ToSet
  <2>7. \A v \in DOMAIN match' : match'[v].state \in {"Waiting", "Grouped"}
    BY <1>2, <1>4 DEF QueueInv
  <2> QED BY <2>4, <2>5, <2>6, <2>7 DEF QueueInv, Queued
<1>8. GroupInv' /\ GroupsAreWhole'
  <2>1. \A g : Members(g)' = Members(g)
    BY <1>1 DEF Members
  <2>2. GroupsAreWhole'
    <3>1. \A v \in DOMAIN match : match[v].state = "Grouped" => v \in DOMAIN match' /\ match'[v] = match[v]
      BY <1>3, <1>4
    <3> QED BY <1>1, <1>2, <2>1, <3>1 DEF GroupsAreWhole
  <2> QED BY <1>1, <1>2, <1>4, <2>1, <2>2 DEF GroupInv, Known, IsApproval
<1> QED BY <1>6, <1>7, <1>8 DEF MatchInv

-----------------------------------------------------------------------------
(* Decisions and launches *)

(* The queue and its users stay. *)
LEMMA QueueKept ==
    ASSUME MatchInv, UNCHANGED <<match, queue>>
    PROVE  QueueInv'
BY DEF MatchInv, QueueInv, Queued

(* ApproveUserMatch: the group stays, or goes on to its launch. *)
LEMMA ApproveStep ==
    ASSUME MatchInv, NEW u \in Users, NEW s \in Servers, ApproveDungeonMatch(u, s)
    PROVE  MatchInv'
<1> DEFINE g == match[u].group
           decisions == [group[g] EXCEPT ![u] = "Approve"]
<1>1. /\ u \in DOMAIN match /\ match[u].state = "Grouped" /\ g \in DOMAIN group
      /\ UNCHANGED <<online, parent, migrating, client, host, match, queue, nextGroup, failed, fault>>
      /\ \/ /\ IsApproval(decisions)
            /\ launching' = [h \in DOMAIN launching \cup {g} |->
                                IF h = g THEN [users |-> decisions, server |-> s] ELSE launching[h]]
            /\ group' = [h \in DOMAIN group \ {g} |-> group[h]]
         \/ group' = [group EXCEPT ![g] = decisions] /\ UNCHANGED launching
  BY DEF ApproveDungeonMatch, Undecided, MayDecide, GroupOf, Without, nodeVars
<1>2. TypeOK /\ QueueInv /\ GroupInv /\ GroupsAreWhole
  BY DEF MatchInv
<1>3. DOMAIN decisions = DOMAIN group[g]
  OBVIOUS
<1> HIDE DEF g, decisions
<1>4. g \notin DOMAIN launching /\ g \in GroupIds
  BY <1>1, <1>2 DEF GroupInv, TypeOK
<1>5. /\ DOMAIN group' \cup DOMAIN launching' = DOMAIN group \cup DOMAIN launching
      /\ DOMAIN group' \cap DOMAIN launching' = {}
      /\ \A h \in DOMAIN group \cup DOMAIN launching : Members(h)' = Members(h)
      /\ \A h \in DOMAIN launching' : launching'[h].server \in Servers /\ IsApproval(launching'[h].users)
      /\ DOMAIN group' \subseteq GroupIds /\ DOMAIN launching' \subseteq GroupIds
  <2>1. CASE /\ IsApproval(decisions)
             /\ launching' = [h \in DOMAIN launching \cup {g} |->
                                IF h = g THEN [users |-> decisions, server |-> s] ELSE launching[h]]
             /\ group' = [h \in DOMAIN group \ {g} |-> group[h]]
    <3>1. /\ DOMAIN launching' = DOMAIN launching \cup {g} /\ DOMAIN group' = DOMAIN group \ {g}
          /\ launching'[g].users = decisions /\ launching'[g].server = s
          /\ \A h \in DOMAIN launching : launching'[h] = launching[h]
          /\ \A h \in DOMAIN group' : group'[h] = group[h]
      BY <1>4, <2>1
    <3>2. \A h \in DOMAIN group \cup DOMAIN launching : Members(h)' = Members(h)
      BY <1>1, <1>2, <1>3, <1>4, <3>1 DEF Members, GroupInv
    <3>3. \A h \in DOMAIN launching' : launching'[h].server \in Servers /\ IsApproval(launching'[h].users)
      <4>1. \A h \in DOMAIN launching : launching[h].server \in Servers /\ IsApproval(launching[h].users)
        BY <1>2 DEF GroupInv
      <4> QED BY <2>1, <3>1, <4>1
    <3>4. DOMAIN group' \cap DOMAIN launching' = {}
      BY <1>2, <3>1 DEF GroupInv
    <3> QED BY <1>1, <1>2, <1>4, <3>1, <3>2, <3>3, <3>4 DEF TypeOK
  <2>2. CASE group' = [group EXCEPT ![g] = decisions] /\ UNCHANGED launching
    <3>1. /\ DOMAIN group' = DOMAIN group /\ group'[g] = decisions
          /\ \A h \in DOMAIN group : h # g => group'[h] = group[h]
      BY <1>1, <2>2
    <3>2. \A h \in DOMAIN group \cup DOMAIN launching : Members(h)' = Members(h)
      BY <1>1, <1>3, <2>2, <3>1 DEF Members
    <3> QED BY <1>2, <2>2, <3>1, <3>2 DEF TypeOK, GroupInv
  <2> QED BY <1>1, <2>1, <2>2
<1>6. TypeOK'
  BY <1>1, <1>2, <1>5 DEF TypeOK
<1>7. QueueInv'
  BY <1>1, QueueKept
<1>8. GroupsAreWhole'
  BY <1>1, <1>2, <1>5 DEF GroupsAreWhole
<1>9. GroupInv'
  <2>1. Known' = Known
    BY <1>1, <1>5 DEF Known
  <2>2. \A h \in Known' : h \in GroupIds /\ h[2] <= nextGroup'[h[1]]
    BY <1>1, <1>2, <2>1 DEF GroupInv
  <2>3. failed' \cap (DOMAIN group' \cup DOMAIN launching') = {}
    BY <1>1, <1>2, <1>5 DEF GroupInv
  <2>4. \A v \in DOMAIN match' : match'[v].state = "Grouped" =>
          \/ match'[v].group \in DOMAIN group' \cup DOMAIN launching' /\ v \in Members(match[v].group)'
          \/ match'[v].group \in failed'
    <3> SUFFICES ASSUME NEW v \in DOMAIN match, match[v].state = "Grouped"
                 PROVE  \/ match[v].group \in DOMAIN group' \cup DOMAIN launching' /\ v \in Members(match[v].group)'
                        \/ match[v].group \in failed
      BY <1>1
    <3>1. PICK h : h = match[v].group
      OBVIOUS
    <3>2. \/ h \in DOMAIN group \cup DOMAIN launching /\ v \in Members(h)
          \/ h \in failed
      BY <1>2, <3>1 DEF GroupInv
    <3>3. match'[v].group = h
      BY <1>1, <3>1
    <3>4. h \in DOMAIN group \cup DOMAIN launching => v \in Members(h)'
      BY <1>2, <1>5, <3>2 DEF GroupInv
    <3> QED BY <1>5, <3>1, <3>2, <3>3, <3>4
  <2> QED BY <1>1, <1>5, <2>2, <2>3, <2>4 DEF GroupInv
<1> QED BY <1>6, <1>7, <1>8, <1>9 DEF MatchInv

(* A group is over: its users forget the match, and no other user does. *)
LEMMA GroupForgotten ==
    ASSUME MatchInv, NEW g \in DOMAIN group \cup DOMAIN launching,
           match' = Without(match, Members(g)),
           DOMAIN group' = DOMAIN group \ {g}, \A h \in DOMAIN group' : group'[h] = group[h],
           DOMAIN launching' = DOMAIN launching \ {g},
           \A h \in DOMAIN launching' : launching'[h] = launching[h],
           UNCHANGED <<queue, nextGroup, failed>>
    PROVE  QueueInv' /\ GroupInv' /\ GroupsAreWhole' /\ DOMAIN match' \subseteq DOMAIN match
<1>1. TypeOK /\ QueueInv /\ GroupInv /\ GroupsAreWhole
  BY DEF MatchInv
<1>2. /\ DOMAIN match' = DOMAIN match \ Members(g)
      /\ \A v \in DOMAIN match' : match'[v] = match[v]
      /\ DOMAIN group' = DOMAIN group \ {g} /\ \A h \in DOMAIN group' : group'[h] = group[h]
      /\ DOMAIN launching' = DOMAIN launching \ {g} /\ \A h \in DOMAIN launching' : launching'[h] = launching[h]
  BY DEF Without
<1>3. \A v \in Members(g) : v \in DOMAIN match /\ match[v].state = "Grouped" /\ match[v].group = g
  BY <1>1 DEF GroupsAreWhole
<1>4. \A h : h # g /\ h \in DOMAIN group \cup DOMAIN launching => Members(h)' = Members(h)
  BY <1>2 DEF Members
<1>5. QueueInv'
  <2>1. \A v \in DOMAIN match : match[v].state = "Waiting" => v \in DOMAIN match' /\ match'[v] = match[v]
    BY <1>2, <1>3
  <2>2. /\ \A d \in Dungeons : \A i \in DOMAIN queue'[d] :
              /\ queue'[d][i] \in DOMAIN match'
              /\ match'[queue'[d][i]].state = "Waiting" /\ match'[queue'[d][i]].dungeon = d
        /\ \A d \in Dungeons : \A i, j \in DOMAIN queue'[d] : queue'[d][i] = queue'[d][j] => i = j
    BY <1>1, <2>1 DEF QueueInv
  <2>3. /\ \A v \in DOMAIN match' : match'[v].state = "Waiting" =>
              match'[v].dungeon \in Dungeons /\ \E i \in DOMAIN queue[match'[v].dungeon] : queue[match'[v].dungeon][i] = v
        /\ \A v \in DOMAIN match' : match'[v].state \in {"Waiting", "Grouped"}
    BY <1>1, <1>2 DEF QueueInv, Queued
  <2> QED BY <2>2, <2>3 DEF QueueInv, Queued
<1>6. GroupsAreWhole'
  <2> SUFFICES ASSUME NEW h \in DOMAIN group' \cup DOMAIN launching'
               PROVE  /\ Cardinality(Members(h)') = GroupSize
                      /\ \A v \in Members(h)' :
                            v \in DOMAIN match' /\ match'[v].state = "Grouped" /\ match'[v].group = h
    BY DEF GroupsAreWhole
  <2>1. h # g /\ h \in DOMAIN group \cup DOMAIN launching
    BY <1>2
  <2>2. Members(h)' = Members(h)
    BY <1>4, <2>1
  <2>3. /\ Cardinality(Members(h)) = GroupSize
        /\ \A v \in Members(h) : v \in DOMAIN match /\ match[v].state = "Grouped" /\ match[v].group = h
    BY <1>1, <2>1 DEF GroupsAreWhole
  <2>4. \A v \in Members(h) : v \notin Members(g)
    BY <1>3, <2>1, <2>3
  <2> QED BY <1>2, <2>2, <2>3, <2>4
<1>7. GroupInv'
  <2>1. /\ \A h \in Known' : h \in GroupIds /\ h[2] <= nextGroup'[h[1]]
        /\ DOMAIN group' \cap DOMAIN launching' = {}
        /\ failed' \cap (DOMAIN group' \cup DOMAIN launching') = {}
    BY <1>1, <1>2 DEF GroupInv, Known
  <2>2. \A h \in DOMAIN launching' : launching'[h].server \in Servers /\ IsApproval(launching'[h].users)
    BY <1>1, <1>2 DEF GroupInv
  <2>3. ASSUME NEW v \in DOMAIN match', match'[v].state = "Grouped"
        PROVE  \/ match'[v].group \in DOMAIN group' \cup DOMAIN launching' /\ v \in Members(match[v].group)'
               \/ match'[v].group \in failed'
    <3>1. v \in DOMAIN match /\ match'[v] = match[v] /\ v \notin Members(g)
      BY <1>2
    <3>2. PICK h : h = match[v].group
      OBVIOUS
    <3>3. \/ h \in DOMAIN group \cup DOMAIN launching /\ v \in Members(h)
          \/ h \in failed
      BY <1>1, <2>3, <3>1, <3>2 DEF GroupInv
    <3>4. CASE h \in failed
      BY <3>1, <3>2, <3>4
    <3>5. CASE h \in DOMAIN group \cup DOMAIN launching /\ v \in Members(h)
      <4>1. h # g
        BY <3>1, <3>5
      <4>2. v \in Members(h)' /\ h \in DOMAIN group' \cup DOMAIN launching'
        BY <1>2, <1>4, <3>5, <4>1
      <4>3. match'[v].group = h
        BY <3>1, <3>2
      <4>4. (v \in Members(match[v].group))'
        BY <4>2, <4>3
      <4> QED BY <4>2, <4>3, <4>4
    <3> QED BY <3>3, <3>4, <3>5
  <2> QED BY <2>1, <2>2, <2>3 DEF GroupInv
<1> QED BY <1>2, <1>5, <1>6, <1>7

(* RejectUserMatch: the group is over, or the program stops. *)
LEMMA RejectStep ==
    ASSUME MatchInv, NEW u \in Users, RejectDungeonMatch(u)
    PROVE  MatchInv'
<1> DEFINE g == match[u].group
<1>1. /\ g \in DOMAIN group
      /\ UNCHANGED <<online, parent, migrating, client, host, queue, nextGroup, launching, failed>>
      /\ \/ /\ match' = Without(match, DOMAIN group[g])
            /\ group' = Without(group, {g})
            /\ UNCHANGED fault
         \/ fault' = "no server" /\ UNCHANGED <<match, group>>
  BY DEF RejectDungeonMatch, Undecided, MayDecide, GroupOf, Forgotten, nodeVars
<1> HIDE DEF g
<1>2. TypeOK /\ g \notin DOMAIN launching /\ Members(g) = DOMAIN group[g]
  BY <1>1 DEF MatchInv, GroupInv, Members
<1>3. CASE match' = Without(match, DOMAIN group[g]) /\ group' = Without(group, {g}) /\ UNCHANGED fault
  <2>1. /\ DOMAIN group' = DOMAIN group \ {g} /\ \A h \in DOMAIN group' : group'[h] = group[h]
        /\ DOMAIN launching' = DOMAIN launching \ {g}
        /\ \A h \in DOMAIN launching' : launching'[h] = launching[h]
    BY <1>1, <1>2, <1>3 DEF Without
  <2>2. match' = Without(match, Members(g))
    BY <1>2, <1>3
  <2>3. QueueInv' /\ GroupInv' /\ GroupsAreWhole' /\ DOMAIN match' \subseteq DOMAIN match
    BY <1>1, <2>1, <2>2, GroupForgotten
  <2>4. TypeOK'
    BY <1>1, <1>2, <1>3, <2>1, <2>3 DEF TypeOK
  <2> QED BY <2>3, <2>4 DEF MatchInv
<1>4. CASE fault' = "no server" /\ UNCHANGED <<match, group>>
  <2>1. TypeOK'
    BY <1>1, <1>2, <1>4 DEF TypeOK
  <2>2. UNCHANGED matchVars
    BY <1>1, <1>4 DEF matchVars
  <2> QED BY <2>1, <2>2, MatchKept DEF MatchInv
<1> QED BY <1>1, <1>3, <1>4

(* HandleMatchGroupApproved, the dungeon runs: the group is over. *)
LEMMA LaunchSucceedsStep ==
    ASSUME MatchInv, NEW g \in GroupIds, LaunchSucceeds(g)
    PROVE  MatchInv'
<1>1. /\ g \in DOMAIN launching
      /\ host' = [i \in DOMAIN host \cup {g} |-> IF i = g THEN launching[g].server ELSE host[i]]
      /\ match' = Without(match, DOMAIN launching[g].users)
      /\ parent' = [u \in Users |-> IF u \in Movers(g) THEN g ELSE parent[u]]
      /\ migrating' = [u \in Users |-> u \in Movers(g) \/ migrating[u]]
      /\ launching' = Without(launching, {g})
      /\ UNCHANGED <<online, client, queue, group, nextGroup, failed, fault>>
  BY DEF LaunchSucceeds, Launched, Migrating
<1>2. TypeOK /\ g \notin DOMAIN group /\ Members(g) = DOMAIN launching[g].users
  BY <1>1 DEF MatchInv, GroupInv, Members
<1>3. /\ DOMAIN group' = DOMAIN group \ {g} /\ \A h \in DOMAIN group' : group'[h] = group[h]
      /\ DOMAIN launching' = DOMAIN launching \ {g}
      /\ \A h \in DOMAIN launching' : launching'[h] = launching[h]
  BY <1>1, <1>2 DEF Without
<1>4. match' = Without(match, Members(g))
  BY <1>1, <1>2
<1>5. QueueInv' /\ GroupInv' /\ GroupsAreWhole' /\ DOMAIN match' \subseteq DOMAIN match
  BY <1>1, <1>3, <1>4, GroupForgotten
<1>6. TypeOK'
  <2>1. DOMAIN host' = DOMAIN host \cup {g} /\ DOMAIN host' \subseteq Instances
    BY <1>1, <1>2 DEF TypeOK, Instances
  <2>2. \A i \in DOMAIN host' : host'[i] \in Servers
    BY <1>1, <1>2 DEF TypeOK, MatchInv, GroupInv
  <2>3. parent' \in [Users -> DOMAIN host']
    BY <1>1, <1>2, <2>1 DEF TypeOK
  <2>4. migrating' \in [Users -> BOOLEAN]
    <3>1. \A u \in Users : (u \in Movers(g) \/ migrating[u]) \in BOOLEAN
      BY <1>2 DEF TypeOK
    <3> QED BY <1>1, <3>1
  <2>5. client' \in [Users -> DOMAIN host' \cup {Gone}]
    BY <1>1, <1>2, <2>1 DEF TypeOK
  <2> QED BY <1>1, <1>2, <1>3, <1>5, <2>1, <2>2, <2>3, <2>4, <2>5 DEF TypeOK
<1> QED BY <1>5, <1>6 DEF MatchInv

(* HandleMatchGroupApproved ends with an exception: the group has failed. *)
LEMMA LaunchFailsStep ==
    ASSUME MatchInv, NEW g \in GroupIds, LaunchFails(g)
    PROVE  MatchInv'
<1>1. /\ g \in DOMAIN launching
      /\ launching' = [h \in DOMAIN launching \ {g} |-> launching[h]]
      /\ failed' = failed \cup {g}
      /\ UNCHANGED <<online, parent, migrating, client, host, match, queue, group, nextGroup, fault>>
  BY DEF LaunchFails, Without, nodeVars
<1>2. TypeOK /\ GroupInv /\ GroupsAreWhole /\ g \notin DOMAIN group
  BY <1>1 DEF MatchInv, GroupInv
<1>3. /\ DOMAIN launching' = DOMAIN launching \ {g}
      /\ \A h \in DOMAIN launching' : launching'[h] = launching[h]
  BY <1>1
<1>4. \A h : h \in DOMAIN group' \cup DOMAIN launching' => Members(h)' = Members(h)
  BY <1>1, <1>3 DEF Members
<1>5. TypeOK'
  BY <1>1, <1>2, <1>3 DEF TypeOK
<1>6. QueueInv'
  BY <1>1, QueueKept
<1>7. GroupsAreWhole'
  <2>1. DOMAIN group' \cup DOMAIN launching' \subseteq DOMAIN group \cup DOMAIN launching
    BY <1>1, <1>3
  <2> QED BY <1>1, <1>2, <1>4, <2>1 DEF GroupsAreWhole
<1>8. GroupInv'
  <2>1. Known' = Known
    BY <1>1, <1>3 DEF Known
  <2>2. /\ \A h \in Known' : h \in GroupIds /\ h[2] <= nextGroup'[h[1]]
        /\ DOMAIN group' \cap DOMAIN launching' = {}
        /\ failed' \cap (DOMAIN group' \cup DOMAIN launching') = {}
        /\ \A h \in DOMAIN launching' : launching'[h].server \in Servers /\ IsApproval(launching'[h].users)
    BY <1>1, <1>2, <1>3, <2>1 DEF GroupInv
  <2>3. ASSUME NEW v \in DOMAIN match', match'[v].state = "Grouped"
        PROVE  \/ match'[v].group \in DOMAIN group' \cup DOMAIN launching' /\ v \in Members(match[v].group)'
               \/ match'[v].group \in failed'
    <3>1. PICK h : h = match[v].group
      OBVIOUS
    <3>2. match'[v].group = h /\ v \in DOMAIN match /\ match[v].state = "Grouped"
      BY <1>1, <2>3, <3>1
    <3>3. \/ h \in DOMAIN group \cup DOMAIN launching /\ v \in Members(h)
          \/ h \in failed
      BY <1>2, <3>1, <3>2 DEF GroupInv
    <3>4. CASE h \in failed'
      BY <3>2, <3>4
    <3>5. CASE h \notin failed'
      <4>1. h \in DOMAIN group' \cup DOMAIN launching' /\ v \in Members(h)'
        BY <1>1, <1>3, <1>4, <3>3, <3>5
      <4>2. (v \in Members(match[v].group))'
        BY <3>2, <4>1
      <4> QED BY <3>2, <4>1, <4>2
    <3> QED BY <3>4, <3>5
  <2> QED BY <2>2, <2>3 DEF GroupInv
<1> QED BY <1>5, <1>6, <1>7, <1>8 DEF MatchInv

-----------------------------------------------------------------------------
(* New groups *)

(* The position before the first user of a new group. *)
Offset(g) == GroupSize * (g[2] - nextGroup[g[1]] - 1)
Taken(d) == GroupSize * Formed(d)

(* A queue gives no more users than it has. *)
LEMMA FormedFacts ==
    ASSUME TypeOK, NEW d \in Dungeons
    PROVE  /\ queue[d] \in Seq(Users) /\ Len(queue[d]) \in Nat /\ nextGroup[d] \in Nat
           /\ Formed(d) \in Nat /\ Taken(d) \in Nat /\ Taken(d) <= Len(queue[d])
<1>1. queue[d] \in Seq(Users) /\ nextGroup[d] \in Nat
  <2>1. queue[d] \in Seq(Users) /\ nextGroup[d] \in 0 .. MaxGroups
    BY DEF TypeOK
  <2> QED BY <2>1, BoundAssumption
<1>2. Len(queue[d]) \in Nat
  BY <1>1
<1>3. GroupSize \in Nat \ {0}
  BY GroupSizeAssumption
<1> QED BY <1>1, <1>2, <1>3, Quotient DEF Formed, Taken

(* A new group takes GroupSize users from its offset on. *)
LEMMA NewGroupFacts ==
    ASSUME TypeOK, QueueInv, NEW g \in NewGroups
    PROVE  /\ g \in GroupIds /\ g[1] \in Dungeons /\ g[2] \in Nat /\ nextGroup[g[1]] < g[2]
           /\ Offset(g) \in Nat /\ Offset(g) + GroupSize <= Taken(g[1])
           /\ MembersOf(g) = {queue[g[1]][i] : i \in Offset(g) + 1 .. Offset(g) + GroupSize}
           /\ Cardinality(MembersOf(g)) = GroupSize
<1> DEFINE d == g[1]
           n == g[2] - nextGroup[d] - 1
           k == Offset(g)
<1>1. g \in GroupIds /\ d \in Dungeons /\ g[2] \in Nat /\ nextGroup[d] < g[2] /\ g[2] <= nextGroup[d] + Formed(d)
  BY DEF NewGroups, GroupIds
<1>2. /\ queue[d] \in Seq(Users) /\ Len(queue[d]) \in Nat /\ nextGroup[d] \in Nat
      /\ Formed(d) \in Nat /\ Taken(d) \in Nat /\ Taken(d) <= Len(queue[d])
  BY <1>1, FormedFacts
<1>3. n \in Nat /\ n + 1 \in Nat /\ n + 1 <= Formed(d) /\ GroupSize \in Nat
  BY <1>1, <1>2, GroupSizeAssumption
<1>4. k = GroupSize * n
  BY DEF Offset
<1>5. \A i, j \in DOMAIN queue[d] : queue[d][i] = queue[d][j] => i = j
  BY <1>1 DEF QueueInv
<1> HIDE DEF d, n
<1>6. k \in Nat /\ k + GroupSize <= Taken(d)
  <2>1. GroupSize * n \in Nat
    BY <1>3, Product
  <2>2. GroupSize * (n + 1) <= Taken(d)
    BY <1>2, <1>3, Product DEF Taken
  <2>3. GroupSize * (n + 1) = GroupSize * n + GroupSize
    BY <1>3
  <2> QED BY <1>4, <2>1, <2>2, <2>3
<1> HIDE DEF k
<1>7. MembersOf(g) = ToSet(SubSeq(queue[d], k + 1, k + GroupSize))
  BY DEF MembersOf, Offset, d, k
<1>8. k + GroupSize \in Nat /\ k <= k + GroupSize /\ k + GroupSize <= Len(queue[d]) /\ (k + GroupSize) - k = GroupSize
  BY <1>2, <1>3, <1>6
<1>9. /\ MembersOf(g) = {queue[d][i] : i \in k + 1 .. k + GroupSize}
      /\ Cardinality(MembersOf(g)) = GroupSize
  <2>1. PICK q \in Seq(Users), a \in Nat, b \in Nat : q = queue[d] /\ a = k /\ b = k + GroupSize
    BY <1>2, <1>6, <1>8
  <2>2. (\A i, j \in DOMAIN q : q[i] = q[j] => i = j) /\ a <= b /\ b <= Len(q) /\ b - a = GroupSize
    BY <1>5, <1>8, <2>1
  <2>3. /\ ToSet(SubSeq(q, a + 1, b)) = {q[i] : i \in a + 1 .. b}
        /\ Cardinality(ToSet(SubSeq(q, a + 1, b))) = b - a
    BY <2>2, Piece
  <2> QED BY <1>7, <2>1, <2>2, <2>3
<1> QED BY <1>1, <1>6, <1>9 DEF d, k

(* Users of a new group stand in the queue of its dungeon, where they are taken. *)
LEMMA MemberFacts ==
    ASSUME TypeOK, QueueInv, NEW g \in NewGroups, NEW u \in MembersOf(g)
    PROVE  /\ u \in DOMAIN match /\ match[u].state = "Waiting" /\ match[u].dungeon = g[1]
           /\ \E i \in DOMAIN queue[g[1]] :
                 /\ queue[g[1]][i] = u /\ i <= Taken(g[1])
                 /\ Offset(g) < i /\ i <= Offset(g) + GroupSize
<1>1. /\ g[1] \in Dungeons /\ Offset(g) \in Nat /\ Offset(g) + GroupSize <= Taken(g[1])
      /\ MembersOf(g) = {queue[g[1]][i] : i \in Offset(g) + 1 .. Offset(g) + GroupSize}
  BY NewGroupFacts
<1>2. PICK i \in Offset(g) + 1 .. Offset(g) + GroupSize : u = queue[g[1]][i]
  BY <1>1
<1>3. /\ queue[g[1]] \in Seq(Users) /\ Len(queue[g[1]]) \in Nat
      /\ Taken(g[1]) \in Nat /\ Taken(g[1]) <= Len(queue[g[1]])
  BY <1>1, FormedFacts
<1>4. i \in DOMAIN queue[g[1]] /\ i <= Taken(g[1]) /\ Offset(g) < i /\ i <= Offset(g) + GroupSize
  BY <1>1, <1>2, <1>3, GroupSizeAssumption
<1>5. u \in DOMAIN match /\ match[u].state = "Waiting" /\ match[u].dungeon = g[1]
  BY <1>1, <1>2, <1>4 DEF QueueInv
<1> QED BY <1>2, <1>4, <1>5

(* New groups share no user. *)
LEMMA NewGroupsDisjoint ==
    ASSUME TypeOK, QueueInv, NEW g \in NewGroups, NEW h \in NewGroups,
           NEW u \in MembersOf(g), u \in MembersOf(h)
    PROVE  g = h
<1>1. g[1] = h[1]
  BY MemberFacts
<1> DEFINE d == g[1]
<1>2. PICK i \in DOMAIN queue[d] : queue[d][i] = u /\ Offset(g) < i /\ i <= Offset(g) + GroupSize
  BY MemberFacts
<1>3. PICK j \in DOMAIN queue[d] : queue[d][j] = u /\ Offset(h) < j /\ j <= Offset(h) + GroupSize
  BY <1>1, MemberFacts
<1>4. /\ d \in Dungeons /\ g[2] \in Nat /\ h[2] \in Nat /\ nextGroup[d] < g[2] /\ nextGroup[d] < h[2]
      /\ Offset(g) \in Nat /\ Offset(h) \in Nat /\ nextGroup[d] \in Nat /\ GroupSize \in Nat
      /\ g \in GroupIds /\ h \in GroupIds
  BY <1>1, NewGroupFacts, FormedFacts, GroupSizeAssumption
<1>5. i = j /\ i \in Nat
  BY <1>2, <1>3, <1>4, FormedFacts DEF QueueInv
<1> DEFINE m == g[2] - nextGroup[d] - 1
           n == h[2] - nextGroup[d] - 1
<1>6. m \in Nat /\ n \in Nat /\ Offset(g) = GroupSize * m /\ Offset(h) = GroupSize * n
  BY <1>1, <1>4 DEF Offset
<1>7. ASSUME NEW a \in Nat, NEW b \in Nat, a < b
      PROVE  GroupSize * a + GroupSize <= GroupSize * b
  <2>1. a + 1 \in Nat /\ a + 1 <= b
    BY <1>7
  <2>2. GroupSize * (a + 1) <= GroupSize * b
    BY <1>4, <2>1, Product
  <2>3. GroupSize * (a + 1) = GroupSize * a + GroupSize
    BY <1>4
  <2> QED BY <2>2, <2>3
<1>8. m = n
  <2>1. ~ (m < n)
    <3> SUFFICES ASSUME m < n PROVE FALSE
      OBVIOUS
    <3>1. Offset(g) + GroupSize <= Offset(h)
      BY <1>6, <1>7
    <3> HIDE DEF m, n
    <3> QED BY <1>2, <1>3, <1>4, <1>5, <3>1
  <2>2. ~ (n < m)
    <3> SUFFICES ASSUME n < m PROVE FALSE
      OBVIOUS
    <3>1. Offset(h) + GroupSize <= Offset(g)
      BY <1>6, <1>7
    <3> HIDE DEF m, n
    <3> QED BY <1>2, <1>3, <1>4, <1>5, <3>1
  <2> HIDE DEF m, n
  <2> QED BY <1>6, <2>1, <2>2
<1>9. g[2] = h[2]
  BY <1>4, <1>8
<1> QED BY <1>1, <1>4, <1>9 DEF GroupIds

(* Whoever stands in the part that is taken is in a new group. *)
LEMMA TakenAreMembers ==
    ASSUME TypeOK, QueueInv, \A d \in Dungeons : nextGroup[d] + Formed(d) <= MaxGroups,
           NEW d \in Dungeons, NEW i \in DOMAIN queue[d], i <= Taken(d)
    PROVE  \E g \in NewGroups : queue[d][i] \in MembersOf(g)
<1>1. /\ queue[d] \in Seq(Users) /\ Len(queue[d]) \in Nat /\ nextGroup[d] \in Nat
      /\ Formed(d) \in Nat /\ Taken(d) \in Nat /\ Taken(d) <= Len(queue[d])
  BY FormedFacts
<1>2. i \in Nat /\ i >= 1 /\ i - 1 \in Nat /\ GroupSize \in Nat \ {0}
  BY <1>1, GroupSizeAssumption
<1> DEFINE n == (i - 1) \div GroupSize
           g == <<d, nextGroup[d] + n + 1>>
<1>3. n \in Nat /\ GroupSize * n <= i - 1 /\ i - 1 < GroupSize * n + GroupSize /\ GroupSize * n \in Nat
  <2>1. n \in Nat /\ GroupSize * n <= i - 1 /\ GroupSize * n \in Nat
    BY <1>2, Quotient
  <2>2. i - 1 < GroupSize * n + GroupSize
    BY <1>2
  <2> QED BY <2>1, <2>2
<1> HIDE DEF n
<1>4. n < Formed(d)
  <2> SUFFICES ASSUME Formed(d) <= n PROVE FALSE
    BY <1>1, <1>3
  <2>1. Taken(d) <= GroupSize * n
    BY <1>1, <1>2, <1>3, Product DEF Taken
  <2> QED BY <1>1, <1>2, <1>3, <2>1
<1>5. g[1] = d /\ g[2] = nextGroup[d] + n + 1 /\ g \in NewGroups
  <2>1. nextGroup[d] + n + 1 \in 1 .. MaxGroups
    BY <1>1, <1>3, <1>4, BoundAssumption
  <2> QED BY <1>1, <1>3, <1>4, <2>1 DEF NewGroups, GroupIds
<1>6. Offset(g) = GroupSize * n
  <2>1. g[2] - nextGroup[g[1]] - 1 = n
    BY <1>1, <1>3, <1>5
  <2> QED BY <2>1 DEF Offset
<1> HIDE DEF g
<1>7. i \in Offset(g) + 1 .. Offset(g) + GroupSize
  BY <1>2, <1>3, <1>6
<1>8. queue[d][i] \in MembersOf(g)
  BY <1>5, <1>7, NewGroupFacts
<1> QED BY <1>5, <1>8

(* The users a tick puts into groups. *)
Chosen == UNION {MembersOf(g) : g \in NewGroups}

(* The group a user is given is the one he is a member of. *)
LEMMA ChosenInOne ==
    ASSUME TypeOK, QueueInv, NEW g \in NewGroups, NEW u \in MembersOf(g)
    PROVE  (CHOOSE h \in NewGroups : u \in MembersOf(h)) = g
<1> DEFINE c == CHOOSE h \in NewGroups : u \in MembersOf(h)
<1>1. c \in NewGroups /\ u \in MembersOf(c)
  OBVIOUS
<1> HIDE DEF c
<1>2. c = g
  BY <1>1, NewGroupsDisjoint
<1> QED BY <1>2 DEF c

(* A new group has a number that no group has had. *)
LEMMA NewGroupsAreNew ==
    ASSUME MatchInv, NEW g \in NewGroups
    PROVE  g \notin Known
<1>1. nextGroup[g[1]] < g[2] /\ g[2] \in Nat /\ nextGroup[g[1]] \in Nat
  BY NewGroupFacts, FormedFacts DEF MatchInv
<1>2. g \in Known => g[2] <= nextGroup[g[1]]
  BY DEF MatchInv, GroupInv
<1> QED BY <1>1, <1>2

(* What is left of a queue. *)
LEMMA Remainder ==
    ASSUME TypeOK, QueueInv, NEW d \in Dungeons
    PROVE  LET r == SubSeq(queue[d], GroupSize * Formed(d) + 1, Len(queue[d])) IN
           /\ r \in Seq(Users)
           /\ \A i \in DOMAIN r : /\ i \in Nat /\ Taken(d) + i \in DOMAIN queue[d] /\ i > 0
                                  /\ r[i] = queue[d][Taken(d) + i]
           /\ \A j \in DOMAIN queue[d] : j > Taken(d) =>
                 \E i \in DOMAIN r : r[i] = queue[d][j]
<1>1. /\ queue[d] \in Seq(Users) /\ Len(queue[d]) \in Nat
      /\ Taken(d) \in Nat /\ Taken(d) <= Len(queue[d]) /\ Taken(d) = GroupSize * Formed(d)
  BY FormedFacts DEF Taken
<1>2. \A i, j \in DOMAIN queue[d] : queue[d][i] = queue[d][j] => i = j
  BY DEF QueueInv
<1>3. PICK q \in Seq(Users), m \in Nat, n \in Nat : q = queue[d] /\ m = Taken(d) /\ n = Len(queue[d])
  BY <1>1
<1>4. (\A i, j \in DOMAIN q : q[i] = q[j] => i = j) /\ m <= n /\ n <= Len(q) /\ n = Len(q)
  BY <1>1, <1>2, <1>3
<1> DEFINE r == SubSeq(q, m + 1, n)
<1>5. r \in Seq(Users) /\ Len(r) = n - m /\ \A i \in 1 .. n - m : r[i] = q[m + i]
  BY <1>4, Piece
<1> HIDE DEF r
<1>6. DOMAIN r = 1 .. n - m /\ DOMAIN q = 1 .. n
  BY <1>4, <1>5
<1>7. \A i \in DOMAIN r : i \in Nat /\ m + i \in DOMAIN q /\ i > 0 /\ r[i] = q[m + i]
  BY <1>5, <1>6
<1>8. ASSUME NEW j \in DOMAIN q, j > m PROVE \E i \in DOMAIN r : r[i] = q[j]
  <2>1. j - m \in DOMAIN r /\ m + (j - m) = j
    BY <1>6, <1>8
  <2> QED BY <1>7, <2>1
<1>9. SubSeq(queue[d], GroupSize * Formed(d) + 1, Len(queue[d])) = r
  BY <1>1, <1>3 DEF r
<1> QED BY <1>3, <1>5, <1>7, <1>8, <1>9

(* CreateMatchingGroup: groups of the first users of each queue. *)
LEMMA CreateStep ==
    ASSUME MatchInv, CreateMatchingGroup
    PROVE  MatchInv'
<1>1. TypeOK /\ QueueInv /\ GroupInv /\ GroupsAreWhole
  BY DEF MatchInv
<1>2. /\ \A d \in Dungeons : nextGroup[d] + Formed(d) <= MaxGroups
      /\ UNCHANGED <<online, parent, migrating, client, host, launching, failed>>
      /\ \/ /\ fault' = "no server"
            /\ UNCHANGED <<group, match, queue, nextGroup>>
         \/ /\ group' = [g \in DOMAIN group \cup NewGroups |->
                            IF g \in NewGroups THEN [u \in MembersOf(g) |-> "Null"] ELSE group[g]]
            /\ match' = [u \in DOMAIN match |->
                            IF u \in Chosen
                            THEN [state |-> "Grouped", group |-> CHOOSE g \in NewGroups : u \in MembersOf(g)]
                            ELSE match[u]]
            /\ queue' = [d \in Dungeons |-> SubSeq(queue[d], GroupSize * Formed(d) + 1, Len(queue[d]))]
            /\ nextGroup' = [d \in Dungeons |-> nextGroup[d] + Formed(d)]
            /\ UNCHANGED fault
  BY DEF CreateMatchingGroup, nodeVars, Chosen
<1>3. CASE fault' = "no server" /\ UNCHANGED <<group, match, queue, nextGroup>>
  <2>1. UNCHANGED <<online, parent, migrating, client, host, launching, failed, group, match, queue, nextGroup>>
    BY <1>2, <1>3
  <2>2. TypeOK'
    BY <1>1, <1>3, <2>1 DEF TypeOK
  <2> QED BY <2>1, <2>2, MatchKept DEF MatchInv, matchVars
<1>4. CASE /\ group' = [g \in DOMAIN group \cup NewGroups |->
                            IF g \in NewGroups THEN [u \in MembersOf(g) |-> "Null"] ELSE group[g]]
           /\ match' = [u \in DOMAIN match |->
                            IF u \in Chosen
                            THEN [state |-> "Grouped", group |-> CHOOSE g \in NewGroups : u \in MembersOf(g)]
                            ELSE match[u]]
           /\ queue' = [d \in Dungeons |-> SubSeq(queue[d], GroupSize * Formed(d) + 1, Len(queue[d]))]
           /\ nextGroup' = [d \in Dungeons |-> nextGroup[d] + Formed(d)]
           /\ UNCHANGED fault
  <2>1. \A g \in NewGroups : /\ g \in GroupIds /\ g \notin DOMAIN group /\ g \notin DOMAIN launching /\ g \notin failed
    BY NewGroupFacts, NewGroupsAreNew, <1>1 DEF Known
  <2>2. /\ DOMAIN group' = DOMAIN group \cup NewGroups
        /\ \A g \in NewGroups : DOMAIN group'[g] = MembersOf(g)
        /\ \A g \in DOMAIN group : group'[g] = group[g]
    BY <1>4, <2>1
  <2>3. \A g \in NewGroups : \A u \in MembersOf(g) :
            /\ u \in DOMAIN match /\ match[u].state = "Waiting"
            /\ u \in DOMAIN match' /\ match'[u].state = "Grouped" /\ match'[u].group = g
    <3> SUFFICES ASSUME NEW g \in NewGroups, NEW u \in MembersOf(g)
                 PROVE  /\ u \in DOMAIN match /\ match[u].state = "Waiting"
                        /\ u \in DOMAIN match' /\ match'[u].state = "Grouped" /\ match'[u].group = g
      OBVIOUS
    <3>1. u \in DOMAIN match /\ match[u].state = "Waiting"
      BY <1>1, MemberFacts
    <3>2. u \in Chosen
      BY DEF Chosen
    <3>3. match'[u] = [state |-> "Grouped", group |-> CHOOSE h \in NewGroups : u \in MembersOf(h)]
      BY <1>4, <3>1, <3>2
    <3>4. match'[u].group = CHOOSE h \in NewGroups : u \in MembersOf(h)
      BY <3>3
    <3> QED BY <1>1, <1>4, <3>1, <3>3, <3>4, ChosenInOne
  <2>4. /\ DOMAIN match' = DOMAIN match
        /\ \A u \in DOMAIN match : u \notin Chosen => match'[u] = match[u]
        /\ \A u \in DOMAIN match : match[u].state # "Waiting" => u \notin Chosen
        /\ \A u \in Chosen : \E g \in NewGroups : u \in MembersOf(g)
    <3>1. \A u \in Chosen : \E g \in NewGroups : u \in MembersOf(g)
      BY DEF Chosen
    <3>2. \A u \in DOMAIN match : match[u].state # "Waiting" => u \notin Chosen
      BY <2>3, <3>1
    <3> QED BY <1>4, <3>1, <3>2
  <2>5. \A d \in Dungeons : nextGroup[d] \in Nat /\ Formed(d) \in Nat
    BY <1>1, FormedFacts
  <2>6. \A d \in Dungeons : nextGroup'[d] = nextGroup[d] + Formed(d) /\ nextGroup'[d] \in 0 .. MaxGroups
    BY <1>2, <1>4, <2>5, BoundAssumption
  <2>7. \A d \in Dungeons :
            /\ queue'[d] \in Seq(Users)
            /\ \A i \in DOMAIN queue'[d] : /\ i \in Nat /\ Taken(d) + i \in DOMAIN queue[d] /\ i > 0
                                           /\ queue'[d][i] = queue[d][Taken(d) + i]
            /\ \A j \in DOMAIN queue[d] : j > Taken(d) =>
                  \E i \in DOMAIN queue'[d] : queue'[d][i] = queue[d][j]
    <3> SUFFICES ASSUME NEW d \in Dungeons
                 PROVE  /\ queue'[d] \in Seq(Users)
                        /\ \A i \in DOMAIN queue'[d] : /\ i \in Nat /\ Taken(d) + i \in DOMAIN queue[d] /\ i > 0
                                                       /\ queue'[d][i] = queue[d][Taken(d) + i]
                        /\ \A j \in DOMAIN queue[d] : j > Taken(d) =>
                              \E i \in DOMAIN queue'[d] : queue'[d][i] = queue[d][j]
      OBVIOUS
    <3>1. queue'[d] = SubSeq(queue[d], GroupSize * Formed(d) + 1, Len(queue[d]))
      BY <1>4
    <3> QED BY <1>1, <3>1, Remainder
  <2>8. TypeOK'
    <3>1. nextGroup' \in [Dungeons -> 0 .. MaxGroups] /\ queue' \in [Dungeons -> Seq(Users)]
      BY <1>4, <2>6, <2>7
    <3>2. DOMAIN match' \subseteq Users /\ DOMAIN group' \subseteq GroupIds
      BY <1>1, <2>1, <2>2, <2>4 DEF TypeOK
    <3> QED BY <1>1, <1>2, <1>4, <3>1, <3>2 DEF TypeOK
  <2>9. \A d \in Dungeons : Taken(d) \in Nat /\ \A i \in DOMAIN queue[d] : i \in Nat
    BY <1>1, FormedFacts
  <2>10. QueueInv'
    <3>1. ASSUME NEW d \in Dungeons, NEW i \in DOMAIN queue'[d]
          PROVE  /\ queue'[d][i] \in DOMAIN match'
                 /\ match'[queue'[d][i]].state = "Waiting" /\ match'[queue'[d][i]].dungeon = d
      <4>1. PICK j \in DOMAIN queue[d], u \in Users : /\ queue'[d][i] = u /\ queue[d][j] = u /\ j > Taken(d)
        BY <2>7, <2>9
      <4>2. u \in DOMAIN match /\ match[u].state = "Waiting" /\ match[u].dungeon = d
        BY <1>1, <4>1 DEF QueueInv
      <4>3. u \notin Chosen
        <5> SUFFICES ASSUME u \in Chosen PROVE FALSE
          OBVIOUS
        <5>1. PICK g \in NewGroups : u \in MembersOf(g)
          BY <2>4
        <5>2. /\ match[u].dungeon = g[1]
              /\ \E k \in DOMAIN queue[g[1]] : queue[g[1]][k] = u /\ k <= Taken(g[1])
          BY <1>1, <5>1, MemberFacts
        <5>3. PICK k \in DOMAIN queue[d] : queue[d][k] = u /\ k <= Taken(d)
          BY <4>2, <5>2
        <5>4. k = j
          BY <1>1, <4>1, <5>3 DEF QueueInv
        <5> QED BY <2>9, <4>1, <5>3, <5>4
      <4>4. match'[u] = match[u]
        BY <2>4, <4>2, <4>3
      <4> QED BY <2>4, <4>1, <4>2, <4>4
    <3>2. ASSUME NEW d \in Dungeons, NEW i \in DOMAIN queue'[d], NEW j \in DOMAIN queue'[d],
                 queue'[d][i] = queue'[d][j]
          PROVE  i = j
      <4>1. /\ i \in Nat /\ j \in Nat /\ Taken(d) + i \in DOMAIN queue[d] /\ Taken(d) + j \in DOMAIN queue[d]
            /\ queue[d][Taken(d) + i] = queue[d][Taken(d) + j]
        BY <2>7, <3>2
      <4>2. Taken(d) + i = Taken(d) + j
        BY <1>1, <4>1 DEF QueueInv
      <4> QED BY <2>9, <4>1, <4>2
    <3>3. ASSUME NEW u \in DOMAIN match', match'[u].state = "Waiting"
          PROVE  match'[u].dungeon \in Dungeons /\ \E i \in DOMAIN queue'[match'[u].dungeon] : queue'[match'[u].dungeon][i] = u
      <4>1. u \in DOMAIN match /\ u \notin Chosen
        BY <2>3, <2>4, <3>3
      <4>2. match'[u] = match[u]
        BY <2>4, <4>1
      <4>3. PICK d \in Dungeons : d = match[u].dungeon /\ \E i \in DOMAIN queue[d] : queue[d][i] = u
        BY <1>1, <3>3, <4>1, <4>2 DEF QueueInv, Queued
      <4>4. PICK j \in DOMAIN queue[d] : queue[d][j] = u
        BY <4>3
      <4>5. j > Taken(d)
        <5> SUFFICES ASSUME j <= Taken(d) PROVE FALSE
          BY <2>9
        <5>1. \E g \in NewGroups : queue[d][j] \in MembersOf(g)
          BY <1>1, <1>2, TakenAreMembers
        <5> QED BY <4>1, <4>4, <5>1 DEF Chosen
      <4>6. \E i \in DOMAIN queue'[d] : queue'[d][i] = u
        BY <2>7, <4>4, <4>5
      <4> QED BY <4>2, <4>3, <4>6
    <3>4. \A u \in DOMAIN match' : match'[u].state \in {"Waiting", "Grouped"}
      <4> SUFFICES ASSUME NEW u \in DOMAIN match PROVE match'[u].state \in {"Waiting", "Grouped"}
        BY <2>4
      <4>1. CASE u \in Chosen
        BY <2>3, <2>4, <4>1
      <4>2. CASE u \notin Chosen
        BY <1>1, <2>4, <4>2 DEF QueueInv
      <4> QED BY <4>1, <4>2
    <3> QED BY <3>1, <3>2, <3>3, <3>4 DEF QueueInv, Queued
  <2>11. \A g \in DOMAIN group \cup DOMAIN launching : Members(g)' = Members(g)
    <3> SUFFICES ASSUME NEW g \in DOMAIN group \cup DOMAIN launching PROVE Members(g)' = Members(g)
      OBVIOUS
    <3>1. CASE g \in DOMAIN group
      BY <2>2, <3>1 DEF Members
    <3>2. CASE g \notin DOMAIN group
      <4>1. g \notin DOMAIN group'
        BY <2>1, <2>2, <3>2
      <4> QED BY <1>2, <3>2, <4>1 DEF Members
    <3> QED BY <3>1, <3>2
  <2>12. \A g \in NewGroups : Members(g)' = MembersOf(g)
    BY <2>2 DEF Members
  <2>13. GroupsAreWhole'
    <3> SUFFICES ASSUME NEW g \in DOMAIN group' \cup DOMAIN launching'
                 PROVE  /\ Cardinality(Members(g)') = GroupSize
                        /\ \A u \in Members(g)' :
                              u \in DOMAIN match' /\ match'[u].state = "Grouped" /\ match'[u].group = g
      BY DEF GroupsAreWhole
    <3>1. CASE g \in NewGroups
      <4>1. Cardinality(MembersOf(g)) = GroupSize
        BY <1>1, <3>1, NewGroupFacts
      <4> QED BY <2>3, <2>12, <3>1, <4>1
    <3>2. CASE g \in DOMAIN group \cup DOMAIN launching
      <4>1. /\ Cardinality(Members(g)) = GroupSize
            /\ \A u \in Members(g) : u \in DOMAIN match /\ match[u].state = "Grouped" /\ match[u].group = g
        BY <1>1, <3>2 DEF GroupsAreWhole
      <4>2. \A u \in Members(g) : match'[u] = match[u]
        BY <2>4, <4>1
      <4>3. Members(g)' = Members(g)
        BY <2>11, <3>2
      <4> QED BY <2>4, <4>1, <4>2, <4>3
    <3> QED BY <1>2, <2>2, <3>1, <3>2
  <2>14. GroupInv'
    <3>1. ASSUME NEW g \in Known'
          PROVE  g \in GroupIds /\ g[2] <= nextGroup'[g[1]]
      <4>1. CASE g \in NewGroups
        BY <1>1, <2>6, <4>1, NewGroupFacts DEF NewGroups
      <4>2. CASE g \in Known
        <5>1. g \in GroupIds /\ g[2] <= nextGroup[g[1]]
          BY <1>1, <4>2 DEF GroupInv
        <5>2. g[1] \in Dungeons /\ g[2] \in Nat
          BY <5>1 DEF GroupIds
        <5> QED BY <2>5, <2>6, <5>1, <5>2
      <4> QED BY <1>2, <2>2, <4>1, <4>2 DEF Known
    <3>2. DOMAIN group' \cap DOMAIN launching' = {} /\ failed' \cap (DOMAIN group' \cup DOMAIN launching') = {}
      BY <1>1, <1>2, <2>1, <2>2 DEF GroupInv
    <3>3. \A g \in DOMAIN launching' : launching'[g].server \in Servers /\ IsApproval(launching'[g].users)
      BY <1>1, <1>2 DEF GroupInv
    <3>4. ASSUME NEW u \in DOMAIN match', match'[u].state = "Grouped"
          PROVE  \/ match'[u].group \in DOMAIN group' \cup DOMAIN launching' /\ u \in Members(match[u].group)'
                 \/ match'[u].group \in failed'
      <4>1. CASE u \in Chosen
        <5>1. PICK g \in NewGroups : u \in MembersOf(g)
          BY <2>4, <4>1
        <5>2. match'[u].group = g /\ g \in DOMAIN group' /\ u \in Members(g)'
          BY <2>2, <2>3, <2>12, <5>1
        <5>3. (u \in Members(match[u].group))'
          BY <5>2
        <5> QED BY <5>2, <5>3
      <4>2. CASE u \notin Chosen
        <5>1. u \in DOMAIN match /\ match'[u] = match[u]
          BY <2>4, <4>2
        <5>2. PICK h : h = match[u].group
          OBVIOUS
        <5>3. \/ h \in DOMAIN group \cup DOMAIN launching /\ u \in Members(h)
              \/ h \in failed
          BY <1>1, <3>4, <5>1, <5>2 DEF GroupInv
        <5>4. CASE h \in failed
          BY <1>2, <5>1, <5>2, <5>4
        <5>5. CASE h \in DOMAIN group \cup DOMAIN launching /\ u \in Members(h)
          <6>1. u \in Members(h)' /\ h \in DOMAIN group' \cup DOMAIN launching'
            BY <1>2, <2>2, <2>11, <5>5
          <6>2. match'[u].group = h
            BY <5>1, <5>2
          <6>3. (u \in Members(match[u].group))'
            BY <6>1, <6>2
          <6> QED BY <6>1, <6>2, <6>3
        <5> QED BY <5>3, <5>4, <5>5
      <4> QED BY <4>1, <4>2
    <3> QED BY <3>1, <3>2, <3>3, <3>4 DEF GroupInv
  <2> QED BY <2>8, <2>10, <2>13, <2>14 DEF MatchInv
<1> QED BY <1>2, <1>3, <1>4

-----------------------------------------------------------------------------
(* The theorems *)

(* Every step keeps the invariant. *)
LEMMA NextKeepsMatch ==
    ASSUME MatchInv, [Next]_vars
    PROVE  MatchInv'
<1>1. CASE CreateMatchingGroup
  BY <1>1, CreateStep
<1>2. ASSUME NEW g \in GroupIds, LaunchSucceeds(g)
      PROVE  MatchInv'
  BY <1>2, LaunchSucceedsStep
<1>3. ASSUME NEW g \in GroupIds, LaunchFails(g)
      PROVE  MatchInv'
  BY <1>3, LaunchFailsStep
<1>4. ASSUME NEW u \in Users, NEW d \in Dungeons, RequestDungeonMatch(u, d)
      PROVE  MatchInv'
  BY <1>4, RequestStep
<1>5. ASSUME NEW u \in Users, CancelDungeonMatch(u)
      PROVE  MatchInv'
  BY <1>5, CancelStep
<1>6. ASSUME NEW u \in Users, NEW s \in Servers, ApproveDungeonMatch(u, s)
      PROVE  MatchInv'
  BY <1>6, ApproveStep
<1>7. ASSUME NEW u \in Users, RejectDungeonMatch(u)
      PROVE  MatchInv'
  BY <1>7, RejectStep
<1>8. ASSUME NEW u \in Users, DecideWithoutGroup(u) \/ Arrive(u) \/ Leave(u) \/ LostOnTheWay(u)
      PROVE  MatchInv'
  BY <1>8, UserSteps
<1>9. CASE UNCHANGED vars
  <2>1. UNCHANGED <<nodeVars, matchVars, fault>>
    BY <1>9 DEF vars
  <2>2. UNCHANGED <<online, parent, migrating, client, host, match, queue, group, nextGroup, launching, failed, fault>>
    BY <2>1 DEF nodeVars, matchVars
  <2>3. TypeOK'
    BY <2>2 DEF MatchInv, TypeOK
  <2> QED BY <2>1, <2>3, MatchKept DEF MatchInv
<1> QED BY <1>1, <1>2, <1>3, <1>4, <1>5, <1>6, <1>7, <1>8, <1>9 DEF Next, LaunchAnswer, UserCall

(* The inductive invariant holds always. *)
THEOREM MatchInvariant == Spec => []MatchInv
BY InitMatch, NextKeepsMatch, PTL DEF Spec

(* The state of the match, of the users and of the instances keeps its type. *)
THEOREM MatchTypes == Spec => []TypeOK
BY MatchInvariant, PTL DEF MatchInv

(* A group that decides or launches has GroupSize users, all of them Grouped *)
(* for it: the assertions of CreateMatchingGroup and of the two handlers     *)
(* that look for its users never fail.                                       *)
THEOREM MatchGroups == Spec => []GroupsAreWhole
BY MatchInvariant, PTL DEF MatchInv

(* A Grouped user has a group that decides or launches, or whose launch has  *)
(* failed: only HandleMatchGroupApproved can leave him without a group.      *)
THEOREM MatchStrands == Spec => []OnlyLaunchStrands
<1>1. MatchInv => OnlyLaunchStrands
  BY DEF MatchInv, GroupInv, OnlyLaunchStrands
<1> QED BY <1>1, MatchInvariant, PTL

(* The instance of a user changes only to the dungeon of a group that he is  *)
(* in and of which every user has approved.                                  *)
THEOREM MatchEntered == Spec => EnteredByAll
<1> DEFINE Entered(u) ==
              LET g == parent'[u] IN
              /\ g \in DOMAIN launching /\ u \in DOMAIN launching[g].users
              /\ \A v \in DOMAIN launching[g].users : launching[g].users[v] = "Approve"
           Step == \A u \in Users : parent'[u] # parent[u] => Entered(u)
<1>1. ASSUME MatchInv, [Next]_vars
      PROVE  [Step]_vars
  <2> SUFFICES ASSUME NEW u \in Users, parent'[u] # parent[u]
               PROVE  Entered(u)
    OBVIOUS
  <2>1. \E g \in GroupIds : LaunchSucceeds(g)
    <3>1. UNCHANGED parent \/ \E g \in GroupIds : LaunchSucceeds(g)
      BY <1>1 DEF Next, LaunchAnswer, UserCall, vars, nodeVars, CreateMatchingGroup, LaunchFails,
                  RequestDungeonMatch, CancelDungeonMatch, ApproveDungeonMatch, RejectDungeonMatch,
                  DecideWithoutGroup, Arrive, Leave, LostOnTheWay
    <3> QED BY <3>1
  <2>2. PICK g \in GroupIds : LaunchSucceeds(g)
    BY <2>1
  <2>3. g \in DOMAIN launching /\ parent'[u] = (IF u \in Movers(g) THEN g ELSE parent[u])
    BY <2>2 DEF LaunchSucceeds
  <2>4. parent'[u] = g /\ u \in DOMAIN launching[g].users
    BY <2>3 DEF Movers
  <2>5. \A v \in DOMAIN launching[g].users : launching[g].users[v] = "Approve"
    BY <1>1, <2>3 DEF MatchInv, GroupInv, IsApproval
  <2> QED BY <2>3, <2>4, <2>5
<1>2. MatchInv /\ [Next]_vars => [Step]_vars
  BY <1>1
<1> QED BY <1>2, MatchInvariant, PTL DEF Spec, EnteredByAll

(* A user who waits has one place, in one queue, from which a tick can take *)
(* him: the counts and the queues of the code never disagree, whoever       *)
(* requests, cancels and decides in between.                                *)
OnePlace ==
    \A u \in DOMAIN match : match[u].state = "Waiting" =>
        \E d \in Dungeons : \E i \in DOMAIN queue[d] :
            /\ queue[d][i] = u
            /\ \A e \in Dungeons : \A j \in DOMAIN queue[e] : queue[e][j] = u => e = d /\ j = i

(* A user who waits has one place, always. *)
THEOREM MatchWaiters == Spec => []OnePlace
<1>1. ASSUME MatchInv
      PROVE  OnePlace
  <2> SUFFICES ASSUME NEW u \in DOMAIN match, match[u].state = "Waiting"
               PROVE  \E d \in Dungeons : \E i \in DOMAIN queue[d] :
                          /\ queue[d][i] = u
                          /\ \A e \in Dungeons : \A j \in DOMAIN queue[e] : queue[e][j] = u => e = d /\ j = i
    BY DEF OnePlace
  <2>1. PICK d \in Dungeons : d = match[u].dungeon /\ \E i \in DOMAIN queue[d] : queue[d][i] = u
    BY <1>1 DEF MatchInv, QueueInv, Queued
  <2>2. PICK i \in DOMAIN queue[d] : queue[d][i] = u
    BY <2>1
  <2>3. ASSUME NEW e \in Dungeons, NEW j \in DOMAIN queue[e], queue[e][j] = u
        PROVE  e = d /\ j = i
    <3>1. e = d
      BY <1>1, <2>1, <2>3 DEF MatchInv, QueueInv
    <3> QED BY <1>1, <2>2, <2>3, <3>1 DEF MatchInv, QueueInv
  <2> QED BY <2>2, <2>3
<1>2. MatchInv => OnePlace
  BY <1>1
<1> QED BY <1>2, MatchInvariant, PTL

=============================================================================
