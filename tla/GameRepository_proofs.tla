------------------------ MODULE GameRepository_proofs ------------------------
(***************************************************************************)
(* Proofs about GameRepository: for every number of changes, every set of   *)
(* answers of the database service and every order of the tasks on the      *)
(* strand, the pending save has one step under way, the changes are given   *)
(* to the database in their order, and a FinalizeSaves lets its caller go   *)
(* on only when what it had to wait for has been answered.                  *)
(*                                                                         *)
(* RepInv is inductive.  Its parts say which calls of FinalizeSaves a task  *)
(* or a signal stands for (CallInv), that a pending entry has one driver    *)
(* (DriverInv), which changes are still on the strand (NumberedInv), how    *)
(* answered, asked and waiting changes are ordered (OrderInv), that none of *)
(* them is lost (CoverInv), and how many there are (CountInv).              *)
(***************************************************************************)
EXTENDS GameRepository, TLAPS, FiniteSetTheorems

-----------------------------------------------------------------------------
(* The invariant *)

(* The entry, without its identity. *)
Pending == save # NoSave /\ save.pending
Waits == IF save = NoSave THEN <<>> ELSE save.waits
Signals == IF save = NoSave THEN <<>> ELSE save.signals

(* Calls of FinalizeSaves: each runs once, and waits for the newest entry.  *)
(* An entry that has signalled is gone, so the iterator of the signalled    *)
(* call is old.                                                             *)
CallInv ==
    /\ save # NoSave => save.id = made
    /\ \A i \in DOMAIN Signals : call[Signals[i]] = "waiting" /\ iter[Signals[i]] = made
    /\ \A i \in DOMAIN tasks : tasks[i].type = "resume" =>
          call[tasks[i].by] = "signalled" /\ (save # NoSave => iter[tasks[i].by] < made)
    /\ \A i \in DOMAIN tasks : tasks[i].type = "finalize" => call[tasks[i].by] = "called"
    /\ \A i, j \in DOMAIN tasks :
          tasks[i].type = "finalize" /\ tasks[j].type = "finalize" /\ tasks[i].by = tasks[j].by
              => i = j
    /\ client => call["saveError"] = "none"
    /\ save # NoSave /\ save.shutdown => \E g \in Finalizers : call[g] = "waiting"

(* One step of the pending save is under way: the call of the database or   *)
(* one of the tasks that follow it.                                         *)
IsDriver(t) == t.type \in {"answer", "complete"}
NoDriverIn(q) == \A i \in DOMAIN q : ~ IsDriver(q[i])
OneDriverIn(q) == \E i \in DOMAIN q : \A j \in DOMAIN q : IsDriver(q[j]) <=> j = i
OneDriver(A, q) ==
    \/ (\E a : A = {a}) /\ NoDriverIn(q)
    \/ A = {} /\ OneDriverIn(q)
DriverInv ==
    /\ Pending /\ ~ broken => OneDriver(asked, tasks)
    /\ ~ (Pending /\ ~ broken) => asked = {} /\ NoDriverIn(tasks)
    /\ \A a \in asked : a.id = save.id
    /\ \A i \in DOMAIN tasks : IsDriver(tasks[i]) => tasks[i].id = save.id
    /\ Waits # <<>> => Pending
    /\ broken => Pending

(* The strand still has to see the changes above seen, in this order. *)
NumberedInv ==
    /\ \A i, j \in DOMAIN tasks :
          i < j /\ tasks[i].type = "save" /\ tasks[j].type = "save" => tasks[i].change < tasks[j].change
    /\ \A i \in DOMAIN tasks : tasks[i].type = "save" => seen < tasks[i].change
    /\ \A c \in Changes : seen < c /\ c <= submitted =>
          \E i \in DOMAIN tasks : tasks[i].type = "save" /\ tasks[i].change = c
    /\ \A i \in DOMAIN tasks : tasks[i].type = "save" => tasks[i].change <= submitted

(* What has been answered, what is on its way and what waits, in this order.*)
AnswerIn(q, c) == \E i \in DOMAIN q : q[i].type = "answer" /\ q[i].change = c
InFlight(c) == (\E a \in asked : a.change = c) \/ AnswerIn(tasks, c)
OrderInv ==
    /\ SavedInOrder
    /\ \A i \in DOMAIN answered : answered[i] <= seen
    /\ \A c \in Changes : InFlight(c) => c <= seen /\ \A i \in DOMAIN answered : answered[i] < c
    /\ \A i \in DOMAIN Waits : Waits[i] <= seen
    /\ \A i \in DOMAIN Waits : \A j \in DOMAIN answered : answered[j] < Waits[i]
    /\ \A i \in DOMAIN Waits : \A c \in Changes : InFlight(c) => c < Waits[i]
    /\ \A i, j \in DOMAIN Waits : i < j => Waits[i] < Waits[j]

(* Nothing that was seen is lost, unless a FinalizeSaves came before it. *)
Answered(c) == \E i \in DOMAIN answered : answered[i] = c
Waiting(c) == \E i \in DOMAIN Waits : Waits[i] = c
Late(c) == \E g \in Finalizers : call[g] \notin {"none", "called"} /\ due[g] < c
CoverInv == \A c \in Changes : c <= seen => Answered(c) \/ InFlight(c) \/ Waiting(c) \/ Late(c)

(* There is an answer to come for no more changes than were seen. *)
AnswerDue == asked # {} \/ \E i \in DOMAIN tasks : tasks[i].type = "answer"
CountInv == Len(answered) + Len(Waits) + (IF AnswerDue THEN 1 ELSE 0) <= seen

RepInv ==
    TypeOK /\ CallInv /\ DriverInv /\ NumberedInv /\ OrderInv /\ CoverInv /\ CountInv
    /\ FinalizedIsSaved

-----------------------------------------------------------------------------
(* The strand's queue *)

(* A task has what its type says. *)
LEMMA TaskFields ==
    ASSUME NEW t \in Tasks
    PROVE  /\ t.type \in {"save", "finalize", "resume", "answer", "complete"}
           /\ t.type = "save" => t.change \in Changes
           /\ t.type \in {"finalize", "resume"} => t.by \in Finalizers
           /\ t.type = "answer" => t.id \in 1 .. MaxChanges /\ t.change \in Changes /\ t.result \in Results
           /\ t.type = "complete" => t.id \in 1 .. MaxChanges
BY DEF Tasks

(* The tasks that are posted. *)
LEMMA TaskMakers ==
    /\ \A c \in Changes : [type |-> "save", change |-> c] \in Tasks
    /\ \A f \in Finalizers : [type |-> "finalize", by |-> f] \in Tasks
    /\ \A i \in 1 .. MaxChanges : [type |-> "complete", id |-> i] \in Tasks
    /\ \A i \in 1 .. MaxChanges, c \in Changes, r \in Results :
          [type |-> "answer", id |-> i, change |-> c, result |-> r] \in Tasks
BY DEF Tasks

(* The counters. *)
LEMMA Counters ==
    ASSUME TypeOK
    PROVE  /\ submitted \in Nat /\ seen \in Nat /\ made \in Nat /\ MaxChanges \in Nat
           /\ made <= seen /\ seen <= submitted /\ submitted <= MaxChanges
           /\ Len(answered) \in Nat /\ Len(answered) <= seen
<1>1. submitted \in 0 .. MaxChanges /\ seen \in 0 .. submitted /\ made \in 0 .. seen
  BY DEF TypeOK
<1>2. answered \in Seq(Changes) /\ Len(answered) <= seen
  BY DEF TypeOK
<1> QED BY <1>1, <1>2, BoundAssumption

(* The entry. *)
LEMMA EntryFields ==
    ASSUME TypeOK
    PROVE  /\ Signals \in Seq(Finalizers) /\ Waits \in Seq(Changes)
           /\ save # NoSave => save \in Saves /\ save.id \in 1 .. MaxChanges /\ Waits = save.waits
                              /\ Signals = save.signals
<1>1. <<>> \in Seq(Finalizers) /\ <<>> \in Seq(Changes)
  OBVIOUS
<1>2. CASE save = NoSave
  BY <1>1, <1>2 DEF Signals, Waits
<1>3. CASE save # NoSave
  <2>1. save \in Saves
    BY <1>3 DEF TypeOK
  <2> QED BY <1>3, <2>1 DEF Signals, Waits, Saves
<1> QED BY <1>2, <1>3

(* The first task is taken. *)
LEMMA PopFacts ==
    ASSUME NEW q \in Seq(Tasks), q # <<>>
    PROVE  /\ Tail(q) \in Seq(Tasks) /\ 1 \in DOMAIN q /\ Head(q) = q[1] /\ Head(q) \in Tasks
           /\ \A i \in DOMAIN Tail(q) :
                  i \in Nat /\ i > 0 /\ i + 1 \in DOMAIN q /\ Tail(q)[i] = q[i + 1]
           /\ \A j \in DOMAIN q : j \in Nat /\ j > 0 /\
                  (j = 1 \/ (j - 1 \in DOMAIN Tail(q) /\ Tail(q)[j - 1] = q[j]))
OBVIOUS

(* A task is posted. *)
LEMMA PushFacts ==
    ASSUME NEW q \in Seq(Tasks), NEW t \in Tasks
    PROVE  /\ Append(q, t) \in Seq(Tasks)
           /\ Len(q) + 1 \in DOMAIN Append(q, t) /\ Append(q, t)[Len(q) + 1] = t
           /\ Len(q) + 1 \notin DOMAIN q /\ Len(q) \in Nat
           /\ \A i \in DOMAIN q : i \in DOMAIN Append(q, t) /\ Append(q, t)[i] = q[i]
                                  /\ i \in Nat /\ i < Len(q) + 1
           /\ \A i \in DOMAIN Append(q, t) : i \in DOMAIN q \/ i = Len(q) + 1
OBVIOUS

(* The calls of FinalizeSaves that are signalled are posted. *)
LEMMA ResumeFacts ==
    ASSUME NEW q \in Seq(Tasks), NEW s \in Seq(Finalizers)
    PROVE  LET r == q \o [i \in DOMAIN s |-> [type |-> "resume", by |-> s[i]]]
           IN  /\ r \in Seq(Tasks)
               /\ \A i \in DOMAIN q : i \in DOMAIN r /\ r[i] = q[i]
               /\ \A i \in DOMAIN r : i \in DOMAIN q \/
                     \E j \in DOMAIN s : r[i].type = "resume" /\ r[i].by = s[j]
<1> DEFINE n == [i \in DOMAIN s |-> [type |-> "resume", by |-> s[i]]]
           r == q \o n
<1>1. \A i \in DOMAIN s : [type |-> "resume", by |-> s[i]] \in Tasks
  BY DEF Tasks
<1>2. n \in Seq(Tasks) /\ Len(n) = Len(s) /\ DOMAIN n = DOMAIN s
  BY <1>1
<1>3. \A j \in DOMAIN s : n[j].type = "resume" /\ n[j].by = s[j]
  OBVIOUS
<1> HIDE DEF n
<1>4. /\ r \in Seq(Tasks) /\ DOMAIN r = 1 .. Len(q) + Len(n)
      /\ \A i \in 1 .. Len(q) : r[i] = q[i]
      /\ \A i \in Len(q) + 1 .. Len(q) + Len(n) : r[i] = n[i - Len(q)] /\ i - Len(q) \in DOMAIN n
  BY <1>2
<1>5. \A i \in DOMAIN r : i \in DOMAIN q \/ i \in Len(q) + 1 .. Len(q) + Len(n)
  BY <1>2, <1>4
<1>6. DOMAIN q = 1 .. Len(q) /\ Len(q) \in Nat /\ Len(n) \in Nat
  BY <1>2
<1> HIDE DEF r
<1>7. \A i \in DOMAIN q : i \in DOMAIN r /\ r[i] = q[i]
  BY <1>4, <1>6
<1>8. ASSUME NEW i \in DOMAIN r, i \notin DOMAIN q
      PROVE  \E j \in DOMAIN s : r[i].type = "resume" /\ r[i].by = s[j]
  <2>1. r[i] = n[i - Len(q)] /\ i - Len(q) \in DOMAIN s
    BY <1>2, <1>4, <1>5, <1>8
  <2> QED BY <1>3, <2>1
<1> QED BY <1>4, <1>7, <1>8 DEF n, r

(* The drivers of a queue after a task was taken. *)
LEMMA PopDrivers ==
    ASSUME NEW q \in Seq(Tasks), q # <<>>
    PROVE  /\ NoDriverIn(q) => NoDriverIn(Tail(q)) /\ ~ IsDriver(Head(q))
           /\ OneDriverIn(q) /\ ~ IsDriver(Head(q)) => OneDriverIn(Tail(q))
           /\ OneDriverIn(q) /\ IsDriver(Head(q)) => NoDriverIn(Tail(q))
<1>1. NoDriverIn(q) => NoDriverIn(Tail(q)) /\ ~ IsDriver(Head(q))
  BY PopFacts DEF NoDriverIn
<1>2. ASSUME OneDriverIn(q), ~ IsDriver(Head(q))
      PROVE  OneDriverIn(Tail(q))
  <2>1. PICK i \in DOMAIN q : \A j \in DOMAIN q : IsDriver(q[j]) <=> j = i
    BY <1>2 DEF OneDriverIn
  <2>2. i - 1 \in DOMAIN Tail(q)
    BY <1>2, <2>1, PopFacts
  <2>3. ASSUME NEW j \in DOMAIN Tail(q)
        PROVE  IsDriver(Tail(q)[j]) <=> j = i - 1
    <3>1. j + 1 \in DOMAIN q /\ Tail(q)[j] = q[j + 1] /\ j \in Nat /\ i \in Nat
      BY <2>1, PopFacts
    <3>2. IsDriver(q[j + 1]) <=> j + 1 = i
      BY <2>1, <3>1
    <3> QED BY <3>1, <3>2
  <2> QED BY <2>2, <2>3 DEF OneDriverIn
<1>3. ASSUME OneDriverIn(q), IsDriver(Head(q))
      PROVE  NoDriverIn(Tail(q))
  <2>1. PICK i \in DOMAIN q : \A j \in DOMAIN q : IsDriver(q[j]) <=> j = i
    BY <1>3 DEF OneDriverIn
  <2>2. i = 1
    BY <1>3, <2>1, PopFacts
  <2>3. ASSUME NEW j \in DOMAIN Tail(q)
        PROVE  ~ IsDriver(Tail(q)[j])
    <3>1. j + 1 \in DOMAIN q /\ Tail(q)[j] = q[j + 1] /\ j \in Nat /\ j > 0
      BY PopFacts
    <3> QED BY <2>1, <2>2, <3>1
  <2> QED BY <2>3 DEF NoDriverIn
<1> QED BY <1>1, <1>2, <1>3

(* ... and after one was posted. *)
LEMMA PushDrivers ==
    ASSUME NEW q \in Seq(Tasks), NEW t \in Tasks
    PROVE  /\ ~ IsDriver(t) /\ NoDriverIn(q) => NoDriverIn(Append(q, t))
           /\ ~ IsDriver(t) /\ OneDriverIn(q) => OneDriverIn(Append(q, t))
           /\ IsDriver(t) /\ NoDriverIn(q) => OneDriverIn(Append(q, t))
<1> DEFINE r == Append(q, t)
<1>1. /\ Len(q) + 1 \in DOMAIN r /\ r[Len(q) + 1] = t /\ Len(q) + 1 \notin DOMAIN q
      /\ \A i \in DOMAIN q : i \in DOMAIN r /\ r[i] = q[i]
      /\ \A i \in DOMAIN r : i \in DOMAIN q \/ i = Len(q) + 1
  BY PushFacts
<1> HIDE DEF r
<1>2. ~ IsDriver(t) /\ NoDriverIn(q) => NoDriverIn(r)
  BY <1>1 DEF NoDriverIn
<1>3. ~ IsDriver(t) /\ OneDriverIn(q) => OneDriverIn(r)
  BY <1>1 DEF OneDriverIn
<1>4. ASSUME IsDriver(t), NoDriverIn(q)
      PROVE  OneDriverIn(r)
  <2>1. \A j \in DOMAIN r : IsDriver(r[j]) <=> j = Len(q) + 1
    BY <1>1, <1>4 DEF NoDriverIn
  <2> QED BY <1>1, <2>1 DEF OneDriverIn
<1> QED BY <1>2, <1>3, <1>4 DEF r

(* Nothing has happened: every part holds of the empty strand. *)
LEMMA InitRep == Init => RepInv
<1> SUFFICES ASSUME Init PROVE RepInv
  OBVIOUS
<1> USE DEF Init
<1>0. DOMAIN <<>> = {} /\ <<>> \in Seq(Tasks) /\ <<>> \in Seq(Changes) /\ Len(<<>>) = 0
  OBVIOUS
<1>1. TypeOK
  <2>1. submitted \in 0 .. MaxChanges /\ seen \in 0 .. submitted /\ made \in 0 .. seen
    BY BoundAssumption
  <2>2. iter \in [Finalizers -> 0 .. made] /\ due \in [Finalizers -> 0 .. seen]
    OBVIOUS
  <2>3. call \in [Finalizers -> {"none", "called", "waiting", "signalled", "done"}]
    OBVIOUS
  <2>4. client \in BOOLEAN
    OBVIOUS
  <2>5. broken \in BOOLEAN
    OBVIOUS
  <2> QED BY <1>0, <2>1, <2>2, <2>3, <2>4, <2>5 DEF TypeOK
<1>2. CallInv /\ DriverInv /\ NumberedInv
  <2>1. CallInv
    BY <1>0 DEF CallInv, Signals, Finalizers
  <2>2. DriverInv
    BY <1>0 DEF DriverInv, Waits, Pending, NoDriverIn
  <2>3. NumberedInv
    BY <1>0 DEF NumberedInv, Changes
  <2> QED BY <2>1, <2>2, <2>3
<1>3. OrderInv /\ CoverInv /\ CountInv /\ FinalizedIsSaved
  BY DEF OrderInv, SavedInOrder, InFlight, AnswerIn, Waits, CoverInv, CountInv, AnswerDue,
         FinalizedIsSaved,
         Changes, Finalizers
<1> QED BY <1>1, <1>2, <1>3 DEF RepInv

-----------------------------------------------------------------------------
(* Calls from elsewhere *)

(* The change takes the next number and the last place on the strand. *)
LEMMA SaveChangesStep ==
    ASSUME RepInv, SaveChanges
    PROVE  RepInv'
<1> DEFINE t == [type |-> "save", change |-> submitted + 1]
<1>1. /\ tasks' = Append(tasks, t) /\ submitted' = submitted + 1 /\ submitted < MaxChanges
      /\ UNCHANGED <<client, save, made, asked, call, iter, due, seen, answered, ignored, broken, fault>>
  BY DEF SaveChanges, finalizeVars
<1>0. /\ submitted \in Nat /\ seen \in Nat /\ made \in Nat /\ MaxChanges \in Nat
      /\ made <= seen /\ seen <= submitted
  BY Counters DEF RepInv
<1>2. t \in Tasks /\ tasks \in Seq(Tasks) /\ t.type = "save" /\ t.change = submitted'
      /\ submitted \in Nat
  <2>1. submitted + 1 \in Changes
    BY <1>0, <1>1 DEF Changes
  <2> QED BY <1>0, <1>1, <2>1, TaskMakers DEF RepInv, TypeOK
<1> HIDE DEF t
<1>3. /\ tasks' \in Seq(Tasks)
      /\ Len(tasks) + 1 \in DOMAIN tasks' /\ tasks'[Len(tasks) + 1] = t
      /\ \A i \in DOMAIN tasks : i \in DOMAIN tasks' /\ tasks'[i] = tasks[i]
                                 /\ i \in Nat /\ i < Len(tasks) + 1
      /\ \A i \in DOMAIN tasks' : i \in DOMAIN tasks \/ i = Len(tasks) + 1
      /\ Len(tasks) \in Nat
  BY <1>1, <1>2, PushFacts
<1>4. TypeOK'
  <2>1. submitted' \in 0 .. MaxChanges /\ seen' \in 0 .. submitted'
    BY <1>0, <1>1
  <2> QED BY <1>1, <1>3, <2>1 DEF RepInv, TypeOK
<1>5. CallInv'
  BY <1>1, <1>2, <1>3 DEF RepInv, CallInv, Signals
<1>6. DriverInv'
  <2>1. /\ NoDriverIn(tasks) => NoDriverIn(tasks')
        /\ OneDriverIn(tasks) => OneDriverIn(tasks')
    BY <1>1, <1>2, PushDrivers DEF IsDriver
  <2>2. OneDriver(asked, tasks) => OneDriver(asked', tasks')
    BY <1>1, <2>1 DEF OneDriver
  <2>3. \A i \in DOMAIN tasks' : IsDriver(tasks'[i]) => tasks'[i].id = save'.id
    BY <1>1, <1>2, <1>3 DEF RepInv, DriverInv, IsDriver
  <2> QED BY <1>1, <2>1, <2>2, <2>3 DEF RepInv, DriverInv, Pending, Waits, IsDriver
<1>7. NumberedInv'
  <2>1. \A i \in DOMAIN tasks : tasks[i].type = "save" =>
            seen < tasks[i].change /\ tasks[i].change \in Nat /\ tasks[i].change <= submitted
    BY <1>2, TaskFields DEF RepInv, NumberedInv, Changes
  <2>2. seen < submitted + 1 /\ seen \in Nat
    BY <1>0
  <2>3. \A i, j \in DOMAIN tasks' :
          i < j /\ tasks'[i].type = "save" /\ tasks'[j].type = "save" => tasks'[i].change < tasks'[j].change
    <3> SUFFICES ASSUME NEW i \in DOMAIN tasks', NEW j \in DOMAIN tasks', i < j,
                        tasks'[i].type = "save", tasks'[j].type = "save"
                 PROVE  tasks'[i].change < tasks'[j].change
      OBVIOUS
    <3>1. i \in DOMAIN tasks
      BY <1>3
    <3>2. CASE j \in DOMAIN tasks
      BY <1>3, <3>1, <3>2 DEF RepInv, NumberedInv
    <3>3. CASE j = Len(tasks) + 1
      BY <1>1, <1>2, <1>3, <2>1, <3>1, <3>3
    <3> QED BY <1>3, <3>2, <3>3
  <2>4. \A i \in DOMAIN tasks' : tasks'[i].type = "save" =>
            seen < tasks'[i].change /\ tasks'[i].change <= submitted'
    BY <1>1, <1>2, <1>3, <2>1, <2>2
  <2>5. \A c \in Changes : seen < c /\ c <= submitted' =>
            \E i \in DOMAIN tasks' : tasks'[i].type = "save" /\ tasks'[i].change = c
    BY <1>1, <1>2, <1>3 DEF RepInv, NumberedInv, Changes
  <2> QED BY <1>1, <2>3, <2>4, <2>5 DEF NumberedInv
<1>8. \A c : InFlight(c)' <=> InFlight(c)
  BY <1>1, <1>2, <1>3 DEF InFlight, AnswerIn
<1>9. OrderInv' /\ CoverInv' /\ FinalizedIsSaved'
  BY <1>1, <1>8 DEF RepInv, OrderInv, SavedInOrder, Waits, CoverInv, Answered, Waiting, Late,
                    FinalizedIsSaved
<1>10. CountInv'
  BY <1>1, <1>2, <1>3 DEF RepInv, CountInv, AnswerDue, Waits
<1> QED BY <1>4, <1>5, <1>6, <1>7, <1>9, <1>10 DEF RepInv

(* A call of FinalizeSaves is posted. *)
LEMMA CallFinalizeSavesStep ==
    ASSUME RepInv, NEW f \in {"release", "disconnect"}, CallFinalizeSaves(f)
    PROVE  RepInv'
<1> DEFINE t == [type |-> "finalize", by |-> f]
<1>1. /\ tasks' = Append(tasks, t) /\ call' = [call EXCEPT ![f] = "called"] /\ call[f] = "none"
      /\ client /\ client' \in BOOLEAN
      /\ UNCHANGED <<submitted, save, made, asked, iter, due, seen, answered, ignored, broken, fault>>
  BY DEF CallFinalizeSaves
<1>2. /\ t \in Tasks /\ tasks \in Seq(Tasks) /\ t.type = "finalize" /\ t.by = f
      /\ f \in Finalizers /\ f # "saveError"
  BY DEF RepInv, TypeOK, Tasks, Finalizers
<1> HIDE DEF t
<1>3. /\ tasks' \in Seq(Tasks)
      /\ Len(tasks) + 1 \in DOMAIN tasks' /\ tasks'[Len(tasks) + 1] = t
      /\ \A i \in DOMAIN tasks : i \in DOMAIN tasks' /\ tasks'[i] = tasks[i]
      /\ \A i \in DOMAIN tasks' : i \in DOMAIN tasks \/ i = Len(tasks) + 1
  BY <1>1, <1>2, PushFacts
<1>4. /\ call \in [Finalizers -> {"none", "called", "waiting", "signalled", "done"}]
      /\ \A g \in Finalizers : g # f => call'[g] = call[g]
      /\ call'[f] = "called"
  BY <1>1, <1>2 DEF RepInv, TypeOK
<1>5. TypeOK'
  BY <1>1, <1>3, <1>4 DEF RepInv, TypeOK
<1>6. CallInv'
  <2>1. \A i \in DOMAIN Signals : Signals[i] \in Finalizers
    BY EntryFields DEF RepInv
  <2>2. \A i \in DOMAIN Signals : call'[Signals[i]] = "waiting" /\ iter[Signals[i]] = made
    BY <1>1, <1>4, <2>1 DEF RepInv, CallInv
  <2>3. \A i \in DOMAIN tasks : tasks[i].type \in {"resume", "finalize"} => tasks[i].by \in Finalizers
    BY <1>2, TaskFields
  <2>4. \A i \in DOMAIN tasks' : tasks'[i].type = "resume" =>
          call'[tasks'[i].by] = "signalled" /\ (save # NoSave => iter[tasks'[i].by] < made)
    BY <1>1, <1>2, <1>3, <1>4, <2>3 DEF RepInv, CallInv
  <2>5. \A i \in DOMAIN tasks' : tasks'[i].type = "finalize" => call'[tasks'[i].by] = "called"
    <3> SUFFICES ASSUME NEW i \in DOMAIN tasks', tasks'[i].type = "finalize"
                 PROVE  call'[tasks'[i].by] = "called"
      OBVIOUS
    <3>1. CASE i \in DOMAIN tasks
      BY <1>3, <1>4, <2>3, <3>1 DEF RepInv, CallInv
    <3> QED BY <1>2, <1>3, <1>4, <3>1
  <2>6. \A i \in DOMAIN tasks : tasks[i].type = "finalize" => tasks[i].by # f
    BY <1>1 DEF RepInv, CallInv
  <2>7. \A i, j \in DOMAIN tasks' :
          tasks'[i].type = "finalize" /\ tasks'[j].type = "finalize" /\ tasks'[i].by = tasks'[j].by
              => i = j
    BY <1>2, <1>3, <2>6 DEF RepInv, CallInv
  <2>8. client' => call'["saveError"] = "none"
    BY <1>1, <1>2, <1>4 DEF RepInv, CallInv, Finalizers
  <2>9. save # NoSave /\ save.shutdown => \E g \in Finalizers : call'[g] = "waiting"
    BY <1>1, <1>4 DEF RepInv, CallInv
  <2> QED BY <1>1, <2>2, <2>4, <2>5, <2>7, <2>8, <2>9 DEF RepInv, CallInv, Signals
<1>7. DriverInv'
  <2>1. /\ NoDriverIn(tasks) => NoDriverIn(tasks')
        /\ OneDriverIn(tasks) => OneDriverIn(tasks')
    BY <1>1, <1>2, PushDrivers DEF IsDriver
  <2>2. OneDriver(asked, tasks) => OneDriver(asked', tasks')
    BY <1>1, <2>1 DEF OneDriver
  <2>3. \A i \in DOMAIN tasks' : IsDriver(tasks'[i]) => tasks'[i].id = save'.id
    BY <1>1, <1>2, <1>3 DEF RepInv, DriverInv, IsDriver
  <2> QED BY <1>1, <2>1, <2>2, <2>3 DEF RepInv, DriverInv, Pending, Waits, IsDriver
<1>8. NumberedInv'
  BY <1>1, <1>2, <1>3 DEF RepInv, NumberedInv
<1>9. \A c : InFlight(c)' <=> InFlight(c)
  BY <1>1, <1>2, <1>3 DEF InFlight, AnswerIn
<1>10. OrderInv'
  BY <1>1, <1>9 DEF RepInv, OrderInv, SavedInOrder, Waits
<1>11. \A c : Late(c) => Late(c)'
  BY <1>1, <1>4 DEF Late
<1>12. CoverInv'
  BY <1>1, <1>9, <1>11 DEF RepInv, CoverInv, Answered, Waiting, Waits
<1>13. FinalizedIsSaved'
  BY <1>1, <1>4 DEF RepInv, FinalizedIsSaved
<1>14. CountInv'
  <2>1. AnswerDue' <=> AnswerDue
    BY <1>1, <1>2, <1>3 DEF AnswerDue
  <2>2. /\ Len(answered)' = Len(answered) /\ Len(Waits)' = Len(Waits) /\ seen' = seen
        /\ (IF AnswerDue' THEN 1 ELSE 0) = (IF AnswerDue THEN 1 ELSE 0)
    BY <1>1, <2>1 DEF Waits
  <2> QED BY <2>2 DEF RepInv, CountInv
<1> QED BY <1>5, <1>6, <1>7, <1>8, <1>10, <1>12, <1>13, <1>14 DEF RepInv

(* Only the client goes. *)
LEMMA ReleaseEndsStep ==
    ASSUME RepInv, ReleaseEnds \/ UNCHANGED vars
    PROVE  RepInv'
<1>1. /\ client' = client \/ ~ client'
      /\ client' \in BOOLEAN
      /\ UNCHANGED <<submitted, tasks, save, made, asked, call, iter, due, seen, answered, ignored,
                     broken, fault>>
  BY DEF ReleaseEnds, vars, finalizeVars, RepInv, TypeOK
<1>2. TypeOK'
  BY <1>1 DEF RepInv, TypeOK
<1>3. CallInv' /\ NumberedInv'
  BY <1>1 DEF RepInv, CallInv, NumberedInv, Signals
<1>4. DriverInv'
  BY <1>1 DEF RepInv, DriverInv, Pending, Waits, OneDriver, NoDriverIn, OneDriverIn, IsDriver
<1>5. OrderInv' /\ CoverInv' /\ CountInv' /\ FinalizedIsSaved'
  BY <1>1 DEF RepInv, OrderInv, SavedInOrder, CoverInv, CountInv, FinalizedIsSaved, InFlight, AnswerIn, Waits,
              Answered, Waiting, Late, AnswerDue
<1> QED BY <1>2, <1>3, <1>4, <1>5 DEF RepInv

(* The answer follows the call: still one step is under way. *)
LEMMA DatabaseAnswersStep ==
    ASSUME RepInv, DatabaseAnswers
    PROVE  RepInv'
<1>1. PICK a \in asked, r \in Results :
          /\ asked' = asked \ {a}
          /\ tasks' = Append(tasks, [type |-> "answer", id |-> a.id, change |-> a.change, result |-> r])
  BY DEF DatabaseAnswers
<1> DEFINE t == [type |-> "answer", id |-> a.id, change |-> a.change, result |-> r]
<1>2. UNCHANGED <<client, submitted, save, made, call, iter, due, seen, answered, ignored, broken, fault>>
  BY DEF DatabaseAnswers, finalizeVars
<1>3. /\ t \in Tasks /\ tasks \in Seq(Tasks) /\ IsDriver(t) /\ t.type = "answer"
      /\ t.change = a.change /\ t.id = a.id
  BY DEF RepInv, TypeOK, Tasks, IsDriver
<1>4. Pending /\ ~ broken /\ asked = {a} /\ NoDriverIn(tasks) /\ a.id = save.id
  BY DEF RepInv, DriverInv, OneDriver
<1> HIDE DEF t
<1>5. /\ tasks' \in Seq(Tasks)
      /\ Len(tasks) + 1 \in DOMAIN tasks' /\ tasks'[Len(tasks) + 1] = t
      /\ \A i \in DOMAIN tasks : i \in DOMAIN tasks' /\ tasks'[i] = tasks[i]
      /\ \A i \in DOMAIN tasks' : i \in DOMAIN tasks \/ i = Len(tasks) + 1
  BY <1>1, <1>3, PushFacts DEF t
<1>6. TypeOK'
  BY <1>1, <1>2, <1>5 DEF RepInv, TypeOK
<1>7. CallInv'
  BY <1>2, <1>3, <1>5 DEF RepInv, CallInv, Signals
<1>8. DriverInv'
  <2>1. OneDriverIn(tasks') /\ asked' = {}
    BY <1>1, <1>3, <1>4, PushDrivers DEF t
  <2>2. \A i \in DOMAIN tasks' : IsDriver(tasks'[i]) => tasks'[i].id = save'.id
    BY <1>2, <1>3, <1>4, <1>5 DEF RepInv, DriverInv, NoDriverIn
  <2>3. OneDriver(asked', tasks')
    BY <2>1 DEF OneDriver
  <2> QED BY <1>2, <1>4, <2>1, <2>2, <2>3 DEF RepInv, DriverInv, Pending, Waits, IsDriver
<1>9. NumberedInv'
  BY <1>2, <1>3, <1>5 DEF RepInv, NumberedInv
<1>10. \A c : InFlight(c)' <=> InFlight(c)
  BY <1>1, <1>3, <1>4, <1>5 DEF InFlight, AnswerIn
<1>11. OrderInv' /\ CoverInv' /\ FinalizedIsSaved'
  BY <1>2, <1>10 DEF RepInv, OrderInv, SavedInOrder, Waits, CoverInv, Answered, Waiting, Late,
                     FinalizedIsSaved
<1>12. CountInv'
  <2>1. AnswerDue /\ AnswerDue'
    BY <1>3, <1>4, <1>5 DEF AnswerDue
  <2> QED BY <1>2, <2>1 DEF RepInv, CountInv, Waits
<1> QED BY <1>6, <1>7, <1>8, <1>9, <1>11, <1>12 DEF RepInv

-----------------------------------------------------------------------------
(* The first task of the strand *)

(* What the invariant says of the first task, t, and of the rest of the     *)
(* queue, r.                                                                *)
FirstIs(t, r) ==
    /\ t \in Tasks /\ r \in Seq(Tasks)
    /\ \A i \in DOMAIN r : r[i].type = "resume" =>
          call[r[i].by] = "signalled" /\ (save # NoSave => iter[r[i].by] < made)
    /\ \A i \in DOMAIN r : r[i].type = "finalize" => call[r[i].by] = "called"
    /\ \A i, j \in DOMAIN r :
          r[i].type = "finalize" /\ r[j].type = "finalize" /\ r[i].by = r[j].by => i = j
    /\ t.type = "resume" => call[t.by] = "signalled" /\ (save # NoSave => iter[t.by] < made)
    /\ t.type = "finalize" =>
          call[t.by] = "called" /\ \A i \in DOMAIN r : r[i].type = "finalize" => r[i].by # t.by
    /\ \A i, j \in DOMAIN r :
          i < j /\ r[i].type = "save" /\ r[j].type = "save" => r[i].change < r[j].change
    /\ \A i \in DOMAIN r : r[i].type = "save" => seen < r[i].change /\ r[i].change <= submitted
    /\ t.type # "save" => \A c \in Changes : seen < c /\ c <= submitted =>
          \E i \in DOMAIN r : r[i].type = "save" /\ r[i].change = c
    /\ t.type = "save" =>
          /\ t.change = seen + 1 /\ seen < submitted
          /\ \A i \in DOMAIN r : r[i].type = "save" => seen + 1 < r[i].change
          /\ \A c \in Changes : seen + 1 < c /\ c <= submitted =>
                \E i \in DOMAIN r : r[i].type = "save" /\ r[i].change = c
    /\ \A i \in DOMAIN r : IsDriver(r[i]) => r[i].id = save.id
    /\ ~ IsDriver(t) => /\ OneDriver(asked, tasks) => OneDriver(asked, r)
                        /\ NoDriverIn(tasks) => NoDriverIn(r)
    /\ IsDriver(t) => /\ Pending /\ ~ broken /\ asked = {} /\ NoDriverIn(r)
                      /\ t.id = save.id
    /\ \A c : AnswerIn(tasks, c) <=> (t.type = "answer" /\ t.change = c) \/ AnswerIn(r, c)
    /\ t.type # "answer" => (AnswerDue <=> asked # {} \/ \E i \in DOMAIN r : r[i].type = "answer")

(* ... which the invariant does say. *)
LEMMA FirstTask ==
    ASSUME RepInv, tasks # <<>>
    PROVE  FirstIs(Head(tasks), Tail(tasks))
<1> DEFINE t == Head(tasks)
           r == Tail(tasks)
<1>1. tasks \in Seq(Tasks) /\ seen \in Nat /\ submitted \in Nat /\ submitted <= MaxChanges /\ MaxChanges \in Nat
  BY Counters DEF RepInv, TypeOK
<1>2. /\ r \in Seq(Tasks) /\ 1 \in DOMAIN tasks /\ t = tasks[1] /\ t \in Tasks
      /\ \A i \in DOMAIN r : i \in Nat /\ i > 0 /\ i + 1 \in DOMAIN tasks /\ r[i] = tasks[i + 1]
      /\ \A j \in DOMAIN tasks : j \in Nat /\ j > 0 /\
             (j = 1 \/ (j - 1 \in DOMAIN r /\ r[j - 1] = tasks[j]))
  BY <1>1, PopFacts
<1>3. /\ NoDriverIn(tasks) => NoDriverIn(r) /\ ~ IsDriver(t)
      /\ OneDriverIn(tasks) /\ ~ IsDriver(t) => OneDriverIn(r)
      /\ OneDriverIn(tasks) /\ IsDriver(t) => NoDriverIn(r)
  BY <1>1, PopDrivers
<1> HIDE DEF t, r
<1>4. /\ \A i \in DOMAIN r : r[i].type = "resume" =>
             call[r[i].by] = "signalled" /\ (save # NoSave => iter[r[i].by] < made)
      /\ \A i \in DOMAIN r : r[i].type = "finalize" => call[r[i].by] = "called"
      /\ t.type = "resume" => call[t.by] = "signalled" /\ (save # NoSave => iter[t.by] < made)
      /\ t.type = "finalize" => call[t.by] = "called"
  BY <1>2 DEF RepInv, CallInv
<1>5. \A i, j \in DOMAIN tasks :
          tasks[i].type = "finalize" /\ tasks[j].type = "finalize" /\ tasks[i].by = tasks[j].by => i = j
  BY DEF RepInv, CallInv
<1>6. ASSUME NEW i \in DOMAIN r, NEW j \in DOMAIN r,
             r[i].type = "finalize", r[j].type = "finalize", r[i].by = r[j].by
      PROVE  i = j
  <2>1. i + 1 = j + 1
    BY <1>2, <1>5, <1>6
  <2> QED BY <1>2, <2>1
<1>7. ASSUME t.type = "finalize", NEW i \in DOMAIN r, r[i].type = "finalize"
      PROVE  r[i].by # t.by
  <2>1. i + 1 # 1
    BY <1>2
  <2> QED BY <1>2, <1>5, <1>7, <2>1
<1>8. \A i, j \in DOMAIN tasks : i < j /\ tasks[i].type = "save" /\ tasks[j].type = "save" =>
          tasks[i].change < tasks[j].change
  BY DEF RepInv, NumberedInv
<1>9. ASSUME NEW i \in DOMAIN r, NEW j \in DOMAIN r, i < j, r[i].type = "save", r[j].type = "save"
      PROVE  r[i].change < r[j].change
  <2>1. i + 1 < j + 1
    BY <1>2, <1>9
  <2> QED BY <1>2, <1>8, <1>9, <2>1
<1>10. \A i \in DOMAIN r : r[i].type = "save" => seen < r[i].change /\ r[i].change <= submitted
  BY <1>2 DEF RepInv, NumberedInv
<1>11. \A c \in Changes : seen < c /\ c <= submitted =>
           (t.type = "save" /\ t.change = c) \/ \E i \in DOMAIN r : r[i].type = "save" /\ r[i].change = c
  <2> SUFFICES ASSUME NEW c \in Changes, seen < c, c <= submitted
               PROVE  (t.type = "save" /\ t.change = c)
                          \/ \E i \in DOMAIN r : r[i].type = "save" /\ r[i].change = c
    OBVIOUS
  <2>1. PICK j \in DOMAIN tasks : tasks[j].type = "save" /\ tasks[j].change = c
    BY DEF RepInv, NumberedInv
  <2> QED BY <1>2, <2>1
<1>12. ASSUME t.type = "save"
       PROVE  /\ t.change = seen + 1 /\ seen < submitted
              /\ \A i \in DOMAIN r : r[i].type = "save" => seen + 1 < r[i].change
  <2>1. seen < t.change /\ t.change <= submitted /\ t.change \in Changes
    BY <1>2, <1>12, TaskFields DEF RepInv, NumberedInv
  <2>2. \A i \in DOMAIN r : r[i].type = "save" => t.change < r[i].change
    <3> SUFFICES ASSUME NEW i \in DOMAIN r, r[i].type = "save" PROVE t.change < r[i].change
      OBVIOUS
    <3>1. 1 < i + 1 /\ i + 1 \in DOMAIN tasks /\ tasks[i + 1] = r[i]
      BY <1>2
    <3> QED BY <1>2, <1>8, <1>12, <3>1
  <2>3. seen + 1 \in Changes /\ seen < seen + 1 /\ seen + 1 <= submitted
    BY <1>1, <2>1 DEF Changes
  <2>4. t.change = seen + 1
    <3>1. \A i \in DOMAIN r : r[i].type = "save" => r[i].change # seen + 1
      BY <1>1, <2>1, <2>2, <2>3 DEF Changes
    <3> QED BY <1>11, <2>3, <3>1
  <2> QED BY <1>1, <2>1, <2>2, <2>3, <2>4
<1>13. t.type = "save" => \A c \in Changes : seen + 1 < c /\ c <= submitted =>
           \E i \in DOMAIN r : r[i].type = "save" /\ r[i].change = c
  <2> SUFFICES ASSUME t.type = "save", NEW c \in Changes, seen + 1 < c, c <= submitted
               PROVE  \E i \in DOMAIN r : r[i].type = "save" /\ r[i].change = c
    OBVIOUS
  <2>1. seen < c /\ t.change # c
    BY <1>1, <1>12 DEF Changes
  <2> QED BY <1>11, <2>1
<1>14. \A i \in DOMAIN r : IsDriver(r[i]) => r[i].id = save.id
  BY <1>2 DEF RepInv, DriverInv
<1>15. ~ IsDriver(t) => /\ OneDriver(asked, tasks) => OneDriver(asked, r)
                        /\ NoDriverIn(tasks) => NoDriverIn(r)
  BY <1>3 DEF OneDriver
<1>16. IsDriver(t) => /\ Pending /\ ~ broken /\ asked = {} /\ NoDriverIn(r)
                      /\ t.id = save.id
  BY <1>2, <1>3 DEF RepInv, DriverInv, OneDriver
<1>17. \A c : AnswerIn(tasks, c) <=> (t.type = "answer" /\ t.change = c) \/ AnswerIn(r, c)
  <2> SUFFICES ASSUME NEW c
               PROVE  AnswerIn(tasks, c) <=> (t.type = "answer" /\ t.change = c) \/ AnswerIn(r, c)
    OBVIOUS
  <2>1. ASSUME AnswerIn(tasks, c)
        PROVE  (t.type = "answer" /\ t.change = c) \/ AnswerIn(r, c)
    <3>1. PICK j \in DOMAIN tasks : tasks[j].type = "answer" /\ tasks[j].change = c
      BY <2>1 DEF AnswerIn
    <3> QED BY <1>2, <3>1 DEF AnswerIn
  <2>2. (t.type = "answer" /\ t.change = c) \/ AnswerIn(r, c) => AnswerIn(tasks, c)
    BY <1>2 DEF AnswerIn
  <2> QED BY <2>1, <2>2
<1>18. t.type # "save" => \A c \in Changes : seen < c /\ c <= submitted =>
           \E i \in DOMAIN r : r[i].type = "save" /\ r[i].change = c
  BY <1>11
<1>19. t.type # "answer" => (AnswerDue <=> asked # {} \/ \E i \in DOMAIN r : r[i].type = "answer")
  <2>1. ASSUME t.type # "answer", NEW j \in DOMAIN tasks, tasks[j].type = "answer"
        PROVE  \E i \in DOMAIN r : r[i].type = "answer"
    BY <1>2, <2>1
  <2>2. ASSUME NEW i \in DOMAIN r, r[i].type = "answer"
        PROVE  \E j \in DOMAIN tasks : tasks[j].type = "answer"
    BY <1>2, <2>2
  <2> QED BY <2>1, <2>2 DEF AnswerDue
<1>20. FirstIs(t, r)
  BY <1>2, <1>4, <1>6, <1>7, <1>9, <1>10, <1>12, <1>13, <1>14, <1>15, <1>16, <1>17, <1>18, <1>19
     DEF FirstIs
<1> QED BY <1>20 DEF t, r

-----------------------------------------------------------------------------
(* The steps of the strand *)

(* What SaveTask does with the change n: it is left out, or starts a save,  *)
(* or waits for the pending one.                                            *)
Saved(n) ==
    \/ save # NoSave /\ save.shutdown /\ UNCHANGED <<save, asked>>
    \/ /\ ~ Pending /\ Waits = <<>>
       /\ save'.pending /\ save'.waits = <<>> /\ ~ save'.shutdown
       /\ asked' = {[id |-> made', change |-> n]}
    \/ /\ Pending /\ asked' = asked
       /\ save'.pending /\ save'.waits = Append(Waits, n) /\ ~ save'.shutdown

(* The change that SaveTask takes is seen + 1, and its entry is the newest. *)
LEMMA SaveEffect ==
    ASSUME RepInv, tasks # <<>>, Head(tasks).type = "save", SaveTask(Head(tasks))
    PROVE  /\ seen + 1 \in Changes /\ seen' = seen + 1 /\ tasks' = Tail(tasks) /\ seen < submitted
           /\ save' \in Saves /\ save' # NoSave /\ save'.id = made' /\ made' \in 1 .. seen'
           /\ save = NoSave => made' = made + 1
           /\ save # NoSave => made' = made /\ save'.id = save.id
           /\ Signals' = Signals
           /\ Saved(seen + 1)
           /\ ignored' \subseteq Changes
<1> DEFINE t == Head(tasks)
           e == FoundOrInserted
           n == seen + 1
<1>1. /\ t.change = n /\ seen < submitted /\ t \in Tasks
  BY FirstTask DEF FirstIs
<1>2. /\ submitted \in Nat /\ seen \in Nat /\ made \in Nat /\ MaxChanges \in Nat
      /\ made <= seen /\ submitted <= MaxChanges
  BY Counters DEF RepInv
<1>3. n \in Changes
  BY <1>1, <1>2 DEF Changes
<1>4. /\ tasks' = Tail(tasks) /\ seen' = n /\ made' = e.id
      /\ UNCHANGED <<client, submitted, call, iter, due, answered, broken, fault>>
  BY DEF SaveTask, finalizeVars
<1>5. e.shutdown => ignored' = ignored \cup {t.change} /\ UNCHANGED <<save, asked>>
  BY DEF SaveTask
<1>8. /\ e \in [id : Nat, shutdown : BOOLEAN, signals : Seq(Finalizers),
                pending : BOOLEAN, waits : Seq(Changes)]
      /\ e.id \in 1 .. n
      /\ save = NoSave => e.id = made + 1 /\ ~ e.shutdown /\ ~ e.pending
      /\ save # NoSave => e = save /\ e.id = made
      /\ e.signals = Signals /\ e.waits = Waits
      /\ e.pending <=> Pending
  <2>1. CASE save = NoSave
    <3>1. e = [id |-> made + 1, shutdown |-> FALSE, signals |-> <<>>, pending |-> FALSE, waits |-> <<>>]
      BY <2>1 DEF FoundOrInserted
    <3> HIDE DEF e
    <3>2. <<>> \in Seq(Finalizers) /\ <<>> \in Seq(Changes) /\ made + 1 \in Nat /\ made + 1 \in 1 .. n
      BY <1>2
    <3> QED BY <2>1, <3>1, <3>2 DEF Signals, Waits, Pending
  <2>2. CASE save # NoSave
    <3>1. e = save /\ save \in Saves /\ save.id = made
      BY <2>2 DEF FoundOrInserted, RepInv, TypeOK, CallInv
    <3> HIDE DEF e
    <3> QED BY <1>2, <2>2, <3>1 DEF Signals, Waits, Pending, Saves
  <2> QED BY <2>1, <2>2
<1>6. ~ e.shutdown /\ ~ e.pending =>
          /\ save' = [e EXCEPT !.pending = TRUE, !.waits = Tail(Append(e.waits, n))]
          /\ asked' = asked \cup {[id |-> e.id, change |-> Head(Append(e.waits, n))]}
          /\ ignored' = ignored
  <2> SUFFICES ASSUME ~ e.shutdown, ~ e.pending
               PROVE  /\ save' = [e EXCEPT !.pending = TRUE, !.waits = Tail(Append(e.waits, n))]
                      /\ asked' = asked \cup {[id |-> e.id, change |-> Head(Append(e.waits, n))]}
                      /\ ignored' = ignored
    OBVIOUS
  <2> DEFINE q == [e EXCEPT !.waits = Append(@, n)]
  <2>1. Start(q) /\ ignored' = ignored
    BY <1>1 DEF SaveTask, MayStart
  <2>2. e \in [id : Nat, shutdown : BOOLEAN, signals : Seq(Finalizers),
               pending : BOOLEAN, waits : Seq(Changes)]
    BY <1>8
  <2>3. q.waits = Append(e.waits, n) /\ q.id = e.id
    BY <2>2
  <2>4. [q EXCEPT !.pending = TRUE, !.waits = Tail(Append(e.waits, n))]
            = [e EXCEPT !.pending = TRUE, !.waits = Tail(Append(e.waits, n))]
    BY <2>2
  <2> QED BY <2>1, <2>3, <2>4 DEF Start, Popped
<1>7. ~ e.shutdown /\ e.pending =>
          save' = [e EXCEPT !.waits = Append(@, n)] /\ UNCHANGED <<asked, ignored>>
  BY <1>1 DEF SaveTask, MayStart
<1> HIDE DEF e, t, n
<1>9. e.id \in 1 .. MaxChanges /\ n \in Nat /\ n <= MaxChanges
  BY <1>1, <1>2, <1>8 DEF n
<1>10. Waits # <<>> => Pending
  BY DEF RepInv, DriverInv
<1>11. ~ Pending => asked = {}
  BY DEF RepInv, DriverInv
<1>12. CASE e.shutdown
  <2>1. save # NoSave /\ save' = save /\ asked' = asked /\ save.shutdown
    BY <1>5, <1>8, <1>12
  <2>2. save \in Saves
    BY <2>1 DEF RepInv, TypeOK
  <2>3. Saved(n)
    BY <2>1 DEF Saved
  <2>4. Signals' = Signals
    BY <2>1 DEF Signals
  <2>5. ignored' \subseteq Changes
    BY <1>1, <1>3, <1>5, <1>12 DEF RepInv, TypeOK, n
  <2> QED BY <1>1, <1>3, <1>4, <1>8, <2>1, <2>2, <2>3, <2>4, <2>5 DEF n
<1>13. CASE ~ e.shutdown /\ ~ e.pending
  <2>1. e.waits = <<>> /\ asked = {} /\ ~ Pending
    BY <1>8, <1>10, <1>11, <1>13
  <2>2. Tail(Append(e.waits, n)) = <<>> /\ Head(Append(e.waits, n)) = n
    BY <2>1
  <2>3. /\ save' = [e EXCEPT !.pending = TRUE, !.waits = <<>>]
        /\ asked' = {[id |-> e.id, change |-> n]}
        /\ ignored' = ignored
    BY <1>6, <1>13, <2>1, <2>2
  <2>4. /\ save' \in Saves /\ save'.pending /\ save'.waits = <<>> /\ ~ save'.shutdown
        /\ save'.id = e.id /\ save'.signals = e.signals
    <3>1. <<>> \in Seq(Changes) /\ ~ e.shutdown
      BY <1>13
    <3>2. /\ save'.pending /\ save'.waits = <<>> /\ ~ save'.shutdown
          /\ save'.id = e.id /\ save'.signals = e.signals
      BY <1>8, <2>3, <3>1
    <3>3. save' \in Saves
      BY <1>8, <1>9, <2>3, <3>1 DEF Saves
    <3> QED BY <3>2, <3>3
  <2>5. save' # NoSave
    BY <2>4, NoSaveAssumption
  <2>6. Saved(n)
    BY <1>4, <1>8, <2>1, <2>3, <2>4 DEF Saved
  <2>7. Signals' = Signals
    BY <1>8, <2>4, <2>5 DEF Signals
  <2> QED BY <1>1, <1>3, <1>4, <1>8, <2>3, <2>4, <2>5, <2>6, <2>7 DEF n, RepInv, TypeOK
<1>14. CASE ~ e.shutdown /\ e.pending
  <2>1. save' = [e EXCEPT !.waits = Append(e.waits, n)] /\ asked' = asked /\ ignored' = ignored
    BY <1>7, <1>14
  <2>2. Append(e.waits, n) \in Seq(Changes)
    BY <1>3, <1>8 DEF n
  <2>3. /\ save' \in Saves /\ save'.pending /\ save'.waits = Append(e.waits, n) /\ ~ save'.shutdown
        /\ save'.id = e.id /\ save'.signals = e.signals
    BY <1>8, <1>9, <1>14, <2>1, <2>2 DEF Saves
  <2>4. save' # NoSave
    BY <2>3, NoSaveAssumption
  <2>5. Saved(n)
    BY <1>8, <1>14, <2>1, <2>3 DEF Saved
  <2>6. Signals' = Signals
    BY <1>8, <2>3, <2>4 DEF Signals
  <2> QED BY <1>1, <1>3, <1>4, <1>8, <2>1, <2>3, <2>4, <2>5, <2>6 DEF n, RepInv, TypeOK
<1>15. e.shutdown \in BOOLEAN /\ e.pending \in BOOLEAN
  BY <1>8
<1> QED BY <1>12, <1>13, <1>14, <1>15

(* The change n is on its way to the database, behind the others, or comes  *)
(* after a FinalizeSaves.                                                   *)
LEMMA SaveTaskStep ==
    ASSUME RepInv, tasks # <<>>, Head(tasks).type = "save", SaveTask(Head(tasks))
    PROVE  RepInv'
<1> DEFINE t == Head(tasks)
           r == Tail(tasks)
           n == seen + 1
<1>1. /\ n \in Changes /\ seen' = n /\ tasks' = r /\ seen < submitted
      /\ save' \in Saves /\ save' # NoSave /\ save'.id = made' /\ made' \in 1 .. seen'
      /\ save = NoSave => made' = made + 1
      /\ save # NoSave => made' = made /\ save'.id = save.id
      /\ Signals' = Signals
      /\ Saved(n)
      /\ ignored' \subseteq Changes
  BY SaveEffect
<1>2. UNCHANGED <<client, submitted, call, iter, due, answered, broken, fault>>
  BY DEF SaveTask, finalizeVars
<1>3. FirstIs(t, r) /\ t.type = "save" /\ ~ IsDriver(t)
  BY FirstTask DEF IsDriver
<1>4. /\ submitted \in Nat /\ seen \in Nat /\ made \in Nat /\ MaxChanges \in Nat
      /\ made <= seen /\ submitted <= MaxChanges /\ Len(answered) \in Nat /\ Len(answered) <= seen
  BY Counters DEF RepInv
<1>5. /\ \A c : AnswerIn(tasks, c) <=> AnswerIn(r, c)
      /\ AnswerDue <=> asked # {} \/ \E i \in DOMAIN r : r[i].type = "answer"
      /\ OneDriver(asked, tasks) => OneDriver(asked, r)
      /\ NoDriverIn(tasks) => NoDriverIn(r)
  BY <1>3 DEF FirstIs
<1>6. Waits \in Seq(Changes) /\ Signals \in Seq(Finalizers) /\ (save # NoSave => Waits = save.waits)
  BY EntryFields DEF RepInv
<1>7. Waits' = save'.waits
  BY <1>1 DEF Waits
<1> HIDE DEF t, r
<1>8. /\ seen' \in 0 .. submitted' /\ made' \in 0 .. seen' /\ submitted' = submitted
      /\ made' \in 1 .. MaxChanges /\ n \in Nat /\ n > seen /\ Len(answered) <= seen'
      /\ made' = made \/ made' = made + 1
  <2>1. n <= submitted
    BY <1>1, <1>4
  <2> QED BY <1>1, <1>2, <1>4, <2>1
<1> HIDE DEF n
<1>10. \/ /\ save # NoSave /\ save.shutdown /\ save' = save /\ asked' = asked
          /\ Waits' = Waits /\ (Pending' <=> Pending)
       \/ /\ ~ Pending /\ Waits = <<>> /\ Pending' /\ Waits' = <<>> /\ ~ save'.shutdown
          /\ asked' = {[id |-> made', change |-> n]} /\ asked = {} /\ NoDriverIn(tasks) /\ ~ broken
       \/ /\ Pending /\ asked' = asked /\ Pending' /\ Waits' = Append(Waits, n) /\ ~ save'.shutdown
  <2>1. ~ Pending => asked = {} /\ NoDriverIn(tasks) /\ ~ broken
    BY DEF RepInv, DriverInv
  <2> QED BY <1>1, <1>7, <2>1 DEF Saved, Pending, Waits
<1>11. TypeOK'
  <2>1. /\ client' \in BOOLEAN /\ broken' \in BOOLEAN
        /\ fault' \in {"none", "stale iterator", "save is gone"}
        /\ call' \in [Finalizers -> {"none", "called", "waiting", "signalled", "done"}]
        /\ answered' \in Seq(Changes) /\ submitted' \in 0 .. MaxChanges
    BY <1>2 DEF RepInv, TypeOK
  <2>2. iter' \in [Finalizers -> 0 .. made'] /\ due' \in [Finalizers -> 0 .. seen']
    <3>1. 0 .. made \subseteq 0 .. made' /\ 0 .. seen \subseteq 0 .. seen'
      BY <1>1, <1>4, <1>8
    <3>2. iter \in [Finalizers -> 0 .. made] /\ due \in [Finalizers -> 0 .. seen]
      BY DEF RepInv, TypeOK
    <3> QED BY <1>2, <3>1, <3>2
  <2>3. asked' \subseteq [id : 1 .. MaxChanges, change : Changes]
    <3>1. asked \subseteq [id : 1 .. MaxChanges, change : Changes]
      BY DEF RepInv, TypeOK
    <3>2. {[id |-> made', change |-> n]} \subseteq [id : 1 .. MaxChanges, change : Changes]
      BY <1>1, <1>8
    <3> QED BY <1>10, <3>1, <3>2
  <2>4. tasks' \in Seq(Tasks)
    BY <1>1, <1>3 DEF FirstIs
  <2>5. Len(answered') <= seen'
    BY <1>2, <1>8
  <2> QED BY <1>1, <1>8, <2>1, <2>2, <2>3, <2>4, <2>5 DEF TypeOK
<1>12. CallInv'
  <2>1. save' # NoSave => save'.id = made'
    BY <1>1
  <2>2. \A i \in DOMAIN Signals' : call'[Signals'[i]] = "waiting" /\ iter'[Signals'[i]] = made'
    <3>1. save = NoSave => DOMAIN Signals = {}
      BY DEF Signals
    <3>2. \A i \in DOMAIN Signals : call[Signals[i]] = "waiting" /\ iter[Signals[i]] = made
      BY DEF RepInv, CallInv
    <3> QED BY <1>1, <1>2, <3>1, <3>2
  <2>3. \A i \in DOMAIN tasks' : tasks'[i].type = "resume" =>
            call'[tasks'[i].by] = "signalled" /\ (save' # NoSave => iter'[tasks'[i].by] < made')
    <3> SUFFICES ASSUME NEW i \in DOMAIN r, r[i].type = "resume"
                 PROVE  call[r[i].by] = "signalled" /\ iter[r[i].by] < made'
      BY <1>1, <1>2
    <3>1. call[r[i].by] = "signalled" /\ (save # NoSave => iter[r[i].by] < made) /\ r[i] \in Tasks
      BY <1>3 DEF FirstIs
    <3>2. iter[r[i].by] \in 0 .. made
      BY <3>1, TaskFields DEF RepInv, TypeOK
    <3> QED BY <1>1, <1>4, <3>1, <3>2
  <2>4. \A i \in DOMAIN tasks' : tasks'[i].type = "finalize" => call'[tasks'[i].by] = "called"
    BY <1>1, <1>2, <1>3 DEF FirstIs
  <2>5. \A i, j \in DOMAIN tasks' :
          tasks'[i].type = "finalize" /\ tasks'[j].type = "finalize" /\ tasks'[i].by = tasks'[j].by
              => i = j
    BY <1>1, <1>3 DEF FirstIs
  <2>6. client' => call'["saveError"] = "none"
    BY <1>2 DEF RepInv, CallInv
  <2>7. save' # NoSave /\ save'.shutdown => \E g \in Finalizers : call'[g] = "waiting"
    BY <1>2, <1>10 DEF RepInv, CallInv
  <2> QED BY <2>1, <2>2, <2>3, <2>4, <2>5, <2>6, <2>7 DEF CallInv
<1>13. DriverInv'
  <2>1. \A i \in DOMAIN tasks' : IsDriver(tasks'[i]) => tasks'[i].id = save'.id
    <3> SUFFICES ASSUME NEW i \in DOMAIN r, IsDriver(r[i]) PROVE r[i].id = save'.id
      BY <1>1 DEF IsDriver
    <3>1. r[i].id = save.id
      BY <1>3 DEF FirstIs
    <3>2. Pending
      BY <1>5 DEF RepInv, DriverInv, NoDriverIn
    <3> QED BY <1>1, <3>1, <3>2 DEF Pending
  <2>2. \A a \in asked' : a.id = save'.id
    <3>1. \A a \in asked : a.id = save.id /\ Pending
      BY DEF RepInv, DriverInv
    <3> QED BY <1>1, <1>10, <3>1 DEF Pending
  <2>3. /\ Pending' /\ ~ broken' => OneDriver(asked', tasks')
        /\ ~ (Pending' /\ ~ broken') => asked' = {} /\ NoDriverIn(tasks')
    <3>1. /\ Pending /\ ~ broken => OneDriver(asked, r)
          /\ ~ (Pending /\ ~ broken) => asked = {} /\ NoDriverIn(r)
      BY <1>5 DEF RepInv, DriverInv
    <3>2. asked' = {[id |-> made', change |-> n]} /\ NoDriverIn(r) => OneDriver(asked', r)
      BY DEF OneDriver
    <3> QED BY <1>1, <1>2, <1>5, <1>10, <3>1, <3>2
  <2>4. (Waits # <<>> => Pending)' /\ (broken => Pending)'
    BY <1>2, <1>10 DEF RepInv, DriverInv
  <2> QED BY <2>1, <2>2, <2>3, <2>4 DEF DriverInv, IsDriver
<1>14. NumberedInv'
  BY <1>1, <1>2, <1>3 DEF FirstIs, NumberedInv, n
<1>15. OrderInv' /\ CountInv'
  <2>1. /\ SavedInOrder'
        /\ \A i \in DOMAIN answered' : answered'[i] <= seen'
        /\ \A i \in DOMAIN answered : answered[i] <= seen /\ answered[i] \in Nat
        /\ \A c \in Changes : InFlight(c) => c <= seen /\ \A i \in DOMAIN answered : answered[i] < c
        /\ \A c \in Changes : c \in Nat
    <3>0. answered \in Seq(Changes) /\ \A i \in DOMAIN answered : answered[i] <= seen
      BY DEF RepInv, OrderInv, TypeOK
    <3>1. \A i \in DOMAIN answered : answered[i] <= seen /\ answered[i] \in Changes
      BY <3>0
    <3>2. \A c \in Changes : c \in Nat
      BY DEF Changes
    <3>3. \A i \in DOMAIN answered : answered[i] <= seen'
      <4> SUFFICES ASSUME NEW i \in DOMAIN answered PROVE answered[i] <= seen'
        OBVIOUS
      <4>1. answered[i] <= seen /\ answered[i] \in Nat /\ seen' = n
        BY <1>1, <3>1, <3>2
      <4> QED BY <1>4, <1>8, <4>1
    <3> QED BY <1>2, <3>1, <3>2, <3>3 DEF RepInv, OrderInv, SavedInOrder
  <2>2. \A i \in DOMAIN Waits : /\ Waits[i] <= seen /\ Waits[i] \in Nat
                                /\ \A j \in DOMAIN answered : answered[j] < Waits[i]
                                /\ \A c \in Changes : InFlight(c) => c < Waits[i]
    BY <1>6, <2>1 DEF RepInv, OrderInv
  <2>3. \A i, j \in DOMAIN Waits : i < j => Waits[i] < Waits[j]
    BY DEF RepInv, OrderInv
  <2>4. Len(answered) + Len(Waits) + (IF AnswerDue THEN 1 ELSE 0) <= seen /\ Len(Waits) \in Nat
    BY <1>6 DEF RepInv, CountInv
  <2>5. CASE asked' = asked /\ Waits' = Waits
    <3>1. \A c : InFlight(c)' <=> InFlight(c)
      BY <1>1, <1>5, <2>5 DEF InFlight
    <3>2. AnswerDue' <=> AnswerDue
      BY <1>1, <1>5, <2>5 DEF AnswerDue
    <3>3. \A c \in Changes : InFlight(c)' => c <= seen' /\ \A i \in DOMAIN answered : answered[i] < c
      BY <1>4, <1>8, <1>1, <2>1, <3>1
    <3>4. \A i \in DOMAIN Waits : Waits[i] <= seen'
      BY <1>4, <1>8, <1>1, <2>2
    <3>5. OrderInv'
      BY <1>2, <2>1, <2>2, <2>3, <2>5, <3>1, <3>3, <3>4 DEF OrderInv
    <3>6. CountInv'
      <4>1. (IF AnswerDue' THEN 1 ELSE 0) = (IF AnswerDue THEN 1 ELSE 0)
        BY <3>2
      <4>2. (IF AnswerDue THEN 1 ELSE 0) \in Nat
        OBVIOUS
      <4>3. Len(answered) + Len(Waits) + (IF AnswerDue THEN 1 ELSE 0) <= seen'
        BY <1>1, <1>4, <1>8, <2>4, <4>2
      <4> QED BY <1>2, <2>5, <4>1, <4>3 DEF CountInv
    <3> QED BY <3>5, <3>6
  <2>6. CASE asked = {} /\ NoDriverIn(tasks) /\ asked' = {[id |-> made', change |-> n]} /\ Waits' = <<>>
    <3>1. \A c : InFlight(c)' => c = n
      BY <1>1, <1>5, <2>6 DEF InFlight, AnswerIn, NoDriverIn, IsDriver
    <3>2. \A i \in DOMAIN answered : answered[i] < n
      BY <1>4, <1>8, <2>1
    <3>3. \A c \in Changes : InFlight(c)' => c <= seen' /\ \A i \in DOMAIN answered : answered[i] < c
      BY <1>1, <1>8, <3>1, <3>2
    <3>4. OrderInv'
      BY <1>2, <2>1, <2>6, <3>3 DEF OrderInv
    <3>5. CountInv'
      <4>1. Len(Waits') = 0 /\ (IF AnswerDue' THEN 1 ELSE 0) \in 0 .. 1
        BY <2>6
      <4>2. Len(answered) + 0 + 1 <= seen'
        BY <1>1, <1>4 DEF n
      <4> HIDE DEF AnswerDue
      <4>3. Len(answered) + 0 + (IF AnswerDue' THEN 1 ELSE 0) <= seen'
        BY <1>1, <1>4, <1>8, <4>1, <4>2
      <4> QED BY <1>2, <4>1, <4>3 DEF CountInv
    <3> QED BY <3>4, <3>5
  <2>7. CASE asked' = asked /\ Waits' = Append(Waits, n)
    <3>1. \A c : InFlight(c)' <=> InFlight(c)
      BY <1>1, <1>5, <2>7 DEF InFlight
    <3>2. AnswerDue' <=> AnswerDue
      BY <1>1, <1>5, <2>7 DEF AnswerDue
    <3>3. /\ \A i \in DOMAIN Waits' : (i \in DOMAIN Waits /\ Waits'[i] = Waits[i] /\ i < Len(Waits) + 1)
                                      \/ (i = Len(Waits) + 1 /\ Waits'[i] = n)
          /\ Len(Waits') = Len(Waits) + 1
      BY <1>1, <1>6, <2>7
    <3>4. \A c \in Changes : InFlight(c)' => c <= seen' /\ \A i \in DOMAIN answered : answered[i] < c
      BY <1>4, <1>8, <1>1, <2>1, <3>1
    <3>5. \A i \in DOMAIN Waits' : Waits'[i] <= seen'
      BY <1>1, <1>4, <1>8, <2>2, <3>3
    <3>6. \A i \in DOMAIN Waits' : \A j \in DOMAIN answered : answered[j] < Waits'[i]
      BY <1>4, <1>8, <2>1, <2>2, <3>3
    <3>7. \A i \in DOMAIN Waits' : \A c \in Changes : InFlight(c)' => c < Waits'[i]
      BY <1>4, <1>8, <2>1, <2>2, <3>1, <3>3
    <3>8. \A i, j \in DOMAIN Waits' : i < j => Waits'[i] < Waits'[j]
      <4> SUFFICES ASSUME NEW i \in DOMAIN Waits', NEW j \in DOMAIN Waits', i < j
                   PROVE  Waits'[i] < Waits'[j]
        OBVIOUS
      <4>1. DOMAIN Waits \subseteq Nat /\ Len(Waits) \in Nat
        BY <1>6
      <4>2. i \in DOMAIN Waits /\ Waits'[i] = Waits[i]
        BY <3>3, <4>1
      <4>3. CASE j \in DOMAIN Waits /\ Waits'[j] = Waits[j]
        BY <2>3, <4>2, <4>3
      <4>4. CASE Waits'[j] = n
        BY <1>4, <1>8, <2>2, <4>2, <4>4
      <4> QED BY <3>3, <4>3, <4>4
    <3>9. OrderInv'
      BY <1>2, <2>1, <3>4, <3>5, <3>6, <3>7, <3>8 DEF OrderInv
    <3>10. CountInv'
      <4>1. (IF AnswerDue' THEN 1 ELSE 0) = (IF AnswerDue THEN 1 ELSE 0)
        BY <3>2
      <4>2. (IF AnswerDue THEN 1 ELSE 0) \in Nat
        OBVIOUS
      <4>3. Len(answered) + (Len(Waits) + 1) + (IF AnswerDue THEN 1 ELSE 0) <= seen'
        BY <1>1, <1>4, <2>4, <4>2 DEF n
      <4> QED BY <1>2, <3>3, <4>1, <4>3 DEF CountInv
    <3> QED BY <3>9, <3>10
  <2> QED BY <1>10, <2>5, <2>6, <2>7
<1>16. CoverInv'
  <2> SUFFICES ASSUME NEW c \in Changes, c <= seen'
               PROVE  Answered(c)' \/ InFlight(c)' \/ Waiting(c)' \/ Late(c)'
    BY DEF CoverInv
  <2>1. Answered(c)' <=> Answered(c)
    BY <1>2 DEF Answered
  <2>2. Late(c)' <=> Late(c)
    BY <1>2 DEF Late
  <2>3. CASE c <= seen
    <3>1. Answered(c) \/ InFlight(c) \/ Waiting(c) \/ Late(c)
      BY <2>3 DEF RepInv, CoverInv
    <3>2. CASE asked' = asked /\ Waits' = Waits
      BY <1>1, <1>5, <2>1, <2>2, <3>1, <3>2 DEF InFlight, Waiting
    <3>3. CASE asked = {} /\ NoDriverIn(tasks) /\ Waits = <<>>
      <4>1. ~ InFlight(c) /\ ~ Waiting(c)
        BY <3>3 DEF InFlight, Waiting, AnswerIn, NoDriverIn, IsDriver
      <4> QED BY <2>1, <2>2, <3>1, <4>1
    <3>4. CASE asked' = asked /\ Waits' = Append(Waits, n)
      <4>1. Waiting(c) => Waiting(c)'
        BY <1>1, <1>6, <3>4 DEF Waiting
      <4>2. InFlight(c)' <=> InFlight(c)
        BY <1>1, <1>5, <3>4 DEF InFlight
      <4> QED BY <2>1, <2>2, <3>1, <4>1, <4>2
    <3> QED BY <1>10, <3>2, <3>3, <3>4
  <2>4. CASE c = n
    <3>1. CASE save # NoSave /\ save.shutdown
      <4>1. PICK g \in Finalizers : call[g] = "waiting"
        BY <3>1 DEF RepInv, CallInv
      <4>2. due[g] \in 0 .. seen
        BY DEF RepInv, TypeOK
      <4>3. due[g] < c
        BY <1>4, <1>8, <2>4, <4>2
      <4> QED BY <2>2, <4>1, <4>3 DEF Late
    <3>2. CASE asked' = {[id |-> made', change |-> n]}
      BY <2>4, <3>2 DEF InFlight
    <3>3. CASE Waits' = Append(Waits, n)
      <4>1. Len(Waits) + 1 \in DOMAIN Waits' /\ Waits'[Len(Waits) + 1] = n
        BY <1>1, <1>6, <3>3
      <4> QED BY <2>4, <4>1 DEF Waiting
    <3> QED BY <1>10, <3>1, <3>2, <3>3
  <2>5. c <= seen \/ c = n
    BY <1>1, <1>4 DEF n, Changes
  <2> QED BY <2>3, <2>4, <2>5
<1>17. FinalizedIsSaved'
  BY <1>2 DEF RepInv, FinalizedIsSaved
<1> QED BY <1>11, <1>12, <1>13, <1>14, <1>15, <1>16, <1>17 DEF RepInv

(* A task that is no save leaves the saves of the queue in their order, and *)
(* so do the tasks it posts.                                                *)
LEMMA OthersKeepNumbered ==
    ASSUME RepInv, tasks # <<>>, Head(tasks).type # "save",
           UNCHANGED <<seen, submitted>>,
           \A i \in DOMAIN Tail(tasks) : i \in DOMAIN tasks' /\ tasks'[i] = Tail(tasks)[i],
           \A i \in DOMAIN tasks' : i \in DOMAIN Tail(tasks) \/ tasks'[i].type # "save"
    PROVE  NumberedInv'
<1> DEFINE t == Head(tasks)
           r == Tail(tasks)
<1>1. FirstIs(t, r) /\ t.type # "save"
  BY FirstTask
<1>2. /\ \A i \in DOMAIN r : i \in DOMAIN tasks' /\ tasks'[i] = r[i]
      /\ \A i \in DOMAIN tasks' : i \in DOMAIN r \/ tasks'[i].type # "save"
  OBVIOUS
<1> HIDE DEF t, r
<1>3. /\ \A i, j \in DOMAIN r : i < j /\ r[i].type = "save" /\ r[j].type = "save" =>
             r[i].change < r[j].change
      /\ \A i \in DOMAIN r : r[i].type = "save" => seen < r[i].change /\ r[i].change <= submitted
      /\ \A c \in Changes : seen < c /\ c <= submitted =>
             \E i \in DOMAIN r : r[i].type = "save" /\ r[i].change = c
  BY <1>1 DEF FirstIs
<1> QED BY <1>2, <1>3 DEF NumberedInv

(* What FinalizeSaves does: it is done when nothing of the entry is under   *)
(* way, and else its signal is added to the entry's.                        *)
Finalized(f) ==
    /\ due' = [due EXCEPT ![f] = seen]
    /\ save' \in Saves \cup {NoSave}
    /\ Waits' = Waits
    /\ Pending' <=> Pending
    /\ \/ /\ ~ Pending /\ Waits = <<>> /\ save' = NoSave
          /\ call' = [call EXCEPT ![f] = "done"]
          /\ iter' = iter
       \/ /\ Pending /\ save' # NoSave /\ save'.id = save.id
          /\ Signals' = Append(Signals, f)
          /\ call' = [call EXCEPT ![f] = "waiting"]
          /\ iter' = [iter EXCEPT ![f] = made]

(* Finalize does that, as changes wait only behind a pending save. *)
LEMMA FinalizeEffect ==
    ASSUME RepInv, NEW f \in Finalizers, Finalize(f)
    PROVE  Finalized(f)
<1>1. due' = [due EXCEPT ![f] = seen]
  BY DEF Finalize
<1>2. Waits # <<>> => Pending
  BY DEF RepInv, DriverInv
<1>3. CASE /\ save = NoSave
           /\ call' = [call EXCEPT ![f] = "done"]
           /\ UNCHANGED <<save, iter>>
  BY <1>1, <1>3 DEF Finalized, Waits, Pending
<1>4. CASE /\ save # NoSave /\ MustWait(save)
           /\ save' = [save EXCEPT !.shutdown = TRUE, !.signals = Append(@, f)]
           /\ call' = [call EXCEPT ![f] = "waiting"]
           /\ iter' = [iter EXCEPT ![f] = save.id]
  <2>1. /\ save \in Saves /\ Waits = save.waits /\ Signals = save.signals
        /\ Append(save.signals, f) \in Seq(Finalizers)
    BY <1>4, EntryFields DEF RepInv
  <2>2. save.id = made
    BY <1>4 DEF RepInv, CallInv
  <2>3. Pending
    BY <1>2, <1>4, <2>1 DEF MustWait, Pending
  <2>4. /\ save' \in Saves /\ save'.id = save.id /\ save'.pending = save.pending
        /\ save'.waits = save.waits /\ save'.signals = Append(save.signals, f)
    BY <1>4, <2>1 DEF Saves
  <2>5. save' # NoSave
    BY <2>4, NoSaveAssumption
  <2>6. Waits' = Waits /\ Signals' = Append(Signals, f)
    BY <2>1, <2>4, <2>5 DEF Waits, Signals
  <2>7. Pending' <=> Pending
    BY <1>4, <2>4, <2>5 DEF Pending
  <2> QED BY <1>1, <1>4, <2>2, <2>3, <2>4, <2>5, <2>6, <2>7 DEF Finalized
<1>5. CASE /\ save # NoSave /\ ~ MustWait(save)
           /\ save' = NoSave
           /\ call' = [call EXCEPT ![f] = "done"]
           /\ UNCHANGED iter
  <2>1. Waits = <<>> /\ ~ Pending
    BY <1>5 DEF MustWait, Waits, Pending
  <2>2. Waits' = <<>> /\ ~ Pending'
    BY <1>5 DEF Waits, Pending
  <2> QED BY <1>1, <1>5, <2>1, <2>2 DEF Finalized
<1> QED BY <1>3, <1>4, <1>5 DEF Finalize

(* The calls, when a FinalizeSaves that has not run yet has run. *)
LEMMA FinalizedCalls ==
    ASSUME RepInv, NEW f \in Finalizers, Finalized(f), call[f] \in {"none", "called"},
           made' = made, seen' = seen
    PROVE  /\ \A g \in Finalizers : g # f => call'[g] = call[g] /\ iter'[g] = iter[g] /\ due'[g] = due[g]
           /\ call'[f] \in {"waiting", "done"} /\ due'[f] = seen
           /\ call'[f] = "done" => ~ Pending /\ Waits = <<>>
           /\ call' \in [Finalizers -> {"none", "called", "waiting", "signalled", "done"}]
           /\ iter' \in [Finalizers -> 0 .. made]
           /\ due' \in [Finalizers -> 0 .. seen]
           /\ \A c : Late(c) => Late(c)'
           /\ save' # NoSave => save # NoSave /\ save'.id = made' /\ save'.id = save.id
           /\ \A i \in DOMAIN Signals' : call'[Signals'[i]] = "waiting" /\ iter'[Signals'[i]] = made'
           /\ save' # NoSave => \E g \in Finalizers : call'[g] = "waiting"
<1>1. /\ call \in [Finalizers -> {"none", "called", "waiting", "signalled", "done"}]
      /\ iter \in [Finalizers -> 0 .. made]
      /\ due \in [Finalizers -> 0 .. seen]
  BY DEF RepInv, TypeOK
<1>2. seen \in Nat /\ made \in Nat
  BY Counters DEF RepInv
<1>3. /\ \A g \in Finalizers : g # f => call'[g] = call[g] /\ iter'[g] = iter[g] /\ due'[g] = due[g]
      /\ call'[f] \in {"waiting", "done"} /\ due'[f] = seen
      /\ call'[f] = "done" => ~ Pending /\ Waits = <<>>
  BY <1>1 DEF Finalized
<1>4. /\ call' \in [Finalizers -> {"none", "called", "waiting", "signalled", "done"}]
      /\ iter' \in [Finalizers -> 0 .. made]
      /\ due' \in [Finalizers -> 0 .. seen]
  BY <1>1, <1>2 DEF Finalized
<1>5. \A c : Late(c) => Late(c)'
  BY <1>3 DEF Late
<1>6. save' # NoSave => save # NoSave /\ save'.id = made' /\ save'.id = save.id
  BY DEF Finalized, RepInv, CallInv, Pending
<1>7. /\ \A i \in DOMAIN Signals' : call'[Signals'[i]] = "waiting" /\ iter'[Signals'[i]] = made'
      /\ save' # NoSave => \E g \in Finalizers : call'[g] = "waiting"
  <2>1. CASE save' = NoSave
    BY <2>1 DEF Signals
  <2>2. CASE /\ Signals' = Append(Signals, f)
             /\ call' = [call EXCEPT ![f] = "waiting"]
             /\ iter' = [iter EXCEPT ![f] = made]
    <3>1. call'[f] = "waiting" /\ iter'[f] = made
      BY <1>1, <2>2
    <3>2. /\ Signals \in Seq(Finalizers)
          /\ \A i \in DOMAIN Signals : call[Signals[i]] = "waiting" /\ iter[Signals[i]] = made
      BY EntryFields DEF RepInv, CallInv
    <3>3. \A i \in DOMAIN Signals' : Signals'[i] = f \/ (i \in DOMAIN Signals /\ Signals'[i] = Signals[i])
      BY <2>2, <3>2
    <3>4. \A i \in DOMAIN Signals : Signals[i] \in Finalizers /\ Signals[i] # f
      BY <3>2
    <3> QED BY <1>3, <3>1, <3>2, <3>3, <3>4
  <2> QED BY <2>1, <2>2 DEF Finalized
<1> QED BY <1>3, <1>4, <1>5, <1>6, <1>7

(* A posted FinalizeSaves runs.  When it is done at once, nothing of the    *)
(* entry was under way, so CoverInv has every change seen answered or late. *)
LEMMA FinalizeTaskStep ==
    ASSUME RepInv, tasks # <<>>, Head(tasks).type = "finalize", FinalizeTask(Head(tasks))
    PROVE  RepInv'
<1> DEFINE t == Head(tasks)
           r == Tail(tasks)
           f == t.by
<1>1. FirstIs(t, r) /\ t.type = "finalize" /\ ~ IsDriver(t)
  BY FirstTask DEF IsDriver
<1>2. /\ tasks' = r
      /\ UNCHANGED <<client, submitted, made, asked, seen, answered, ignored, broken, fault>>
      /\ Finalize(f)
  BY DEF FinalizeTask
<1>3. f \in Finalizers /\ call[f] = "called"
  BY <1>1, TaskFields DEF FirstIs
<1>4. Finalized(f)
  BY <1>2, <1>3, FinalizeEffect
<1>5. NumberedInv'
  BY <1>1, <1>2, OthersKeepNumbered
<1> HIDE DEF t, r, f
<1>6. /\ \A g \in Finalizers : g # f => call'[g] = call[g] /\ iter'[g] = iter[g] /\ due'[g] = due[g]
      /\ call'[f] \in {"waiting", "done"} /\ due'[f] = seen
      /\ call'[f] = "done" => ~ Pending /\ Waits = <<>>
      /\ call' \in [Finalizers -> {"none", "called", "waiting", "signalled", "done"}]
      /\ iter' \in [Finalizers -> 0 .. made]
      /\ due' \in [Finalizers -> 0 .. seen]
      /\ \A c : Late(c) => Late(c)'
      /\ save' # NoSave => save # NoSave /\ save'.id = made' /\ save'.id = save.id
      /\ \A i \in DOMAIN Signals' : call'[Signals'[i]] = "waiting" /\ iter'[Signals'[i]] = made'
      /\ save' # NoSave => \E g \in Finalizers : call'[g] = "waiting"
  BY <1>2, <1>3, <1>4, FinalizedCalls
<1>7. /\ \A c : AnswerIn(tasks, c) <=> AnswerIn(r, c)
      /\ AnswerDue <=> asked # {} \/ \E i \in DOMAIN r : r[i].type = "answer"
      /\ OneDriver(asked, tasks) => OneDriver(asked, r)
      /\ NoDriverIn(tasks) => NoDriverIn(r)
  BY <1>1 DEF FirstIs
<1>8. Waits' = Waits /\ (Pending' <=> Pending) /\ (Pending => save' # NoSave)
  BY <1>4 DEF Finalized
<1>9. TypeOK'
  <2>1. tasks' \in Seq(Tasks) /\ save' \in Saves \cup {NoSave}
    BY <1>1, <1>2, <1>4 DEF FirstIs, Finalized
  <2> QED BY <1>2, <1>6, <2>1 DEF RepInv, TypeOK
<1>10. CallInv'
  <2>1. \A i \in DOMAIN r : r[i].type \in {"resume", "finalize"} => r[i].by \in Finalizers
    BY <1>1, TaskFields DEF FirstIs
  <2>2. \A i \in DOMAIN tasks' : tasks'[i].type = "resume" =>
            call'[tasks'[i].by] = "signalled" /\ (save' # NoSave => iter'[tasks'[i].by] < made')
    BY <1>1, <1>2, <1>3, <1>6, <2>1 DEF FirstIs
  <2>3. \A i \in DOMAIN r : r[i].type = "finalize" => r[i].by # f /\ call[r[i].by] = "called"
    BY <1>1 DEF FirstIs, f
  <2>4. \A i \in DOMAIN tasks' : tasks'[i].type = "finalize" => call'[tasks'[i].by] = "called"
    BY <1>2, <1>6, <2>1, <2>3
  <2>5. \A i, j \in DOMAIN tasks' :
          tasks'[i].type = "finalize" /\ tasks'[j].type = "finalize" /\ tasks'[i].by = tasks'[j].by
              => i = j
    BY <1>1, <1>2 DEF FirstIs
  <2>6. client' => call'["saveError"] = "none"
    BY <1>2, <1>3, <1>6 DEF RepInv, CallInv, Finalizers
  <2> QED BY <1>6, <2>2, <2>4, <2>5, <2>6 DEF CallInv
<1>11. DriverInv'
  <2>1. Pending /\ ~ broken => OneDriver(asked', tasks')
    BY <1>2, <1>7 DEF RepInv, DriverInv
  <2>2. ~ (Pending /\ ~ broken) => asked' = {} /\ NoDriverIn(tasks')
    BY <1>2, <1>7 DEF RepInv, DriverInv
  <2>3. \A a \in asked' : a.id = save'.id
    BY <1>2, <1>6, <1>8 DEF RepInv, DriverInv
  <2>4. \A i \in DOMAIN tasks' : IsDriver(tasks'[i]) => tasks'[i].id = save'.id
    <3> SUFFICES ASSUME NEW i \in DOMAIN r, IsDriver(r[i]) PROVE r[i].id = save'.id
      BY <1>2
    <3>1. Pending
      BY <1>7 DEF RepInv, DriverInv, NoDriverIn
    <3>2. r[i].id = save.id
      BY <1>1 DEF FirstIs
    <3> QED BY <1>6, <1>8, <3>1, <3>2
  <2> QED BY <1>2, <1>8, <2>1, <2>2, <2>3, <2>4 DEF RepInv, DriverInv, IsDriver
<1>12. \A c : InFlight(c)' <=> InFlight(c)
  BY <1>2, <1>7 DEF InFlight
<1>13. OrderInv'
  BY <1>2, <1>8, <1>12 DEF RepInv, OrderInv, SavedInOrder
<1>14. CoverInv'
  BY <1>2, <1>6, <1>8, <1>12 DEF RepInv, CoverInv, Answered, Waiting
<1>15. CountInv'
  <2>1. AnswerDue' <=> AnswerDue
    BY <1>2, <1>7 DEF AnswerDue
  <2>2. (IF AnswerDue' THEN 1 ELSE 0) = (IF AnswerDue THEN 1 ELSE 0)
    BY <2>1
  <2> QED BY <1>2, <1>8, <2>2 DEF RepInv, CountInv
<1>16. FinalizedIsSaved'
  <2> SUFFICES ASSUME NEW g \in Finalizers, call'[g] \in {"signalled", "done"}, NEW c \in 1 .. due'[g]
               PROVE  Answered(c)' \/ Late(c)'
    BY <1>2 DEF FinalizedIsSaved, Answered, Late
  <2>1. Answered(c)' <=> Answered(c)
    BY <1>2 DEF Answered
  <2>2. CASE g # f
    <3>1. Answered(c) \/ Late(c)
      BY <1>6, <2>2 DEF RepInv, FinalizedIsSaved, Answered, Late
    <3> QED BY <1>6, <2>1, <3>1
  <2>3. CASE g = f
    <3>1. ~ Pending /\ Waits = <<>> /\ due'[f] = seen
      BY <1>6, <2>3
    <3>2. c \in Changes /\ c <= seen
      BY <2>3, <3>1, Counters DEF RepInv, Changes
    <3>3. ~ Waiting(c)
      BY <3>1 DEF Waiting
    <3>4. ~ InFlight(c)
      BY <3>1 DEF InFlight, AnswerIn, RepInv, DriverInv, NoDriverIn, IsDriver
    <3>5. Answered(c) \/ Late(c)
      BY <3>2, <3>3, <3>4 DEF RepInv, CoverInv
    <3> QED BY <1>6, <2>1, <3>5
  <2> QED BY <2>2, <2>3
<1> QED BY <1>5, <1>9, <1>10, <1>11, <1>13, <1>14, <1>15, <1>16 DEF RepInv

(* The answer of the pending save is the next one. *)
LEMMA AnswerTaskStep ==
    ASSUME RepInv, tasks # <<>>, Head(tasks).type = "answer", AnswerTask(Head(tasks))
    PROVE  RepInv'
<1> DEFINE t == Head(tasks)
           r == Tail(tasks)
           n == t.change
           u == [type |-> "complete", id |-> t.id]
<1>1. FirstIs(t, r) /\ t.type = "answer" /\ IsDriver(t) /\ 1 \in DOMAIN tasks /\ t = tasks[1]
  BY FirstTask, PopFacts DEF IsDriver, RepInv, TypeOK
<1>2. /\ answered' = Append(answered, n)
      /\ t.result = "error" /\ client => client' = FALSE /\ Finalize("saveError")
      /\ ~ (t.result = "error" /\ client) => UNCHANGED <<client, save, call, iter, due>>
      /\ \/ broken' = TRUE /\ tasks' = r
         \/ tasks' = Append(r, u) /\ UNCHANGED broken
      /\ UNCHANGED <<submitted, made, asked, seen, ignored, fault>>
  BY DEF AnswerTask, finalizeVars
<1>3. /\ n \in Changes /\ u \in Tasks /\ u.type = "complete" /\ u.id = t.id /\ IsDriver(u)
      /\ r \in Seq(Tasks)
  BY <1>1, TaskFields, TaskMakers DEF FirstIs, IsDriver
<1>4. Pending /\ ~ broken /\ asked = {} /\ NoDriverIn(r) /\ t.id = save.id
  BY <1>1 DEF FirstIs
<1>5. /\ tasks' \in Seq(Tasks)
      /\ \A i \in DOMAIN r : i \in DOMAIN tasks' /\ tasks'[i] = r[i]
      /\ \A i \in DOMAIN tasks' : i \in DOMAIN r \/ tasks'[i] = u
      /\ tasks' = r \/ tasks' = Append(r, u)
  <2>1. CASE tasks' = r
    BY <1>3, <2>1
  <2>2. CASE tasks' = Append(r, u)
    <3> HIDE DEF u, r
    <3> QED BY <1>3, <2>2, PushFacts
  <2> QED BY <1>2, <2>1, <2>2
<1>6. NumberedInv'
  <2>1. \A i \in DOMAIN tasks' : i \in DOMAIN r \/ tasks'[i].type # "save"
    BY <1>3, <1>5
  <2> QED BY <1>1, <1>2, <1>5, <2>1, OthersKeepNumbered
<1>7. AnswerIn(tasks, n) /\ InFlight(n) /\ AnswerDue
  BY <1>1 DEF AnswerIn, InFlight, AnswerDue
<1> HIDE DEF t, r, n, u
<1>8. /\ \A c : ~ InFlight(c)'
      /\ ~ AnswerDue'
  <2>1. \A i \in DOMAIN tasks' : tasks'[i].type # "answer"
    BY <1>3, <1>4, <1>5 DEF NoDriverIn, IsDriver
  <2> QED BY <1>2, <1>4, <2>1 DEF InFlight, AnswerIn, AnswerDue
<1>9. \A c : InFlight(c) => c = n
  <2>1. \A c : ~ AnswerIn(r, c)
    BY <1>4 DEF AnswerIn, NoDriverIn, IsDriver
  <2>2. \A c : AnswerIn(tasks, c) => c = n \/ AnswerIn(r, c)
    BY <1>1 DEF FirstIs, n
  <2> QED BY <1>4, <2>1, <2>2 DEF InFlight
<1>10. /\ call' \in [Finalizers -> {"none", "called", "waiting", "signalled", "done"}]
       /\ iter' \in [Finalizers -> 0 .. made] /\ due' \in [Finalizers -> 0 .. seen]
       /\ client' \in BOOLEAN /\ save' \in Saves \cup {NoSave}
       /\ Waits' = Waits /\ Pending' /\ save'.id = save.id
       /\ \A c : Late(c) => Late(c)'
       /\ \A g \in Finalizers : call'[g] \in {"signalled", "done"} => call'[g] = call[g] /\ due'[g] = due[g]
       /\ \A g \in Finalizers : call[g] \in {"signalled", "called"} => call'[g] = call[g] /\ iter'[g] = iter[g]
       /\ save' # NoSave => save # NoSave /\ save'.id = made
       /\ \A i \in DOMAIN Signals' : call'[Signals'[i]] = "waiting" /\ iter'[Signals'[i]] = made
       /\ client' => call'["saveError"] = "none"
       /\ save' # NoSave /\ save'.shutdown => \E g \in Finalizers : call'[g] = "waiting"
  <2>1. CASE t.result = "error" /\ client
    <3> DEFINE f == "saveError"
    <3>1. f \in Finalizers /\ call[f] = "none" /\ client' = FALSE /\ Finalize(f)
      BY <1>2, <2>1 DEF Finalizers, RepInv, CallInv
    <3>2. Finalized(f)
      BY <3>1, FinalizeEffect
    <3> HIDE DEF f
    <3>3. /\ \A g \in Finalizers : g # f => call'[g] = call[g] /\ iter'[g] = iter[g] /\ due'[g] = due[g]
          /\ call'[f] \in {"waiting", "done"} /\ due'[f] = seen
          /\ call'[f] = "done" => ~ Pending /\ Waits = <<>>
          /\ call' \in [Finalizers -> {"none", "called", "waiting", "signalled", "done"}]
          /\ iter' \in [Finalizers -> 0 .. made]
          /\ due' \in [Finalizers -> 0 .. seen]
          /\ \A c : Late(c) => Late(c)'
          /\ save' # NoSave => save # NoSave /\ save'.id = made' /\ save'.id = save.id
          /\ \A i \in DOMAIN Signals' : call'[Signals'[i]] = "waiting" /\ iter'[Signals'[i]] = made'
          /\ save' # NoSave => \E g \in Finalizers : call'[g] = "waiting"
      BY <1>2, <3>1, <3>2, FinalizedCalls
    <3>4. Waits' = Waits /\ Pending' /\ save' \in Saves \cup {NoSave} /\ save'.id = save.id
      BY <1>4, <3>2 DEF Finalized
    <3>5. \A g \in Finalizers : call'[g] \in {"signalled", "done"} => call'[g] = call[g] /\ due'[g] = due[g]
      BY <1>4, <3>3
    <3>6. \A g \in Finalizers : call[g] \in {"signalled", "called"} => call'[g] = call[g] /\ iter'[g] = iter[g]
      BY <3>1, <3>3
    <3> QED BY <1>2, <3>1, <3>3, <3>4, <3>5, <3>6
  <2>2. CASE ~ (t.result = "error" /\ client)
    <3>1. UNCHANGED <<client, save, call, iter, due>>
      BY <1>2, <2>2
    <3>2. Waits' = Waits /\ (Pending' <=> Pending) /\ Signals' = Signals /\ \A c : Late(c)' <=> Late(c)
      BY <3>1 DEF Waits, Pending, Signals, Late
    <3>3. /\ call' \in [Finalizers -> {"none", "called", "waiting", "signalled", "done"}]
          /\ iter' \in [Finalizers -> 0 .. made] /\ due' \in [Finalizers -> 0 .. seen]
          /\ client' \in BOOLEAN /\ save' \in Saves \cup {NoSave}
      BY <3>1 DEF RepInv, TypeOK
    <3>4. /\ save' # NoSave => save # NoSave /\ save'.id = made
          /\ \A i \in DOMAIN Signals' : call'[Signals'[i]] = "waiting" /\ iter'[Signals'[i]] = made
          /\ client' => call'["saveError"] = "none"
          /\ save' # NoSave /\ save'.shutdown => \E g \in Finalizers : call'[g] = "waiting"
      BY <3>1, <3>2 DEF RepInv, CallInv
    <3>5. /\ \A g \in Finalizers : call'[g] \in {"signalled", "done"} => call'[g] = call[g] /\ due'[g] = due[g]
          /\ \A g \in Finalizers : call[g] \in {"signalled", "called"} => call'[g] = call[g] /\ iter'[g] = iter[g]
      BY <3>1
    <3>6. Pending' /\ save'.id = save.id /\ \A c : Late(c) => Late(c)'
      BY <1>4, <3>1, <3>2
    <3> HIDE DEF Late
    <3> QED BY <3>2, <3>3, <3>4, <3>5, <3>6
  <2> QED BY <2>1, <2>2
<1>11. answered \in Seq(Changes) /\ answered' \in Seq(Changes)
  <2>1. answered \in Seq(Changes)
    BY DEF RepInv, TypeOK
  <2> QED BY <1>2, <1>3, <2>1
<1>12. /\ \A i \in DOMAIN answered' :
              (i \in DOMAIN answered /\ answered'[i] = answered[i] /\ i < Len(answered) + 1)
              \/ (i = Len(answered) + 1 /\ answered'[i] = n)
       /\ \A i \in DOMAIN answered : i \in DOMAIN answered' /\ answered'[i] = answered[i]
       /\ Len(answered) + 1 \in DOMAIN answered' /\ answered'[Len(answered) + 1] = n
       /\ Len(answered') = Len(answered) + 1 /\ Len(answered) \in Nat /\ DOMAIN answered \subseteq Nat
  BY <1>2, <1>3, <1>11
<1>13. \A c : Answered(c)' <=> Answered(c) \/ c = n
  BY <1>12 DEF Answered
<1>14. CountInv'
  <2>1. Len(answered) + Len(Waits) + 1 <= seen
    BY <1>7 DEF RepInv, CountInv
  <2>2. (IF AnswerDue' THEN 1 ELSE 0) = 0
    BY <1>8
  <2>3. Len(Waits) \in Nat /\ seen \in Nat
    BY EntryFields, Counters DEF RepInv
  <2>4. Len(answered) + 1 + Len(Waits) + 0 <= seen
    BY <1>12, <2>1, <2>3
  <2> QED BY <1>2, <1>10, <1>12, <2>2, <2>4 DEF CountInv
<1>15. TypeOK'
  <2>1. Len(answered') <= seen'
    <3>1. Len(answered) + Len(Waits) + 1 <= seen
      BY <1>7 DEF RepInv, CountInv
    <3>2. Len(Waits) \in Nat /\ seen \in Nat
      BY EntryFields, Counters DEF RepInv
    <3> QED BY <1>2, <1>12, <3>1, <3>2
  <2>2. broken' \in BOOLEAN
    BY <1>2 DEF RepInv, TypeOK
  <2> QED BY <1>2, <1>5, <1>10, <1>11, <2>1, <2>2 DEF RepInv, TypeOK
<1>16. CallInv'
  <2>1. \A i \in DOMAIN r : r[i].type \in {"resume", "finalize"} => r[i].by \in Finalizers
    BY <1>3, TaskFields
  <2>2. \A i \in DOMAIN tasks' : tasks'[i].type = "resume" =>
            call'[tasks'[i].by] = "signalled" /\ (save' # NoSave => iter'[tasks'[i].by] < made')
    <3> SUFFICES ASSUME NEW i \in DOMAIN r, r[i].type = "resume"
                 PROVE  call'[r[i].by] = "signalled" /\ (save' # NoSave => iter'[r[i].by] < made)
      BY <1>2, <1>3, <1>5
    <3>1. call[r[i].by] = "signalled" /\ (save # NoSave => iter[r[i].by] < made)
      BY <1>1 DEF FirstIs
    <3> QED BY <1>10, <2>1, <3>1
  <2>3. \A i \in DOMAIN tasks' : tasks'[i].type = "finalize" => call'[tasks'[i].by] = "called"
    <3> SUFFICES ASSUME NEW i \in DOMAIN r, r[i].type = "finalize"
                 PROVE  call'[r[i].by] = "called"
      BY <1>3, <1>5
    <3>1. call[r[i].by] = "called"
      BY <1>1 DEF FirstIs
    <3> QED BY <1>10, <2>1, <3>1
  <2>4. \A i, j \in DOMAIN tasks' :
          tasks'[i].type = "finalize" /\ tasks'[j].type = "finalize" /\ tasks'[i].by = tasks'[j].by
              => i = j
    BY <1>1, <1>3, <1>5 DEF FirstIs
  <2>5. UNCHANGED made
    BY <1>2
  <2> QED BY <1>10, <2>2, <2>3, <2>4, <2>5 DEF CallInv
<1>17. DriverInv'
  <2>1. Pending' /\ ~ broken' => OneDriver(asked', tasks')
    <3> SUFFICES ASSUME ~ broken' PROVE OneDriver(asked', tasks')
      OBVIOUS
    <3>1. tasks' = Append(r, u)
      BY <1>2
    <3>2. OneDriverIn(tasks')
      BY <1>3, <1>4, <3>1, PushDrivers
    <3> QED BY <1>2, <1>4, <3>2 DEF OneDriver
  <2>2. ~ (Pending' /\ ~ broken') => asked' = {} /\ NoDriverIn(tasks')
    BY <1>2, <1>4, <1>10
  <2>3. \A i \in DOMAIN tasks' : IsDriver(tasks'[i]) => tasks'[i].id = save'.id
    BY <1>3, <1>4, <1>5, <1>10 DEF NoDriverIn
  <2>4. asked' = {}
    BY <1>2, <1>4
  <2> QED BY <1>10, <2>1, <2>2, <2>3, <2>4 DEF DriverInv, IsDriver
<1>18. OrderInv'
  <2>1. /\ n <= seen /\ \A i \in DOMAIN answered : answered[i] < n
        /\ \A i \in DOMAIN Waits : n < Waits[i]
    BY <1>3, <1>7 DEF RepInv, OrderInv
  <2>2. SavedInOrder'
    <3> SUFFICES ASSUME NEW i \in DOMAIN answered', NEW j \in DOMAIN answered', i < j
                 PROVE  answered'[i] < answered'[j]
      BY DEF SavedInOrder
    <3>1. i \in DOMAIN answered /\ answered'[i] = answered[i]
      BY <1>12
    <3> QED BY <1>12, <2>1, <3>1 DEF RepInv, OrderInv, SavedInOrder
  <2>3. \A i \in DOMAIN answered' : answered'[i] <= seen'
    BY <1>2, <1>12, <2>1 DEF RepInv, OrderInv
  <2>4. \A i \in DOMAIN Waits : \A j \in DOMAIN answered' : answered'[j] < Waits[i]
    BY <1>12, <2>1 DEF RepInv, OrderInv
  <2> QED BY <1>2, <1>8, <1>10, <2>2, <2>3, <2>4 DEF RepInv, OrderInv
<1>19. CoverInv'
  <2>1. \A c : Waiting(c)' <=> Waiting(c)
    BY <1>10 DEF Waiting
  <2> QED BY <1>2, <1>9, <1>10, <1>13, <2>1 DEF RepInv, CoverInv
<1>20. FinalizedIsSaved'
  <2> SUFFICES ASSUME NEW g \in Finalizers, call'[g] \in {"signalled", "done"}, NEW c \in 1 .. due'[g]
               PROVE  Answered(c)' \/ Late(c)'
    BY DEF FinalizedIsSaved, Answered, Late
  <2>1. call'[g] = call[g] /\ due'[g] = due[g]
    BY <1>10
  <2>2. Answered(c) \/ Late(c)
    BY <2>1 DEF RepInv, FinalizedIsSaved, Answered, Late
  <2> QED BY <1>10, <1>13, <2>2
<1> QED BY <1>6, <1>14, <1>15, <1>16, <1>17, <1>18, <1>19, <1>20 DEF RepInv

(* A signal finds its entry gone: the iterator is stale. *)
LEMMA ResumeTaskStep ==
    ASSUME RepInv, tasks # <<>>, Head(tasks).type = "resume", ResumeTask(Head(tasks))
    PROVE  RepInv' /\ fault' = "stale iterator"
<1> DEFINE t == Head(tasks)
           r == Tail(tasks)
<1>1. FirstIs(t, r) /\ t.type = "resume" /\ ~ IsDriver(t)
  BY FirstTask DEF IsDriver
<1>2. t.by \in Finalizers /\ (save # NoSave => save.id # iter[t.by])
  <2>1. t.by \in Finalizers /\ (save # NoSave => iter[t.by] < made)
    BY <1>1, TaskFields DEF FirstIs
  <2>2. iter[t.by] \in 0 .. made /\ made \in Nat
    BY <2>1, Counters DEF RepInv, TypeOK
  <2> QED BY <2>1, <2>2 DEF RepInv, CallInv
<1>3. /\ tasks' = r /\ fault' = "stale iterator"
      /\ UNCHANGED <<client, submitted, save, made, asked, call, iter, seen, due, answered, ignored,
                     broken>>
  BY <1>2 DEF ResumeTask
<1>4. NumberedInv'
  BY <1>1, <1>3, OthersKeepNumbered
<1> HIDE DEF t, r
<1>5. /\ \A c : AnswerIn(tasks, c) <=> AnswerIn(r, c)
      /\ AnswerDue <=> asked # {} \/ \E i \in DOMAIN r : r[i].type = "answer"
      /\ OneDriver(asked, tasks) => OneDriver(asked, r)
      /\ NoDriverIn(tasks) => NoDriverIn(r)
  BY <1>1 DEF FirstIs
<1>6. TypeOK'
  BY <1>1, <1>3 DEF RepInv, TypeOK, FirstIs
<1>7. CallInv'
  <2>1. Signals' = Signals
    BY <1>3 DEF Signals
  <2>2. /\ \A i \in DOMAIN tasks' : tasks'[i].type = "resume" =>
               call'[tasks'[i].by] = "signalled" /\ (save' # NoSave => iter'[tasks'[i].by] < made')
        /\ \A i \in DOMAIN tasks' : tasks'[i].type = "finalize" => call'[tasks'[i].by] = "called"
        /\ \A i, j \in DOMAIN tasks' :
               tasks'[i].type = "finalize" /\ tasks'[j].type = "finalize" /\ tasks'[i].by = tasks'[j].by
                   => i = j
    BY <1>1, <1>3 DEF FirstIs
  <2> QED BY <1>3, <2>1, <2>2 DEF RepInv, CallInv
<1>8. DriverInv'
  <2>1. \A i \in DOMAIN tasks' : IsDriver(tasks'[i]) => tasks'[i].id = save'.id
    BY <1>1, <1>3 DEF FirstIs
  <2> QED BY <1>3, <1>5, <2>1 DEF RepInv, DriverInv, Pending, Waits, IsDriver
<1>9. \A c : InFlight(c)' <=> InFlight(c)
  BY <1>3, <1>5 DEF InFlight
<1>10. OrderInv' /\ CoverInv' /\ FinalizedIsSaved'
  BY <1>3, <1>9 DEF RepInv, OrderInv, SavedInOrder, Waits, CoverInv, Answered, Waiting, Late,
                    FinalizedIsSaved
<1>11. CountInv'
  <2>1. AnswerDue' <=> AnswerDue
    BY <1>3, <1>5 DEF AnswerDue
  <2>2. (IF AnswerDue' THEN 1 ELSE 0) = (IF AnswerDue THEN 1 ELSE 0)
    BY <2>1
  <2>3. Len(answered)' = Len(answered) /\ Len(Waits)' = Len(Waits) /\ seen' = seen
    BY <1>3 DEF Waits
  <2> QED BY <2>2, <2>3 DEF RepInv, CountInv
<1> QED BY <1>3, <1>4, <1>6, <1>7, <1>8, <1>10, <1>11 DEF RepInv

(* What OnCompleteSaveChanges does with its entry, which is there. *)
SavesNext ==
    /\ Waits # <<>> /\ tasks' = Tail(tasks) /\ call' = call
    /\ save' \in Saves /\ save' # NoSave /\ save'.id = save.id /\ save'.pending
    /\ save'.shutdown = save.shutdown /\ Signals' = Signals /\ Waits' = Tail(Waits)
    /\ asked' = {[id |-> save.id, change |-> Head(Waits)]}
SignalsAll ==
    /\ Waits = <<>> /\ save' = NoSave /\ asked' = {}
    /\ call' = [f \in Finalizers |-> IF \E i \in DOMAIN Signals : Signals[i] = f THEN "signalled"
                                     ELSE call[f]]
    /\ tasks' = Tail(tasks) \o [i \in DOMAIN Signals |-> [type |-> "resume", by |-> Signals[i]]]
GoesIdle ==
    /\ Waits = <<>> /\ tasks' = Tail(tasks) /\ call' = call /\ asked' = {}
    /\ save' \in Saves /\ save' # NoSave /\ save'.id = save.id /\ ~ save'.pending
    /\ ~ save'.shutdown /\ Signals' = Signals /\ Waits' = <<>>

(* The first task completes a save, so the entry is pending and there. *)
LEMMA CompleteEffect ==
    ASSUME RepInv, tasks # <<>>, Head(tasks).type = "complete", CompleteTask(Head(tasks))
    PROVE  (SavesNext \/ SignalsAll \/ GoesIdle) /\ UNCHANGED fault
<1> DEFINE t == Head(tasks)
<1>1. t.id = save.id /\ Pending /\ asked = {}
  <2>1. IsDriver(t)
    BY DEF IsDriver
  <2> QED BY <2>1, FirstTask DEF FirstIs
<1>2. /\ save # NoSave /\ save \in Saves /\ Waits = save.waits /\ Signals = save.signals
      /\ Waits \in Seq(Changes) /\ Signals \in Seq(Finalizers) /\ save.pending
  BY <1>1, EntryFields DEF RepInv, Pending
<1>3. /\ UNCHANGED fault
      /\ \/ MoreToSave(save) /\ Start(save) /\ tasks' = Tail(tasks) /\ call' = call
         \/ /\ ~ MoreToSave(save) /\ save.shutdown
            /\ call' = [f \in Finalizers |->
                           IF \E i \in DOMAIN save.signals : save.signals[i] = f THEN "signalled"
                           ELSE call[f]]
            /\ tasks' = Tail(tasks) \o
                           [i \in DOMAIN save.signals |-> [type |-> "resume", by |-> save.signals[i]]]
            /\ save' = NoSave /\ asked' = asked
         \/ /\ ~ MoreToSave(save) /\ ~ save.shutdown
            /\ save' = [save EXCEPT !.pending = FALSE]
            /\ tasks' = Tail(tasks) /\ asked' = asked /\ call' = call
  BY <1>1, <1>2 DEF CompleteTask, Signalled
<1> HIDE DEF t
<1>4. CASE MoreToSave(save) /\ Start(save) /\ tasks' = Tail(tasks) /\ call' = call
  <2>1. Waits # <<>> /\ Tail(Waits) \in Seq(Changes)
    BY <1>2, <1>4 DEF MoreToSave
  <2>2. /\ save' = [save EXCEPT !.pending = TRUE, !.waits = Tail(Waits)]
        /\ asked' = {[id |-> save.id, change |-> Head(Waits)]}
    BY <1>1, <1>2, <1>4 DEF Start, Popped
  <2>3. /\ save' \in Saves /\ save'.id = save.id /\ save'.pending
        /\ save'.shutdown = save.shutdown /\ save'.signals = save.signals /\ save'.waits = Tail(Waits)
    BY <1>2, <2>1, <2>2 DEF Saves
  <2>4. save' # NoSave
    BY <2>3, NoSaveAssumption
  <2>5. Signals' = Signals /\ Waits' = Tail(Waits)
    BY <1>2, <2>3, <2>4 DEF Signals, Waits
  <2>6. SavesNext
    BY <1>4, <2>1, <2>2, <2>3, <2>4, <2>5 DEF SavesNext
  <2> QED BY <1>3, <2>6
<1>5. CASE /\ ~ MoreToSave(save) /\ save.shutdown
           /\ call' = [f \in Finalizers |->
                          IF \E i \in DOMAIN save.signals : save.signals[i] = f THEN "signalled"
                          ELSE call[f]]
           /\ tasks' = Tail(tasks) \o
                          [i \in DOMAIN save.signals |-> [type |-> "resume", by |-> save.signals[i]]]
           /\ save' = NoSave /\ asked' = asked
  <2>1. SignalsAll
    BY <1>1, <1>2, <1>5 DEF SignalsAll, MoreToSave
  <2> QED BY <1>3, <2>1
<1>6. CASE /\ ~ MoreToSave(save) /\ ~ save.shutdown
           /\ save' = [save EXCEPT !.pending = FALSE]
           /\ tasks' = Tail(tasks) /\ asked' = asked /\ call' = call
  <2>1. Waits = <<>>
    BY <1>2, <1>6 DEF MoreToSave
  <2>2. /\ save' \in Saves /\ save'.id = save.id /\ ~ save'.pending
        /\ ~ save'.shutdown /\ save'.signals = save.signals /\ save'.waits = save.waits
    BY <1>2, <1>6 DEF Saves
  <2>3. save' # NoSave
    BY <2>2, NoSaveAssumption
  <2>4. Signals' = Signals /\ Waits' = <<>>
    BY <1>2, <2>1, <2>2, <2>3 DEF Signals, Waits
  <2>5. GoesIdle
    BY <1>1, <1>6, <2>1, <2>2, <2>3, <2>4 DEF GoesIdle
  <2> QED BY <1>3, <2>5
<1> QED BY <1>3, <1>4, <1>5, <1>6

(* The next change is asked for, or the entry ends, or it rests. *)
LEMMA CompleteTaskStep ==
    ASSUME RepInv, tasks # <<>>, Head(tasks).type = "complete", CompleteTask(Head(tasks))
    PROVE  RepInv'
<1> DEFINE t == Head(tasks)
           r == Tail(tasks)
<1>1. FirstIs(t, r) /\ t.type = "complete" /\ IsDriver(t)
  BY FirstTask DEF IsDriver
<1>2. UNCHANGED <<client, submitted, made, iter, seen, due, answered, ignored, broken, fault>>
  BY CompleteEffect DEF CompleteTask
<1>3. Pending /\ ~ broken /\ asked = {} /\ NoDriverIn(r) /\ t.id = save.id /\ r \in Seq(Tasks)
  BY <1>1 DEF FirstIs
<1>4. Waits \in Seq(Changes) /\ Signals \in Seq(Finalizers) /\ save # NoSave
  BY <1>3, EntryFields DEF RepInv, Pending
<1>5. /\ \A i \in DOMAIN Signals : call[Signals[i]] = "waiting"
      /\ save.id = made
      /\ client => call["saveError"] = "none"
      /\ save.shutdown => \E g \in Finalizers : call[g] = "waiting"
  BY <1>4 DEF RepInv, CallInv
<1>6. /\ tasks' \in Seq(Tasks)
      /\ \A i \in DOMAIN r : i \in DOMAIN tasks' /\ tasks'[i] = r[i]
      /\ \A i \in DOMAIN tasks' : i \in DOMAIN r \/
            (/\ tasks'[i].type = "resume" /\ save' = NoSave
             /\ call'[tasks'[i].by] = "signalled")
      /\ call' = call \/ SignalsAll
  <2>1. CASE tasks' = r /\ call' = call
    BY <1>3, <2>1
  <2>2. CASE SignalsAll
    <3> HIDE DEF r
    <3>1. /\ tasks' \in Seq(Tasks)
          /\ \A i \in DOMAIN r : i \in DOMAIN tasks' /\ tasks'[i] = r[i]
          /\ \A i \in DOMAIN tasks' : i \in DOMAIN r \/
                \E j \in DOMAIN Signals : tasks'[i].type = "resume" /\ tasks'[i].by = Signals[j]
      BY <1>3, <1>4, <2>2, ResumeFacts DEF SignalsAll, r
    <3>2. \A j \in DOMAIN Signals : call'[Signals[j]] = "signalled"
      BY <1>4, <2>2 DEF SignalsAll
    <3>3. save' = NoSave
      BY <2>2 DEF SignalsAll
    <3> QED BY <2>2, <3>1, <3>2, <3>3
  <2> QED BY <2>1, <2>2, CompleteEffect DEF SavesNext, GoesIdle
<1>7. NumberedInv'
  <2>1. \A i \in DOMAIN tasks' : i \in DOMAIN r \/ tasks'[i].type # "save"
    BY <1>6
  <2> QED BY <1>1, <1>2, <1>6, <2>1, OthersKeepNumbered
<1>8. (SavesNext \/ SignalsAll \/ GoesIdle) /\ tasks # <<>>
  BY CompleteEffect
<1>9. SavesNext \/ GoesIdle => tasks' = r
  BY DEF SavesNext, GoesIdle
<1> HIDE DEF t, r
<1>10. /\ \A c : ~ InFlight(c)
       /\ NoDriverIn(tasks')
       /\ \A c : InFlight(c)' <=> \E a \in asked' : a.change = c
       /\ AnswerDue' <=> asked' # {}
  <2>1. \A c : ~ AnswerIn(r, c)
    BY <1>3 DEF AnswerIn, NoDriverIn, IsDriver
  <2>2. \A c : ~ InFlight(c)
    BY <1>1, <1>3, <2>1 DEF FirstIs, InFlight
  <2>3. \A i \in DOMAIN tasks' : tasks'[i].type # "answer" /\ tasks'[i].type # "complete"
    BY <1>3, <1>6 DEF NoDriverIn, IsDriver
  <2> QED BY <2>2, <2>3 DEF InFlight, AnswerIn, NoDriverIn, IsDriver, AnswerDue
<1>11. /\ call' \in [Finalizers -> {"none", "called", "waiting", "signalled", "done"}]
       /\ \A g \in Finalizers : call[g] \notin {"none", "called"} => call'[g] \notin {"none", "called"}
       /\ \A g \in Finalizers : call[g] \in {"none", "called", "signalled", "done"} => call'[g] = call[g]
       /\ \A g \in Finalizers : call'[g] \in {"signalled", "done"} => call'[g] = call[g] \/ SignalsAll
  <2>1. call \in [Finalizers -> {"none", "called", "waiting", "signalled", "done"}]
    BY DEF RepInv, TypeOK
  <2>2. CASE call' = call
    BY <2>1, <2>2
  <2>3. CASE SignalsAll
    <3>1. \A g \in Finalizers : call'[g] =
              IF \E i \in DOMAIN Signals : Signals[i] = g THEN "signalled" ELSE call[g]
      BY <2>3 DEF SignalsAll
    <3>2. \A g \in Finalizers : (\E i \in DOMAIN Signals : Signals[i] = g) => call[g] = "waiting"
      BY <1>5
    <3>3. call' \in [Finalizers -> {"none", "called", "waiting", "signalled", "done"}]
      BY <2>1, <2>3 DEF SignalsAll
    <3> QED BY <2>1, <2>3, <3>1, <3>2, <3>3
  <2> QED BY <1>6, <2>2, <2>3
<1>12. \A c : Late(c) => Late(c)'
  BY <1>2, <1>11 DEF Late
<1>13. /\ save' # NoSave => save' \in Saves /\ save'.id = made /\ Signals' = Signals
       /\ save' # NoSave /\ save'.shutdown => save.shutdown
       /\ save' \in Saves \cup {NoSave}
       /\ save' # NoSave <=> ~ SignalsAll
  BY <1>5, <1>8 DEF SavesNext, SignalsAll, GoesIdle
<1>14. TypeOK'
  <2>1. asked' \subseteq [id : 1 .. MaxChanges, change : Changes]
    <3>1. CASE SavesNext
      <4>1. Head(Waits) \in Changes
        BY <1>4, <3>1 DEF SavesNext
      <4>2. save.id \in 1 .. MaxChanges
        BY <1>4, EntryFields DEF RepInv
      <4> QED BY <3>1, <4>1, <4>2 DEF SavesNext
    <3>2. CASE SignalsAll \/ GoesIdle
      BY <3>2 DEF SignalsAll, GoesIdle
    <3> QED BY <1>8, <3>1, <3>2
  <2> QED BY <1>2, <1>6, <1>11, <1>13, <2>1 DEF RepInv, TypeOK
<1>15. CallInv'
  <2>1. \A i \in DOMAIN r : r[i].type \in {"resume", "finalize"} => r[i].by \in Finalizers
    BY <1>3, TaskFields
  <2>2. \A i \in DOMAIN tasks' : tasks'[i].type = "resume" =>
            call'[tasks'[i].by] = "signalled" /\ (save' # NoSave => iter'[tasks'[i].by] < made')
    <3> SUFFICES ASSUME NEW i \in DOMAIN tasks', tasks'[i].type = "resume"
                 PROVE  call'[tasks'[i].by] = "signalled" /\ (save' # NoSave => iter[tasks'[i].by] < made)
      BY <1>2
    <3>1. CASE i \in DOMAIN r
      <4>1. call[r[i].by] = "signalled" /\ (save # NoSave => iter[r[i].by] < made)
        BY <1>1, <1>6, <3>1 DEF FirstIs
      <4> QED BY <1>4, <1>6, <1>11, <2>1, <3>1, <4>1
    <3> QED BY <1>6, <3>1
  <2>3. \A i \in DOMAIN tasks' : tasks'[i].type = "finalize" =>
            call'[tasks'[i].by] = "called" /\ i \in DOMAIN r /\ tasks'[i] = r[i]
    <3> SUFFICES ASSUME NEW i \in DOMAIN r, r[i].type = "finalize"
                 PROVE  call'[r[i].by] = "called"
      BY <1>6
    <3>1. call[r[i].by] = "called"
      BY <1>1 DEF FirstIs
    <3> QED BY <1>11, <2>1, <3>1
  <2>4. \A i, j \in DOMAIN tasks' :
          tasks'[i].type = "finalize" /\ tasks'[j].type = "finalize" /\ tasks'[i].by = tasks'[j].by
              => i = j
    BY <1>1, <2>3 DEF FirstIs
  <2>5. \A i \in DOMAIN Signals' : call'[Signals'[i]] = "waiting" /\ iter'[Signals'[i]] = made'
    <3>1. CASE save' = NoSave
      BY <3>1 DEF Signals
    <3>2. CASE save' # NoSave
      <4>1. Signals' = Signals /\ call' = call
        BY <1>6, <1>13, <3>2
      <4> QED BY <1>2, <4>1 DEF RepInv, CallInv
    <3> QED BY <3>1, <3>2
  <2>6. client' => call'["saveError"] = "none"
    BY <1>2, <1>5, <1>11 DEF Finalizers
  <2>7. save' # NoSave /\ save'.shutdown => \E g \in Finalizers : call'[g] = "waiting"
    BY <1>5, <1>6, <1>13
  <2>8. save' # NoSave => save'.id = made'
    BY <1>2, <1>13
  <2> QED BY <2>2, <2>3, <2>4, <2>5, <2>6, <2>7, <2>8 DEF CallInv
<1>16. DriverInv'
  <2>1. \A i \in DOMAIN tasks' : IsDriver(tasks'[i]) => tasks'[i].id = save'.id
    BY <1>10 DEF NoDriverIn
  <2>2. CASE SavesNext
    <3>1. Pending' /\ OneDriver(asked', tasks') /\ \A a \in asked' : a.id = save'.id
      <4>1. asked' = {[id |-> save.id, change |-> Head(Waits)]} /\ save'.id = save.id /\ Pending'
        BY <2>2 DEF SavesNext, Pending
      <4>2. \A a \in asked' : a.id = save'.id
        BY <4>1
      <4>3. OneDriver(asked', tasks')
        BY <1>10, <4>1 DEF OneDriver
      <4> QED BY <4>1, <4>2, <4>3
    <3> QED BY <1>2, <1>3, <2>1, <3>1 DEF DriverInv, IsDriver
  <2>3. CASE SignalsAll \/ GoesIdle
    <3>1. ~ Pending' /\ asked' = {} /\ Waits' = <<>>
      BY <2>3 DEF SignalsAll, GoesIdle, Pending, Waits
    <3> QED BY <1>2, <1>3, <1>10, <2>1, <3>1 DEF DriverInv, IsDriver
  <2> QED BY <1>8, <2>2, <2>3
<1>17. /\ \A i \in DOMAIN Waits : Waits[i] <= seen /\ Waits[i] \in Nat
       /\ \A i \in DOMAIN Waits : \A j \in DOMAIN answered : answered[j] < Waits[i]
       /\ \A i, j \in DOMAIN Waits : i < j => Waits[i] < Waits[j]
       /\ SavedInOrder /\ \A i \in DOMAIN answered : answered[i] <= seen
  <2>1. \A i \in DOMAIN Waits : Waits[i] \in Nat
    <3>1. \A i \in DOMAIN Waits : Waits[i] \in Changes
      BY <1>4
    <3>2. \A c \in Changes : c \in Nat
      BY DEF Changes
    <3> QED BY <3>1, <3>2
  <2>2. /\ \A i \in DOMAIN Waits : Waits[i] <= seen
        /\ \A i \in DOMAIN Waits : \A j \in DOMAIN answered : answered[j] < Waits[i]
        /\ \A i, j \in DOMAIN Waits : i < j => Waits[i] < Waits[j]
        /\ SavedInOrder /\ \A i \in DOMAIN answered : answered[i] <= seen
    BY DEF RepInv, OrderInv
  <2> QED BY <2>1, <2>2
<1>18. Waits # <<>> =>
          /\ 1 \in DOMAIN Waits /\ Head(Waits) = Waits[1] /\ Tail(Waits) \in Seq(Changes)
          /\ Len(Tail(Waits)) = Len(Waits) - 1 /\ Len(Waits) \in Nat
          /\ \A i \in DOMAIN Tail(Waits) : i + 1 \in DOMAIN Waits /\ Tail(Waits)[i] = Waits[i + 1] /\ i \in Nat
                                           /\ 1 < i + 1
          /\ \A i \in DOMAIN Waits : i = 1 \/ (i - 1 \in DOMAIN Tail(Waits) /\ Tail(Waits)[i - 1] = Waits[i])
  BY <1>4
<1>19. OrderInv'
  <2>1. CASE SavesNext
    <3>1. Waits # <<>> /\ Waits' = Tail(Waits) /\ \A c : InFlight(c)' <=> c = Waits[1]
      BY <1>10, <1>18, <2>1 DEF SavesNext
    <3>2. \A c \in Changes : InFlight(c)' => c <= seen /\ \A i \in DOMAIN answered : answered[i] < c
      BY <1>17, <1>18, <3>1
    <3>3. /\ \A i \in DOMAIN Waits' : Waits'[i] <= seen
          /\ \A i \in DOMAIN Waits' : \A j \in DOMAIN answered : answered[j] < Waits'[i]
      BY <1>17, <1>18, <3>1
    <3>4. \A i \in DOMAIN Waits' : \A c \in Changes : InFlight(c)' => c < Waits'[i]
      BY <1>17, <1>18, <3>1
    <3>5. \A i, j \in DOMAIN Waits' : i < j => Waits'[i] < Waits'[j]
      BY <1>17, <1>18, <3>1
    <3> QED BY <1>2, <1>17, <3>2, <3>3, <3>4, <3>5 DEF OrderInv, SavedInOrder
  <2>2. CASE SignalsAll \/ GoesIdle
    <3>1. Waits' = <<>> /\ \A c : ~ InFlight(c)'
      BY <1>10, <2>2 DEF SignalsAll, GoesIdle, Waits
    <3> QED BY <1>2, <1>17, <3>1 DEF OrderInv, SavedInOrder
  <2> QED BY <1>8, <2>1, <2>2
<1>20. CountInv'
  <2>1. Len(answered) + Len(Waits) <= seen /\ Len(Waits) \in Nat /\ Len(answered) \in Nat /\ seen \in Nat
    <3>1. Len(answered) \in Nat /\ seen \in Nat /\ Len(Waits) \in Nat
      BY <1>4, Counters DEF RepInv
    <3>2. (IF AnswerDue THEN 1 ELSE 0) \in Nat
      OBVIOUS
    <3>3. Len(answered) + Len(Waits) + (IF AnswerDue THEN 1 ELSE 0) <= seen
      BY DEF RepInv, CountInv
    <3> QED BY <3>1, <3>2, <3>3
  <2>2. CASE SavesNext
    <3>1. Len(Waits') = Len(Waits) - 1
      BY <1>18, <2>2 DEF SavesNext
    <3>2. (IF AnswerDue' THEN 1 ELSE 0) \in 0 .. 1
      OBVIOUS
    <3>3. Len(answered) + (Len(Waits) - 1) + (IF AnswerDue' THEN 1 ELSE 0) <= seen
      BY <2>1, <3>2
    <3> QED BY <1>2, <3>1, <3>3 DEF CountInv
  <2>3. CASE SignalsAll \/ GoesIdle
    <3>1. Waits' = <<>> /\ ~ AnswerDue'
      BY <1>10, <2>3 DEF SignalsAll, GoesIdle, Waits
    <3>2. Len(Waits') = 0 /\ (IF AnswerDue' THEN 1 ELSE 0) = 0
      BY <3>1
    <3>3. Len(answered) + 0 + 0 <= seen
      BY <2>1
    <3> QED BY <1>2, <3>2, <3>3 DEF CountInv
  <2> QED BY <1>8, <2>2, <2>3
<1>21. CoverInv'
  <2> SUFFICES ASSUME NEW c \in Changes, c <= seen
               PROVE  Answered(c)' \/ InFlight(c)' \/ Waiting(c)' \/ Late(c)'
    BY <1>2 DEF CoverInv
  <2>1. Answered(c)' <=> Answered(c)
    BY <1>2 DEF Answered
  <2>2. Answered(c) \/ Waiting(c) \/ Late(c)
    BY <1>10 DEF RepInv, CoverInv
  <2>3. Waiting(c) => InFlight(c)' \/ Waiting(c)'
    <3>1. CASE SavesNext
      <4>1. Waits # <<>> /\ Waits' = Tail(Waits) /\ (c = Waits[1] => InFlight(c)')
        BY <1>10, <1>18, <3>1 DEF SavesNext
      <4> QED BY <1>18, <4>1 DEF Waiting
    <3>2. CASE SignalsAll \/ GoesIdle
      BY <3>2 DEF SignalsAll, GoesIdle, Waiting
    <3> QED BY <1>8, <3>1, <3>2
  <2> QED BY <1>12, <2>1, <2>2, <2>3
<1>22. FinalizedIsSaved'
  <2> SUFFICES ASSUME NEW g \in Finalizers, call'[g] \in {"signalled", "done"}, NEW c \in 1 .. due'[g]
               PROVE  Answered(c)' \/ Late(c)'
    BY DEF FinalizedIsSaved, Answered, Late
  <2>1. Answered(c)' <=> Answered(c)
    BY <1>2 DEF Answered
  <2>2. CASE call'[g] = call[g]
    <3>1. Answered(c) \/ Late(c)
      BY <1>2, <2>2 DEF RepInv, FinalizedIsSaved, Answered, Late
    <3> QED BY <1>12, <2>1, <3>1
  <2>3. CASE SignalsAll
    <3>1. c \in Changes /\ c <= seen
      <4>1. due[g] \in 0 .. seen
        BY DEF RepInv, TypeOK
      <4>2. c \in 1 .. due[g]
        BY <1>2
      <4>3. seen \in Nat /\ seen <= MaxChanges /\ MaxChanges \in Nat
        BY Counters DEF RepInv
      <4> QED BY <4>1, <4>2, <4>3 DEF Changes
    <3>2. ~ Waiting(c)
      BY <2>3 DEF SignalsAll, Waiting
    <3>3. Answered(c) \/ Late(c)
      BY <1>10, <3>1, <3>2 DEF RepInv, CoverInv
    <3> QED BY <1>12, <2>1, <3>3
  <2> QED BY <1>11, <2>2, <2>3
<1> QED BY <1>7, <1>14, <1>15, <1>16, <1>19, <1>20, <1>21, <1>22 DEF RepInv

-----------------------------------------------------------------------------
(* The theorems *)

(* Every step keeps the invariant. *)
LEMMA NextKeepsRep ==
    ASSUME RepInv, [Next]_vars
    PROVE  RepInv'
<1>1. CASE SaveChanges
  BY <1>1, SaveChangesStep
<1>2. CASE \E f \in {"release", "disconnect"} : CallFinalizeSaves(f)
  <2>1. PICK f \in {"release", "disconnect"} : CallFinalizeSaves(f)
    BY <1>2
  <2> QED BY <2>1, CallFinalizeSavesStep
<1>3. CASE ReleaseEnds \/ UNCHANGED vars
  BY <1>3, ReleaseEndsStep
<1>4. CASE DatabaseAnswers
  BY <1>4, DatabaseAnswersStep
<1>5. CASE RunTask
  BY <1>5, SaveTaskStep, FinalizeTaskStep, AnswerTaskStep, CompleteTaskStep, ResumeTaskStep DEF RunTask
<1> QED BY <1>1, <1>2, <1>3, <1>4, <1>5 DEF Next

(* The strand's invariant holds in every state the repository can be in. *)
THEOREM RepositoryInvariant == Spec => []RepInv
BY InitRep, NextKeepsRep, PTL DEF Spec

(* Every variable of the repository keeps its type. *)
THEOREM RepositoryTypes == Spec => []TypeOK
<1>1. RepInv => TypeOK
  BY DEF RepInv
<1> QED BY <1>1, RepositoryInvariant, PTL

(* The drivers of a pending save, counted. *)
LEMMA DriversCounted ==
    ASSUME RepInv
    PROVE  PendingHasDriver
<1> DEFINE D == {i \in DOMAIN tasks : tasks[i].type \in {"answer", "complete"}}
<1>1. Drivers = Cardinality(asked) + Cardinality(D)
  BY DEF Drivers
<1>2. D = {i \in DOMAIN tasks : IsDriver(tasks[i])}
  BY DEF IsDriver
<1> HIDE DEF D
<1>3. Cardinality({}) = 0 /\ \A x : Cardinality({x}) = 1
  BY FS_EmptySet, FS_Singleton
<1>4. CASE Pending /\ ~ broken
  <2>1. CASE (\E a : asked = {a}) /\ NoDriverIn(tasks)
    <3>1. D = {}
      BY <1>2, <2>1 DEF NoDriverIn
    <3>2. Cardinality(asked) = 1
      BY <1>3, <2>1
    <3> QED BY <1>1, <1>3, <1>4, <3>1, <3>2 DEF PendingHasDriver, Pending
  <2>2. CASE asked = {} /\ OneDriverIn(tasks)
    <3>1. PICK i \in DOMAIN tasks : \A j \in DOMAIN tasks : IsDriver(tasks[j]) <=> j = i
      BY <2>2 DEF OneDriverIn
    <3>2. D = {i}
      BY <1>2, <3>1
    <3>3. Drivers = 1
      BY <1>1, <1>3, <2>2, <3>2
    <3> QED BY <1>4, <3>3 DEF PendingHasDriver, Pending
  <2> QED BY <1>4, <2>1, <2>2 DEF RepInv, DriverInv, OneDriver
<1>5. CASE ~ (Pending /\ ~ broken)
  <2>1. asked = {} /\ D = {}
    BY <1>2, <1>5 DEF RepInv, DriverInv, NoDriverIn
  <2>2. Drivers = 0
    BY <1>1, <1>3, <2>1
  <2>3. (save # NoSave /\ save.waits # <<>>) => save.pending
    BY DEF RepInv, DriverInv, Waits, Pending
  <2> QED BY <1>5, <2>2, <2>3 DEF PendingHasDriver, Pending
<1>6. (save # NoSave /\ save.waits # <<>>) => save.pending
  BY DEF RepInv, DriverInv, Waits, Pending
<1> QED BY <1>4, <1>5, <1>6 DEF PendingHasDriver

(* One step of a pending save is under way, and only then: the entry is     *)
(* neither left alone nor driven twice, however many changes and calls of   *)
(* FinalizeSaves meet on the strand.                                        *)
THEOREM RepositoryDriver == Spec => []PendingHasDriver
BY DriversCounted, RepositoryInvariant, PTL

(* The database service is given the changes once each and in their order.  *)
THEOREM RepositoryOrder == Spec => []SavedInOrder
<1>1. RepInv => SavedInOrder
  BY DEF RepInv, OrderInv
<1> QED BY <1>1, RepositoryInvariant, PTL

(* Whoever FinalizeSaves lets go on finds every change answered that the    *)
(* strand had seen, but for those after another FinalizeSaves.              *)
THEOREM RepositoryFinalized == Spec => []FinalizedIsSaved
<1>1. RepInv => FinalizedIsSaved
  BY DEF RepInv
<1> QED BY <1>1, RepositoryInvariant, PTL

(* Of the two ways to lose the entry only one can happen ... *)
LEMMA OnlyResumeFaults ==
    ASSUME RepInv, [Next]_vars
    PROVE  /\ fault' = fault \/ fault' = "stale iterator"
           /\ \A f \in Finalizers : call[f] = "signalled" => call'[f] = "signalled"
<1> DEFINE Same == fault' = fault \/ fault' = "stale iterator"
           Kept == \A f \in Finalizers : call[f] = "signalled" => call'[f] = "signalled"
<1>0. call \in [Finalizers -> {"none", "called", "waiting", "signalled", "done"}]
  BY DEF RepInv, TypeOK
<1>1. CASE SaveChanges \/ ReleaseEnds \/ DatabaseAnswers \/ UNCHANGED vars
  BY <1>1 DEF SaveChanges, ReleaseEnds, DatabaseAnswers, vars, finalizeVars
<1>2. CASE \E f \in {"release", "disconnect"} : CallFinalizeSaves(f)
  <2>1. PICK f \in {"release", "disconnect"} : CallFinalizeSaves(f)
    BY <1>2
  <2> QED BY <1>0, <2>1 DEF CallFinalizeSaves
<1>3. ASSUME NEW f \in Finalizers, Finalize(f), call[f] # "signalled"
      PROVE  Kept
  <2>1. call' = [call EXCEPT ![f] = "done"] \/ call' = [call EXCEPT ![f] = "waiting"]
    BY <1>3 DEF Finalize
  <2> QED BY <1>0, <1>3, <2>1
<1>4. ASSUME tasks # <<>>, Head(tasks).type = "save", SaveTask(Head(tasks))
      PROVE  Same /\ Kept
  BY <1>4 DEF SaveTask, finalizeVars
<1>5. ASSUME tasks # <<>>, Head(tasks).type = "finalize", FinalizeTask(Head(tasks))
      PROVE  Same /\ Kept
  <2>1. Head(tasks).by \in Finalizers /\ call[Head(tasks).by] = "called"
    BY <1>5, FirstTask, TaskFields DEF FirstIs
  <2> QED BY <1>3, <1>5, <2>1 DEF FinalizeTask
<1>6. ASSUME tasks # <<>>, Head(tasks).type = "answer", AnswerTask(Head(tasks))
      PROVE  Same /\ Kept
  <2>1. client => call["saveError"] # "signalled"
    BY DEF RepInv, CallInv
  <2>2. call' = call \/ (client /\ Finalize("saveError"))
    BY <1>6 DEF AnswerTask, finalizeVars
  <2>3. "saveError" \in Finalizers
    BY DEF Finalizers
  <2>4. fault' = fault
    BY <1>6 DEF AnswerTask
  <2> QED BY <1>3, <2>1, <2>2, <2>3, <2>4
<1>7. ASSUME tasks # <<>>, Head(tasks).type = "complete", CompleteTask(Head(tasks))
      PROVE  Same /\ Kept
  <2>1. (SavesNext \/ SignalsAll \/ GoesIdle) /\ UNCHANGED fault
    BY <1>7, CompleteEffect
  <2> QED BY <2>1 DEF SavesNext, SignalsAll, GoesIdle
<1>8. ASSUME tasks # <<>>, Head(tasks).type = "resume", ResumeTask(Head(tasks))
      PROVE  Same /\ Kept
  <2>1. fault' = "stale iterator"
    BY <1>8, ResumeTaskStep
  <2>2. /\ FirstIs(Head(tasks), Tail(tasks))
    BY <1>8, FirstTask
  <2>3. Head(tasks).by \in Finalizers /\ (save # NoSave => iter[Head(tasks).by] < made)
    BY <1>8, <2>2, TaskFields DEF FirstIs
  <2>4. iter[Head(tasks).by] \in 0 .. made /\ made \in Nat
    BY <2>3, Counters DEF RepInv, TypeOK
  <2>5. ~ (save # NoSave /\ save.id = iter[Head(tasks).by])
    BY <2>3, <2>4 DEF RepInv, CallInv
  <2>6. call' = call
    BY <1>8, <2>5 DEF ResumeTask
  <2> QED BY <2>1, <2>6
<1>9. CASE RunTask
  BY <1>4, <1>5, <1>6, <1>7, <1>8, <1>9 DEF RunTask
<1> QED BY <1>1, <1>2, <1>9 DEF Next

(* ... OnCompleteSaveChanges always finds the entry it is to complete: no   *)
(* FinalizeSaves takes it away while a save is under way.                   *)
THEOREM RepositoryEntryStays == Spec => [](fault # "save is gone")
<1> DEFINE Inv == RepInv /\ fault # "save is gone"
<1>1. Init => Inv
  BY InitRep DEF Init
<1>2. Inv /\ [Next]_vars => Inv'
  BY NextKeepsRep, OnlyResumeFaults
<1>3. Inv => fault # "save is gone"
  OBVIOUS
<1> QED BY <1>1, <1>2, <1>3, PTL DEF Spec

(* ... but a FinalizeSaves that had to wait never ends: the entry its       *)
(* iterator points to was erased by the one that gave it the signal.        *)
THEOREM RepositorySignalIsStale ==
    Spec => [][\A f \in Finalizers : call[f] = "signalled" => call'[f] = "signalled"]_vars
<1>1. RepInv /\ [Next]_vars =>
          [\A f \in Finalizers : call[f] = "signalled" => call'[f] = "signalled"]_vars
  BY OnlyResumeFaults
<1> QED BY <1>1, RepositoryInvariant, PTL DEF Spec
=============================================================================
