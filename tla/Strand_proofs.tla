---------------------------- MODULE Strand_proofs ----------------------------
(***************************************************************************)
(* Proofs about the strand: IndInv is inductive, for any number of threads *)
(* and tasks.  Its parts lean on each other: the counter is exact only     *)
(* because one thread flushes at a time, and a wake-up is on its way only  *)
(* because the counter is exact.  One lemma per action, one step per part. *)
(* QueueInOrder, which is inductive beside it, carries the refinement of    *)
(* SerialExecutor: one lemma says which step of it each action takes.       *)
(***************************************************************************)
EXTENDS Strand, FiniteSetTheorems, SequenceTheorems, TLAPS

(* Removing the last element. *)
LEMMA FrontOf ==
    ASSUME NEW S, NEW s \in Seq(S), Len(s) > 0
    PROVE  /\ Front(s) \in Seq(S)
           /\ Len(Front(s)) = Len(s) - 1
           /\ \A i \in DOMAIN Front(s) : i \in DOMAIN s /\ Front(s)[i] = s[i]
<1> DEFINE n == Len(s) - 1
<1>1. n \in Nat /\ 1 \in Int /\ n \in Int /\ \A i \in 1 .. n : s[i] \in S
  OBVIOUS
<1> HIDE DEF n
<1>2. /\ SubSeq(s, 1, n) \in Seq(S)
      /\ Len(SubSeq(s, 1, n)) = IF 1 <= n THEN n - 1 + 1 ELSE 0
      /\ \A i \in 1 .. n - 1 + 1 : SubSeq(s, 1, n)[i] = s[1 + i - 1]
  BY <1>1, SubSeqProperties
<1>3. Len(SubSeq(s, 1, n)) = n
  BY <1>1, <1>2
<1>4. \A i \in 1 .. n : SubSeq(s, 1, n)[i] = s[i]
  <2> SUFFICES ASSUME NEW i \in 1 .. n PROVE SubSeq(s, 1, n)[i] = s[i]
    OBVIOUS
  <2>1. i \in 1 .. n - 1 + 1 /\ 1 + i - 1 = i
    BY <1>1
  <2> QED
    BY <1>2, <2>1
<1>5. Front(s) = SubSeq(s, 1, n) /\ n = Len(s) - 1
  BY DEF Front, n
<1>6. DOMAIN SubSeq(s, 1, n) = 1 .. n
  BY <1>2, <1>3
<1>7. \A i \in 1 .. n : i \in DOMAIN s
  BY DEF n
<1> QED
  BY <1>2, <1>3, <1>4, <1>5, <1>6, <1>7

(* Adding one. *)
LEMMA AppendTo ==
    ASSUME NEW S, NEW s \in Seq(S), NEW e \in S
    PROVE  /\ Append(s, e) \in Seq(S)
           /\ Len(Append(s, e)) = Len(s) + 1 /\ Append(s, e) # <<>>
           /\ \A i \in DOMAIN Append(s, e) :
                 (i \in DOMAIN s /\ Append(s, e)[i] = s[i]) \/ Append(s, e)[i] = e
OBVIOUS

(* The empty sequence and sequences of one element. *)
LEMMA ShortSequences ==
    ASSUME NEW S, NEW e \in S
    PROVE  /\ <<>> \in Seq(S) /\ Len(<<>>) = 0
           /\ <<e>> \in Seq(S) /\ Len(<<e>>) = 1 /\ <<e>> # <<>>
           /\ \A s \in Seq(S) : s = <<>> <=> Len(s) = 0
OBVIOUS

(* Removing the only element. *)
LEMMA FrontOfOne ==
    ASSUME NEW S, NEW s \in Seq(S), Len(s) = 1
    PROVE  Front(s) = <<>>
<1>1. Len(s) > 0 /\ Len(s) - 1 = 0
  OBVIOUS
<1>2. Front(s) \in Seq(S) /\ Len(Front(s)) = 0
  BY <1>1, FrontOf
<1> QED
  BY <1>2, ShortSequences

(* There are finitely many threads. *)
LEMMA FiniteThreads == IsFiniteSet(Threads)
BY ThreadsAssumption, FS_Union DEF Threads

(* The threads that hold a task are as many as a number can count. *)
LEMMA HoldingFinite == IsFiniteSet(Holding) /\ Cardinality(Holding) \in Nat
BY FiniteThreads, FS_Subset, FS_CardinalityType DEF Holding

(* A thread in Post adds one to those that hold a task. *)
LEMMA HoldingMore ==
    ASSUME NEW t \in Threads, NEW task \in Task, held[t] = NoTask, task # NoTask,
           held \in [Threads -> Task \cup {NoTask}],
           held' = [held EXCEPT ![t] = task]
    PROVE  Cardinality(Holding)' = Cardinality(Holding) + 1
<1>1. Holding' = Holding \cup {t}
  BY DEF Holding
<1>2. t \notin Holding
  BY DEF Holding
<1> QED
  BY <1>1, <1>2, HoldingFinite, FS_AddElement

(* and leaves them after emplace. *)
LEMMA HoldingFewer ==
    ASSUME NEW t \in Threads, held[t] # NoTask,
           held \in [Threads -> Task \cup {NoTask}],
           held' = [held EXCEPT ![t] = NoTask]
    PROVE  Cardinality(Holding)' = Cardinality(Holding) - 1
<1>1. Holding' = Holding \ {t}
  BY DEF Holding
<1>2. t \in Holding
  BY DEF Holding
<1> QED
  BY <1>1, <1>2, HoldingFinite, FS_RemoveElement

(* A task that is submitted is one. *)
LEMMA NewTaskType ==
    ASSUME NEW t \in Threads, issued \in [Threads -> Nat]
    PROVE  NewTask(t) \in Task /\ NewTask(t) # NoTask
BY DEF NewTask, Task, NoTask

(* Nobody is flushing when nobody owns the strand, and a worker that is    *)
(* off the strand may only flush then.                                     *)
LEMMA OwnerIsFlushing ==
    ASSUME IndInv, NEW t \in Threads, ~Flushing(t), MayFlush(t)
    PROVE  owner = <<>> /\ \A u \in Threads : ~Flushing(u)
<1>1. CASE owner = <<>>
  BY <1>1, ShortSequences DEF IndInv, OneAtATime, TypeOK
<1>2. CASE owner # <<>>
  <2>1. PICK u \in Threads : Flushing(u)
    BY <1>2 DEF IndInv, OneAtATime
  <2>2. Len(owner) \in DOMAIN owner
    BY <1>2 DEF IndInv, TypeOK
  <2>3. Last(owner) = u
    BY <2>1, <2>2 DEF IndInv, OneAtATime, Last
  <2> QED
    BY <1>2, <2>1, <2>3 DEF MayFlush, NotOthers
<1> QED
  BY <1>1, <1>2

-----------------------------------------------------------------------------
(* The inductive step, one lemma per action *)

(* Post counts a task before it is in the queue. *)
LEMMA PostKeeps ==
    ASSUME IndInv, NEW t \in Threads, Post(t)
    PROVE  IndInv'
<1> USE DEF IndInv, lockVars, flushVars
<1>1. /\ pc[t] = "user" /\ held[t] = NoTask
      /\ NewTask(t) \in Task /\ NewTask(t) # NoTask
  BY NewTaskType DEF Post, CanCall, TypeOK, PcAgrees
<1>2. Cardinality(Holding)' = Cardinality(Holding) + 1
  BY <1>1, HoldingMore DEF Post, TypeOK
<1>3. TypeOK'
  <2>1. posted' \in BOOLEAN
    BY DEF Post
  <2> QED
    BY <1>1, <2>1 DEF Post, TypeOK, PCs
<1>4. \A u \in Threads : Flushing(u)' = Flushing(u)
  BY <1>1 DEF Post, TypeOK, Flushing, OnStrand
<1>5. OneAtATime'
  BY <1>4 DEF Post, OneAtATime
<1>6. CountIsExact'
  <2> DEFINE H == Cardinality(Holding)
  <2>1. /\ H \in Nat /\ H' = H + 1 /\ Len(queue) \in Nat /\ taskCount \in Nat
        /\ taskCount' = taskCount + 1 /\ queue' = queue /\ owner' = owner
        /\ batch' = batch /\ left' = left
        /\ \A u \in Threads : batch[u] \in Nat /\ left[u] \in Nat
    BY <1>2, HoldingFinite DEF Post, TypeOK
  <2> HIDE DEF H
  <2>2. \A u \in Threads : Flushing(u)' =>
           /\ taskCount' - (batch'[u] - left'[u]) = Len(queue') + H'
           /\ left'[u] <= Len(queue') + H'
    <3> SUFFICES ASSUME NEW u \in Threads, Flushing(u)'
                 PROVE  /\ taskCount' - (batch'[u] - left'[u]) = Len(queue') + H'
                        /\ left'[u] <= Len(queue') + H'
      OBVIOUS
    <3>1. /\ taskCount - (batch[u] - left[u]) = Len(queue) + H
          /\ left[u] <= Len(queue) + H
      BY <1>4 DEF CountIsExact, H
    <3> QED
      BY <2>1, <3>1
  <2>3. owner' = <<>> => taskCount' = Len(queue') + H'
    BY <2>1 DEF CountIsExact, H
  <2>4. \A u \in Threads : ~Flushing(u)' => batch'[u] = 0 /\ left'[u] = 0
    BY <1>4, <2>1 DEF CountIsExact
  <2> QED
    BY <2>2, <2>3, <2>4 DEF CountIsExact, H
<1>7. PcAgrees'
  BY <1>1 DEF Post, PcAgrees, TypeOK
<1>8. WakeOnTheWay'
  <2>1. posted'
    BY DEF Post
  <2>2. CASE posted
    BY <1>1, <2>2 DEF Post, WakeOnTheWay, TypeOK
  <2>3. CASE ~posted
    <3>1. pc'[t] = "emplaceAndWake"
      BY <2>3 DEF Post, ShouldPost, TypeOK
    <3> QED
      BY <2>1, <3>1 DEF WakeOnTheWay
  <2> QED
    BY <2>2, <2>3
<1> QED
  BY <1>3, <1>5, <1>6, <1>7, <1>8

(* The task that was counted is put into the queue. *)
LEMMA EmplaceKeeps ==
    ASSUME IndInv, NEW t \in Threads, Emplace(t)
    PROVE  IndInv'
<1> USE DEF IndInv, lockVars, flushVars
<1>1. held[t] # NoTask /\ held[t] \in Task
  BY DEF Emplace, TypeOK, PcAgrees
<1>2. Cardinality(Holding)' = Cardinality(Holding) - 1
  BY <1>1, HoldingFewer DEF Emplace, TypeOK
<1>3. queue' \in Seq(Task) /\ Len(queue') = Len(queue) + 1
  BY <1>1, AppendTo DEF Emplace, Enqueue, TypeOK
<1>4. TypeOK'
  BY <1>3 DEF Emplace, TypeOK, PCs
<1>5. \A u \in Threads : Flushing(u)' = Flushing(u)
  BY DEF Emplace, TypeOK, Flushing, OnStrand
<1>6. OneAtATime'
  BY <1>5 DEF Emplace, OneAtATime
<1>7. CountIsExact'
  <2> DEFINE H == Cardinality(Holding)
  <2>1. /\ H \in Nat /\ H' = H - 1 /\ Len(queue) \in Nat /\ Len(queue') = Len(queue) + 1
        /\ taskCount' = taskCount /\ owner' = owner
        /\ batch' = batch /\ left' = left
        /\ \A u \in Threads : batch[u] \in Nat /\ left[u] \in Nat
    BY <1>2, <1>3, HoldingFinite DEF Emplace, TypeOK
  <2> HIDE DEF H
  <2>2. \A u \in Threads : Flushing(u)' =>
           /\ taskCount' - (batch'[u] - left'[u]) = Len(queue') + H'
           /\ left'[u] <= Len(queue') + H'
    BY <1>5, <2>1 DEF CountIsExact, H
  <2>3. owner' = <<>> => taskCount' = Len(queue') + H'
    BY <2>1 DEF CountIsExact, H
  <2>4. \A u \in Threads : ~Flushing(u)' => batch'[u] = 0 /\ left'[u] = 0
    BY <1>5, <2>1 DEF CountIsExact
  <2> QED
    BY <2>2, <2>3, <2>4 DEF CountIsExact, H
<1>8. PcAgrees'
  BY <1>1 DEF Emplace, PcAgrees, TypeOK
<1>9. WakeOnTheWay'
  BY DEF Emplace, WakeOnTheWay, TypeOK
<1> QED
  BY <1>4, <1>6, <1>7, <1>8, <1>9

(* A thread that was to wake the strand posts a flush. *)
LEMMA PostFlushTaskKeeps ==
    ASSUME IndInv, NEW t \in Threads, PostFlushTask(t)
    PROVE  IndInv'
<1> USE DEF IndInv, lockVars, flushVars
<1>1. TypeOK'
  BY DEF PostFlushTask, TypeOK, PCs
<1>2. /\ \A u \in Threads : Flushing(u)' = Flushing(u)
      /\ Cardinality(Holding)' = Cardinality(Holding)
  BY DEF PostFlushTask, TypeOK, Flushing, OnStrand, Holding
<1>3. OneAtATime'
  BY <1>2 DEF PostFlushTask, OneAtATime
<1>4. CountIsExact'
  BY <1>2 DEF PostFlushTask, CountIsExact
<1>5. PcAgrees'
  BY DEF PostFlushTask, PcAgrees, TypeOK
<1>6. WakeOnTheWay'
  BY DEF PostFlushTask, WakeOnTheWay, TypeOK
<1> QED
  BY <1>1, <1>3, <1>4, <1>5, <1>6

(* A task dispatched on the strand runs inside of the one that runs there. *)
LEMMA DispatchInlineKeeps ==
    ASSUME IndInv, NEW t \in Threads, DispatchInline(t)
    PROVE  IndInv'
<1> USE DEF IndInv, lockVars, flushVars
<1>0. posted' = posted /\ posted \in BOOLEAN
  BY DEF DispatchInline, TypeOK
<1>1. /\ NewTask(t) \in Task
      /\ tasks[t] \in Seq(Task) /\ tasks[t] # <<>>
      /\ pc[t] = "user" /\ Flushing(t)
  BY NewTaskType DEF DispatchInline, CanCall, TypeOK, Flushing, OnStrand
<1>2. /\ tasks'[t] \in Seq(Task) /\ Len(tasks'[t]) = Len(tasks[t]) + 1
      /\ Len(tasks[t]) > 0 /\ tasks'[t] # <<>>
  <2>1. tasks'[t] = Append(tasks[t], NewTask(t))
    BY DEF DispatchInline, TypeOK
  <2> QED
    BY <1>1, <2>1, AppendTo
<1>3. /\ owner' \in Seq(Threads) /\ Len(owner') = Len(owner) + 1
      /\ \A i \in DOMAIN owner' : (i \in DOMAIN owner /\ owner'[i] = owner[i]) \/ owner'[i] = t
      /\ owner' # <<>>
  <2>1. owner \in Seq(Threads) /\ owner' = Append(owner, t)
    BY DEF DispatchInline, TypeOK
  <2> QED
    BY <2>1, AppendTo
<1>4. TypeOK'
  <2>1. tasks' \in [Threads -> Seq(Task)]
    BY <1>2 DEF DispatchInline, TypeOK
  <2>2. issued' \in [Threads -> Nat]
    BY DEF DispatchInline, TypeOK
  <2> QED
    BY <1>3, <2>1, <2>2 DEF DispatchInline, TypeOK
<1>5. \A u \in Threads : Flushing(u)' = Flushing(u)
  BY <1>1, <1>2 DEF DispatchInline, TypeOK, Flushing, OnStrand
<1>6. OneAtATime'
  <2>1. \A u \in Threads : Flushing(u)' => u = t
    BY <1>1, <1>5 DEF OneAtATime
  <2>2. \A i \in DOMAIN owner' : owner'[i] = t
    BY <1>1, <1>3 DEF OneAtATime
  <2>3. Len(owner') = Len(tasks'[t])
    BY <1>1, <1>2, <1>3 DEF OneAtATime
  <2> QED
    BY <1>1, <1>2, <1>5, <2>1, <2>2, <2>3 DEF OneAtATime
<1>7. Cardinality(Holding)' = Cardinality(Holding)
  BY DEF DispatchInline, Holding
<1>8. CountIsExact'
  BY <1>3, <1>5, <1>7 DEF DispatchInline, CountIsExact
<1>9. PcAgrees'
  BY <1>1 DEF DispatchInline, PcAgrees, TypeOK
<1>10. WakeOnTheWay'
  BY <1>3 DEF DispatchInline, WakeOnTheWay
<1> QED
  BY <1>4, <1>6, <1>8, <1>9, <1>10

(* A task that was run at once ends. *)
LEMMA EndInlineKeeps ==
    ASSUME IndInv, NEW t \in Threads, EndInline(t)
    PROVE  IndInv'
<1> USE DEF IndInv, lockVars, flushVars
<1>0. posted' = posted /\ posted \in BOOLEAN
  BY DEF EndInline, TypeOK
<1>1. /\ tasks[t] \in Seq(Task) /\ Len(tasks[t]) > 1 /\ tasks[t] # <<>>
      /\ pc[t] = "user" /\ Flushing(t) /\ held[t] = NoTask
  <2>1. tasks[t] \in Seq(Task) /\ Len(tasks[t]) > 1 /\ pc[t] = "user"
    BY DEF EndInline, TypeOK
  <2>2. tasks[t] # <<>>
    BY <2>1, ShortSequences
  <2> QED
    BY <2>1, <2>2 DEF Flushing, OnStrand, PcAgrees
<1>2. /\ tasks'[t] \in Seq(Task) /\ Len(tasks'[t]) = Len(tasks[t]) - 1
      /\ tasks'[t] # <<>>
  <2>1. tasks'[t] = Front(tasks[t])
    BY DEF EndInline, TypeOK
  <2> QED
    BY <1>1, <2>1, FrontOf
<1>3. /\ owner' \in Seq(Threads) /\ Len(owner') = Len(owner) - 1
      /\ \A i \in DOMAIN owner' : i \in DOMAIN owner /\ owner'[i] = owner[i]
      /\ owner' # <<>> /\ owner # <<>>
  <2>1. owner \in Seq(Threads) /\ owner' = Front(owner)
    BY DEF EndInline, TypeOK
  <2>2. Len(owner) = Len(tasks[t])
    BY <1>1 DEF OneAtATime
  <2> QED
    BY <1>1, <2>1, <2>2, FrontOf
<1>4. TypeOK'
  <2>1. tasks' \in [Threads -> Seq(Task)]
    BY <1>2 DEF EndInline, TypeOK
  <2>2. pc' \in [Threads -> PCs]
    BY DEF EndInline, TypeOK, PCs
  <2> QED
    BY <1>0, <1>3, <2>1, <2>2 DEF EndInline, TypeOK
<1>5. \A u \in Threads : Flushing(u)' = Flushing(u)
  <2>1. Flushing(t)' = Flushing(t)
    BY <1>1, <1>2 DEF Flushing, OnStrand
  <2>2. \A u \in Threads \ {t} : pc'[u] = pc[u] /\ tasks'[u] = tasks[u]
    BY DEF EndInline, TypeOK
  <2> QED
    BY <2>1, <2>2 DEF Flushing, OnStrand
<1>6. OneAtATime'
  <2>1. \A u \in Threads : Flushing(u)' => u = t
    BY <1>1, <1>5 DEF OneAtATime
  <2>2. \A i \in DOMAIN owner' : owner'[i] = t
    BY <1>1, <1>3 DEF OneAtATime
  <2>3. Len(owner') = Len(tasks'[t])
    BY <1>1, <1>2, <1>3 DEF OneAtATime
  <2> QED
    BY <1>1, <1>2, <1>5, <2>1, <2>2, <2>3 DEF OneAtATime
<1>7. Cardinality(Holding)' = Cardinality(Holding)
  BY DEF EndInline, Holding
<1>8. CountIsExact'
  BY <1>3, <1>5, <1>7 DEF EndInline, CountIsExact
<1>9. PcAgrees'
  BY <1>1 DEF EndInline, PcAgrees, TypeOK
<1>10. WakeOnTheWay'
  BY <1>0, <1>3 DEF EndInline, WakeOnTheWay
<1> QED
  BY <1>4, <1>6, <1>8, <1>9, <1>10

(* A worker takes a flush, and drops it when another thread owns the strand. *)
LEMMA BeginFlushKeeps ==
    ASSUME IndInv, NEW t \in Threads, BeginFlush(t)
    PROVE  IndInv'
<1> USE DEF IndInv, lockVars, flushVars
<1>0. /\ posted' = posted /\ posted \in BOOLEAN
      /\ pc[t] = "user" /\ ~Flushing(t) /\ tasks[t] = <<>> /\ held[t] = NoTask
      /\ tasks' = tasks /\ taskCount' = taskCount /\ queue' = queue /\ held' = held
      /\ flushes' \in Nat
  <2>1. posted' = posted /\ posted \in BOOLEAN
    BY DEF BeginFlush, TypeOK
  <2>2. pc[t] = "user" /\ tasks[t] = <<>> /\ flushes' \in Nat
    BY DEF BeginFlush, TypeOK, OnStrand
  <2> QED
    BY <2>1, <2>2 DEF BeginFlush, Flushing, OnStrand, PcAgrees
<1>1. Cardinality(Holding)' = Cardinality(Holding)
  BY <1>0 DEF Holding
<1>2. CASE MayFlush(t)
  <2>1. owner = <<>> /\ \A u \in Threads : ~Flushing(u)
    BY <1>0, <1>2, OwnerIsFlushing
  <2>2. owner' = <<t>> /\ Len(owner') = 1 /\ owner' # <<>> /\ owner' \in Seq(Threads)
        /\ \A i \in DOMAIN owner' : owner'[i] = t
    <3>1. owner' = <<t>>
      BY <1>2, <2>1 DEF BeginFlush
    <3> QED
      BY <3>1, ShortSequences
  <2>3. /\ pc' = [pc EXCEPT ![t] = "loop"]
        /\ batch' = [batch EXCEPT ![t] = taskCount]
        /\ left' = [left EXCEPT ![t] = taskCount]
    BY <1>2 DEF BeginFlush
  <2>4. TypeOK'
    BY <1>0, <2>2, <2>3 DEF BeginFlush, TypeOK, PCs
  <2>5. Flushing(t)' /\ \A u \in Threads : Flushing(u)' => u = t
    <3>1. pc'[t] = "loop"
      BY <2>3 DEF TypeOK
    <3>2. \A u \in Threads \ {t} : pc'[u] = pc[u] /\ tasks'[u] = tasks[u]
      BY <1>0, <2>3 DEF TypeOK
    <3> QED
      BY <2>1, <3>1, <3>2 DEF Flushing, OnStrand
  <2>6. OneAtATime'
    BY <1>0, <2>2, <2>5 DEF OneAtATime
  <2>7. CountIsExact'
    <3>1. taskCount = Len(queue) + Cardinality(Holding)
      BY <2>1 DEF CountIsExact
    <3>2. batch'[t] = taskCount /\ left'[t] = taskCount /\ taskCount \in Nat
      BY <2>3 DEF TypeOK
    <3>3. \A u \in Threads : ~Flushing(u)' => batch'[u] = 0 /\ left'[u] = 0
      BY <2>1, <2>3, <2>5 DEF CountIsExact, TypeOK
    <3> QED
      BY <1>0, <1>1, <2>2, <2>5, <3>1, <3>2, <3>3 DEF CountIsExact
  <2>8. PcAgrees'
    BY <1>0, <2>3 DEF PcAgrees, TypeOK
  <2>9. WakeOnTheWay'
    BY <1>0, <2>2 DEF WakeOnTheWay
  <2> QED
    BY <2>4, <2>6, <2>7, <2>8, <2>9
<1>3. CASE ~MayFlush(t)
  <2>1. owner' = owner /\ pc' = pc /\ batch' = batch /\ left' = left
    BY <1>3 DEF BeginFlush
  <2>2. owner # <<>>
    BY <1>3 DEF MayFlush, NotOthers
  <2>3. TypeOK'
    BY <1>0, <2>1 DEF BeginFlush, TypeOK
  <2>4. \A u \in Threads : Flushing(u)' = Flushing(u)
    BY <1>0, <2>1 DEF Flushing, OnStrand
  <2>5. OneAtATime'
    BY <1>0, <2>1, <2>4 DEF OneAtATime
  <2>6. CountIsExact'
    BY <1>0, <1>1, <2>1, <2>4 DEF CountIsExact
  <2>7. PcAgrees' /\ WakeOnTheWay'
    BY <1>0, <2>1, <2>2 DEF PcAgrees, WakeOnTheWay
  <2> QED
    BY <2>3, <2>5, <2>6, <2>7
<1> QED
  BY <1>2, <1>3

(* The flush takes the next task. *)
LEMMA PopTaskKeeps ==
    ASSUME IndInv, NEW t \in Threads, PopTask(t)
    PROVE  IndInv'
<1> USE DEF IndInv, lockVars, flushVars
<1>0. /\ posted' = posted /\ posted \in BOOLEAN /\ owner' = owner /\ taskCount' = taskCount
      /\ pc[t] = "loop" /\ Flushing(t) /\ tasks[t] = <<>> /\ held[t] = NoTask
      /\ held' = held /\ batch' = batch /\ flushes' = flushes
  BY DEF PopTask, TypeOK, Flushing, OnStrand, PcAgrees
<1>1. /\ queue' \in Seq(Task) /\ Len(queue') = Len(queue) - 1 /\ Len(queue) > 0
      /\ Head(queue) \in Task
  BY DEF PopTask, TypeOK
<1>2. /\ tasks'[t] = <<Head(queue)>> /\ tasks'[t] \in Seq(Task)
      /\ Len(tasks'[t]) = 1 /\ tasks'[t] # <<>>
  BY <1>1 DEF PopTask, TypeOK
<1>3. left[t] \in Nat /\ left[t] > 0 /\ left'[t] = left[t] - 1
  BY DEF PopTask, TypeOK
<1>4. TypeOK'
  <2>1. tasks' \in [Threads -> Seq(Task)]
    BY <1>2 DEF PopTask, TypeOK
  <2>2. left' \in [Threads -> Nat] /\ pc' \in [Threads -> PCs]
    BY <1>3 DEF PopTask, TypeOK, PCs
  <2> QED
    BY <1>0, <1>1, <2>1, <2>2 DEF PopTask, TypeOK
<1>5. \A u \in Threads : Flushing(u)' = Flushing(u)
  <2>1. Flushing(t)'
    BY <1>2 DEF Flushing, OnStrand
  <2>2. \A u \in Threads \ {t} : pc'[u] = pc[u] /\ tasks'[u] = tasks[u]
    BY DEF PopTask, TypeOK
  <2> QED
    BY <1>0, <2>1, <2>2 DEF Flushing, OnStrand
<1>6. \A u \in Threads : Flushing(u) => u = t
  BY <1>0 DEF OneAtATime
<1>7. OneAtATime'
  <2>1. /\ \A i \in DOMAIN owner : owner[i] = t
        /\ Len(owner) = 1
    BY <1>0 DEF OneAtATime
  <2>2. \A u \in Threads : Flushing(u)' => u = t
    BY <1>5, <1>6
  <2>3. Flushing(t)'
    BY <1>0, <1>5
  <2> QED
    BY <1>0, <1>2, <2>1, <2>2, <2>3 DEF OneAtATime
<1>8. Cardinality(Holding)' = Cardinality(Holding) /\ Cardinality(Holding) \in Nat
  BY <1>0, HoldingFinite DEF Holding
<1>9. CountIsExact'
  <2>1. /\ taskCount - (batch[t] - left[t]) = Len(queue) + Cardinality(Holding)
        /\ left[t] <= Len(queue) + Cardinality(Holding)
    BY <1>0 DEF CountIsExact
  <2>2. owner' # <<>>
    BY <1>0 DEF OneAtATime
  <2>3. \A u \in Threads : ~Flushing(u)' => batch'[u] = 0 /\ left'[u] = 0
    BY <1>0, <1>5 DEF PopTask, CountIsExact, TypeOK
  <2>4. batch[t] \in Nat /\ taskCount \in Nat
    BY DEF TypeOK
  <2>5. /\ taskCount' - (batch'[t] - left'[t]) = Len(queue') + Cardinality(Holding)'
        /\ left'[t] <= Len(queue') + Cardinality(Holding)'
    <3> DEFINE H == Cardinality(Holding)
    <3>1. taskCount' = taskCount /\ batch'[t] = batch[t] /\ H' = H /\ H \in Nat
      BY <1>0, <1>8
    <3>2. Len(queue) \in Nat /\ Len(queue') = Len(queue) - 1
      BY <1>1 DEF TypeOK
    <3> HIDE DEF H
    <3>3. taskCount - (batch[t] - left[t]) = Len(queue) + H /\ left[t] <= Len(queue) + H
      BY <2>1 DEF H
    <3>4. left[t] \in Int /\ left'[t] = left[t] - 1 /\ taskCount \in Int /\ batch[t] \in Int
      BY <1>3, <2>4
    <3>5. /\ taskCount - (batch[t] - (left[t] - 1)) = (Len(queue) - 1) + H
          /\ left[t] - 1 <= (Len(queue) - 1) + H
      <4>1. PICK c \in Int, b \in Int, l \in Int, q \in Int, h \in Int :
                c = taskCount /\ b = batch[t] /\ l = left[t] /\ q = Len(queue) /\ h = H
        BY <3>1, <3>2, <3>4
      <4>2. c - (b - l) = q + h /\ l <= q + h
        BY <3>3, <4>1
      <4>3. c - (b - (l - 1)) = (q - 1) + h /\ l - 1 <= (q - 1) + h
        BY <4>2
      <4> QED
        BY <4>1, <4>3
    <3>6. taskCount' - (batch'[t] - left'[t]) = Len(queue') + H' /\ left'[t] <= Len(queue') + H'
      BY <3>1, <3>2, <3>4, <3>5
    <3> QED
      BY <3>6 DEF H
  <2> QED
    BY <1>5, <1>6, <2>2, <2>3, <2>5 DEF CountIsExact
<1>10. PcAgrees'
  BY <1>0 DEF PopTask, PcAgrees, TypeOK
<1>11. WakeOnTheWay'
  <2>1. owner' # <<>>
    BY <1>0 DEF OneAtATime
  <2> QED
    BY <1>0, <2>1 DEF WakeOnTheWay
<1> QED
  BY <1>4, <1>7, <1>9, <1>10, <1>11

(* The task that the flush has taken ends. *)
LEMMA EndTaskKeeps ==
    ASSUME IndInv, NEW t \in Threads, EndTask(t)
    PROVE  IndInv'
<1> USE DEF IndInv, lockVars, flushVars
<1>0. /\ posted' = posted /\ owner' = owner /\ taskCount' = taskCount
      /\ queue' = queue /\ held' = held /\ batch' = batch /\ left' = left
      /\ flushes' = flushes /\ issued' = issued
  BY DEF EndTask
<1>1. /\ tasks[t] \in Seq(Task) /\ Len(tasks[t]) = 1 /\ pc[t] = "user"
      /\ tasks[t] # <<>> /\ Flushing(t) /\ held[t] = NoTask
  <2>1. tasks[t] \in Seq(Task) /\ Len(tasks[t]) = 1 /\ pc[t] = "user"
    BY DEF EndTask, TypeOK
  <2>2. tasks[t] # <<>>
    BY <2>1, ShortSequences
  <2> QED
    BY <2>1, <2>2 DEF Flushing, OnStrand, PcAgrees
<1>2. tasks'[t] = <<>> /\ pc'[t] = "loop"
  BY DEF EndTask, TypeOK
<1>3. TypeOK'
  <2>1. tasks' \in [Threads -> Seq(Task)]
    <3>1. <<>> \in Seq(Task)
      OBVIOUS
    <3> QED
      BY <3>1 DEF EndTask, TypeOK
  <2>2. pc' \in [Threads -> PCs]
    BY DEF EndTask, TypeOK, PCs
  <2> QED
    BY <1>0, <2>1, <2>2 DEF TypeOK
<1>4. \A u \in Threads : Flushing(u)' = Flushing(u)
  <2>1. Flushing(t)'
    BY <1>2 DEF Flushing
  <2>2. \A u \in Threads \ {t} : pc'[u] = pc[u] /\ tasks'[u] = tasks[u]
    BY DEF EndTask, TypeOK
  <2> QED
    BY <1>1, <2>1, <2>2 DEF Flushing, OnStrand
<1>5. OneAtATime'
  <2>1. \A i \in DOMAIN owner : owner[i] = t
    BY <1>1 DEF OneAtATime
  <2>2. Len(owner) = 1
    BY <1>1 DEF OneAtATime
  <2>3. \A u \in Threads : Flushing(u)' => u = t
    BY <1>1, <1>4 DEF OneAtATime
  <2> QED
    BY <1>0, <1>1, <1>2, <1>4, <2>1, <2>2, <2>3 DEF OneAtATime
<1>6. CountIsExact'
  BY <1>0, <1>4 DEF CountIsExact, Holding
<1>7. PcAgrees'
  BY <1>0, <1>1, <1>2 DEF EndTask, PcAgrees, TypeOK
<1>8. WakeOnTheWay'
  <2>1. owner' # <<>>
    BY <1>0, <1>1 DEF OneAtATime, TypeOK
  <2> QED
    BY <1>0, <2>1 DEF WakeOnTheWay
<1> QED
  BY <1>3, <1>5, <1>6, <1>7, <1>8

(* The flush ends, and nothing is counted or it wakes the strand again. *)
LEMMA EndFlushKeeps ==
    ASSUME IndInv, NEW t \in Threads, EndFlush(t)
    PROVE  IndInv'
<1> USE DEF IndInv, lockVars, flushVars
<1>0. /\ pc[t] = "loop" /\ left[t] = 0 /\ tasks[t] = <<>> /\ held[t] = NoTask
      /\ Flushing(t)
      /\ queue' = queue /\ held' = held /\ tasks' = tasks /\ left' = left
      /\ flushes' = flushes /\ issued' = issued
  BY DEF EndFlush, Flushing, PcAgrees
<1>1. Cardinality(Holding)' = Cardinality(Holding) /\ Cardinality(Holding) \in Nat
  BY <1>0, HoldingFinite DEF Holding
<1>2. /\ taskCount' = taskCount - batch[t]
      /\ taskCount' = Len(queue) + Cardinality(Holding)
      /\ taskCount' \in Nat
  <2>1. taskCount - (batch[t] - left[t]) = Len(queue) + Cardinality(Holding)
    BY <1>0 DEF CountIsExact
  <2>2. taskCount' = taskCount - batch[t]
    BY DEF EndFlush, Uncounted
  <2>3. taskCount \in Nat /\ batch[t] \in Nat /\ Len(queue) \in Nat
    BY DEF TypeOK
  <2> QED
    BY <1>0, <1>1, <2>1, <2>2, <2>3
<1>3. posted' = (posted /\ taskCount' > 0)
  BY DEF EndFlush
<1>4. owner' = <<>>
  <2>1. owner \in Seq(Threads) /\ Len(owner) = 1
    BY <1>0 DEF OneAtATime, TypeOK
  <2>2. owner' = Front(owner)
    BY DEF EndFlush
  <2> QED
    BY <2>1, <2>2, FrontOfOne
<1>5. pc' = [pc EXCEPT ![t] = IF taskCount' > 0 THEN "wake" ELSE "user"]
  BY DEF EndFlush
<1>6. TypeOK'
  <2>1. posted' \in BOOLEAN
    BY <1>3
  <2>2. pc' \in [Threads -> PCs] /\ batch' \in [Threads -> Nat]
    BY DEF EndFlush, TypeOK, PCs
  <2>3. owner' \in Seq(Threads)
    BY <1>4
  <2> QED
    BY <1>0, <1>2, <2>1, <2>2, <2>3 DEF TypeOK
<1>7. \A u \in Threads : ~Flushing(u)'
  <2>1. \A u \in Threads \ {t} : pc'[u] = pc[u] /\ tasks'[u] = tasks[u] /\ ~Flushing(u)
    BY <1>0 DEF EndFlush, TypeOK, OneAtATime
  <2>2. pc'[t] # "loop" /\ tasks'[t] = <<>>
    BY <1>0, <1>5 DEF TypeOK
  <2> QED
    BY <2>1, <2>2 DEF Flushing, OnStrand
<1>8. OneAtATime'
  BY <1>4, <1>7 DEF OneAtATime
<1>9. CountIsExact'
  <2>1. \A u \in Threads : batch'[u] = 0 /\ left'[u] = 0
    <3>1. batch'[t] = 0 /\ left'[t] = 0
      BY <1>0 DEF EndFlush, TypeOK
    <3>2. \A u \in Threads \ {t} : ~Flushing(u) /\ batch'[u] = batch[u] /\ left'[u] = left[u]
      BY <1>0 DEF EndFlush, TypeOK, OneAtATime
    <3> QED
      BY <3>1, <3>2 DEF CountIsExact
  <2> QED
    BY <1>0, <1>1, <1>2, <1>7, <2>1 DEF CountIsExact
<1>10. PcAgrees'
  BY <1>0, <1>5 DEF PcAgrees, TypeOK
<1>11. WakeOnTheWay'
  <2>1. CASE taskCount' > 0
    <3>1. taskCount > 0
      BY <1>2, <2>1 DEF TypeOK
    <3>2. posted' /\ pc'[t] = "wake"
      BY <1>3, <1>5, <2>1, <3>1 DEF WakeOnTheWay, TypeOK
    <3> QED
      BY <3>2 DEF WakeOnTheWay
  <2>2. CASE ~(taskCount' > 0)
    BY <1>3, <2>2 DEF WakeOnTheWay
  <2> QED
    BY <2>1, <2>2
<1> QED
  BY <1>6, <1>8, <1>9, <1>10, <1>11

-----------------------------------------------------------------------------
(* Results *)

(* The strand starts out empty and unowned. *)
LEMMA InitInv == Init => IndInv
<1> SUFFICES ASSUME Init PROVE IndInv
  OBVIOUS
<1>1. \A t \in Threads : ~Flushing(t)
  BY DEF Init, Flushing, OnStrand
<1>2. Holding = {} /\ Cardinality(Holding) = 0 /\ Len(queue) = 0
  BY FS_EmptySet DEF Init, Holding
<1>3. TypeOK
  <2>1. <<>> \in Seq(Threads) /\ <<>> \in Seq(Task)
    OBVIOUS
  <2> QED
    BY <2>1 DEF Init, TypeOK, PCs
<1>4. OneAtATime
  BY <1>1 DEF Init, OneAtATime
<1>5. CountIsExact
  BY <1>1, <1>2 DEF Init, CountIsExact
<1>6. PcAgrees /\ WakeOnTheWay
  BY DEF Init, PcAgrees, WakeOnTheWay
<1> QED
  BY <1>3, <1>4, <1>5, <1>6 DEF IndInv

(* Every step of any thread keeps the invariant. *)
LEMMA NextKeeps == IndInv /\ [Next]_vars => IndInv'
<1> SUFFICES ASSUME IndInv, [Next]_vars PROVE IndInv'
  OBVIOUS
<1>1. ASSUME NEW t \in Threads, Post(t) PROVE IndInv'
  BY <1>1, PostKeeps
<1>2. ASSUME NEW t \in Threads, DispatchInline(t) PROVE IndInv'
  BY <1>2, DispatchInlineKeeps
<1>3. ASSUME NEW t \in Threads, BeginFlush(t) PROVE IndInv'
  BY <1>3, BeginFlushKeeps
<1>4. ASSUME NEW t \in Threads, Step(t) PROVE IndInv'
  BY <1>4, EmplaceKeeps, PostFlushTaskKeeps, EndInlineKeeps, PopTaskKeeps,
     EndTaskKeeps, EndFlushKeeps DEF Step
<1>5. CASE UNCHANGED vars
  BY <1>5 DEF vars, lockVars, flushVars, IndInv, TypeOK, OneAtATime, CountIsExact,
     PcAgrees, WakeOnTheWay, Flushing, OnStrand, Holding
<1> QED
  BY <1>1, <1>2, <1>3, <1>4, <1>5 DEF Next

(* While nobody owns the strand the exact counter and the wake-up on its   *)
(* way leave no task behind.                                               *)
LEMMA NothingLeftBehind == IndInv => NoLostWakeup
<1> SUFFICES ASSUME IndInv, queue # <<>> \/ Holding # {}, owner = <<>>
             PROVE  flushes > 0 \/ \E t \in Threads : pc[t] \in {"wake", "emplaceAndWake"}
  BY DEF NoLostWakeup
<1>1. taskCount = Len(queue) + Cardinality(Holding)
  BY DEF IndInv, CountIsExact
<1>2. Cardinality(Holding) = 0 <=> Holding = {}
  BY HoldingFinite, FS_EmptySet
<1>3. queue \in Seq(Task) /\ (Len(queue) = 0 <=> queue = <<>>)
  BY ShortSequences DEF IndInv, TypeOK
<1>4. taskCount > 0
  BY <1>1, <1>2, <1>3, HoldingFinite
<1> QED
  BY <1>4 DEF IndInv, WakeOnTheWay

(* The inductive invariant holds of every behaviour of the strand. *)
THEOREM StrandInvariant == Spec => []IndInv
<1> QED
  BY InitInv, NextKeeps, PTL DEF Spec

(* The fields of the strand stay well formed. *)
THEOREM StrandTypes == Spec => []TypeOK
<1>1. IndInv => TypeOK
  BY DEF IndInv
<1> QED
  BY <1>1, StrandInvariant, PTL

(* Whatever runs on a strand runs alone. *)
THEOREM StrandExclusion == Spec => []OneAtATime
<1>1. IndInv => OneAtATime
  BY DEF IndInv
<1> QED
  BY <1>1, StrandInvariant, PTL

(* The counter that decides whether to flush again is exact. *)
THEOREM StrandCount == Spec => []CountIsExact
<1>1. IndInv => CountIsExact
  BY DEF IndInv
<1> QED
  BY <1>1, StrandInvariant, PTL

(* A submitted task is never left without a flush that will run it. *)
THEOREM StrandWakeup == Spec => []NoLostWakeup
<1> QED
  BY NothingLeftBehind, StrandInvariant, PTL

-----------------------------------------------------------------------------
(* The order of the queue *)

(* The tasks of one submitter are in the queue in the order of their        *)
(* submission, and the one it is about to emplace comes after them.         *)
QueueInOrder ==
    /\ \A i, j \in DOMAIN queue :
          i < j /\ queue[i].by = queue[j].by => queue[i].n < queue[j].n
    /\ \A i \in DOMAIN queue : queue[i].n <= issued[queue[i].by]
    /\ \A t \in Threads : held[t] # NoTask =>
          /\ held[t] = [by |-> t, n |-> issued[t]]
          /\ \A i \in DOMAIN queue : queue[i].by = t => queue[i].n < issued[t]

(* Submitting numbers a task above all of its submitter's. *)
LEMMA PostOrder ==
    ASSUME IndInv, QueueInOrder, NEW t \in Threads,
           UNCHANGED queue, issued' = [issued EXCEPT ![t] = @ + 1], held[t] = NoTask,
           held' = [held EXCEPT ![t] = NewTask(t)] \/ UNCHANGED held
    PROVE  QueueInOrder'
<1>1. TypeOK
  BY DEF IndInv
<1>2. /\ issued'[t] = issued[t] + 1 /\ issued[t] \in Nat
      /\ \A u \in Threads : u # t => issued'[u] = issued[u]
      /\ \A u \in Threads : issued[u] \in Nat
  BY <1>1 DEF TypeOK
<1>3. \A i \in DOMAIN queue : queue[i].by \in Threads /\ queue[i].n \in Nat
  <2>1. \A i \in DOMAIN queue : queue[i] \in Task
    BY <1>1 DEF TypeOK
  <2> QED BY <2>1 DEF Task
<1>4. \A i, j \in DOMAIN queue' : i < j /\ queue'[i].by = queue'[j].by => queue'[i].n < queue'[j].n
  BY DEF QueueInOrder
<1>5. \A i \in DOMAIN queue' : queue'[i].n <= issued'[queue'[i].by]
  <2> SUFFICES ASSUME NEW i \in DOMAIN queue PROVE queue[i].n <= issued'[queue[i].by]
    OBVIOUS
  <2>1. queue[i].n <= issued[queue[i].by] /\ queue[i].by \in Threads /\ queue[i].n \in Nat
    BY <1>3 DEF QueueInOrder
  <2> QED BY <1>2, <2>1
<1>6. ASSUME NEW u \in Threads, held'[u] # NoTask
      PROVE  /\ held'[u] = [by |-> u, n |-> issued'[u]]
             /\ \A i \in DOMAIN queue' : queue'[i].by = u => queue'[i].n < issued'[u]
  <2>1. CASE u = t
    <3>1. held'[t] = NewTask(t)
      BY <1>1, <1>6, <2>1 DEF TypeOK
    <3>2. held'[t] = [by |-> t, n |-> issued'[t]]
      BY <1>2, <3>1 DEF NewTask
    <3>3. ASSUME NEW i \in DOMAIN queue, queue[i].by = t PROVE queue[i].n < issued'[t]
      <4>1. queue[i].n <= issued[t] /\ queue[i].n \in Nat
        BY <1>3, <3>3 DEF QueueInOrder
      <4> QED BY <1>2, <4>1
    <3> QED BY <2>1, <3>2, <3>3
  <2>2. CASE u # t
    <3>1. held'[u] = held[u] /\ issued'[u] = issued[u]
      BY <1>1, <1>2, <2>2 DEF TypeOK
    <3> QED BY <1>6, <3>1 DEF QueueInOrder
  <2> QED BY <2>1, <2>2
<1> QED BY <1>4, <1>5, <1>6 DEF QueueInOrder

(* The task that is emplaced is its submitter's newest. *)
LEMMA EmplaceOrder ==
    ASSUME IndInv, QueueInOrder, NEW t \in Threads, Emplace(t)
    PROVE  QueueInOrder'
<1>1. TypeOK /\ held[t] # NoTask
  BY DEF IndInv, PcAgrees, Emplace
<1>2. /\ queue' = Append(queue, held[t])
      /\ held' = [held EXCEPT ![t] = NoTask]
      /\ UNCHANGED issued
  BY DEF Emplace, Enqueue
<1>3. /\ held[t] = [by |-> t, n |-> issued[t]] /\ held[t] \in Task /\ issued[t] \in Nat
      /\ \A i \in DOMAIN queue : queue[i].by = t => queue[i].n < issued[t]
  <2>1. held[t] \in Task /\ issued[t] \in Nat
    BY <1>1 DEF TypeOK
  <2> QED BY <1>1, <2>1 DEF QueueInOrder
<1> DEFINE k == Len(queue) + 1
<1>4. /\ queue \in Seq(Task) /\ Len(queue) \in Nat
      /\ DOMAIN queue = 1 .. Len(queue) /\ DOMAIN queue' = 1 .. k
      /\ \A i \in DOMAIN queue : queue'[i] = queue[i] /\ i < k
      /\ queue'[k] = held[t] /\ k \in DOMAIN queue'
      /\ \A i \in DOMAIN queue' : i = k \/ i \in DOMAIN queue
  <2>1. queue \in Seq(Task)
    BY <1>1 DEF TypeOK
  <2> QED BY <1>2, <1>3, <2>1
<1> HIDE DEF k
<1>5. held[t].by = t /\ held[t].n = issued[t]
  BY <1>3
<1>6. ASSUME NEW i \in DOMAIN queue', NEW j \in DOMAIN queue', i < j, queue'[i].by = queue'[j].by
      PROVE  queue'[i].n < queue'[j].n
  <2>1. CASE j = k
    <3>1. i \in DOMAIN queue
      BY <1>4, <1>6, <2>1
    <3> QED BY <1>3, <1>4, <1>5, <1>6, <2>1, <3>1
  <2>2. CASE j # k
    <3>1. j \in DOMAIN queue
      BY <1>4, <2>2
    <3>2. i \in DOMAIN queue
      BY <1>4, <1>6, <3>1
    <3> QED BY <1>4, <1>6, <3>1, <3>2 DEF QueueInOrder
  <2> QED BY <2>1, <2>2
<1>7. ASSUME NEW i \in DOMAIN queue' PROVE queue'[i].n <= issued'[queue'[i].by]
  <2>1. CASE i = k
    BY <1>2, <1>3, <1>4, <1>5, <2>1
  <2>2. CASE i # k
    BY <1>2, <1>4, <2>2 DEF QueueInOrder
  <2> QED BY <2>1, <2>2
<1>8. ASSUME NEW u \in Threads, held'[u] # NoTask
      PROVE  /\ held'[u] = [by |-> u, n |-> issued'[u]]
             /\ \A i \in DOMAIN queue' : queue'[i].by = u => queue'[i].n < issued'[u]
  <2>1. u # t /\ held'[u] = held[u]
    BY <1>1, <1>2, <1>8 DEF TypeOK
  <2>2. held[u] = [by |-> u, n |-> issued[u]] /\ \A i \in DOMAIN queue : queue[i].by = u => queue[i].n < issued[u]
    BY <1>8, <2>1 DEF QueueInOrder
  <2> QED BY <1>2, <1>4, <1>5, <2>1, <2>2
<1> QED BY <1>6, <1>7, <1>8 DEF QueueInOrder

(* What is left of the queue is in order. *)
LEMMA PopOrder ==
    ASSUME IndInv, QueueInOrder, NEW t \in Threads, PopTask(t)
    PROVE  QueueInOrder'
<1>1. queue \in Seq(Task) /\ queue # <<>> /\ queue' = Tail(queue) /\ UNCHANGED <<held, issued>>
  BY DEF IndInv, TypeOK, PopTask
<1>2. \A i \in DOMAIN queue' : i \in Nat /\ i + 1 \in DOMAIN queue /\ queue'[i] = queue[i + 1]
  BY <1>1
<1>3. \A i, j \in DOMAIN queue' : i < j => i + 1 < j + 1
  BY <1>2
<1> QED BY <1>1, <1>2, <1>3 DEF QueueInOrder

(* Every step keeps the order. *)
LEMMA NextOrder ==
    ASSUME IndInv, QueueInOrder, [Next]_vars
    PROVE  QueueInOrder'
<1>1. ASSUME NEW t \in Threads, Post(t) \/ DispatchInline(t) PROVE QueueInOrder'
  <2>1. held[t] = NoTask
    BY <1>1 DEF Post, DispatchInline, CanCall, IndInv, PcAgrees
  <2> QED BY <1>1, <2>1, PostOrder DEF Post, DispatchInline
<1>2. ASSUME NEW t \in Threads, Emplace(t) PROVE QueueInOrder'
  BY <1>2, EmplaceOrder
<1>3. ASSUME NEW t \in Threads, PopTask(t) PROVE QueueInOrder'
  BY <1>3, PopOrder
<1>4. ASSUME UNCHANGED <<queue, held, issued>> PROVE QueueInOrder'
  BY <1>4 DEF QueueInOrder
<1>5. ASSUME NEW t \in Threads,
             BeginFlush(t) \/ PostFlushTask(t) \/ EndInline(t) \/ EndTask(t) \/ EndFlush(t)
      PROVE  QueueInOrder'
  <2>1. UNCHANGED <<queue, held, issued>>
    BY <1>5 DEF BeginFlush, PostFlushTask, EndInline, EndTask, EndFlush
  <2> QED BY <1>4, <2>1
<1>6. CASE UNCHANGED vars
  BY <1>4, <1>6 DEF vars
<1> QED BY <1>1, <1>2, <1>3, <1>5, <1>6 DEF Next, Step

-----------------------------------------------------------------------------
(* The refinement of SerialExecutor *)

(* What runs is what the thread that owns the strand is inside of. *)
LEMMA RunningIs ==
    ASSUME IndInv, NEW t \in Threads, Flushing(t)
    PROVE  owner # <<>> /\ owner[1] = t /\ Running = tasks[t]
<1>1. owner \in Seq(Threads) /\ (\A i \in DOMAIN owner : owner[i] = t)
      /\ Len(owner) = IF tasks[t] = <<>> THEN 1 ELSE Len(tasks[t])
  BY DEF IndInv, TypeOK, OneAtATime
<1>2. tasks[t] \in Seq(Task)
  BY DEF IndInv, TypeOK
<1>3. Len(owner) > 0
  BY <1>1, <1>2
<1>4. owner # <<>> /\ 1 \in DOMAIN owner
  BY <1>1, <1>3
<1> QED BY <1>1, <1>4 DEF Running

(* It stays while its thread, the owners and its tasks do. *)
LEMMA RunningStays ==
    ASSUME UNCHANGED <<owner, tasks>>
    PROVE  Running' = Running
BY DEF Running

(* Nothing waits, and nothing runs, at first. *)
LEMMA InitSerial == Init => Abstract!Init
<1> SUFFICES ASSUME Init PROVE Abstract!Init
  OBVIOUS
<1>1. Holding = {} /\ ToSet(queue) = {}
  BY DEF Init, Holding, ToSet
<1> QED BY <1>1 DEF Init, Abstract!Init, Waiting, Running

(* The locked section of Post submits. *)
LEMMA PostSubmits ==
    ASSUME IndInv, NEW t \in Threads, Post(t)
    PROVE  Abstract!Submit(t)
<1>1. /\ issued' = [issued EXCEPT ![t] = @ + 1]
      /\ held' = [held EXCEPT ![t] = NewTask(t)]
      /\ UNCHANGED <<owner, queue, tasks>>
  BY DEF Post
<1>2. held[t] = NoTask /\ TypeOK
  BY DEF IndInv, PcAgrees, Post, CanCall
<1>3. NewTask(t) # NoTask
  BY <1>2, NewTaskType DEF TypeOK
<1>4. held'[t] = NewTask(t) /\ \A u \in Threads \ {t} : held'[u] = held[u]
  BY <1>1, <1>2 DEF TypeOK
<1>5. Holding' = Holding \cup {t} /\ t \notin Holding
  BY <1>2, <1>3, <1>4 DEF Holding
<1>6. {held'[u] : u \in Holding'} = {held[u] : u \in Holding} \cup {NewTask(t)}
  BY <1>4, <1>5 DEF Holding
<1>7. Waiting' = Waiting \cup {NewTask(t)}
  BY <1>1, <1>6 DEF Waiting
<1>8. Running' = Running
  BY <1>1, RunningStays
<1> QED BY <1>1, <1>7, <1>8 DEF Abstract!Submit, Abstract!Submits, Abstract!NewTask, NewTask

(* A task waits on when it is put into the queue. *)
LEMMA EmplaceStutters ==
    ASSUME IndInv, NEW t \in Threads, Emplace(t)
    PROVE  UNCHANGED <<issued, Waiting, Running>>
<1>1. /\ queue' = Append(queue, held[t])
      /\ held' = [held EXCEPT ![t] = NoTask]
      /\ UNCHANGED <<owner, tasks, issued>>
  BY DEF Emplace, Enqueue, lockVars
<1>2. held[t] # NoTask /\ TypeOK
  BY DEF IndInv, PcAgrees, Emplace
<1>3. queue \in Seq(Task) /\ held[t] \in Task
  BY <1>2 DEF TypeOK
<1>4. ToSet(queue') = ToSet(queue) \cup {held[t]}
  <2>1. /\ DOMAIN queue' = DOMAIN queue \cup {Len(queue) + 1}
        /\ \A i \in DOMAIN queue : queue'[i] = queue[i]
        /\ queue'[Len(queue) + 1] = held[t]
    BY <1>1, <1>3
  <2> QED BY <2>1 DEF ToSet
<1>5. held'[t] = NoTask /\ \A u \in Threads \ {t} : held'[u] = held[u]
  BY <1>1, <1>2 DEF TypeOK
<1>6. Holding' = Holding \ {t} /\ t \in Holding
  BY <1>2, <1>5 DEF Holding
<1>7. {held'[u] : u \in Holding'} \cup {held[t]} = {held[u] : u \in Holding}
  BY <1>5, <1>6 DEF Holding
<1>8. Waiting' = Waiting
  BY <1>4, <1>7 DEF Waiting
<1> QED BY <1>1, <1>8, RunningStays

(* Dispatch on the strand enters a task from the one that runs. *)
LEMMA DispatchEnters ==
    ASSUME IndInv, NEW t \in Threads, DispatchInline(t)
    PROVE  Abstract!Enter(t)
<1>1. /\ OnStrand(t) /\ owner' = Append(owner, t)
      /\ tasks' = [tasks EXCEPT ![t] = Append(@, NewTask(t))]
      /\ issued' = [issued EXCEPT ![t] = @ + 1]
      /\ UNCHANGED <<queue, held>>
  BY DEF DispatchInline
<1>2. TypeOK
  BY DEF IndInv
<1>3. owner # <<>> /\ owner[1] = t /\ Running = tasks[t] /\ tasks[t] # <<>>
  BY <1>1, RunningIs DEF Flushing, OnStrand
<1>4. owner' # <<>> /\ owner'[1] = t
  <2>1. owner \in Seq(Threads)
    BY <1>2 DEF TypeOK
  <2>2. Append(owner, t) # <<>> /\ Append(owner, t)[1] = t
    BY <1>3, <2>1
  <2> QED BY <1>1, <2>2
<1>5. tasks'[t] = Append(tasks[t], NewTask(t))
  BY <1>1, <1>2 DEF TypeOK
<1>6. Running' = Append(Running, NewTask(t))
  BY <1>3, <1>4, <1>5 DEF Running
<1>7. Waiting' = Waiting
  BY <1>1 DEF Waiting, Holding
<1> QED BY <1>1, <1>3, <1>6, <1>7 DEF Abstract!Enter, Abstract!Submits, Abstract!NewTask, NewTask

(* The end of a task that was run at once finishes it. *)
LEMMA InlineFinishes ==
    ASSUME IndInv, NEW t \in Threads, EndInline(t)
    PROVE  Abstract!Finish
<1>1. /\ Len(tasks[t]) > 1 /\ owner' = Front(owner)
      /\ tasks' = [tasks EXCEPT ![t] = Front(@)]
      /\ UNCHANGED <<queue, held, issued>>
  BY DEF EndInline
<1>2. TypeOK /\ tasks[t] \in Seq(Task) /\ owner \in Seq(Threads)
  BY DEF IndInv, TypeOK
<1>3. tasks[t] # <<>>
  BY <1>1, <1>2
<1>4. Flushing(t)
  BY <1>3 DEF Flushing, OnStrand
<1>5. Running = tasks[t] /\ Len(owner) = Len(tasks[t]) /\ \A i \in DOMAIN owner : owner[i] = t
  BY <1>3, <1>4, RunningIs DEF IndInv, OneAtATime
<1>6. owner' # <<>> /\ owner'[1] = t
  <2>1. Len(owner) \in Nat /\ Len(owner) > 1
    BY <1>1, <1>2, <1>5
  <2>2. /\ owner' \in Seq(Threads) /\ Len(owner') = Len(owner) - 1
        /\ \A i \in DOMAIN owner' : i \in DOMAIN owner /\ owner'[i] = owner[i]
    BY <1>1, <1>2, <2>1, FrontOf
  <2>3. 1 \in DOMAIN owner'
    BY <2>1, <2>2
  <2> QED BY <1>5, <2>2, <2>3
<1>7. tasks'[t] = Front(tasks[t])
  BY <1>1, <1>2 DEF TypeOK
<1>8. Running' = SubSeq(Running, 1, Len(Running) - 1) /\ Running # <<>>
  BY <1>3, <1>5, <1>6, <1>7 DEF Running, Front
<1>9. Waiting' = Waiting
  BY <1>1 DEF Waiting, Holding
<1> QED BY <1>1, <1>8, <1>9 DEF Abstract!Finish

(* A worker that begins to flush runs nothing yet, and nobody else does. *)
LEMMA BeginStutters ==
    ASSUME IndInv, NEW t \in Threads, BeginFlush(t)
    PROVE  UNCHANGED <<issued, Waiting, Running>>
<1>1. /\ pc[t] = "user" /\ ~OnStrand(t) /\ tasks[t] = <<>> /\ UNCHANGED <<queue, tasks, held, issued>>
      /\ \/ MayFlush(t) /\ owner' = Append(owner, t)
         \/ UNCHANGED owner
  BY DEF BeginFlush, OnStrand
<1>2. Waiting' = Waiting
  BY <1>1 DEF Waiting, Holding
<1>3. CASE UNCHANGED owner
  BY <1>1, <1>2, <1>3, RunningStays
<1>4. CASE MayFlush(t) /\ owner' = Append(owner, t)
  <2>1. owner = <<>>
    BY <1>1, <1>4, OwnerIsFlushing DEF Flushing
  <2>2. owner' # <<>> /\ owner'[1] = t
    BY <1>4, <2>1
  <2>3. Running = <<>> /\ Running' = <<>>
    BY <1>1, <2>1, <2>2 DEF Running
  <2> QED BY <1>1, <1>2, <2>3
<1> QED BY <1>1, <1>3, <1>4

(* The flush starts the first task of its submitter. *)
LEMMA PopStarts ==
    ASSUME IndInv, QueueInOrder, NEW t \in Threads, PopTask(t)
    PROVE  \E task \in Waiting : Abstract!Start(task)
<1>1. /\ pc[t] = "loop" /\ queue # <<>> /\ tasks' = [tasks EXCEPT ![t] = <<Head(queue)>>]
      /\ queue' = Tail(queue) /\ UNCHANGED <<owner, held, issued>>
  BY DEF PopTask, lockVars
<1>2. TypeOK /\ tasks[t] = <<>> /\ queue \in Seq(Task)
  BY <1>1 DEF IndInv, PcAgrees, TypeOK
<1>3. owner # <<>> /\ owner[1] = t /\ Running = <<>>
  BY <1>1, <1>2, RunningIs DEF Flushing
<1> DEFINE task == Head(queue)
<1>4. /\ 1 \in DOMAIN queue /\ task = queue[1] /\ task \in Task
      /\ \A i \in DOMAIN queue : i = 1 \/ 1 < i
      /\ \A i \in DOMAIN queue : queue[i] \in Task
  BY <1>1, <1>2
<1> HIDE DEF task
<1>5. tasks'[t] = <<task>>
  BY <1>1, <1>2 DEF TypeOK, task
<1>6. Running' = <<task>>
  BY <1>1, <1>3, <1>5 DEF Running
<1>7. \A i \in DOMAIN queue : i # 1 /\ queue[i].by = task.by => task.n < queue[i].n
  BY <1>4 DEF QueueInOrder
<1>8. \A u \in Holding : held[u].by = task.by => task.n < held[u].n
  <2> SUFFICES ASSUME NEW u \in Holding, held[u].by = task.by PROVE task.n < held[u].n
    OBVIOUS
  <2>1. u \in Threads /\ held[u] = [by |-> u, n |-> issued[u]]
        /\ \A i \in DOMAIN queue : queue[i].by = u => queue[i].n < issued[u]
    BY DEF Holding, QueueInOrder
  <2>2. held[u].by = u /\ held[u].n = issued[u]
    BY <2>1
  <2> QED BY <1>4, <2>1, <2>2
<1>9. task.n \in Nat /\ ~(task.n < task.n)
  BY <1>4 DEF Task
<1>10. task \in Waiting
  BY <1>4 DEF Waiting, ToSet
<1>11. \A other \in Waiting : other.by = task.by => task.n <= other.n
  <2> SUFFICES ASSUME NEW other \in Waiting, other.by = task.by PROVE task.n <= other.n
    OBVIOUS
  <2>1. CASE other \in ToSet(queue)
    <3>1. PICK i \in DOMAIN queue : other = queue[i]
      BY <2>1 DEF ToSet
    <3>2. other.n \in Nat
      BY <1>4, <3>1 DEF Task
    <3> QED BY <1>4, <1>7, <1>9, <3>1, <3>2
  <2>2. CASE other \in {held[u] : u \in Holding}
    <3>1. PICK u \in Holding : other = held[u]
      BY <2>2
    <3>2. other.n \in Nat
      BY <1>2, <3>1 DEF TypeOK, Holding, Task, NoTask
    <3> QED BY <1>8, <1>9, <3>1, <3>2
  <2> QED BY <2>1, <2>2 DEF Waiting
<1>12. ToSet(queue') = ToSet(queue) \ {task}
  <2>1. \A i \in DOMAIN queue' : i + 1 \in DOMAIN queue /\ queue'[i] = queue[i + 1] /\ i + 1 # 1
    BY <1>1, <1>2
  <2>2. \A i \in DOMAIN queue : i # 1 => \E j \in DOMAIN queue' : queue'[j] = queue[i]
    <3> SUFFICES ASSUME NEW i \in DOMAIN queue, i # 1 PROVE \E j \in DOMAIN queue' : queue'[j] = queue[i]
      OBVIOUS
    <3>1. i - 1 \in DOMAIN queue' /\ (i - 1) + 1 = i
      BY <1>1, <1>2
    <3> QED BY <2>1, <3>1
  <2>3. \A i \in DOMAIN queue : i # 1 => queue[i] # task
    BY <1>7, <1>9
  <2>4. ASSUME NEW x \in ToSet(queue') PROVE x \in ToSet(queue) \ {task}
    <3>1. PICK i \in DOMAIN queue' : x = queue'[i]
      BY DEF ToSet
    <3> QED BY <2>1, <2>3, <3>1 DEF ToSet
  <2>5. ASSUME NEW x \in ToSet(queue) \ {task} PROVE x \in ToSet(queue')
    <3>1. PICK i \in DOMAIN queue : x = queue[i]
      BY DEF ToSet
    <3>2. PICK j \in DOMAIN queue' : queue'[j] = queue[i]
      BY <1>4, <2>2, <3>1
    <3> QED BY <3>1, <3>2 DEF ToSet
  <2> QED BY <2>4, <2>5
<1>13. \A u \in Holding : held[u] # task
  BY <1>8, <1>9
<1>14. Waiting' = Waiting \ {task}
  <2>1. {held'[u] : u \in Holding'} = {held[u] : u \in Holding}
    BY <1>1 DEF Holding
  <2> QED BY <1>12, <1>13, <2>1 DEF Waiting
<1>15. Abstract!Start(task)
  BY <1>1, <1>3, <1>6, <1>11, <1>14 DEF Abstract!Start, Abstract!First
<1> QED BY <1>10, <1>15

(* The end of the task that the flush has taken finishes it. *)
LEMMA TaskFinishes ==
    ASSUME IndInv, NEW t \in Threads, EndTask(t)
    PROVE  Abstract!Finish
<1>1. /\ Len(tasks[t]) = 1 /\ tasks' = [tasks EXCEPT ![t] = <<>>]
      /\ UNCHANGED <<owner, queue, held, issued>>
  BY DEF EndTask, lockVars
<1>2. TypeOK /\ tasks[t] \in Seq(Task)
  BY DEF IndInv, TypeOK
<1>3. tasks[t] # <<>>
  <2>1. Len(<<>>) = 0
    OBVIOUS
  <2> QED BY <1>1, <2>1
<1>4. owner # <<>> /\ owner[1] = t /\ Running = tasks[t]
  BY <1>3, RunningIs DEF Flushing, OnStrand
<1>5. tasks'[t] = <<>>
  BY <1>1, <1>2 DEF TypeOK
<1>6. Running' = <<>>
  BY <1>1, <1>4, <1>5 DEF Running
<1>7. SubSeq(Running, 1, Len(Running) - 1) = <<>>
  <2>1. Front(tasks[t]) = <<>>
    BY <1>1, <1>2, FrontOfOne
  <2> QED BY <1>4, <2>1 DEF Front
<1>8. Waiting' = Waiting
  BY <1>1 DEF Waiting, Holding
<1> QED BY <1>1, <1>3, <1>4, <1>6, <1>7, <1>8 DEF Abstract!Finish

(* A flush that ends runs nothing. *)
LEMMA EndStutters ==
    ASSUME IndInv, NEW t \in Threads, EndFlush(t)
    PROVE  UNCHANGED <<issued, Waiting, Running>>
<1>1. /\ pc[t] = "loop" /\ owner' = Front(owner) /\ UNCHANGED <<queue, tasks, held, issued>>
  BY DEF EndFlush
<1>2. TypeOK /\ tasks[t] = <<>>
  BY <1>1 DEF IndInv, PcAgrees
<1>3. Running = <<>> /\ owner \in Seq(Threads) /\ Len(owner) = 1
  BY <1>1, <1>2, RunningIs DEF IndInv, OneAtATime, TypeOK, Flushing
<1>4. owner' = <<>>
  BY <1>1, <1>3, FrontOfOne
<1>5. Running' = <<>>
  BY <1>4 DEF Running
<1>6. Waiting' = Waiting
  BY <1>1 DEF Waiting, Holding
<1> QED BY <1>1, <1>3, <1>5, <1>6

(* Every step of the strand is one of the serial executor, or none. *)
LEMMA NextSerial ==
    ASSUME IndInv, QueueInOrder, [Next]_vars
    PROVE  [Abstract!Next]_<<issued, Waiting, Running>>
<1>1. ASSUME NEW t \in Threads, Post(t) PROVE Abstract!Next
  BY <1>1, PostSubmits DEF Abstract!Next
<1>2. ASSUME NEW t \in Threads, DispatchInline(t) PROVE Abstract!Next
  BY <1>2, DispatchEnters DEF Abstract!Next
<1>3. ASSUME NEW t \in Threads, PopTask(t) PROVE Abstract!Next
  BY <1>3, PopStarts DEF Abstract!Next
<1>4. ASSUME NEW t \in Threads, EndInline(t) \/ EndTask(t) PROVE Abstract!Next
  BY <1>4, InlineFinishes, TaskFinishes DEF Abstract!Next
<1>5. ASSUME NEW t \in Threads, Emplace(t) \/ BeginFlush(t) \/ EndFlush(t) \/ PostFlushTask(t)
      PROVE  UNCHANGED <<issued, Waiting, Running>>
  <2>1. CASE PostFlushTask(t)
    BY <2>1, RunningStays DEF PostFlushTask, lockVars, Waiting, Holding
  <2> QED BY <1>5, <2>1, EmplaceStutters, BeginStutters, EndStutters
<1>6. CASE UNCHANGED vars
  BY <1>6, RunningStays DEF vars, lockVars, Waiting, Holding
<1> QED BY <1>1, <1>2, <1>3, <1>4, <1>5, <1>6 DEF Next, Step

(* The strand implements SerialExecutor: whoever posts, dispatches and      *)
(* flushes on however many threads, tasks run one at a time, each once, and *)
(* those of one submitter in the order of their submission.                 *)
THEOREM StrandRefinement == Spec => IsSerialExecutor
<1>1. Init => QueueInOrder
  BY DEF Init, QueueInOrder
<1>2. IndInv /\ QueueInOrder /\ [Next]_vars => QueueInOrder'
  BY NextOrder
<1>3. IndInv /\ QueueInOrder /\ [Next]_vars => [Abstract!Next]_<<issued, Waiting, Running>>
  BY NextSerial
<1> QED BY <1>1, <1>2, <1>3, InitSerial, StrandInvariant, PTL DEF Spec, IsSerialExecutor, Abstract!Spec

=============================================================================
