--------------------------- MODULE Wakeup_proofs ---------------------------
(***************************************************************************)
(* Proofs that whoever waits is woken: the worker of the thread pool that  *)
(* sleeps on its condition variable (GameExecutor), and the consumer of a  *)
(* channel that leaves a handler behind (AsyncEnumerable).  Both sides     *)
(* test a state under a lock and notify after it.                          *)
(*                                                                         *)
(* The pool, for any number of workers, threads and functions: where a     *)
(* function is, and why no worker sleeps beside work.                      *)
(*                                                                         *)
(* The channel, for any number of producers: no wake-up and no item is     *)
(* lost.  A handler is stored only under the lock, on an open and empty    *)
(* channel (MayWait).  From then on whatever makes the channel non-empty   *)
(* or closed takes the handler out in the same step (Send), or is a call   *)
(* that has not reached its NotifyAll yet.  A producer that throws sends   *)
(* without notifying and relies on its Close; when that Close comes second *)
(* it does not notify, and it is the first one that does: NoLostClose is   *)
(* what carries the proof of NoLostWakeup over this step.                  *)
(*                                                                         *)
(* That no item is lost, doubled or overtaken (InOrder) is inductive: a    *)
(* call numbers its items on from its producer's last.                     *)
(***************************************************************************)
EXTENDS GameExecutor, AsyncEnumerable, SequenceTheorems, TLAPS

-----------------------------------------------------------------------------
(***************************************************************************)
(* The thread pool                                                         *)
(***************************************************************************)

(* A worker has a batch only while it runs it: Take replaces an empty one. *)
BatchIsRun == \A w \in Worker : pc[w] # "run" => batch[w] = {}

(* While a worker is in wait, running is set by whoever posts to it, and a *)
(* notification follows: NoSleepBesideWork, cut at running.                *)
SleepersAreTold ==
    \A w \in Worker : pc[w] = "sleep" =>
        /\ queue[w] # {} => running[w]
        /\ running[w] => notified[w] \/ \E t \in Thread : notifying[t] = w

(* Indices of workers stay in range, and None is no worker. *)
LEMMA Ranges ==
    /\ Concurrency \in Nat \ {0} /\ 0 \in Worker /\ None \notin Worker
    /\ \A w \in Worker : (w + 1) % Concurrency \in Worker
    /\ \A i, w \in Nat : (i + w) % Concurrency \in Worker
    /\ \A w \in Worker : w \in Nat /\ w \in Thread
<1>1. Concurrency \in Nat /\ Concurrency > 0
  BY ConcurrencyAssumption
<1>2. \A n \in Nat : n % Concurrency \in 0 .. Concurrency - 1
  BY <1>1
<1>3. \A w \in 0 .. Concurrency - 1 : w \in Nat /\ w + 1 \in Nat
  BY <1>1
<1>4. \A i, w \in Nat : i + w \in Nat
  OBVIOUS
<1> QED
  BY <1>1, <1>2, <1>3, <1>4 DEF Worker, None, Thread

(* No worker has run anything at first. *)
LEMMA PoolInitTypes == PoolInit => PoolTypeOK
BY Ranges DEF PoolInit, PoolTypeOK, WorkerAt, StopStep

(* Proceed keeps the types of what it changes. *)
LEMMA ProceedTypes ==
    ASSUME PoolTypeOK, NEW w \in Worker, Proceed(w)
    PROVE  /\ pc' \in [Worker -> WorkerAt] /\ queue' \in [Worker -> SUBSET Tasks]
           /\ tired' \in [Worker -> BOOLEAN] /\ offset' \in [Worker -> Nat]
           /\ batch' \in [Worker -> SUBSET Tasks]
<1>1. \/ pc' = [pc EXCEPT ![w] = "exit"] \/ pc' = [pc EXCEPT ![w] = "run"]
      \/ pc' = [pc EXCEPT ![w] = "search"]
  BY DEF Proceed, Take
<1>2. pc' \in [Worker -> WorkerAt]
  BY <1>1 DEF PoolTypeOK, WorkerAt
<1>3. queue' = queue \/ queue' = [queue EXCEPT ![w] = {}]
  BY DEF Proceed, Take, Emptied
<1>4. queue' \in [Worker -> SUBSET Tasks]
  BY <1>3 DEF PoolTypeOK
<1>5. tired' = tired \/ tired' = [tired EXCEPT ![w] = TRUE] \/ tired' = [tired EXCEPT ![w] = FALSE]
  BY DEF Proceed, Take
<1>6. tired' \in [Worker -> BOOLEAN]
  BY <1>5 DEF PoolTypeOK
<1>7. offset' = offset \/ offset' = [offset EXCEPT ![w] = 1]
  BY DEF Proceed
<1>8. offset' \in [Worker -> Nat]
  BY <1>7 DEF PoolTypeOK
<1>9. batch' = batch \/ batch' = [batch EXCEPT ![w] = queue[w]]
  BY DEF Proceed, Take
<1>10. batch' \in [Worker -> SUBSET Tasks]
  BY <1>9 DEF PoolTypeOK
<1> QED
  BY <1>2, <1>4, <1>6, <1>8, <1>10

(* Every step keeps the types. *)
LEMMA PoolTypesStep == PoolTypeOK /\ [PoolNext]_poolVars => PoolTypeOK'
<1> SUFFICES ASSUME PoolTypeOK, [PoolNext]_poolVars PROVE PoolTypeOK'
  OBVIOUS
<1>1. ASSUME NEW w \in Worker, Start(w) PROVE PoolTypeOK'
  BY <1>1 DEF PoolTypeOK, Start, WorkerAt, stopVars
<1>2. ASSUME NEW w \in Worker, Check(w) PROVE PoolTypeOK'
  <2>1. CASE ~MaySleep(w)
    BY <1>2, <2>1, ProceedTypes DEF PoolTypeOK, Check, stopVars
  <2>2. CASE MaySleep(w)
    <3>1. UNCHANGED <<queue, tired, offset, batch>>
      BY <1>2, <2>2 DEF Check
    <3>2. pc' \in [Worker -> WorkerAt]
      BY <1>2, <2>2 DEF PoolTypeOK, Check, WorkerAt
    <3>3. running' \in [Worker -> BOOLEAN] /\ notified' \in [Worker -> BOOLEAN]
      BY <1>2, <2>2 DEF PoolTypeOK, Check
    <3> QED
      BY <1>2, <3>1, <3>2, <3>3 DEF PoolTypeOK, Check, stopVars
  <2> QED
    BY <2>1, <2>2
<1>3. ASSUME NEW w \in Worker, Wake(w) PROVE PoolTypeOK'
  BY <1>3, ProceedTypes DEF PoolTypeOK, Wake, stopVars
<1>4. ASSUME NEW w \in Worker, Search(w) PROVE PoolTypeOK'
  <2>1. Victim(w) \in Worker
    <3>1. offset[w] \in Nat /\ w \in Nat
      BY Ranges DEF PoolTypeOK
    <3> QED
      BY <3>1, Ranges DEF Victim
  <2>2. CASE Take(w, Victim(w)) /\ UNCHANGED offset
    BY <1>4, <2>1, <2>2 DEF PoolTypeOK, Search, Take, Emptied, WorkerAt, stopVars
  <2>3. CASE ~(Take(w, Victim(w)) /\ UNCHANGED offset)
    <3>1. UNCHANGED <<queue, batch>>
      BY <1>4, <2>3 DEF Search
    <3>2. tired' \in [Worker -> BOOLEAN]
      BY <1>4, <2>3 DEF Search, PoolTypeOK
    <3>3. pc' \in [Worker -> WorkerAt]
      BY <1>4, <2>3 DEF Search, PoolTypeOK, WorkerAt
    <3>4. offset' \in [Worker -> Nat]
      BY <1>4, <2>3 DEF Search, PoolTypeOK
    <3> QED
      BY <1>4, <3>1, <3>2, <3>3, <3>4 DEF PoolTypeOK, Search, stopVars
  <2> QED
    BY <2>2, <2>3
<1>5. ASSUME NEW w \in Worker, Execute(w) PROVE PoolTypeOK'
  <2>1. batch' \in [Worker -> SUBSET Tasks] /\ executed' \in SUBSET Tasks
    BY <1>5 DEF PoolTypeOK, Execute
  <2>2. pc' \in [Worker -> WorkerAt]
    BY <1>5 DEF PoolTypeOK, Execute, WorkerAt
  <2> QED
    BY <1>5, <2>1, <2>2 DEF PoolTypeOK, Execute, stopVars
<1>6. ASSUME NEW t \in Thread, NEW task \in Tasks, Post(t, task) PROVE PoolTypeOK'
  BY <1>6, Ranges DEF PoolTypeOK, Post, WakesUp, stopVars
<1>7. ASSUME NEW w \in Worker, NEW task \in Tasks, DispatchInline(w, task) PROVE PoolTypeOK'
  BY <1>7 DEF PoolTypeOK, DispatchInline, stopVars
<1>8. ASSUME NEW t \in Thread, Notify(t) PROVE PoolTypeOK'
  BY <1>8 DEF PoolTypeOK, Notify, NotifyOne, stopVars
<1>9. ASSUME StopSet PROVE PoolTypeOK'
  <2>1. shutdown' \in [Worker -> BOOLEAN]
    BY <1>9 DEF PoolTypeOK, StopSet
  <2>2. stopping' \in Nat \union {None}
    BY <1>9, Ranges DEF PoolTypeOK, StopSet
  <2> QED
    BY <1>9, <2>1, <2>2 DEF PoolTypeOK, StopSet, StopStep
<1>10. ASSUME StopNotify PROVE PoolTypeOK'
  BY <1>10 DEF PoolTypeOK, StopNotify, NotifyOne, StopStep
<1>11. ASSUME StopJoin PROVE PoolTypeOK'
  <2>1. stopping' \in Nat
    <3>1. stopping \in Worker /\ stopping' = stopping + 1
      BY <1>11 DEF StopJoin
    <3>2. stopping \in Nat
      BY <3>1, Ranges
    <3> QED
      BY <3>1, <3>2
  <2> QED
    BY <1>11, <2>1 DEF PoolTypeOK, StopJoin, StopStep
<1>12. CASE UNCHANGED poolVars
  BY <1>12 DEF PoolTypeOK, poolVars, stopVars
<1> QED
  BY <1>1, <1>2, <1>3, <1>4, <1>5, <1>6, <1>7, <1>8, <1>9, <1>10, <1>11, <1>12
     DEF PoolNext, WorkerStep, Submit, Stop

-----------------------------------------------------------------------------
(* Where a function is *)

(* OnePlace, told of each function. *)
At(task, w) == task \in queue[w] \/ task \in batch[w]
OnePlaceOf(task) ==
    /\ \A v, w \in Worker :
          /\ ~(task \in queue[v] /\ task \in batch[w])
          /\ v # w => ~(task \in queue[v] /\ task \in queue[w]) /\ ~(task \in batch[v] /\ task \in batch[w])
    /\ \A w \in Worker : At(task, w) => task \notin executed
    /\ task \in submitted <=> task \in executed \/ \E w \in Worker : At(task, w)

(* OnePlace, said of each function. *)
LEMMA OnePlacePointwise == OnePlace <=> \A task : OnePlaceOf(task)
<1>1. ASSUME OnePlace, NEW task PROVE OnePlaceOf(task)
  <2>1. task \in UNION {queue[w] \union batch[w] : w \in Worker} <=> \E w \in Worker : At(task, w)
    BY DEF At
  <2> QED
    BY <1>1, <2>1 DEF OnePlace, OnePlaceOf, At
<1>2. ASSUME \A task : OnePlaceOf(task) PROVE OnePlace
  <2>1. ASSUME NEW v \in Worker, NEW w \in Worker
        PROVE  /\ queue[v] \cap batch[w] = {}
               /\ v # w => queue[v] \cap queue[w] = {} /\ batch[v] \cap batch[w] = {}
    BY <1>2 DEF OnePlaceOf
  <2>2. \A w \in Worker : (queue[w] \union batch[w]) \cap executed = {}
    BY <1>2 DEF OnePlaceOf, At
  <2>3. submitted = executed \union UNION {queue[w] \union batch[w] : w \in Worker}
    <3>1. ASSUME NEW task
          PROVE task \in UNION {queue[w] \union batch[w] : w \in Worker} <=> \E w \in Worker : At(task, w)
      BY DEF At
    <3> QED
      BY <1>2, <3>1 DEF OnePlaceOf
  <2> QED
    BY <2>1, <2>2, <2>3 DEF OnePlace
<1> QED
  BY <1>1, <1>2

-----------------------------------------------------------------------------
(* The invariant is inductive, a conjunct at a time *)

AllPlaced == \A task : OnePlaceOf(task)

(* A batch is held only while it is run. *)
LEMMA BatchStep == PoolTypeOK /\ BatchIsRun /\ [PoolNext]_poolVars => BatchIsRun'
<1> SUFFICES ASSUME PoolTypeOK, BatchIsRun, [PoolNext]_poolVars PROVE BatchIsRun'
  OBVIOUS
<1>1. ASSUME NEW w \in Worker, Start(w) PROVE BatchIsRun'
  BY <1>1 DEF PoolTypeOK, BatchIsRun, Start
<1>2. ASSUME NEW w \in Worker, Proceed(w), pc[w] # "run" PROVE BatchIsRun'
  BY <1>2 DEF PoolTypeOK, BatchIsRun, Proceed, Take
<1>3. ASSUME NEW w \in Worker, Check(w) PROVE BatchIsRun'
  <2>1. CASE ~MaySleep(w)
    BY <1>2, <1>3, <2>1 DEF Check
  <2>2. CASE MaySleep(w)
    BY <1>3, <2>2 DEF PoolTypeOK, BatchIsRun, Check
  <2> QED
    BY <2>1, <2>2
<1>4. ASSUME NEW w \in Worker, Wake(w) PROVE BatchIsRun'
  BY <1>2, <1>4 DEF Wake
<1>5. ASSUME NEW w \in Worker, Search(w) PROVE BatchIsRun'
  <2>1. CASE Take(w, Victim(w))
    BY <1>5, <2>1 DEF PoolTypeOK, BatchIsRun, Take
  <2>2. CASE ~Take(w, Victim(w))
    BY <1>5, <2>2 DEF PoolTypeOK, BatchIsRun, Search
  <2> QED
    BY <2>1, <2>2
<1>6. ASSUME NEW w \in Worker, Execute(w) PROVE BatchIsRun'
  BY <1>6 DEF PoolTypeOK, BatchIsRun, Execute
<1>7. ASSUME NEW t \in Thread, NEW task \in Tasks, Post(t, task) PROVE BatchIsRun'
  BY <1>7 DEF BatchIsRun, Post
<1>8. ASSUME NEW w \in Worker, NEW task \in Tasks, DispatchInline(w, task) PROVE BatchIsRun'
  BY <1>8 DEF BatchIsRun, DispatchInline
<1>9. ASSUME NEW t \in Thread, Notify(t) PROVE BatchIsRun'
  BY <1>9 DEF BatchIsRun, Notify
<1>10. ASSUME Stop PROVE BatchIsRun'
  BY <1>10 DEF BatchIsRun, Stop, StopSet, StopNotify, StopJoin
<1>11. CASE UNCHANGED poolVars
  BY <1>11 DEF BatchIsRun, poolVars
<1> QED
  BY <1>1, <1>3, <1>4, <1>5, <1>6, <1>7, <1>8, <1>9, <1>10, <1>11
     DEF PoolNext, WorkerStep, Submit

(* A worker that takes a whole queue moves its functions and copies none. *)
LEMMA TakeKeepsPlaces ==
    ASSUME PoolTypeOK, AllPlaced, NEW w \in Worker, NEW v \in Worker, batch[w] = {},
           Take(w, v), UNCHANGED <<submitted, executed>>
    PROVE  AllPlaced'
<1> SUFFICES ASSUME NEW task PROVE OnePlaceOf(task)'
  BY DEF AllPlaced
<1>1. OnePlaceOf(task)
  BY DEF AllPlaced
<1>2. \A u \in Worker : queue'[u] = IF u = v THEN {} ELSE queue[u]
  BY DEF PoolTypeOK, Take, Emptied
<1>3. \A u \in Worker : batch'[u] = IF u = w THEN queue[v] ELSE batch[u]
  BY DEF PoolTypeOK, Take
<1>4. \A u \in Worker : At(task, u)' => At(task, u) \/ At(task, v)
  BY <1>2, <1>3 DEF At
<1>5. \A u \in Worker : At(task, u) => At(task, u)' \/ At(task, w)'
  BY <1>2, <1>3 DEF At
<1>6. (task \in submitted <=> task \in executed \/ \E u \in Worker : At(task, u))'
  BY <1>1, <1>4, <1>5 DEF OnePlaceOf
<1>7. \A u \in Worker : At(task, u)' => task \notin executed'
  BY <1>1, <1>4 DEF OnePlaceOf
<1>8. \A u, x \in Worker :
        /\ ~(task \in queue'[u] /\ task \in batch'[x])
        /\ u # x => ~(task \in queue'[u] /\ task \in queue'[x]) /\ ~(task \in batch'[u] /\ task \in batch'[x])
  BY <1>1, <1>2, <1>3 DEF OnePlaceOf
<1> QED
  BY <1>6, <1>7, <1>8 DEF OnePlaceOf

(* Every step leaves each function in one place. *)
LEMMA PlacesStep == PoolTypeOK /\ BatchIsRun /\ AllPlaced /\ [PoolNext]_poolVars => AllPlaced'
<1> SUFFICES ASSUME PoolTypeOK, BatchIsRun, AllPlaced, [PoolNext]_poolVars PROVE AllPlaced'
  OBVIOUS
<1>1. ASSUME UNCHANGED <<queue, batch, submitted, executed>> PROVE AllPlaced'
  BY <1>1 DEF AllPlaced, OnePlaceOf, At
<1>2. ASSUME NEW w \in Worker, Proceed(w), pc[w] # "run", UNCHANGED <<submitted, executed>>
      PROVE  AllPlaced'
  <2>1. Take(w, w) \/ UNCHANGED <<queue, batch>>
    BY <1>2 DEF Proceed
  <2> QED
    BY <1>1, <1>2, <2>1, TakeKeepsPlaces DEF BatchIsRun
<1>3. ASSUME NEW w \in Worker, Check(w) PROVE AllPlaced'
  <2>1. CASE ~MaySleep(w)
    BY <1>2, <1>3, <2>1 DEF Check
  <2>2. CASE MaySleep(w)
    BY <1>1, <1>3, <2>2 DEF Check
  <2> QED
    BY <2>1, <2>2
<1>4. ASSUME NEW w \in Worker, Wake(w) PROVE AllPlaced'
  BY <1>2, <1>4 DEF Wake
<1>5. ASSUME NEW w \in Worker, Search(w) PROVE AllPlaced'
  <2>1. Victim(w) \in Worker
    <3>1. offset[w] \in Nat /\ w \in Nat
      BY Ranges DEF PoolTypeOK
    <3> QED
      BY <3>1, Ranges DEF Victim
  <2>2. Take(w, Victim(w)) \/ UNCHANGED <<queue, batch>>
    BY <1>5 DEF Search
  <2>3. pc[w] # "run" /\ UNCHANGED <<submitted, executed>>
    BY <1>5 DEF Search
  <2> QED
    BY <1>1, <2>1, <2>2, <2>3, TakeKeepsPlaces DEF BatchIsRun
<1>6. ASSUME NEW w \in Worker, Execute(w) PROVE AllPlaced'
  <2>1. CASE batch[w] = {}
    BY <1>1, <1>6, <2>1 DEF Execute
  <2>2. ASSUME NEW task \in batch[w], batch' = [batch EXCEPT ![w] = @ \ {task}],
               executed' = executed \union {task}
        PROVE  AllPlaced'
    <3> SUFFICES ASSUME NEW x PROVE OnePlaceOf(x)'
      BY DEF AllPlaced
    <3>1. OnePlaceOf(x) /\ UNCHANGED <<queue, submitted>>
      BY <1>6 DEF AllPlaced, Execute
    <3>2. \A u \in Worker : batch'[u] = IF u = w THEN batch[w] \ {task} ELSE batch[u]
      BY <2>2 DEF PoolTypeOK
    <3>3. CASE x = task
      BY <2>2, <3>1, <3>2, <3>3 DEF OnePlaceOf, At
    <3>4. CASE x # task
      <4>1. \A u \in Worker : (At(x, u)' <=> At(x, u)) /\ (x \in batch'[u] <=> x \in batch[u])
        BY <3>1, <3>2, <3>4 DEF At
      <4>2. x \in executed' <=> x \in executed
        BY <2>2, <3>4
      <4> QED
        BY <3>1, <4>1, <4>2 DEF OnePlaceOf
    <3> QED
      BY <3>3, <3>4
  <2> QED
    BY <1>6, <2>1, <2>2 DEF Execute
<1>7. ASSUME NEW t \in Thread, NEW task \in Tasks, Post(t, task) PROVE AllPlaced'
  <2> SUFFICES ASSUME NEW x PROVE OnePlaceOf(x)'
    BY DEF AllPlaced
  <2> DEFINE v == postIndex[t]
  <2>1. v \in Worker
    BY DEF PoolTypeOK
  <2>2. OnePlaceOf(x) /\ UNCHANGED <<batch, executed>> /\ task \notin submitted
    BY <1>7 DEF AllPlaced, Post
  <2>3. \A u \in Worker : queue'[u] = IF u = v THEN queue[v] \union {task} ELSE queue[u]
    BY <1>7 DEF PoolTypeOK, Post
  <2>4. submitted' = submitted \union {task}
    BY <1>7 DEF Post
  <2> HIDE DEF v
  <2>5. CASE x = task
    BY <2>1, <2>2, <2>3, <2>4, <2>5 DEF OnePlaceOf, At
  <2>6. CASE x # task
    <3>1. \A u \in Worker : (At(x, u)' <=> At(x, u)) /\ (x \in queue'[u] <=> x \in queue[u])
      BY <2>2, <2>3, <2>6 DEF At
    <3> QED
      BY <2>2, <2>4, <2>6, <3>1 DEF OnePlaceOf
  <2> QED
    BY <2>5, <2>6
<1>8. ASSUME NEW w \in Worker, NEW task \in Tasks, DispatchInline(w, task) PROVE AllPlaced'
  <2> SUFFICES ASSUME NEW x PROVE OnePlaceOf(x)'
    BY DEF AllPlaced
  <2>1. OnePlaceOf(x) /\ OnePlaceOf(task) /\ task \notin submitted /\ UNCHANGED <<queue, batch>>
    BY <1>8 DEF AllPlaced, DispatchInline
  <2>2. submitted' = submitted \union {task} /\ executed' = executed \union {task}
    BY <1>8 DEF DispatchInline
  <2> QED
    BY <2>1, <2>2 DEF OnePlaceOf, At
<1>9. CASE \/ \E w \in Worker : Start(w)
           \/ \E t \in Thread : Notify(t)
           \/ Stop \/ UNCHANGED poolVars
  BY <1>1, <1>9 DEF Start, Notify, Stop, StopSet, StopNotify, StopJoin, poolVars
<1> QED
  BY <1>3, <1>4, <1>5, <1>6, <1>7, <1>8, <1>9 DEF PoolNext, WorkerStep, Submit

(* Taking work only empties queues, and leaves the taker awake. *)
LEMMA ProceedSleep ==
    ASSUME PoolTypeOK, SleepersAreTold, NEW w \in Worker, Proceed(w),
           UNCHANGED <<running, notified, notifying>>
    PROVE  SleepersAreTold'
<1>1. \A u \in Worker : queue'[u] = {} \/ queue'[u] = queue[u]
  BY DEF PoolTypeOK, Proceed, Take, Emptied
<1>2. \A u \in Worker : pc'[u] = "sleep" => pc[u] = "sleep"
  BY DEF PoolTypeOK, Proceed, Take
<1> QED
  BY <1>1, <1>2 DEF SleepersAreTold

(* Every step that brings work beside a sleeper tells him, or will. *)
LEMMA SleepStep == PoolTypeOK /\ SleepersAreTold /\ [PoolNext]_poolVars => SleepersAreTold'
<1> SUFFICES ASSUME PoolTypeOK, SleepersAreTold, [PoolNext]_poolVars PROVE SleepersAreTold'
  OBVIOUS
<1>1. ASSUME NEW w \in Worker, Start(w) PROVE SleepersAreTold'
  BY <1>1 DEF PoolTypeOK, SleepersAreTold, Start
<1>2. ASSUME NEW w \in Worker, Check(w) PROVE SleepersAreTold'
  <2>1. CASE ~MaySleep(w)
    BY <1>2, <2>1, ProceedSleep DEF Check
  <2>2. CASE MaySleep(w)
    BY <1>2, <2>2 DEF PoolTypeOK, SleepersAreTold, Check, MaySleep
  <2> QED
    BY <2>1, <2>2
<1>3. ASSUME NEW w \in Worker, Wake(w) PROVE SleepersAreTold'
  BY <1>3, ProceedSleep DEF Wake
<1>4. ASSUME NEW w \in Worker, Search(w) PROVE SleepersAreTold'
  <2>1. \A u \in Worker : queue'[u] = {} \/ queue'[u] = queue[u]
    BY <1>4 DEF PoolTypeOK, Search, Take, Emptied
  <2>2. \A u \in Worker : pc'[u] = "sleep" => pc[u] = "sleep"
    BY <1>4 DEF PoolTypeOK, Search, Take
  <2> QED
    BY <1>4, <2>1, <2>2 DEF SleepersAreTold, Search
<1>5. ASSUME NEW w \in Worker, Execute(w) PROVE SleepersAreTold'
  BY <1>5 DEF PoolTypeOK, SleepersAreTold, Execute
<1>6. ASSUME NEW t \in Thread, NEW task \in Tasks, Post(t, task) PROVE SleepersAreTold'
  <2> DEFINE v == postIndex[t]
  <2>1. v \in Worker /\ None \notin Worker
    BY Ranges DEF PoolTypeOK
  <2>2. notifying[t] = None
    BY <1>6 DEF Post, MayPost
  <2>3. \A u \in Worker : running'[u] <=> u = v \/ running[u]
    BY <1>6, <2>1 DEF PoolTypeOK, Post, WakesUp
  <2>4. \A u \in Worker : u # v => queue'[u] = queue[u]
    BY <1>6 DEF PoolTypeOK, Post
  <2>5. \A s \in Thread : s # t => notifying'[s] = notifying[s]
    BY <1>6 DEF PoolTypeOK, Post
  <2>6. ~running[v] => notifying'[t] = v
    BY <1>6 DEF PoolTypeOK, Post
  <2>7. UNCHANGED <<pc, notified>>
    BY <1>6 DEF Post
  <2> HIDE DEF v
  <2> SUFFICES ASSUME NEW w \in Worker, pc[w] = "sleep"
               PROVE  /\ queue'[w] # {} => running'[w]
                      /\ running'[w] => notified[w] \/ \E s \in Thread : notifying'[s] = w
    BY <2>7 DEF SleepersAreTold
  <2>8. queue'[w] # {} => running'[w]
    BY <2>3, <2>4 DEF SleepersAreTold
  <2>9. ASSUME running[w] PROVE notified[w] \/ \E s \in Thread : notifying'[s] = w
    <3>1. notified[w] \/ \E s \in Thread : notifying[s] = w
      BY <2>9 DEF SleepersAreTold
    <3>2. ASSUME NEW s \in Thread, notifying[s] = w PROVE notifying'[s] = w
      <4>1. s # t
        BY <2>1, <2>2, <3>2
      <4> QED
        BY <2>5, <3>2, <4>1
    <3> QED
      BY <3>1, <3>2
  <2>10. ASSUME ~running[w], running'[w] PROVE notifying'[t] = w
    <3>1. w = v
      BY <2>3, <2>10
    <3> QED
      BY <2>6, <2>10, <3>1
  <2> QED
    BY <2>8, <2>9, <2>10
<1>7. ASSUME NEW w \in Worker, NEW task \in Tasks, DispatchInline(w, task) PROVE SleepersAreTold'
  BY <1>7 DEF SleepersAreTold, DispatchInline
<1>8. ASSUME NEW t \in Thread, Notify(t) PROVE SleepersAreTold'
  <2>1. notifying[t] \in Worker
    BY <1>8 DEF PoolTypeOK, Notify
  <2>2. \A u \in Worker : notified'[u] <=> notified[u] \/ (u = notifying[t] /\ pc[u] = "sleep")
    BY <1>8, <2>1 DEF PoolTypeOK, Notify, NotifyOne
  <2>3. \A s \in Thread : s # t => notifying'[s] = notifying[s]
    BY <1>8 DEF PoolTypeOK, Notify
  <2> QED
    BY <1>8, <2>2, <2>3 DEF SleepersAreTold, Notify
<1>9. ASSUME Stop PROVE SleepersAreTold'
  <2>1. \A u \in Worker : notified[u] => notified'[u]
    BY <1>9 DEF PoolTypeOK, Stop, StopSet, StopNotify, StopJoin, NotifyOne
  <2>2. UNCHANGED <<pc, queue, running, notifying>>
    BY <1>9 DEF Stop, StopSet, StopNotify, StopJoin
  <2> QED
    BY <2>1, <2>2 DEF SleepersAreTold
<1>10. CASE UNCHANGED poolVars
  BY <1>10 DEF SleepersAreTold, poolVars
<1> QED
  BY <1>1, <1>2, <1>3, <1>4, <1>5, <1>6, <1>7, <1>8, <1>9, <1>10
     DEF PoolNext, WorkerStep, Submit

-----------------------------------------------------------------------------
(* The theorems *)

PoolInv == PoolTypeOK /\ BatchIsRun /\ AllPlaced /\ SleepersAreTold

(* All queues are empty at first. *)
LEMMA PoolInitInv == PoolInit => PoolInv
<1> SUFFICES ASSUME PoolInit PROVE PoolInv
  OBVIOUS
<1>1. PoolTypeOK
  BY PoolInitTypes
<1>2. BatchIsRun /\ SleepersAreTold
  BY DEF PoolInit, BatchIsRun, SleepersAreTold
<1>3. AllPlaced
  BY DEF PoolInit, AllPlaced, OnePlaceOf, At
<1> QED
  BY <1>1, <1>2, <1>3 DEF PoolInv

(* What Run, Post, Dispatch and Stop maintain between them. *)
THEOREM ExecutorInvariant == PoolSpec => []PoolInv
<1>1. PoolInv /\ [PoolNext]_poolVars => PoolInv'
  BY PoolTypesStep, BatchStep, PlacesStep, SleepStep DEF PoolInv
<1> QED
  BY PoolInitInv, <1>1, PTL DEF PoolSpec

(* Every variable of the pool has its type: post_index and the victim of a *)
(* search index a worker, also when they wrap around.                      *)
THEOREM ExecutorTypes == PoolSpec => []PoolTypeOK
<1>1. PoolInv => PoolTypeOK
  BY DEF PoolInv
<1> QED
  BY ExecutorInvariant, <1>1, PTL

(* However many workers steal from each other, a function posted is in one *)
(* queue, in one worker's batch or executed, never in two and never in     *)
(* none.                                                                   *)
THEOREM ExecutorOnePlace == PoolSpec => []OnePlace
<1>1. PoolInv => OnePlace
  BY OnePlacePointwise DEF PoolInv, AllPlaced
<1> QED
  BY ExecutorInvariant, <1>1, PTL

(* No worker stays in wait while its own queue has a function: running is  *)
(* set, and it was notified or the thread that posted is about to notify,  *)
(* although Post notifies after it has released the lock.                  *)
THEOREM ExecutorNoSleep == PoolSpec => []NoSleepBesideWork
<1>1. PoolInv => NoSleepBesideWork
  BY DEF PoolInv, SleepersAreTold, NoSleepBesideWork
<1> QED
  BY ExecutorInvariant, <1>1, PTL

-----------------------------------------------------------------------------
(***************************************************************************)
(* The channel                                                             *)
(***************************************************************************)

(* Types *)

(* Push adds items to items. *)
LEMMA PushType ==
    ASSUME TypeOK, NEW new \in Seq(Item), Push(new)
    PROVE  items' \in Seq(Item)
BY DEF TypeOK, Push

(* What a producer sends is made of items, and TypeOK survives a Send. *)
LEMMA SendTypes ==
    ASSUME TypeOK, NEW p \in Producers, NEW new \in Seq(Item), Send(p, new)
    PROVE  TypeOK'
<1>1. items' \in Seq(Item)
  BY PushType DEF Send
<1>2. sent' \in [Producers -> Nat]
  BY DEF TypeOK, Send
<1>3. consumer' \in ConsumerAt
  BY DEF TypeOK, Send, Notified, ConsumerAt
<1>4. UNCHANGED <<status, producer, received>>
  BY DEF Send
<1> QED
  BY <1>1, <1>2, <1>3, <1>4 DEF TypeOK

(* Sequences of one and of two. *)
LEMMA ShortSeq ==
    ASSUME NEW S, NEW a \in S, NEW b \in S
    PROVE  /\ <<a>> \in Seq(S) /\ <<a>> # <<>>
           /\ <<a, b>> \in Seq(S) /\ <<a, b>> # <<>>
OBVIOUS

(* What a producer makes is an item. *)
LEMMA NewItemType ==
    ASSUME TypeOK, NEW p \in Producers, NEW k \in Nat \ {0}, NEW error \in BOOLEAN
    PROVE  NewItem(p, k, error) \in Item
BY DEF TypeOK, NewItem, Item

(* A step of a producer is a Send or one of the three steps of ending. *)
LEMMA ProducerCases ==
    ASSUME TypeOK, NEW p \in Producers, ProducerStep(p)
    PROVE  \/ \E new \in Seq(Item) : new # <<>> /\ Send(p, new)
           \/ Throw(p) \/ Close(p) \/ NotifyAll(p)
<1>1. NewItem(p, 1, FALSE) \in Item /\ NewItem(p, 2, FALSE) \in Item /\ NewItem(p, 1, TRUE) \in Item
  <2>1. 1 \in Nat \ {0} /\ 2 \in Nat \ {0}
    OBVIOUS
  <2> QED
    BY <2>1, NewItemType
<1>2. CASE SendValue(p)
  <2> DEFINE new == <<NewItem(p, 1, FALSE)>>
  <2>1. new \in Seq(Item) /\ new # <<>>
    BY <1>1, ShortSeq
  <2>2. Send(p, new)
    BY <1>2 DEF SendValue
  <2> HIDE DEF new
  <2> QED
    BY <2>1, <2>2
<1>3. CASE SendRange(p)
  <2> DEFINE new == <<NewItem(p, 1, FALSE), NewItem(p, 2, FALSE)>>
  <2>1. new \in Seq(Item) /\ new # <<>>
    BY <1>1, ShortSeq
  <2>2. Send(p, new)
    BY <1>3 DEF SendRange
  <2> HIDE DEF new
  <2> QED
    BY <2>1, <2>2
<1>4. CASE SendError(p)
  <2> DEFINE new == <<NewItem(p, 1, TRUE)>>
  <2>1. new \in Seq(Item) /\ new # <<>>
    BY <1>1, ShortSeq
  <2>2. Send(p, new)
    BY <1>4 DEF SendError
  <2> HIDE DEF new
  <2> QED
    BY <2>1, <2>2
<1> QED
  BY <1>2, <1>3, <1>4 DEF ProducerStep

(* Every step keeps the types. *)
LEMMA TypesStep ==
    ASSUME TypeOK, [Next]_vars
    PROVE  TypeOK'
<1>1. CASE UNCHANGED vars
  BY <1>1 DEF vars, TypeOK
<1>2. CASE Continue
  BY <1>2 DEF Continue, TypeOK, ConsumerAt
<1>3. CASE TrySetCurrent
  <2>1. UNCHANGED <<status, producer, sent>>
    BY <1>3 DEF TrySetCurrent
  <2>2. consumer' \in ConsumerAt
    BY <1>3 DEF TrySetCurrent, ConsumerAt, AfterThrow
  <2>3. CASE items = <<>>
    BY <1>3, <2>1, <2>2, <2>3 DEF TrySetCurrent, TypeOK
  <2>4. CASE items # <<>>
    <3>1. Head(items) \in Item /\ Tail(items) \in Seq(Item)
      BY <2>4 DEF TypeOK
    <3>2. received' = Append(received, Head(items)) /\ items' = Tail(items)
      BY <1>3, <2>4 DEF TrySetCurrent, Pop
    <3> QED
      BY <2>1, <2>2, <3>1, <3>2 DEF TypeOK
  <2> QED
    BY <2>3, <2>4
<1>4. CASE TestClosed
  BY <1>4 DEF TestClosed, TypeOK, ConsumerAt, AfterThrow
<1>5. CASE Register
  BY <1>5 DEF Register, TypeOK, ConsumerAt
<1>6. ASSUME NEW p \in Producers, ProducerStep(p)
      PROVE  TypeOK'
  <2>1. CASE \E new \in Seq(Item) : new # <<>> /\ Send(p, new)
    BY <2>1, SendTypes
  <2>2. CASE Throw(p)
    <3>1. NewItem(p, 1, TRUE) \in Item
      <4>1. 1 \in Nat \ {0}
        OBVIOUS
      <4> QED
        BY <4>1, NewItemType
    <3>2. Push(<<NewItem(p, 1, TRUE)>>)
      BY <2>2 DEF Throw
    <3>3. <<NewItem(p, 1, TRUE)>> \in Seq(Item)
      BY <3>1, ShortSeq
    <3>4. items' \in Seq(Item)
      BY <3>2, <3>3, PushType
    <3> QED
      BY <2>2, <3>4 DEF Throw, TypeOK, ProducerAt
  <2>3. CASE Close(p)
    BY <2>3 DEF Close, TypeOK, ProducerAt
  <2>4. CASE NotifyAll(p)
    BY <2>4 DEF NotifyAll, ClosedNotified, Notified, TypeOK, ProducerAt, ConsumerAt
  <2> QED
    BY <1>6, <2>1, <2>2, <2>3, <2>4, ProducerCases
<1> QED
  BY <1>1, <1>2, <1>3, <1>4, <1>5, <1>6 DEF Next, ConsumerStep

-----------------------------------------------------------------------------
(* The hand-over *)

Handover == Quiet /\ items # <<>> => \E p \in Producers : producer[p] = "throwing"

(* Every step hands over what it brings, or leaves it to a call that will. *)
LEMMA HandoverStep ==
    ASSUME TypeOK, NoLostClose, Handover, [Next]_vars
    PROVE  NoLostClose' /\ Handover'
<1>1. CASE UNCHANGED vars
  BY <1>1 DEF vars, NoLostClose, Handover, Quiet
<1>2. CASE Continue \/ TrySetCurrent \/ TestClosed
  <2>1. consumer' # "waiting"
    BY <1>2 DEF Continue, TrySetCurrent, TestClosed, AfterThrow
  <2> QED
    BY <2>1 DEF NoLostClose, Handover, Quiet
<1>3. CASE Register
  <2>1. consumer' = "waiting" => status' = "Open" /\ items' = <<>>
    BY <1>3 DEF Register, MayWait
  <2> QED
    BY <2>1 DEF NoLostClose, Handover, Quiet
<1>4. ASSUME NEW p \in Producers, NEW new \in Seq(Item), Send(p, new)
      PROVE  NoLostClose' /\ Handover'
  <2>1. consumer' # "waiting"
    BY <1>4 DEF Send, Notified
  <2> QED
    BY <2>1 DEF NoLostClose, Handover, Quiet
<1>5. ASSUME NEW p \in Producers, Throw(p)
      PROVE  NoLostClose' /\ Handover'
  <2>1. producer' = [producer EXCEPT ![p] = "throwing"] /\ producer[p] = "open"
    BY <1>5 DEF Throw
  <2>2. producer'[p] = "throwing"
    BY <2>1 DEF TypeOK
  <2>3. \A q \in Producers : producer[q] = "closing" => producer'[q] = "closing"
    BY <2>1 DEF TypeOK
  <2>4. NoLostClose'
    BY <1>5, <2>3 DEF Throw, NoLostClose
  <2> QED
    BY <2>2, <2>4 DEF Handover
<1>6. ASSUME NEW p \in Producers, Close(p)
      PROVE  NoLostClose' /\ Handover'
  <2>1. CASE status = "Open"
    <3>1. producer'[p] = "closing"
      BY <1>6, <2>1 DEF Close, TypeOK
    <3> QED
      BY <3>1 DEF NoLostClose, Handover, Quiet
  <2>2. CASE status # "Open"
    <3>1. status = "Closed" /\ status' = "Closed" /\ consumer' = consumer
      BY <1>6, <2>2 DEF Close, TypeOK
    <3>2. \A q \in Producers : producer[q] = "closing" => producer'[q] = "closing"
      BY <1>6 DEF Close, TypeOK
    <3>3. NoLostClose'
      BY <3>1, <3>2 DEF NoLostClose
    <3> QED
      BY <3>1, <3>3 DEF NoLostClose, Handover, Quiet
  <2> QED
    BY <2>1, <2>2
<1>7. ASSUME NEW p \in Producers, NotifyAll(p)
      PROVE  NoLostClose' /\ Handover'
  <2>1. consumer' # "waiting"
    BY <1>7 DEF NotifyAll, ClosedNotified, Notified
  <2> QED
    BY <2>1 DEF NoLostClose, Handover, Quiet
<1>8. ASSUME NEW p \in Producers, ProducerStep(p)
      PROVE  NoLostClose' /\ Handover'
  BY <1>8, <1>4, <1>5, <1>6, <1>7, ProducerCases
<1> QED
  BY <1>1, <1>2, <1>3, <1>8 DEF Next, ConsumerStep

-----------------------------------------------------------------------------
(* The order *)

(* Complete, item by item. *)
Numbered(q) ==
    /\ \A i \in DOMAIN q : q[i].n <= sent[q[i].by]
    /\ \A p \in Producers : \A k \in 1 .. sent[p] : \E i \in DOMAIN q : q[i].by = p /\ q[i].n = k

(* What is in a sequence of items. *)
LEMMA ItemsTyped ==
    ASSUME NEW q \in Seq(Item)
    PROVE  \A i \in DOMAIN q : q[i].by \in Producers /\ q[i].n \in Nat \ {0}
<1>1. \A i \in DOMAIN q : q[i] \in Item
  OBVIOUS
<1> QED BY <1>1 DEF Item

(* The two say the same. *)
LEMMA CompleteIsNumbered ==
    ASSUME TypeOK, NEW q \in Seq(Item)
    PROVE  Complete(q) <=> Numbered(q)
<1>1. \A i \in DOMAIN q : q[i].by \in Producers /\ q[i].n \in Nat \ {0}
  BY ItemsTyped
<1>2. \A p \in Producers : sent[p] \in Nat
  BY DEF TypeOK
<1>3. ASSUME Complete(q) PROVE Numbered(q)
  <2>1. ASSUME NEW i \in DOMAIN q PROVE q[i].n <= sent[q[i].by]
    <3> DEFINE p == q[i].by
    <3>1. p \in Producers
      BY <1>1
    <3>2. q[i].n \in {q[j].n : j \in {l \in DOMAIN q : q[l].by = p}}
      OBVIOUS
    <3>3. {q[j].n : j \in {l \in DOMAIN q : q[l].by = p}} = 1 .. sent[p]
      BY <1>3, <3>1 DEF Complete
    <3> QED BY <1>2, <3>1, <3>2, <3>3
  <2>2. ASSUME NEW p \in Producers, NEW k \in 1 .. sent[p]
        PROVE  \E i \in DOMAIN q : q[i].by = p /\ q[i].n = k
    <3>1. {q[j].n : j \in {l \in DOMAIN q : q[l].by = p}} = 1 .. sent[p]
      BY <1>3 DEF Complete
    <3> QED BY <3>1
  <2> QED BY <2>1, <2>2 DEF Numbered
<1>4. ASSUME Numbered(q) PROVE Complete(q)
  <2> SUFFICES ASSUME NEW p \in Producers
               PROVE  {q[i].n : i \in {j \in DOMAIN q : q[j].by = p}} = 1 .. sent[p]
    BY DEF Complete
  <2>1. \A i \in DOMAIN q : q[i].by = p => q[i].n \in 1 .. sent[p]
    BY <1>1, <1>2, <1>4 DEF Numbered
  <2>2. \A k \in 1 .. sent[p] : \E i \in DOMAIN q : q[i].by = p /\ q[i].n = k
    BY <1>4 DEF Numbered
  <2> QED BY <2>1, <2>2
<1> QED BY <1>3, <1>4

(* A producer's next items are put behind all others. *)
LEMMA NextItems ==
    ASSUME TypeOK, NEW q \in Seq(Item), Ascending(q), Numbered(q),
           NEW p \in Producers, NEW new \in Seq(Item),
           \A k \in 1 .. Len(new) : new[k].by = p /\ new[k].n = sent[p] + k,
           sent' = [sent EXCEPT ![p] = @ + Len(new)]
    PROVE  Ascending(q \o new) /\ Numbered(q \o new)'
<1> DEFINE r == q \o new
<1>1. /\ \A u \in Producers : sent[u] \in Nat /\ sent'[u] \in Nat
      /\ sent'[p] = sent[p] + Len(new)
      /\ \A u \in Producers : u # p => sent'[u] = sent[u]
  BY DEF TypeOK
<1>2. /\ \A i \in DOMAIN q : q[i].by \in Producers /\ q[i].n \in Nat /\ q[i].n <= sent[q[i].by]
      /\ \A u \in Producers : \A k \in 1 .. sent[u] : \E i \in DOMAIN q : q[i].by = u /\ q[i].n = k
  BY ItemsTyped DEF Numbered
<1>3. /\ Len(r) = Len(q) + Len(new) /\ Len(q) \in Nat /\ Len(new) \in Nat
      /\ DOMAIN r = 1 .. Len(q) + Len(new) /\ DOMAIN q = 1 .. Len(q)
      /\ \A i \in 1 .. Len(q) : r[i] = q[i]
      /\ \A i \in 1 .. Len(q) + Len(new) : i > Len(q) => r[i] = new[i - Len(q)] /\ i - Len(q) \in 1 .. Len(new)
      /\ r \in Seq(Item)
  OBVIOUS
<1>4. \A i \in DOMAIN r : i > Len(q) => r[i].by = p /\ r[i].n = sent[p] + (i - Len(q))
  BY <1>3
<1>5. Ascending(r)
  <2> SUFFICES ASSUME NEW i \in DOMAIN r, NEW j \in DOMAIN r, i < j, r[i].by = r[j].by
               PROVE  r[i].n < r[j].n
    BY DEF Ascending
  <2> HIDE DEF r
  <2>1. CASE j <= Len(q)
    BY <1>3, <2>1 DEF Ascending
  <2>2. CASE i <= Len(q) /\ j > Len(q)
    <3>1. r[i] = q[i] /\ i \in DOMAIN q
      BY <1>3, <2>2
    <3>2. r[i].n <= sent[p] /\ r[i].n \in Nat
      BY <1>2, <1>4, <2>2, <3>1
    <3>3. r[j].n = sent[p] + (j - Len(q)) /\ j - Len(q) >= 1 /\ j - Len(q) \in Nat
      BY <1>3, <1>4, <2>2
    <3> QED BY <1>1, <3>2, <3>3
  <2>3. CASE i > Len(q) /\ j > Len(q)
    <3>1. r[i].n = sent[p] + (i - Len(q)) /\ r[j].n = sent[p] + (j - Len(q))
      BY <1>4, <2>3
    <3> QED BY <1>1, <1>3, <3>1
  <2> QED BY <1>3, <2>1, <2>2, <2>3
<1>6. \A i \in DOMAIN r : r[i].n <= sent'[r[i].by]
  <2> SUFFICES ASSUME NEW i \in DOMAIN r PROVE r[i].n <= sent'[r[i].by]
    OBVIOUS
  <2> HIDE DEF r
  <2>1. CASE i <= Len(q)
    <3>1. r[i] = q[i] /\ i \in DOMAIN q
      BY <1>3, <2>1
    <3>2. r[i].n \in Nat /\ r[i].by \in Producers /\ r[i].n <= sent[r[i].by]
      BY <1>2, <3>1
    <3>3. sent[r[i].by] <= sent'[r[i].by] /\ sent[r[i].by] \in Nat /\ sent'[r[i].by] \in Nat
      BY <1>1, <1>3, <3>2
    <3> QED BY <3>2, <3>3
  <2>2. CASE i > Len(q)
    <3>1. r[i].by = p /\ r[i].n = sent[p] + (i - Len(q)) /\ i - Len(q) <= Len(new)
      BY <1>3, <1>4, <2>2
    <3> QED BY <1>1, <1>3, <3>1
  <2> QED BY <1>3, <2>1, <2>2
<1>7. ASSUME NEW u \in Producers, NEW k \in 1 .. sent'[u]
      PROVE  \E i \in DOMAIN r : r[i].by = u /\ r[i].n = k
  <2> HIDE DEF r
  <2>1. CASE k <= sent[u]
    <3>1. PICK i \in DOMAIN q : q[i].by = u /\ q[i].n = k
      BY <1>1, <1>2, <2>1
    <3>2. i \in DOMAIN r /\ r[i] = q[i]
      BY <1>3, <3>1
    <3> QED BY <3>1, <3>2
  <2>2. CASE k > sent[u]
    <3>1. u = p /\ k - sent[p] \in 1 .. Len(new)
      BY <1>1, <2>2
    <3> DEFINE i == Len(q) + (k - sent[p])
    <3>2. i \in DOMAIN r /\ i > Len(q) /\ i - Len(q) = k - sent[p]
      BY <1>1, <1>3, <3>1
    <3>3. r[i].by = u /\ r[i].n = k
      BY <1>1, <1>4, <3>1, <3>2
    <3> QED BY <3>2, <3>3
  <2> QED BY <1>1, <2>1, <2>2
<1> QED BY <1>5, <1>6, <1>7 DEF Numbered

(* The items of one call, numbered on from the producer's last. *)
LEMMA SendNumbered ==
    ASSUME TypeOK, InOrder, NEW p \in Producers, NEW new \in Seq(Item),
           \A k \in 1 .. Len(new) : new[k].by = p /\ new[k].n = sent[p] + k,
           items' = items \o new, received' = received, sent' = [sent EXCEPT ![p] = @ + Len(new)],
           TypeOK'
    PROVE  InOrder'
<1>1. received \in Seq(Item) /\ items \in Seq(Item)
  BY DEF TypeOK
<1>2. PICK q \in Seq(Item) : q = received \o items
  <2>1. received \o items \in Seq(Item)
    BY <1>1
  <2> QED BY <2>1
<1>3. PICK r \in Seq(Item) : r = q \o new
  <2>1. q \o new \in Seq(Item)
    BY <1>2
  <2> QED BY <2>1
<1>4. received' \o items' = r
  BY <1>1, <1>2, <1>3
<1>5. Ascending(q) /\ Numbered(q)
  BY <1>2, CompleteIsNumbered DEF InOrder
<1>6. Ascending(r) /\ Numbered(r)'
  BY <1>2, <1>3, <1>5, NextItems
<1>7. Complete(r)'
  <2>1. \A i \in DOMAIN r : r[i].by \in Producers /\ r[i].n \in Nat \ {0}
    BY <1>3, ItemsTyped
  <2>2. \A u \in Producers : sent'[u] \in Nat
    BY DEF TypeOK
  <2>3. /\ \A i \in DOMAIN r : r[i].n <= sent'[r[i].by]
        /\ \A u \in Producers : \A k \in 1 .. sent'[u] : \E i \in DOMAIN r : r[i].by = u /\ r[i].n = k
    BY <1>6 DEF Numbered
  <2>4. ASSUME NEW u \in Producers
        PROVE  {r[i].n : i \in {j \in DOMAIN r : r[j].by = u}} = 1 .. sent'[u]
    <3>1. \A i \in DOMAIN r : r[i].by = u => r[i].n \in 1 .. sent'[u]
      BY <2>1, <2>2, <2>3
    <3>2. \A k \in 1 .. sent'[u] : \E i \in DOMAIN r : r[i].by = u /\ r[i].n = k
      BY <2>3
    <3> QED BY <3>1, <3>2
  <2> QED BY <2>4 DEF Complete
<1> QED BY <1>4, <1>6, <1>7 DEF InOrder, Ascending, Complete

(* Receiving moves the first item from one sequence to the other. *)
LEMMA OrderStep ==
    ASSUME TypeOK, InOrder, [Next]_vars
    PROVE  InOrder'
<1>1. TypeOK'
  BY TypesStep
<1>2. CASE UNCHANGED <<items, received, sent>>
  BY <1>2 DEF InOrder, Ascending, Complete
<1>3. CASE TrySetCurrent
  <2>1. CASE items = <<>>
    BY <1>2, <1>3, <2>1 DEF TrySetCurrent
  <2>2. CASE items # <<>>
    <3>1. received' = Append(received, Head(items)) /\ items' = Tail(items) /\ sent' = sent
      BY <1>3, <2>2 DEF TrySetCurrent, Pop
    <3>2. received' \o items' = received \o items
      BY <2>2, <3>1 DEF TypeOK
    <3>3. PICK q : q = received \o items
      OBVIOUS
    <3>4. Ascending(q) /\ Complete(q) /\ q = received' \o items'
      BY <3>2, <3>3 DEF InOrder
    <3>5. Complete(q)'
      BY <3>1, <3>4 DEF Complete
    <3> QED BY <3>4, <3>5 DEF InOrder, Ascending, Complete
  <2> QED BY <2>1, <2>2
<1>4. ASSUME NEW p \in Producers, NEW e \in BOOLEAN
      PROVE  NewItem(p, 1, e) \in Item /\ NewItem(p, 2, e) \in Item
  BY NewItemType
<1>5. ASSUME NEW p \in Producers, NEW e \in BOOLEAN,
             items' = items \o <<NewItem(p, 1, e)>>, received' = received,
             sent' = [sent EXCEPT ![p] = @ + 1]
      PROVE  InOrder'
  <2> DEFINE new == <<NewItem(p, 1, e)>>
  <2>1. NewItem(p, 1, e).by = p /\ NewItem(p, 1, e).n = sent[p] + 1
    BY DEF NewItem
  <2>2. new \in Seq(Item) /\ Len(new) = 1 /\ new[1] = NewItem(p, 1, e)
    BY <1>4
  <2> HIDE DEF new
  <2>3. \A k \in 1 .. Len(new) : new[k].by = p /\ new[k].n = sent[p] + k
    BY <2>1, <2>2
  <2>4. items' = items \o new /\ sent' = [sent EXCEPT ![p] = @ + Len(new)]
    BY <1>5, <2>2 DEF new
  <2>5. PICK c : c = new
    OBVIOUS
  <2> QED BY <1>1, <1>5, <2>2, <2>3, <2>4, <2>5, SendNumbered
<1>6. ASSUME NEW p \in Producers, SendRange(p)
      PROVE  InOrder'
  <2> DEFINE new == <<NewItem(p, 1, FALSE), NewItem(p, 2, FALSE)>>
  <2>1. /\ NewItem(p, 1, FALSE).by = p /\ NewItem(p, 1, FALSE).n = sent[p] + 1
        /\ NewItem(p, 2, FALSE).by = p /\ NewItem(p, 2, FALSE).n = sent[p] + 2
    BY DEF NewItem
  <2>2. /\ new \in Seq(Item) /\ Len(new) = 2
        /\ new[1] = NewItem(p, 1, FALSE) /\ new[2] = NewItem(p, 2, FALSE)
    <3>1. PICK a \in Item, b \in Item : a = NewItem(p, 1, FALSE) /\ b = NewItem(p, 2, FALSE)
      BY <1>4
    <3>2. <<a, b>> \in Seq(Item) /\ Len(<<a, b>>) = 2 /\ <<a, b>>[1] = a /\ <<a, b>>[2] = b
      OBVIOUS
    <3> QED BY <3>1, <3>2
  <2>3. items' = items \o new /\ sent' = [sent EXCEPT ![p] = @ + Len(new)] /\ received' = received
    BY <1>6 DEF SendRange, Send, Push
  <2> HIDE DEF new
  <2>4. \A k \in 1 .. Len(new) : new[k].by = p /\ new[k].n = sent[p] + k
    <3>1. 1 .. Len(new) = {1, 2}
      BY <2>2
    <3> QED BY <2>1, <2>2, <3>1
  <2>5. PICK c : c = new
    OBVIOUS
  <2> QED BY <1>1, <2>2, <2>3, <2>4, <2>5, SendNumbered
<1>7. ASSUME NEW p \in Producers, SendValue(p) \/ SendError(p) \/ Throw(p)
      PROVE  InOrder'
  <2>1. PICK e \in BOOLEAN : /\ items' = items \o <<NewItem(p, 1, e)>>
                             /\ sent' = [sent EXCEPT ![p] = @ + 1] /\ received' = received
    <3>1. CASE SendValue(p)
      BY <3>1 DEF SendValue, Send, Push
    <3>2. CASE SendError(p)
      BY <3>2 DEF SendError, Send, Push
    <3>3. CASE Throw(p)
      BY <3>3 DEF Throw, Push
    <3> QED BY <1>7, <3>1, <3>2, <3>3
  <2> QED BY <1>5, <2>1
<1>8. ASSUME NEW p \in Producers, ProducerStep(p)
      PROVE  InOrder'
  <2>1. CASE SendValue(p) \/ SendError(p) \/ Throw(p)
    BY <1>7, <2>1
  <2>2. CASE SendRange(p)
    BY <1>6, <2>2
  <2>3. CASE Close(p) \/ NotifyAll(p)
    BY <1>2, <2>3 DEF Close, NotifyAll
  <2> QED BY <1>8, <2>1, <2>2, <2>3 DEF ProducerStep
<1>9. CASE UNCHANGED vars \/ Continue \/ TestClosed \/ Register
  BY <1>2, <1>9 DEF vars, Continue, TestClosed, Register
<1> QED BY <1>3, <1>8, <1>9 DEF Next, ConsumerStep

-----------------------------------------------------------------------------
(* Theorems *)

(* IndInv is inductive: every state of the channel satisfies it. *)
THEOREM ChannelInvariant == Spec => []IndInv
<1>1. Init => IndInv
  BY DEF Init, IndInv, TypeOK, ConsumerAt, ProducerAt, NoLostClose, Quiet
<1>2. IndInv /\ [Next]_vars => IndInv'
  BY TypesStep, HandoverStep DEF IndInv, Handover
<1> QED
  BY <1>1, <1>2, PTL DEF Spec

(* The channel's state keeps its types. *)
THEOREM ChannelTypes == Spec => []TypeOK
<1>1. IndInv => TypeOK
  BY DEF IndInv
<1> QED
  BY <1>1, ChannelInvariant, PTL

(* A suspended consumer of a closed channel is about to be notified. *)
THEOREM ChannelClose == Spec => []NoLostClose
<1>1. IndInv => NoLostClose
  BY DEF IndInv
<1> QED
  BY <1>1, ChannelInvariant, PTL

(* A suspended consumer with an item in its channel is about to be         *)
(* notified: by the call that brought the item, or by the one that closed. *)
THEOREM ChannelWakeup == Spec => []NoLostWakeup
<1>1. IndInv => NoLostWakeup
  BY DEF IndInv, NoLostWakeup, Quiet
<1> QED
  BY <1>1, ChannelInvariant, PTL

(* Nothing sent is lost, doubled or overtaken: the items received and those *)
(* queued are, for each producer, the ones it sent, in its order.           *)
THEOREM ChannelOrder == Spec => []InOrder
<1>1. Init => InOrder
  <2> SUFFICES ASSUME Init PROVE InOrder
    OBVIOUS
  <2>1. received \o items = <<>>
    BY DEF Init
  <2>2. Ascending(<<>>)
    BY DEF Ascending
  <2>3. Complete(<<>>)
    BY DEF Complete, Init
  <2> QED BY <2>1, <2>2, <2>3 DEF InOrder
<1>2. TypeOK /\ InOrder /\ [Next]_vars => InOrder'
  BY OrderStep
<1> QED BY <1>1, <1>2, ChannelTypes, PTL DEF Spec
=============================================================================
