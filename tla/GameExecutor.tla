----------------------------- MODULE GameExecutor -----------------------------
(***************************************************************************)
(* The thread pool under the game instances                                *)
(* (shared/execution/executor/impl/game_executor.cpp): workers that sleep  *)
(* on a condition variable, with a queue each, from which the others       *)
(* steal.                                                                  *)
(*                                                                         *)
(* A queue is a set: posted functions that wait in one queue may be taken  *)
(* by two workers in two batches, so the pool promises no order (a Strand  *)
(* makes one).  The spin count of a worker is kept as whether it exceeds   *)
(* _maxSpinCount: each fruitless search may be the one that takes it over. *)
(*                                                                         *)
(* An operator named Mutant... is a plausible mistake in the one after it; *)
(* no action uses it.                                                      *)
(***************************************************************************)
EXTENDS Integers, FiniteSets

CONSTANTS
    Concurrency,   \* _concurrency
    Outside,       \* threads that post and are no workers
    Tasks          \* the functions posted, each once

ASSUME ConcurrencyAssumption == Concurrency \in Nat \ {0}
ASSUME OutsideAssumption == Outside \cap Int = {}

Worker == 0 .. Concurrency - 1
Thread == Worker \union Outside

None == -1

VARIABLES
    pc,          \* where each worker's Run is
    queue,       \* tasks of each WorkerContext
    running,     \* running of each WorkerContext
    shutdown,    \* shutdown of each WorkerContext
    notified,    \* a sleeping worker has been notified
    tired,       \* spinCount > _maxSpinCount
    offset,      \* i of the search for work to steal
    batch,       \* tasks of each Worker: taken, not started
    postIndex,   \* post_index of each thread, modulo _concurrency
    notifying,   \* the worker a thread in Post will notify, or None
    stopping,    \* the worker Stop is at: None before, Concurrency after
    stopStep,    \* where Stop is with that worker
    submitted,   \* functions given to Post or Dispatch
    executed     \* functions started

poolVars == <<pc, queue, running, shutdown, notified, tired, offset, batch, postIndex,
          notifying, stopping, stopStep, submitted, executed>>
stopVars == <<stopping, stopStep, shutdown>>

(*  idle   Run(worker) has not begun      search  before stealing          *)
(*  check  before the locked section      run     with a batch             *)
(*  sleep  in conditionVariable.wait      exit    out of the loop          *)
WorkerAt == {"idle", "check", "sleep", "search", "run", "exit"}
StopStep == {"set", "notify", "join"}

PoolInit ==
    /\ pc = [w \in Worker |-> "idle"]
    /\ queue = [w \in Worker |-> {}]
    /\ running = [w \in Worker |-> FALSE]
    /\ shutdown = [w \in Worker |-> FALSE]
    /\ notified = [w \in Worker |-> FALSE]
    /\ tired = [w \in Worker |-> FALSE]
    /\ offset = [w \in Worker |-> 0]
    /\ batch = [w \in Worker |-> {}]
    /\ postIndex = [t \in Thread |-> 0]
    /\ notifying = [t \in Thread |-> None]
    /\ stopping = None /\ stopStep = "set"
    /\ submitted = {} /\ executed = {}

-----------------------------------------------------------------------------
(* Run, Post, Dispatch *)

(* Run starts the worker threads one after the other. *)
Start(w) ==
    /\ pc[w] = "idle"
    /\ \A v \in Worker : v < w => pc[v] # "idle"
    /\ running' = [running EXCEPT ![w] = TRUE]
    /\ pc' = [pc EXCEPT ![w] = "check"]
    /\ UNCHANGED <<queue, notified, tired, offset, batch, postIndex, notifying,
                   stopVars, submitted, executed>>

(* A thread may post: any outside thread, a worker from inside a task. *)
MayPost(t) == notifying[t] = None /\ (t \in Worker => pc[t] = "run")

(* The locked section of Post. *)
MutantNotRunning(w) == running
WakesUp(w) == [running EXCEPT ![w] = TRUE]

Post(t, task) ==
    /\ MayPost(t) /\ task \notin submitted
    /\ submitted' = submitted \union {task}
    /\ LET w == postIndex[t]
       IN  /\ postIndex' = [postIndex EXCEPT ![t] = (w + 1) % Concurrency]
           /\ queue' = [queue EXCEPT ![w] = @ \union {task}]
           /\ running' = WakesUp(w)
           /\ notifying' = [notifying EXCEPT ![t] = IF running[w] THEN None ELSE w]
    /\ UNCHANGED <<pc, notified, tired, offset, batch, stopVars, executed>>

MutantMissed(w) == UNCHANGED notified
NotifyOne(w) == notified' = [notified EXCEPT ![w] = @ \/ pc[w] = "sleep"]

(* notify_one, after the lock is released. *)
Notify(t) ==
    /\ notifying[t] # None
    /\ NotifyOne(notifying[t])
    /\ notifying' = [notifying EXCEPT ![t] = None]
    /\ UNCHANGED <<pc, queue, running, tired, offset, batch, postIndex, stopVars,
                   submitted, executed>>

(* Dispatch by a worker runs the function at once; by another thread it is *)
(* Post.                                                                   *)
DispatchInline(w, task) ==
    /\ MayPost(w) /\ task \notin submitted
    /\ submitted' = submitted \union {task}
    /\ executed' = executed \union {task}
    /\ UNCHANGED <<pc, queue, running, notified, tired, offset, batch, postIndex,
                   notifying, stopVars>>

-----------------------------------------------------------------------------
(* The loop of a worker *)

(* The swap of a whole queue with the worker's empty one. *)
MutantCopies(v) == queue
Emptied(v) == [queue EXCEPT ![v] = {}]

Take(w, v) ==
    /\ batch' = [batch EXCEPT ![w] = queue[v]]
    /\ queue' = Emptied(v)
    /\ pc' = [pc EXCEPT ![w] = "run"]
    /\ tired' = [tired EXCEPT ![w] = FALSE]

(* The locked section, from where a worker does not sleep to its end. *)
Proceed(w) ==
    \/ /\ shutdown[w]
       /\ pc' = [pc EXCEPT ![w] = "exit"]
       /\ UNCHANGED <<queue, tired, offset, batch>>
    \/ /\ ~shutdown[w] /\ queue[w] # {}
       /\ Take(w, w)
       /\ UNCHANGED offset
    \/ /\ ~shutdown[w] /\ queue[w] = {}
       /\ pc' = [pc EXCEPT ![w] = "search"]
       /\ tired' \in {tired, [tired EXCEPT ![w] = TRUE]}
       /\ offset' = [offset EXCEPT ![w] = 1]
       /\ UNCHANGED <<queue, batch>>

MaySleep(w) == tired[w] /\ queue[w] = {}

Check(w) ==
    /\ pc[w] = "check"
    /\ \/ ~MaySleep(w) /\ Proceed(w) /\ UNCHANGED <<running, notified>>
       \/ /\ MaySleep(w)
          /\ running' = [running EXCEPT ![w] = FALSE]
          /\ pc' = [pc EXCEPT ![w] = IF shutdown[w] THEN "exit" ELSE "sleep"]
          /\ notified' = [notified EXCEPT ![w] = FALSE]
          /\ UNCHANGED <<queue, tired, offset, batch>>
    /\ UNCHANGED <<postIndex, notifying, stopVars, submitted, executed>>

(* wait returns, notified or spuriously, and tests its predicate. *)
Wake(w) ==
    /\ pc[w] = "sleep"
    /\ shutdown[w] \/ running[w]
    /\ Proceed(w)
    /\ UNCHANGED <<running, notified, postIndex, notifying, stopVars, submitted, executed>>

(* One try_lock of the search: it may fail, although the queue has work. *)
Victim(w) == (offset[w] + w) % Concurrency

Search(w) ==
    /\ pc[w] = "search"
    /\ \/ /\ offset[w] < Concurrency /\ queue[Victim(w)] # {}
          /\ Take(w, Victim(w))
          /\ UNCHANGED offset
       \/ /\ offset[w] < Concurrency
          /\ tired' \in {tired, [tired EXCEPT ![w] = TRUE]}
          /\ offset' = [offset EXCEPT ![w] = @ + 1]
          /\ pc' = [pc EXCEPT ![w] = IF tired'[w] THEN "check" ELSE "search"]
          /\ UNCHANGED <<queue, batch>>
       \/ /\ offset[w] >= Concurrency
          /\ pc' = [pc EXCEPT ![w] = "check"]
          /\ UNCHANGED <<queue, batch, tired, offset>>
    /\ UNCHANGED <<running, notified, postIndex, notifying, stopVars, submitted, executed>>

(* The next function of the batch, which may post before the next begins. *)
Execute(w) ==
    /\ pc[w] = "run" /\ notifying[w] = None
    /\ \/ \E task \in batch[w] :
             /\ batch' = [batch EXCEPT ![w] = @ \ {task}]
             /\ executed' = executed \union {task}
             /\ UNCHANGED pc
       \/ /\ batch[w] = {}
          /\ pc' = [pc EXCEPT ![w] = "check"]
          /\ UNCHANGED <<batch, executed>>
    /\ UNCHANGED <<queue, running, notified, tired, offset, postIndex, notifying,
                   stopVars, submitted>>

-----------------------------------------------------------------------------
(* Stop, called once by a thread that is no worker, after Run *)

StopSet ==
    /\ \/ stopping = None /\ \A w \in Worker : pc[w] # "idle"
       \/ stopping \in Worker /\ stopStep = "set"
    /\ stopping' = IF stopping = None THEN 0 ELSE stopping
    /\ stopStep' = "notify"
    /\ shutdown' = [shutdown EXCEPT ![stopping'] = TRUE]
    /\ UNCHANGED <<pc, queue, running, notified, tired, offset, batch, postIndex,
                   notifying, submitted, executed>>

StopNotify ==
    /\ stopping \in Worker /\ stopStep = "notify"
    /\ NotifyOne(stopping)
    /\ stopStep' = "join"
    /\ UNCHANGED <<pc, queue, running, shutdown, tired, offset, batch, postIndex,
                   notifying, stopping, submitted, executed>>

StopJoin ==
    /\ stopping \in Worker /\ stopStep = "join" /\ pc[stopping] = "exit"
    /\ stopping' = stopping + 1
    /\ stopStep' = "set"
    /\ UNCHANGED <<pc, queue, running, shutdown, notified, tired, offset, batch,
                   postIndex, notifying, submitted, executed>>

-----------------------------------------------------------------------------

Stop == StopSet \/ StopNotify \/ StopJoin
WorkerStep(w) == Start(w) \/ Check(w) \/ Wake(w) \/ Search(w) \/ Execute(w)
Submit(t) == \E task \in Tasks : Post(t, task) \/ (t \in Worker /\ DispatchInline(t, task))

PoolNext ==
    \/ \E w \in Worker : WorkerStep(w)
    \/ \E t \in Thread : Submit(t) \/ Notify(t)
    \/ Stop

PoolSpec == PoolInit /\ [][PoolNext]_poolVars

(* Threads run, functions return, and a notified sleeper wakes up.  No     *)
(* spurious wake-up and no successful theft is assumed, and nobody has to  *)
(* post or to stop the pool; Stop, once begun, goes on.                    *)
PoolFairness ==
    /\ \A w \in Worker :
          /\ WF_poolVars(Start(w) \/ Check(w) \/ Execute(w))
          /\ WF_poolVars(Search(w))
          /\ WF_poolVars(notified[w] /\ Wake(w))
    /\ \A t \in Thread : WF_poolVars(Notify(t))
    /\ WF_poolVars(stopping # None /\ Stop)

PoolFairSpec == PoolSpec /\ PoolFairness

-----------------------------------------------------------------------------
(* Properties *)

PoolTypeOK ==
    /\ pc \in [Worker -> WorkerAt]
    /\ queue \in [Worker -> SUBSET Tasks]
    /\ running \in [Worker -> BOOLEAN]
    /\ shutdown \in [Worker -> BOOLEAN]
    /\ notified \in [Worker -> BOOLEAN]
    /\ tired \in [Worker -> BOOLEAN]
    /\ offset \in [Worker -> Nat]
    /\ batch \in [Worker -> SUBSET Tasks]
    /\ postIndex \in [Thread -> Worker]
    /\ notifying \in [Thread -> Worker \union {None}]
    /\ stopping \in Nat \union {None}
    /\ stopStep \in StopStep
    /\ submitted \in SUBSET Tasks
    /\ executed \in SUBSET Tasks

(* No worker sleeps beside work of its own: if its queue has a function    *)
(* while it is in wait, then it has been notified or the thread that       *)
(* posted is about to, although Post tests running under the lock and      *)
(* notifies after it, and thieves empty the queue in between.              *)
NoSleepBesideWork ==
    \A w \in Worker : pc[w] = "sleep" /\ queue[w] # {} =>
        /\ running[w]
        /\ notified[w] \/ \E t \in Thread : notifying[t] = w

(* A function is at one place at a time, and runs at most once: waiting in *)
(* one queue, in one worker's batch, or executed; and none is lost.        *)
OnePlace ==
    /\ \A v, w \in Worker :
          /\ queue[v] \cap batch[w] = {}
          /\ v # w => queue[v] \cap queue[w] = {} /\ batch[v] \cap batch[w] = {}
    /\ \A w \in Worker : (queue[w] \union batch[w]) \cap executed = {}
    /\ submitted = executed \union UNION {queue[w] \union batch[w] : w \in Worker}

(* Every function posted is run, unless the pool is stopped. *)
EveryTaskRuns ==
    \A task \in Tasks : task \in submitted ~> task \in executed \/ stopping # None

(* Stop returns: a worker asleep or about to sleep learns of the shutdown. *)
StopReturns == stopping # None ~> stopping = Concurrency
=============================================================================
