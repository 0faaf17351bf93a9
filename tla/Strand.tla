------------------------------- MODULE Strand -------------------------------
(***************************************************************************)
(* The strand (shared/execution/executor/strand.cpp): an executor that     *)
(* runs its tasks one after the other on the threads of another executor.  *)
(* Everything stateful of the servers is confined to a strand.             *)
(*                                                                         *)
(* An action is one section of the code under _spinMutex, one operation    *)
(* on the concurrent queue, or one call of PostFlushTask.  A thread is in  *)
(* the code of the strand (pc), or in a task; tasks[t] holds the tasks     *)
(* thread t is inside of, the outermost first.                             *)
(*                                                                         *)
(* An operator named Mutant... is the operator that follows it with a      *)
(* plausible mistake in it; no action uses one.                            *)
(***************************************************************************)
EXTENDS Integers, Sequences, FiniteSets, SequencesExt

CONSTANTS
    Workers,     \* threads of the underlying executor: they run FlushTasks
    Posters,     \* threads outside the strand that submit to it
    MaxTasks     \* bound: tasks submitted in all

Threads == Workers \cup Posters

ASSUME ThreadsAssumption == IsFiniteSet(Workers) /\ IsFiniteSet(Posters)
ASSUME MaxTasksAssumption == MaxTasks \in Nat

VARIABLES
    posted,      \* _posted
    owner,       \* _owner
    taskCount,   \* _taskCount
    queue,       \* _tasks
    flushes,     \* FlushTasks calls that wait in the underlying executor
    pc,          \* where a thread is in the code of the strand
    batch,       \* the local taskCount of a FlushTasks call
    left,        \* batch minus its local count
    tasks,       \* the tasks a thread is inside of
    held,        \* the task a thread is about to emplace
    issued       \* the number of tasks each thread has submitted

lockVars == <<posted, owner, taskCount>>
flushVars == <<batch, left>>
vars == <<lockVars, queue, flushes, pc, flushVars, tasks, held, issued>>

(* Who submitted a task and as which of its tasks. *)
Task == [by : Threads, n : Nat]
NewTask(t) == [by |-> t, n |-> issued[t] + 1]
NoTask == [by |-> "none", n |-> 0]

Issued == FoldFunctionOnSet(LAMBDA a, b : a + b, 0, issued, Threads)

(*  user    outside the strand, or in a task                               *)
(*  emplace, emplaceAndWake    in Post, before emplace; shouldPostTask     *)
(*  wake    before PostFlushTask                                           *)
(*  loop    in the while loop of FlushTasks                                *)
PCs == {"user", "emplace", "emplaceAndWake", "wake", "loop"}

Init ==
    /\ posted = FALSE
    /\ owner = <<>>
    /\ taskCount = 0
    /\ queue = <<>>
    /\ flushes = 0
    /\ pc = [t \in Threads |-> "user"]
    /\ batch = [t \in Threads |-> 0]
    /\ left = [t \in Threads |-> 0]
    /\ tasks = [t \in Threads |-> <<>>]
    /\ held = [t \in Threads |-> NoTask]
    /\ issued = [t \in Threads |-> 0]

(* Only the strand's own tasks see it as the current executor. *)
OnStrand(t) == tasks[t] # <<>>
CanCall(t) == pc[t] = "user" /\ (t \in Posters \/ OnStrand(t)) /\ Issued < MaxTasks

-----------------------------------------------------------------------------
(* Post *)

ShouldPost == ~posted

(* The locked section of Post. *)
Post(t) ==
    /\ CanCall(t)
    /\ taskCount' = taskCount + 1
    /\ pc' = [pc EXCEPT ![t] = IF ShouldPost THEN "emplaceAndWake" ELSE "emplace"]
    /\ posted' = TRUE
    /\ held' = [held EXCEPT ![t] = NewTask(t)]
    /\ issued' = [issued EXCEPT ![t] = @ + 1]
    /\ UNCHANGED <<owner, queue, flushes, flushVars, tasks>>

MutantFront(q, task) == <<task>> \o q
Enqueue(q, task) == Append(q, task)

Emplace(t) ==
    /\ pc[t] \in {"emplace", "emplaceAndWake"}
    /\ queue' = Enqueue(queue, held[t])
    /\ held' = [held EXCEPT ![t] = NoTask]
    /\ pc' = [pc EXCEPT ![t] = IF @ = "emplaceAndWake" THEN "wake" ELSE "user"]
    /\ UNCHANGED <<lockVars, flushes, flushVars, tasks, issued>>

PostFlushTask(t) ==
    /\ pc[t] = "wake"
    /\ flushes' = flushes + 1
    /\ pc' = [pc EXCEPT ![t] = "user"]
    /\ UNCHANGED <<lockVars, queue, flushVars, tasks, held, issued>>

-----------------------------------------------------------------------------
(* Dispatch *)

NotOthers(t) == owner = <<>> \/ Last(owner) = t

(* Off the strand Dispatch is Post; on it the task runs inside the caller. *)
DispatchInline(t) ==
    /\ CanCall(t)
    /\ OnStrand(t)
    /\ NotOthers(t)
    /\ owner' = Append(owner, t)
    /\ tasks' = [tasks EXCEPT ![t] = Append(@, NewTask(t))]
    /\ issued' = [issued EXCEPT ![t] = @ + 1]
    /\ UNCHANGED <<posted, taskCount, queue, flushes, pc, flushVars, held>>

(* The second locked section of Dispatch, after the task. *)
EndInline(t) ==
    /\ pc[t] = "user"
    /\ Len(tasks[t]) > 1
    /\ tasks' = [tasks EXCEPT ![t] = Front(@)]
    /\ owner' = Front(owner)
    /\ pc' = [pc EXCEPT ![t] = IF taskCount > 0 THEN "wake" ELSE "user"]
    /\ UNCHANGED <<posted, taskCount, queue, flushes, flushVars, held, issued>>

-----------------------------------------------------------------------------
(* FlushTasks *)

MutantNobodyOwns(t) == TRUE
MayFlush(t) == NotOthers(t)

(* A worker takes a FlushTasks call; it returns at once when another       *)
(* thread owns the strand.                                                 *)
BeginFlush(t) ==
    /\ t \in Workers
    /\ pc[t] = "user" /\ ~OnStrand(t)
    /\ flushes > 0
    /\ flushes' = flushes - 1
    /\ IF MayFlush(t)
       THEN /\ owner' = Append(owner, t)
            /\ batch' = [batch EXCEPT ![t] = taskCount]
            /\ left' = [left EXCEPT ![t] = taskCount]
            /\ pc' = [pc EXCEPT ![t] = "loop"]
       ELSE UNCHANGED <<owner, batch, left, pc>>
    /\ UNCHANGED <<posted, taskCount, queue, tasks, held, issued>>

(* try_pop; it fails while a counted task is not yet emplaced.             *)
PopTask(t) ==
    /\ pc[t] = "loop" /\ left[t] > 0
    /\ queue # <<>>
    /\ tasks' = [tasks EXCEPT ![t] = <<Head(queue)>>]
    /\ queue' = Tail(queue)
    /\ left' = [left EXCEPT ![t] = @ - 1]
    /\ pc' = [pc EXCEPT ![t] = "user"]
    /\ UNCHANGED <<lockVars, flushes, batch, held, issued>>

EndTask(t) ==
    /\ pc[t] = "user"
    /\ Len(tasks[t]) = 1
    /\ tasks' = [tasks EXCEPT ![t] = <<>>]
    /\ pc' = [pc EXCEPT ![t] = "loop"]
    /\ UNCHANGED <<lockVars, queue, flushes, flushVars, held, issued>>

MutantReset(n, done) == 0
Uncounted(n, done) == n - done

EndFlush(t) ==
    LET rest == Uncounted(taskCount, batch[t])
    IN  /\ pc[t] = "loop" /\ left[t] = 0
        /\ owner' = Front(owner)
        /\ taskCount' = rest
        /\ posted' = (posted /\ rest > 0)
        /\ pc' = [pc EXCEPT ![t] = IF rest > 0 THEN "wake" ELSE "user"]
        /\ batch' = [batch EXCEPT ![t] = 0]
        /\ UNCHANGED <<queue, flushes, left, tasks, held, issued>>

Step(t) == \/ Emplace(t) \/ PostFlushTask(t) \/ EndInline(t)
           \/ PopTask(t) \/ EndTask(t) \/ EndFlush(t)

Next == \E t \in Threads :
            Post(t) \/ DispatchInline(t) \/ BeginFlush(t) \/ Step(t)

Spec == Init /\ [][Next]_vars

(* A thread that is in the code of the strand or in a task goes on, and    *)
(* the underlying executor runs what was posted to it.                     *)
Fairness == /\ \A t \in Threads : WF_vars(Step(t))
            /\ WF_vars(\E t \in Workers : BeginFlush(t))

FairSpec == Spec /\ Fairness

-----------------------------------------------------------------------------
(* Properties *)

Flushing(t) == pc[t] = "loop" \/ OnStrand(t)
Holding == {t \in Threads : held[t] # NoTask}

(* Every variable has its type. *)
TypeOK ==
    /\ posted \in BOOLEAN
    /\ owner \in Seq(Threads)
    /\ taskCount \in Nat
    /\ queue \in Seq(Task)
    /\ flushes \in Nat
    /\ pc \in [Threads -> PCs]
    /\ batch \in [Threads -> Nat]
    /\ left \in [Threads -> Nat]
    /\ tasks \in [Threads -> Seq(Task)]
    /\ held \in [Threads -> Task \cup {NoTask}]
    /\ issued \in [Threads -> Nat]

(* No two threads are in FlushTasks' loop or in tasks of the strand at     *)
(* once, so what is confined to a strand is never used concurrently; and   *)
(* _owner names that thread once per task it is nested in, so that the     *)
(* pop_back calls remove what their thread pushed.                         *)
OneAtATime ==
    /\ \A t, u \in Threads : Flushing(t) /\ Flushing(u) => t = u
    /\ \A t \in Threads : Flushing(t) =>
          /\ \A i \in DOMAIN owner : owner[i] = t
          /\ Len(owner) = IF tasks[t] = <<>> THEN 1 ELSE Len(tasks[t])
    /\ (\A t \in Threads : ~Flushing(t)) => owner = <<>>

(* A task that was submitted while no thread owns the strand has a         *)
(* FlushTasks call on its way to run it: the combination of _posted,       *)
(* _taskCount and the flushes that return at once loses no wake-up.        *)
NoLostWakeup ==
    (queue # <<>> \/ Holding # {}) /\ owner = <<>> =>
        flushes > 0 \/ \E t \in Threads : pc[t] \in {"wake", "emplaceAndWake"}

(* _taskCount counts the tasks that are queued, about to be queued or      *)
(* popped by the flush in progress, so the busy loop of FlushTasks only    *)
(* waits for tasks that are about to be emplaced.                          *)
CountIsExact ==
    /\ \A t \in Threads : ~Flushing(t) => batch[t] = 0 /\ left[t] = 0
    /\ \A t \in Threads : Flushing(t) =>
          /\ taskCount - (batch[t] - left[t]) = Len(queue) + Cardinality(Holding)
          /\ left[t] <= Len(queue) + Cardinality(Holding)
    /\ owner = <<>> => taskCount = Len(queue) + Cardinality(Holding)

(* The inductive invariant behind the three: a thread that is about to     *)
(* emplace holds a task, the loop runs between tasks, and as long as       *)
(* something is counted _posted is set and a flush is under way.           *)
PcAgrees ==
    \A t \in Threads :
        /\ pc[t] \in {"emplace", "emplaceAndWake"} <=> held[t] # NoTask
        /\ pc[t] = "loop" => tasks[t] = <<>>

WakeOnTheWay ==
    /\ taskCount > 0 => posted
    /\ posted => \/ owner # <<>>
                 \/ flushes > 0
                 \/ \E t \in Threads : pc[t] \in {"wake", "emplaceAndWake"}

IndInv == TypeOK /\ OneAtATime /\ CountIsExact /\ PcAgrees /\ WakeOnTheWay

(* The strand is a serial executor: FIFO per submitter, one task at a      *)
(* time, inline Dispatch only from the running task.  A task waits from    *)
(* the locked section of Post on, before it is in the queue.               *)
Waiting == ToSet(queue) \cup {held[t] : t \in Holding}

Running == IF owner = <<>> THEN <<>> ELSE tasks[owner[1]]

Abstract == INSTANCE SerialExecutor WITH
    Submitters <- Threads,
    submitted <- issued,
    waiting <- Waiting,
    running <- Running

IsSerialExecutor == Abstract!Spec

(* Every task that was submitted runs to its end. *)
Done(t, n) ==
    /\ issued[t] >= n
    /\ LET ThisTask(task) == task = [by |-> t, n |-> n]
       IN  /\ ~ThisTask(held[t])
           /\ SelectSeq(queue, ThisTask) = <<>>
           /\ \A u \in Threads : SelectSeq(tasks[u], ThisTask) = <<>>

EveryTaskRuns ==
    \A t \in Threads, n \in 1 .. MaxTasks : issued[t] >= n ~> Done(t, n)

=============================================================================
