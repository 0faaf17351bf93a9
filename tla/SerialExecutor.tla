-------------------------- MODULE SerialExecutor ---------------------------
(***************************************************************************)
(* What a strand promises to those who submit tasks to it: one task runs   *)
(* at a time, a submitter's tasks start in the order it submitted them,    *)
(* each of them once, and only the running task can run another one inside *)
(* itself.                                                                 *)
(***************************************************************************)
EXTENDS Integers, Sequences

CONSTANT Submitters

VARIABLES
    submitted,   \* the number of tasks each submitter has submitted
    waiting,     \* the tasks that have not started
    running      \* the task that runs, and those it runs inside itself

(* The next task of a submitter. *)
NewTask(s) == [by |-> s, n |-> submitted[s] + 1]
Submits(s) == submitted' = [submitted EXCEPT ![s] = @ + 1]

Init == /\ submitted = [s \in Submitters |-> 0]
        /\ waiting = {}
        /\ running = <<>>

Submit(s) ==
    /\ Submits(s)
    /\ waiting' = waiting \cup {NewTask(s)}
    /\ UNCHANGED running

(* No task of its submitter that waits was submitted before it. *)
First(task) == \A other \in waiting : other.by = task.by => task.n <= other.n

Start(task) ==
    /\ running = <<>>
    /\ First(task)
    /\ running' = <<task>>
    /\ waiting' = waiting \ {task}
    /\ UNCHANGED submitted

Enter(s) ==
    /\ running # <<>>
    /\ Submits(s)
    /\ running' = Append(running, NewTask(s))
    /\ UNCHANGED waiting

Finish ==
    /\ running # <<>>
    /\ running' = SubSeq(running, 1, Len(running) - 1)
    /\ UNCHANGED <<submitted, waiting>>

Next == \/ \E s \in Submitters : Submit(s) \/ Enter(s)
        \/ \E task \in waiting : Start(task)
        \/ Finish

Spec == Init /\ [][Next]_<<submitted, waiting, running>>

=============================================================================
