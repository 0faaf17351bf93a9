--------------------------- MODULE GameRepository ---------------------------
(***************************************************************************)
(* The saves of one character (xr/server/game/repository/game_repository.cpp) *)
(* and the game server's calls that end them (xr/server/game/game_server.cpp). *)
(*                                                                         *)
(* SaveChanges and FinalizeSaves run on the strand of the character, whose *)
(* queue is tasks: RunTask takes the first task to its next co_await.  The *)
(* database service answers at any time; that its answer is an error or an *)
(* exception of the RPC is told by result.                                 *)
(*                                                                         *)
(* A use of an entry that is gone stops the model: fault names it.         *)
(*                                                                         *)
(* An operator named Mutant... is the operator that follows it with a      *)
(* plausible mistake in it; no action uses one.                            *)
(***************************************************************************)
EXTENDS Integers, Sequences, FiniteSets

CONSTANTS
    NoSave,      \* saves has no entry for the character
    Results,     \* what the database service may answer
    MaxChanges   \* bound: changes of the character's inventory

ASSUME ResultsAssumption == Results \subseteq {"ok", "error", "throw"}
ASSUME BoundAssumption == MaxChanges \in Nat

(* Who calls FinalizeSaves: ReleaseClient, and ProcessClientRemove for     *)
(* OnError or for OnCharacterSaveError.                                    *)
Finalizers == {"release", "disconnect", "saveError"}

(* The changes and the entries of saves that hold them. *)
Changes == 1 .. MaxChanges
Saves == [id : 1 .. MaxChanges, shutdown : BOOLEAN, signals : Seq(Finalizers),
          pending : BOOLEAN, waits : Seq(Changes)]
ASSUME NoSaveAssumption == NoSave \notin Saves

VARIABLES
    client,      \* the client container has the client
    submitted,   \* changes given to SaveChanges; they are numbered
    tasks,       \* the strand
    save,        \* the entry in saves: CharacterSave and an id of its own
    made,        \* entries made so far
    asked,       \* saves the database service has not answered
    call,        \* how far each FinalizeSaves is
    iter,        \* the entry its iterator points to
    seen,        \* changes that SaveChanges has seen on the strand
    due,         \* seen, when FinalizeSaves ran
    answered,    \* changes whose save has been answered, in this order
    ignored,     \* changes that came after the shutdown
    broken,      \* a Start has ended with an exception
    fault        \* what stopped the program

finalizeVars == <<call, iter, due>>
vars == <<client, submitted, tasks, save, made, asked, finalizeVars, seen, answered, ignored,
          broken, fault>>

Init ==
    /\ client = TRUE
    /\ submitted = 0
    /\ tasks = <<>>
    /\ save = NoSave
    /\ made = 0
    /\ asked = {}
    /\ call = [f \in Finalizers |-> "none"]
    /\ iter = [f \in Finalizers |-> 0]
    /\ seen = 0
    /\ due = [f \in Finalizers |-> 0]
    /\ answered = <<>>
    /\ ignored = {}
    /\ broken = FALSE
    /\ fault = "none"

-----------------------------------------------------------------------------
(* Calls from elsewhere *)

(* The character's game instance has changed the inventory; after          *)
(* ReleaseClient has despawned the character it does not any more.         *)
SaveChanges ==
    /\ fault = "none"
    /\ submitted < MaxChanges
    /\ call["release"] = "none"
    /\ submitted' = submitted + 1
    /\ tasks' = Append(tasks, [type |-> "save", change |-> submitted + 1])
    /\ UNCHANGED <<client, save, made, asked, finalizeVars, seen, answered, ignored, broken, fault>>

(* ReleaseClient keeps the client until its saves are finalized,           *)
(* ProcessClientRemove removes it first.                                   *)
CallFinalizeSaves(f) ==
    /\ fault = "none"
    /\ client
    /\ call[f] = "none"
    /\ call' = [call EXCEPT ![f] = "called"]
    /\ tasks' = Append(tasks, [type |-> "finalize", by |-> f])
    /\ client' = (f = "release")
    /\ UNCHANGED <<submitted, save, made, asked, iter, seen, due, answered, ignored, broken, fault>>

ReleaseEnds ==
    /\ fault = "none"
    /\ client
    /\ call["release"] = "done"
    /\ client' = FALSE
    /\ UNCHANGED <<submitted, tasks, save, made, asked, finalizeVars, seen, answered, ignored,
                   broken, fault>>

(* The database service answers, and Start is posted to go on. *)
DatabaseAnswers ==
    /\ fault = "none"
    /\ \E a \in asked, r \in Results :
          /\ asked' = asked \ {a}
          /\ tasks' = Append(tasks, [type |-> "answer", id |-> a.id, change |-> a.change, result |-> r])
    /\ UNCHANGED <<client, submitted, save, made, finalizeVars, seen, answered, ignored, broken, fault>>

-----------------------------------------------------------------------------
(* On the strand *)

FoundOrInserted ==
    IF save = NoSave
    THEN [id |-> made + 1, shutdown |-> FALSE, signals |-> <<>>, pending |-> FALSE, waits |-> <<>>]
    ELSE save

Popped(waits) == Tail(waits)

(* Start, up to its co_await. *)
Start(e) ==
    /\ save' = [e EXCEPT !.pending = TRUE, !.waits = Popped(@)]
    /\ asked' = asked \cup {[id |-> e.id, change |-> Head(e.waits)]}

MutantStartsAlways(e) == TRUE
MayStart(e) == ~e.pending

SaveTask(t) ==
    LET e == FoundOrInserted
        queued == [e EXCEPT !.waits = Append(@, t.change)]
    IN /\ tasks' = Tail(tasks)
       /\ seen' = seen + 1
       /\ made' = e.id
       /\ IF e.shutdown
          THEN /\ ignored' = ignored \cup {t.change}
               /\ UNCHANGED <<save, asked>>
          ELSE /\ IF MayStart(e)
                  THEN Start(queued)
                  ELSE save' = queued /\ UNCHANGED asked
               /\ UNCHANGED ignored
       /\ UNCHANGED <<client, submitted, finalizeVars, answered, broken, fault>>

MutantOnlyWaits(e) == e.waits # <<>>
MustWait(e) == e.waits # <<>> \/ e.pending

(* FinalizeSaves of f: it is done at once, or waits for its signal. *)
Finalize(f) ==
    /\ due' = [due EXCEPT ![f] = seen]
    /\ \/ /\ save = NoSave
          /\ call' = [call EXCEPT ![f] = "done"]
          /\ UNCHANGED <<save, iter>>
       \/ /\ save # NoSave /\ MustWait(save)
          /\ save' = [save EXCEPT !.shutdown = TRUE, !.signals = Append(@, f)]
          /\ call' = [call EXCEPT ![f] = "waiting"]
          /\ iter' = [iter EXCEPT ![f] = save.id]
       \/ /\ save # NoSave /\ ~MustWait(save)
          /\ save' = NoSave
          /\ call' = [call EXCEPT ![f] = "done"]
          /\ UNCHANGED iter

FinalizeTask(t) ==
    /\ Finalize(t.by)
    /\ tasks' = Tail(tasks)
    /\ UNCHANGED <<client, submitted, made, asked, seen, answered, ignored, broken, fault>>

(* The rest of Start.  An error goes to OnCharacterSaveError before Start  *)
(* ends, still on the strand.                                              *)
AnswerTask(t) ==
    /\ answered' = Append(answered, t.change)
    /\ IF t.result = "error" /\ client
       THEN client' = FALSE /\ Finalize("saveError")
       ELSE UNCHANGED <<client, save, finalizeVars>>
    /\ IF t.result = "throw"
       THEN broken' = TRUE /\ tasks' = Tail(tasks)
       ELSE tasks' = Append(Tail(tasks), [type |-> "complete", id |-> t.id]) /\ UNCHANGED broken
    /\ UNCHANGED <<submitted, made, asked, seen, ignored, fault>>

MutantStopsAtShutdown(e) == e.waits # <<>> /\ ~e.shutdown
MoreToSave(e) == e.waits # <<>>

MutantDeletesFirst(e) == <<>>
Signalled(e) == e.signals

(* OnCompleteSaveChanges: the next save, or the signals and the end of the *)
(* entry, or neither.                                                      *)
CompleteTask(t) ==
    /\ IF save = NoSave \/ save.id # t.id
       THEN /\ fault' = "save is gone"
            /\ tasks' = Tail(tasks)
            /\ UNCHANGED <<save, asked, call>>
       ELSE /\ UNCHANGED fault
            /\ \/ /\ MoreToSave(save)
                  /\ Start(save)
                  /\ tasks' = Tail(tasks)
                  /\ UNCHANGED call
               \/ /\ ~MoreToSave(save) /\ save.shutdown
                  /\ LET s == Signalled(save)
                     IN /\ call' = [f \in Finalizers |->
                                       IF \E i \in DOMAIN s : s[i] = f THEN "signalled" ELSE call[f]]
                        /\ tasks' = Tail(tasks) \o
                                       [i \in DOMAIN s |-> [type |-> "resume", by |-> s[i]]]
                  /\ save' = NoSave
                  /\ UNCHANGED asked
               \/ /\ ~MoreToSave(save) /\ ~save.shutdown
                  /\ save' = [save EXCEPT !.pending = FALSE]
                  /\ tasks' = Tail(tasks)
                  /\ UNCHANGED <<asked, call>>
    /\ UNCHANGED <<client, submitted, made, iter, seen, due, answered, ignored, broken>>

(* FinalizeSaves after its signal: it erases its iterator. *)
ResumeTask(t) ==
    /\ tasks' = Tail(tasks)
    /\ IF save # NoSave /\ save.id = iter[t.by]
       THEN /\ save' = NoSave
            /\ call' = [call EXCEPT ![t.by] = "done"]
            /\ UNCHANGED fault
       ELSE /\ fault' = "stale iterator"
            /\ UNCHANGED <<save, call>>
    /\ UNCHANGED <<client, submitted, made, asked, iter, seen, due, answered, ignored, broken>>

RunTask ==
    /\ fault = "none"
    /\ tasks # <<>>
    /\ LET t == Head(tasks)
       IN \/ t.type = "save" /\ SaveTask(t)
          \/ t.type = "finalize" /\ FinalizeTask(t)
          \/ t.type = "answer" /\ AnswerTask(t)
          \/ t.type = "complete" /\ CompleteTask(t)
          \/ t.type = "resume" /\ ResumeTask(t)

-----------------------------------------------------------------------------

Next ==
    \/ SaveChanges
    \/ \E f \in {"release", "disconnect"} : CallFinalizeSaves(f)
    \/ ReleaseEnds
    \/ DatabaseAnswers
    \/ RunTask

Spec == Init /\ [][Next]_vars

(* The strand runs what it has, and the database service answers. *)
Fairness == WF_vars(RunTask) /\ WF_vars(DatabaseAnswers)

FairSpec == Spec /\ Fairness

-----------------------------------------------------------------------------
(* Properties *)

Tasks == [type : {"save"}, change : Changes] \cup [type : {"finalize", "resume"}, by : Finalizers]
         \cup [type : {"answer"}, id : 1 .. MaxChanges, change : Changes, result : Results]
         \cup [type : {"complete"}, id : 1 .. MaxChanges]

TypeOK ==
    /\ client \in BOOLEAN
    /\ submitted \in 0 .. MaxChanges /\ seen \in 0 .. submitted /\ made \in 0 .. seen
    /\ tasks \in Seq(Tasks)
    /\ save \in Saves \cup {NoSave}
    /\ asked \subseteq [id : 1 .. MaxChanges, change : Changes]
    /\ call \in [Finalizers -> {"none", "called", "waiting", "signalled", "done"}]
    /\ iter \in [Finalizers -> 0 .. made]
    /\ due \in [Finalizers -> 0 .. seen]
    /\ answered \in Seq(Changes) /\ Len(answered) <= seen
    /\ ignored \subseteq Changes
    /\ broken \in BOOLEAN
    /\ fault \in {"none", "stale iterator", "save is gone"}

(* The steps a pending save has still to make. *)
Drivers ==
    Cardinality(asked) + Cardinality({i \in DOMAIN tasks : tasks[i].type \in {"answer", "complete"}})

(* The entry's queue is never left alone: a save is on its way, exactly    *)
(* one, as long as the entry is pending, and changes wait only behind one. *)
(* Only an exception of the database call breaks this, and then for ever:  *)
(* Then does not call OnCompleteSaveChanges for a Start that has thrown.   *)
PendingHasDriver ==
    /\ Drivers = IF save # NoSave /\ save.pending /\ ~broken THEN 1 ELSE 0
    /\ save # NoSave /\ save.waits # <<>> => save.pending

(* The database service is given the changes in the order in which the     *)
(* game made them, each of them once and one at a time.                    *)
SavedInOrder == \A i, j \in DOMAIN answered : i < j => answered[i] < answered[j]

(* When FinalizeSaves lets its caller go on, every change the strand had   *)
(* seen by then has been answered; only changes that came after another    *)
(* FinalizeSaves are left out.  The next server may read the character.    *)
FinalizedIsSaved ==
    \A f \in Finalizers : call[f] \in {"signalled", "done"} =>
        \A c \in 1 .. due[f] :
            \/ \E i \in DOMAIN answered : answered[i] = c
            \/ \E g \in Finalizers : call[g] \notin {"none", "called"} /\ due[g] < c

(* Every FinalizeSaves that is called lets its caller go on, unless a Start *)
(* has ended with an exception, after which nobody completes the save.     *)
FinalizeAnswered ==
    \A f \in Finalizers :
        call[f] \in {"called", "waiting"} ~>
            call[f] \in {"signalled", "done"} \/ broken \/ fault # "none"
=============================================================================
