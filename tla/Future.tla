-------------------------------- MODULE Future --------------------------------
(***************************************************************************)
(* Futures and promises (shared/execution/future): several threads that    *)
(* race to complete one SharedContext, its one continuation, the threads   *)
(* that block in Get, and the operations built from them: Then,            *)
(* StartAsync, WaitAll, WaitAny and the await of a coroutine.              *)
(*                                                                         *)
(* A coroutine starts asynchronous calls and chains callables to promises  *)
(* with Then, gives all the futures it holds to WaitAll or WaitAny and     *)
(* awaits the outcome.  A value is kept as the fact that it is one: what   *)
(* tells completions apart is whether a call set a value, an exception or  *)
(* the cancellation.  The executor runs posted functions in any order, on  *)
(* any of its workers.                                                     *)
(*                                                                         *)
(* An operator named Mutant... is a plausible mistake in the one after it; *)
(* no action uses it.                                                      *)
(***************************************************************************)
EXTENDS Naturals, FiniteSets

CONSTANTS
    Promises,    \* contexts a Promise completes
    Asyncs,      \* contexts a StartAsync completes
    Thens,       \* contexts a Then completes
    Parent,      \* the context each Then continues
    Throws,      \* contexts whose callable throws
    All,         \* the context of the WaitAll or WaitAny
    Setters,     \* threads that set a promise, once each
    Cancelers,   \* threads that cancel a future, once each
    Workers,     \* threads of the executor
    Read         \* contexts some thread blocks on in Get, one thread each

Source == Promises \union Asyncs \union Thens
Context == Source \union {All}
Callers == Setters \union Cancelers
Thread == Callers \union Workers

(* Futures move: each has one continuation, a Then's or the WaitAll's. *)
Inputs == {f \in Source : \A t \in Thens : Parent[t] # f}

ASSUME ContextAssumption ==
    /\ IsFiniteSet(Source) /\ Inputs # {} /\ All \notin Source
    /\ Promises \intersect Asyncs = {} /\ Thens \intersect (Promises \union Asyncs) = {}
    /\ Parent \in [Thens -> Promises \union Asyncs]
    /\ \A t, u \in Thens : Parent[t] = Parent[u] => t = u
    /\ Read \subseteq Inputs \union {All} /\ Throws \subseteq Asyncs \union Thens
ASSUME ThreadAssumption ==
    Setters \intersect Cancelers = {} /\ (Setters \union Cancelers) \intersect Workers = {}

Outcome == {"value", "error", "cancel"}
Final(how) == IF how = "cancel" THEN "Canceled" ELSE "Complete"

(* What a posted function does, and for which context. *)
Task == {"begin", "resume", "async", "then", "count"} \X Context
NoTask == <<"none", All>>

VARIABLES
    status,        \* _status
    stored,        \* _value and _exception
    continuation,  \* _continuation: what it posts
    pc,            \* where each thread is
    at,            \* the context a thread in a completion is at
    how,           \* what its call completes the context with
    taken,         \* its local continuation, swapped out
    posted,        \* functions the executor has not run
    registered,    \* contexts whose continuation the coroutine has set
    counter,       \* counter of WaitAll or WaitAny
    needed,        \* operationCount of WaitAll, 1 for WaitAny
    reader,        \* where the thread blocked on each of Read is
    got,           \* what its Get did
    resumed,       \* how often the coroutine went on after its await
    first          \* history: what the first completion of a context was

threadVars == <<pc, at, how, taken>>
contextVars == <<status, stored, continuation>>
readVars == <<reader, got>>
vars == <<contextVars, threadVars, posted, registered, counter, needed, readVars,
          resumed, first>>

Init ==
    /\ status = [c \in Context |-> "Pending"]
    /\ stored = [c \in Context |-> "none"]
    /\ continuation = [c \in Context |-> NoTask]
    /\ pc = [t \in Thread |-> "idle"]
    /\ at = [t \in Thread |-> All]
    /\ how = [t \in Thread |-> "value"]
    /\ taken = [t \in Thread |-> NoTask]
    /\ posted = {<<"begin", All>>} \union ({"async"} \X Asyncs)
    /\ registered = {}
    /\ counter = 0
    /\ needed \in {Cardinality(Inputs), 1}
    /\ reader = [c \in Read |-> "get"]
    /\ got = [c \in Read |-> "none"]
    /\ resumed = 0
    /\ first = [c \in Context |-> "none"]

(***************************************************************************)
(* Completing a context: OnSuccess, OnFailure and Cancel.                  *)
(***************************************************************************)

(* Then and WaitAll make their context when the coroutine calls them. *)
Chained == {Parent[t] : t \in Thens}
Exists(c) ==
    /\ c \in Thens => Parent[c] \in registered
    /\ c = All => Source \subseteq registered

(* A completion holds _mutex from its compare-and-swap to its swap. *)
Locked(c) == \E t \in Thread : pc[t] = "store" /\ at[t] = c

At(t, step, c, h) ==
    /\ pc' = [pc EXCEPT ![t] = step]
    /\ at' = [at EXCEPT ![t] = c]
    /\ how' = [how EXCEPT ![t] = h]

(* The call returns. *)
Returns(t) == At(t, IF t \in Workers THEN "idle" ELSE "done", All, "value")

Undecided(c) == status[c] = "Pending"

(* The lock and the compare-and-swap of t's call on c. *)
Swap(t, c, h) ==
    /\ ~Locked(c)
    /\ \/ /\ Undecided(c)
          /\ status' = [status EXCEPT ![c] = Final(h)]
          /\ first' = IF first[c] = "none" THEN [first EXCEPT ![c] = h] ELSE first
          /\ At(t, "store", c, h)
       \/ ~Undecided(c) /\ Returns(t) /\ UNCHANGED <<status, first>>
    /\ UNCHANGED <<stored, continuation, taken, posted, registered, counter, needed,
                   readVars, resumed>>

(* Promise::Set, Promise::SetException, Future::Cancel *)
Call(t) ==
    /\ pc[t] = "idle"
    /\ \/ t \in Setters /\ \E c \in Promises, h \in {"value", "error"} : Swap(t, c, h)
       \/ t \in Cancelers /\ \E c \in Source : Exists(c) /\ Swap(t, c, "cancel")

(* The completion at the end of a function the executor runs. *)
Complete(w) == pc[w] = "call" /\ Swap(w, at[w], how[w])

(* The value or exception, the continuation, and the unlock. *)
Store(t) ==
    /\ pc[t] = "store"
    /\ stored' = IF how[t] = "cancel" THEN stored ELSE [stored EXCEPT ![at[t]] = how[t]]
    /\ taken' = [taken EXCEPT ![t] = continuation[at[t]]]
    /\ continuation' = [continuation EXCEPT ![at[t]] = NoTask]
    /\ pc' = [pc EXCEPT ![t] = "notify"]
    /\ UNCHANGED <<status, at, how, posted, registered, counter, needed, readVars,
                   resumed, first>>

(* _status.notify_one() *)
Notify(t) ==
    /\ pc[t] = "notify"
    /\ pc' = [pc EXCEPT ![t] = "continue"]
    /\ reader' = [c \in Read |->
                    IF c = at[t] /\ reader[c] = "asleep" THEN "wait" ELSE reader[c]]
    /\ UNCHANGED <<contextVars, at, how, taken, posted, registered, counter, needed,
                   got, resumed, first>>

(* A continuation posts a function to the executor of its context. *)
Runs(task) == IF task = NoTask THEN {} ELSE {task}

(* continuation(), after the unlock. *)
Continue(t) ==
    /\ pc[t] = "continue"
    /\ posted' = posted \union Runs(taken[t])
    /\ taken' = [taken EXCEPT ![t] = NoTask]
    /\ Returns(t)
    /\ UNCHANGED <<contextVars, registered, counter, needed, readVars,
                   resumed, first>>

(***************************************************************************)
(* The threads that block: Get and Wait.                                   *)
(***************************************************************************)

Reads(c, step) == reader' = [reader EXCEPT ![c] = step]

(* The switch of Get on _status. *)
Get(c) ==
    /\ reader[c] = "get" /\ Exists(c)
    /\ Reads(c, CASE status[c] = "Pending"  -> "wait"
                  [] status[c] = "Complete" -> "take"
                  [] status[c] = "Canceled" -> "done")
    /\ got' = IF status[c] = "Canceled" THEN [got EXCEPT ![c] = "cancel"] ELSE got
    /\ UNCHANGED <<contextVars, threadVars, posted, registered, counter, needed,
                   resumed, first>>

(* _status.wait(Pending) sleeps only while it is. *)
Wait(c) ==
    /\ reader[c] = "wait"
    /\ Reads(c, IF status[c] = "Pending" THEN "asleep" ELSE "get")
    /\ UNCHANGED <<contextVars, threadVars, posted, registered, counter, needed, got,
                   resumed, first>>

(* Get swaps the value or the exception out; a void value stays. *)
After(c) == IF c = All THEN stored[c] ELSE "none"

MutantUnlocked(c) == TRUE
Unlocked(c) == ~Locked(c)

(* "none" is the exception "value is already used". *)
Take(c) ==
    /\ reader[c] = "take" /\ Unlocked(c)
    /\ got' = [got EXCEPT ![c] = stored[c]]
    /\ stored' = [stored EXCEPT ![c] = After(c)]
    /\ Reads(c, "done")
    /\ UNCHANGED <<status, continuation, threadVars, posted, registered, counter,
                   needed, resumed, first>>

(***************************************************************************)
(* The coroutine and the functions it posts.                               *)
(***************************************************************************)

MutantStores(c, task) ==
    continuation' = [continuation EXCEPT ![c] = task] /\ UNCHANGED posted

(* SetContinuation: kept while pending, else run at once. *)
SetContinuation(c, task) ==
    IF status[c] = "Pending"
    THEN continuation' = [continuation EXCEPT ![c] = task] /\ UNCHANGED posted
    ELSE posted' = posted \union {task} /\ UNCHANGED continuation

Start(w, task) == pc[w] = "idle" /\ task \in posted
Started(task) == posted' = posted \ {task}

Begin(w) ==
    /\ Start(w, <<"begin", All>>) /\ Started(<<"begin", All>>)
    /\ pc' = [pc EXCEPT ![w] = "register"]
    /\ UNCHANGED <<contextVars, at, how, taken, registered, counter, needed, readVars,
                   resumed, first>>

(* Then of the future, or the ContinuationWith of WaitAll. *)
Continuing(f) ==
    IF f \in Inputs THEN <<"count", f>> ELSE <<"then", CHOOSE t \in Thens : Parent[t] = f>>

Register(w, f) ==
    /\ pc[w] = "register" /\ f \in Source \ registered /\ Unlocked(f)
    /\ f \in Inputs => Chained \subseteq registered
    /\ SetContinuation(f, Continuing(f))
    /\ registered' = registered \union {f}
    /\ pc' = [pc EXCEPT ![w] = IF Source \subseteq registered' THEN "await" ELSE "register"]
    /\ UNCHANGED <<status, stored, at, how, taken, counter, needed, readVars, resumed,
                   first>>

(* await_resume *)
Resumes == resumed' = resumed + 1

(* await_ready *)
AwaitReady(w) ==
    /\ pc[w] = "await"
    /\ \/ /\ status[All] = "Pending"
          /\ pc' = [pc EXCEPT ![w] = "suspend"]
          /\ UNCHANGED resumed
       \/ /\ status[All] # "Pending" /\ Unlocked(All)
          /\ pc' = [pc EXCEPT ![w] = "idle"]
          /\ Resumes
    /\ UNCHANGED <<contextVars, at, how, taken, posted, registered, counter, needed,
                   readVars, first>>

AwaitSuspend(w) ==
    /\ pc[w] = "suspend" /\ Unlocked(All)
    /\ SetContinuation(All, <<"resume", All>>)
    /\ pc' = [pc EXCEPT ![w] = "idle"]
    /\ UNCHANGED <<status, stored, at, how, taken, registered, counter, needed,
                   readVars, resumed, first>>

Resume(w) ==
    /\ Start(w, <<"resume", All>>) /\ Started(<<"resume", All>>) /\ Unlocked(All)
    /\ Resumes
    /\ UNCHANGED <<contextVars, threadVars, registered, counter, needed, readVars, first>>

Result(f) == IF f \in Throws THEN "error" ELSE "value"

(* StartAsync: the callable returns or throws. *)
RunAsync(w, f) ==
    /\ Start(w, <<"async", f>>) /\ Started(<<"async", f>>)
    /\ At(w, "call", f, Result(f))
    /\ UNCHANGED <<contextVars, taken, registered, counter, needed, readVars, resumed,
                   first>>

(* Then: Get of the parent throws when it holds no value, or the callable runs. *)
RunThen(w, f) ==
    /\ Start(w, <<"then", f>>) /\ Started(<<"then", f>>) /\ Unlocked(Parent[f])
    /\ At(w, "call", f, IF stored[Parent[f]] = "value" THEN Result(f) ELSE "error")
    /\ stored' = [stored EXCEPT ![Parent[f]] = "none"]
    /\ UNCHANGED <<status, continuation, taken, registered, counter, needed, readVars,
                   resumed, first>>

MutantOneLess == counter + 2
Counted == counter + 1

(* The continuation of WaitAll: the last one (WaitAny: the first) completes it. *)
RunCount(w, f) ==
    /\ Start(w, <<"count", f>>) /\ Started(<<"count", f>>)
    /\ counter' = Counted
    /\ \/ counter' = needed /\ At(w, "call", All, "value")
       \/ counter' # needed /\ UNCHANGED <<pc, at, how>>
    /\ UNCHANGED <<contextVars, taken, registered, needed, readVars, resumed, first>>

Completion(t) == Store(t) \/ Notify(t) \/ Continue(t)
Reader(c) == Get(c) \/ Wait(c) \/ Take(c)
Coroutine(w) == Begin(w) \/ (\E f \in Source : Register(w, f)) \/ AwaitReady(w)
                \/ AwaitSuspend(w) \/ Resume(w)
Function(w) == (\E f \in Asyncs : RunAsync(w, f)) \/ (\E f \in Thens : RunThen(w, f))
               \/ (\E f \in Inputs : RunCount(w, f)) \/ Complete(w)
Worker(w) == Coroutine(w) \/ Function(w)

Next ==
    \/ \E t \in Thread : Completion(t)
    \/ \E t \in Callers : Call(t)
    \/ \E c \in Read : Reader(c)
    \/ \E w \in Workers : Worker(w)

(* Every thread runs; nobody has to call Set, SetException or Cancel. *)
Fairness ==
    /\ \A t \in Thread : WF_vars(Completion(t))
    /\ \A c \in Read : WF_vars(Reader(c))
    /\ \A w \in Workers : WF_vars(Worker(w))

Spec == Init /\ [][Next]_vars /\ Fairness

(***************************************************************************)
(* Properties.                                                             *)
(***************************************************************************)

TypeOK ==
    /\ status \in [Context -> {"Pending", "Complete", "Canceled"}]
    /\ stored \in [Context -> {"none", "value", "error"}]
    /\ continuation \in [Context -> Task \union {NoTask}]
    /\ pc \in [Thread -> {"idle", "call", "store", "notify", "continue", "register",
                          "await", "suspend", "done"}]
    /\ at \in [Thread -> Context] /\ how \in [Thread -> Outcome]
    /\ taken \in [Thread -> Task \union {NoTask}]
    /\ posted \subseteq Task
    /\ registered \subseteq Source
    /\ counter \in Nat /\ needed \in Nat /\ resumed \in Nat
    /\ reader \in [Read -> {"get", "wait", "asleep", "take", "done"}]
    /\ got \in [Read -> {"none", "value", "error", "cancel"}]
    /\ first \in [Context -> {"none"} \union Outcome]

(* The first completion of a context stands: whatever calls race with it,  *)
(* the thread in Get returns or throws what that call set, never an empty  *)
(* value, and never the result of a later call.                            *)
FirstResultStands ==
    \A c \in Read : reader[c] = "done" => got[c] = first[c]

(* The coroutine goes on once, and only when the futures it waits for are  *)
(* done: all of them, or one.                                              *)
ResumesOnceWhenDone ==
    /\ resumed <= 1
    /\ resumed = 1 =>
         Cardinality({f \in Inputs : status[f] # "Pending"}) >= needed

(* Whoever waits goes on: a thread in Get once the context is completed,   *)
(* and the coroutine once the futures it gave to WaitAll are, in whatever  *)
(* order completions, registrations, sleeps and notifications happen.      *)
WaitersReturn ==
    /\ \A c \in Read : status[c] # "Pending" ~> reader[c] = "done"
    /\ (\A f \in Inputs : status[f] # "Pending") ~> resumed = 1
=============================================================================
