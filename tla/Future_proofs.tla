---------------------------- MODULE Future_proofs ----------------------------
(***************************************************************************)
(* FirstResultStands and ResumesOnceWhenDone hold for any number of        *)
(* promises, asynchronous calls, chained callables, threads and readers.   *)
(*                                                                         *)
(* Neither is inductive.  The thread in Get is right because of what a     *)
(* completion has to leave behind between its compare-and-swap and its     *)
(* unlock (ResultInv).  The coroutine goes on once because every function  *)
(* posted for it is in at most one place: a context, a thread that took    *)
(* it, or the executor (TokenInv, CoroutineInv); and it goes on with       *)
(* enough futures done because the counter of WaitAll never counts more    *)
(* than the continuations that ran (CounterInv).                           *)
(***************************************************************************)
EXTENDS Future, TLAPS, FiniteSetTheorems

-----------------------------------------------------------------------------
(* The invariant *)

(* A completed context holds what completed it until its reader takes it.   *)
Done(c) == status[c] # "Pending"
ResultInv ==
    /\ \A c \in Context : Done(c) <=> first[c] # "none"
    /\ \A c \in Context : Done(c) => status[c] = Final(first[c])
    /\ \A t \in Thread : pc[t] = "store" => Done(at[t]) /\ first[at[t]] = how[t]
    /\ \A t, u \in Thread : pc[t] = "store" /\ pc[u] = "store" /\ at[t] = at[u] => t = u
    /\ \A c \in Read : reader[c] = "take" => status[c] = "Complete"
    /\ \A c \in Read : reader[c] = "done" => Done(c) /\ got[c] = first[c]
    /\ \A c \in Read : status[c] = "Complete" /\ ~ Locked(c) /\ reader[c] # "done" =>
          stored[c] = first[c]

(* A function that is to run once is in at most one place. *)
CountOf(f) == <<"count", f>>
ToResume == <<"resume", All>>
ToBegin == <<"begin", All>>
Once == {CountOf(f) : f \in Inputs} \cup {ToResume}
Held(k) == (\E c \in Context : continuation[c] = k) \/ (\E t \in Thread : taken[t] = k) \/ k \in posted
TokenInv ==
    /\ \A t, u \in Thread : taken[t] \in Once /\ taken[t] = taken[u] => t = u
    /\ \A t \in Thread : taken[t] \in Once => taken[t] \notin posted
                                            /\ \A c \in Context : continuation[c] # taken[t]
    /\ \A c \in Context : continuation[c] \in Once => continuation[c] \notin posted
    /\ \A c \in Context, f \in Inputs : continuation[c] = CountOf(f) => c = f
    /\ \A c \in Context : continuation[c] = ToResume => c = All
    /\ \A f \in Inputs : Held(CountOf(f)) => f \in registered
    /\ \A f \in Inputs \cap registered : ~ Done(f) => continuation[f] = CountOf(f)

Ran == {f \in Inputs \cap registered : ~ Held(CountOf(f))}
CounterInv ==
    /\ counter <= Cardinality(Ran)
    /\ \A t \in Thread : pc[t] \in {"call", "store"} /\ at[t] = All => counter >= needed
    /\ Done(All) => counter >= needed

InCoroutine(w) == pc[w] \in {"register", "await", "suspend"}
CoroutineInv ==
    /\ \A w, v \in Workers : InCoroutine(w) /\ InCoroutine(v) => w = v
    /\ ToBegin \in posted =>
          resumed = 0 /\ ~ Held(ToResume) /\ \A w \in Workers : ~ InCoroutine(w)
    /\ (\E w \in Workers : InCoroutine(w)) => resumed = 0 /\ ~ Held(ToResume)
    /\ Held(ToResume) => resumed = 0
    /\ ToResume \in posted \/ (\E t \in Thread : taken[t] = ToResume) => Done(All)
    /\ resumed # 0 => resumed = 1 /\ Done(All)
    /\ \A t \in Callers : ~ InCoroutine(t)
    /\ \A t \in Thread : taken[t] # ToBegin
    /\ \A c \in Context : continuation[c] # ToBegin

FutInv == TypeOK /\ ResultInv /\ TokenInv /\ CounterInv /\ CoroutineInv
-----------------------------------------------------------------------------
(* Threads, contexts and functions *)

(* The constants. *)
LEMMA Sorts ==
    /\ Inputs \subseteq Source /\ Source \subseteq Context /\ All \in Context /\ All \notin Source
    /\ Promises \subseteq Source /\ Asyncs \subseteq Source /\ Thens \subseteq Source
    /\ Setters \subseteq Callers /\ Cancelers \subseteq Callers
    /\ Callers \subseteq Thread /\ Workers \subseteq Thread /\ Callers \cap Workers = {}
    /\ Read \subseteq Context
    /\ \A t \in Thens : Parent[t] \in Source /\ Parent[t] \notin Inputs /\ Parent[t] \notin Read
    /\ IsFiniteSet(Inputs)
<1>1. Inputs \subseteq Source
  BY DEF Inputs
<1>2. IsFiniteSet(Inputs)
  BY <1>1, ContextAssumption, FS_Subset
<1> QED BY <1>1, <1>2, ContextAssumption, ThreadAssumption
        DEF Inputs, Source, Context, Thread, Callers

(* The functions that are posted. *)
LEMMA Tasks ==
    /\ \A f \in Inputs : CountOf(f) \in Once /\ CountOf(f) \in Task /\ CountOf(f) # ToResume
    /\ ToResume \in Once /\ ToResume \in Task
    /\ \A f, g : CountOf(f) = CountOf(g) => f = g
    /\ \A c : <<"begin", c>> \notin Once /\ <<"async", c>> \notin Once /\ <<"then", c>> \notin Once
    /\ \A c \in Context : <<"begin", c>> \in Task /\ <<"async", c>> \in Task /\ <<"then", c>> \in Task
    /\ NoTask \notin Once
    /\ \A k \in Once : k = ToResume \/ \E f \in Inputs : k = CountOf(f)
BY Sorts DEF CountOf, ToResume, Once, Task, NoTask

(* A thread takes a step of its own. *)
LEMMA AtFacts ==
    ASSUME TypeOK, NEW t \in Thread, NEW s, NEW c \in Context, NEW h \in Outcome, At(t, s, c, h),
           s \in {"idle", "call", "store", "notify", "continue", "register", "await", "suspend", "done"}
    PROVE  /\ pc'[t] = s /\ at'[t] = c /\ how'[t] = h
           /\ \A u \in Thread : u # t => pc'[u] = pc[u] /\ at'[u] = at[u] /\ how'[u] = how[u]
           /\ pc' \in [Thread -> {"idle", "call", "store", "notify", "continue", "register",
                                   "await", "suspend", "done"}]
           /\ at' \in [Thread -> Context] /\ how' \in [Thread -> Outcome]
BY DEF TypeOK, At

(* The functions that run once stay where they are. *)
LEMMA TokensKept ==
    ASSUME FutInv, UNCHANGED <<continuation, taken, registered>>,
           \A k \in Once : k \in posted' <=> k \in posted,
           \A c \in Context : Done(c) => Done(c)'
    PROVE  /\ TokenInv' /\ Ran' = Ran
           /\ Held(ToResume)' <=> Held(ToResume)
<1>1. \A k \in Once : Held(k)' <=> Held(k)
  BY DEF Held
<1>2. \A f \in Inputs : CountOf(f) \in Once /\ (CountOf(f))' = CountOf(f)
  BY Tasks DEF CountOf
<1>3. ToResume \in Once /\ ToResume' = ToResume
  BY Tasks DEF ToResume
<1>4. Ran' = Ran
  BY <1>1, <1>2 DEF Ran
<1>5. TokenInv'
  BY <1>1, <1>2, Sorts DEF FutInv, TokenInv, Once, CountOf, ToResume
<1> QED BY <1>1, <1>3, <1>4, <1>5

(* The futures whose count has run, counted. *)
LEMMA RanGrows ==
    ASSUME Ran \subseteq Ran'
    PROVE  /\ Cardinality(Ran) \in Nat /\ Cardinality(Ran') \in Nat
           /\ Cardinality(Ran) <= Cardinality(Ran') /\ IsFiniteSet(Ran) /\ IsFiniteSet(Ran')
<1>1. Ran \subseteq Inputs /\ Ran' \subseteq Inputs
  BY DEF Ran
<1>2. IsFiniteSet(Ran) /\ IsFiniteSet(Ran')
  BY <1>1, Sorts, FS_Subset
<1> QED BY <1>2, FS_Subset, FS_CardinalityType

(* Steps that leave the contexts and their readers alone. *)
LEMMA ResultKept ==
    ASSUME FutInv, UNCHANGED <<status, first, reader, got, stored>>,
           \A t \in Thread : pc'[t] = "store" <=> pc[t] = "store",
           \A t \in Thread : pc[t] = "store" => at'[t] = at[t] /\ how'[t] = how[t]
    PROVE  ResultInv'
<1>1. \A c : Locked(c)' <=> Locked(c)
  BY DEF Locked
<1> QED BY <1>1 DEF FutInv, ResultInv, Done

(* The counter is kept, while more counts have run and the same threads     *)
(* complete All.                                                            *)
LEMMA CounterKept ==
    ASSUME FutInv, UNCHANGED <<counter, needed>>, Ran \subseteq Ran', Done(All)' => Done(All),
           \A t \in Thread : pc'[t] \in {"call", "store"} /\ at'[t] = All =>
               pc[t] \in {"call", "store"} /\ at[t] = All
    PROVE  CounterInv'
<1>1. counter <= Cardinality(Ran')
  <2>1. counter <= Cardinality(Ran) /\ counter \in Nat
    BY DEF FutInv, CounterInv, TypeOK
  <2> QED BY <2>1, RanGrows
<1>2. \A t \in Thread : pc'[t] \in {"call", "store"} /\ at'[t] = All => counter >= needed
  BY DEF FutInv, CounterInv
<1>3. Done(All)' => counter >= needed
  BY DEF FutInv, CounterInv
<1> QED BY <1>1, <1>2, <1>3 DEF CounterInv

(* The invariant holds before any thread runs. *)
LEMMA InitFut == Init => FutInv
<1> SUFFICES ASSUME Init PROVE FutInv
  OBVIOUS
<1>1. Cardinality(Inputs) \in Nat
  BY Sorts, FS_CardinalityType
<1>2. TypeOK
  <2>1. posted \subseteq Task
    <3>1. <<"begin", All>> \in Task /\ {"async"} \X Asyncs \subseteq Task
      BY Sorts DEF Task
    <3> QED BY <3>1 DEF Init
  <2>2. needed \in Nat /\ registered \subseteq Source
    BY <1>1 DEF Init
  <2>3. /\ at \in [Thread -> Context] /\ how \in [Thread -> Outcome]
        /\ first \in [Context -> {"none"} \union Outcome]
    BY Sorts DEF Init, Outcome
  <2>4. /\ continuation \in [Context -> Task \union {NoTask}]
        /\ taken \in [Thread -> Task \union {NoTask}]
    BY DEF Init
  <2>5. /\ status \in [Context -> {"Pending", "Complete", "Canceled"}]
        /\ stored \in [Context -> {"none", "value", "error"}]
        /\ pc \in [Thread -> {"idle", "call", "store", "notify", "continue", "register",
                              "await", "suspend", "done"}]
        /\ reader \in [Read -> {"get", "wait", "asleep", "take", "done"}]
        /\ got \in [Read -> {"none", "value", "error", "cancel"}]
    BY DEF Init
  <2>6. counter \in Nat /\ resumed \in Nat
    BY DEF Init
  <2> QED BY <2>1, <2>2, <2>3, <2>4, <2>5, <2>6 DEF TypeOK
<1>3. ResultInv
  BY Sorts DEF Init, ResultInv, Done
<1>4. \A k \in Once : ~ Held(k)
  <2> SUFFICES ASSUME NEW k \in Once PROVE ~ Held(k)
    OBVIOUS
  <2>1. k # NoTask /\ k # <<"begin", All>> /\ k \notin {"async"} \X Asyncs
    BY DEF NoTask, Once, CountOf, ToResume
  <2> QED BY <2>1 DEF Init, Held
<1>5. TokenInv
  BY <1>4, Tasks DEF Init, TokenInv, Held
<1>6. CounterInv
  <2>1. Ran = {}
    BY DEF Init, Ran
  <2> QED BY <2>1, FS_EmptySet, Sorts DEF Init, CounterInv, Done
<1>7. CoroutineInv
  <2>1. ~ Held(ToResume) /\ ToResume \notin posted /\ \A t \in Thread : taken[t] # ToResume
    BY <1>4, Tasks DEF Held
  <2>2. \A t \in Thread : ~ InCoroutine(t)
    BY DEF Init, InCoroutine
  <2>3. NoTask # ToBegin
    BY DEF NoTask, ToBegin
  <2> QED BY <2>1, <2>2, <2>3, Sorts DEF Init, CoroutineInv
<1> QED BY <1>2, <1>3, <1>5, <1>6, <1>7 DEF FutInv

-----------------------------------------------------------------------------
(* Completing a context *)

(* The compare-and-swap of a thread that is not in the coroutine. *)
LEMMA SwapStep ==
    ASSUME FutInv, NEW t \in Thread, NEW c \in Context, NEW h \in Outcome, Swap(t, c, h),
           pc[t] \in {"idle", "call"}, c = All => counter >= needed
    PROVE  FutInv'
<1>1. TypeOK /\ ~ Locked(c)
  BY DEF FutInv, Swap
<1>2. /\ UNCHANGED <<stored, continuation, taken, posted, registered, counter, needed,
                     reader, got, resumed>>
  BY DEF Swap, readVars
<1>3. \/ /\ status[c] = "Pending"
         /\ status' = [status EXCEPT ![c] = Final(h)]
         /\ first' = IF first[c] = "none" THEN [first EXCEPT ![c] = h] ELSE first
         /\ At(t, "store", c, h)
      \/ /\ status[c] # "Pending" /\ UNCHANGED <<status, first>>
         /\ \E s \in {"idle", "done"} : At(t, s, All, "value")
  BY DEF Swap, Returns, Undecided
<1>4. PICK s \in {"store", "idle", "done"}, d \in Context, g \in Outcome :
          /\ At(t, s, d, g)
          /\ s = "store" => d = c /\ g = h
  BY <1>3, Sorts DEF Outcome
<1>5. /\ pc'[t] = s /\ at'[t] = d /\ how'[t] = g
      /\ \A u \in Thread : u # t => pc'[u] = pc[u] /\ at'[u] = at[u] /\ how'[u] = how[u]
      /\ pc' \in [Thread -> {"idle", "call", "store", "notify", "continue", "register",
                             "await", "suspend", "done"}]
      /\ at' \in [Thread -> Context] /\ how' \in [Thread -> Outcome]
  BY <1>1, <1>4, AtFacts
<1>6. /\ Final(h) \in {"Complete", "Canceled"} /\ Final(h) # "Pending"
      /\ h \in {"value", "error", "cancel"}
  BY DEF Final, Outcome
<1>7. \/ /\ status[c] = "Pending" /\ s = "store" /\ first[c] = "none"
         /\ status' = [status EXCEPT ![c] = Final(h)] /\ first' = [first EXCEPT ![c] = h]
      \/ s # "store" /\ UNCHANGED <<status, first>>
  <2>1. s # "store" => ~ At(t, "store", c, h)
    BY <1>1, <1>5 DEF At, TypeOK
  <2>2. s = "store" => \A r \in {"idle", "done"} : ~ At(t, r, All, "value")
    BY <1>1, <1>5 DEF At, TypeOK
  <2>3. status[c] = "Pending" => first[c] = "none"
    BY DEF FutInv, ResultInv, Done
  <2> QED BY <1>3, <1>4, <2>1, <2>2, <2>3
<1>8. /\ status' \in [Context -> {"Pending", "Complete", "Canceled"}]
      /\ first' \in [Context -> {"none"} \union Outcome]
      /\ \A e \in Context : e # c => status'[e] = status[e] /\ first'[e] = first[e]
      /\ s = "store" => status'[c] = Final(h) /\ first'[c] = h /\ status[c] = "Pending"
      /\ s # "store" => UNCHANGED <<status, first>>
  BY <1>1, <1>6, <1>7 DEF TypeOK
<1>9. TypeOK'
  BY <1>1, <1>2, <1>5, <1>8 DEF TypeOK
<1>10. \A e \in Context : Done(e) => Done(e)'
  BY <1>6, <1>8 DEF Done
<1>11. ResultInv'
  <2>1. \A e \in Context : (Done(e)' <=> first'[e] # "none") /\ (Done(e)' => status'[e] = Final(first'[e]))
    <3> SUFFICES ASSUME NEW e \in Context
                 PROVE  (Done(e)' <=> first'[e] # "none") /\ (Done(e)' => status'[e] = Final(first'[e]))
      OBVIOUS
    <3>1. CASE e = c /\ s = "store"
      BY <1>6, <1>8, <3>1 DEF Done
    <3>2. CASE status'[e] = status[e] /\ first'[e] = first[e]
      BY <3>2 DEF FutInv, ResultInv, Done
    <3> QED BY <1>8, <3>1, <3>2
  <2>2. \A u \in Thread : pc'[u] = "store" => status'[at'[u]] # "Pending" /\ first'[at'[u]] = how'[u]
    <3> SUFFICES ASSUME NEW u \in Thread, pc'[u] = "store"
                 PROVE  status'[at'[u]] # "Pending" /\ first'[at'[u]] = how'[u]
      OBVIOUS
    <3>1. CASE u = t
      BY <1>4, <1>5, <1>6, <1>8, <3>1
    <3>2. CASE u # t
      <4>1. pc[u] = "store" /\ at'[u] = at[u] /\ how'[u] = how[u] /\ at[u] \in Context
        BY <1>1, <1>5, <3>2 DEF TypeOK
      <4>2. at[u] # c
        BY <1>1, <4>1 DEF Locked
      <4> QED BY <1>8, <4>1, <4>2 DEF FutInv, ResultInv, Done
    <3> QED BY <3>1, <3>2
  <2>3. \A u, v \in Thread : pc'[u] = "store" /\ pc'[v] = "store" /\ at'[u] = at'[v] => u = v
    BY <1>1, <1>4, <1>5 DEF Locked, FutInv, ResultInv
  <2>4. \A e \in Read : reader'[e] = "take" => status'[e] = "Complete"
    BY <1>2, <1>8, Sorts DEF FutInv, ResultInv
  <2>5. \A e \in Read : reader'[e] = "done" => Done(e)' /\ got'[e] = first'[e]
    BY <1>2, <1>8, <1>10, Sorts DEF FutInv, ResultInv, Done
  <2>6. \A e \in Read : status'[e] = "Complete" /\ ~ Locked(e)' /\ reader'[e] # "done" =>
            stored'[e] = first'[e]
    <3> SUFFICES ASSUME NEW e \in Read, status'[e] = "Complete", ~ Locked(e)', reader'[e] # "done"
                 PROVE  stored'[e] = first'[e]
      OBVIOUS
    <3>1. \A u \in Thread : ~ (pc'[u] = "store" /\ at'[u] = e)
      BY DEF Locked
    <3>2. ~ (s = "store" /\ e = c)
      BY <1>4, <1>5, <3>1
    <3>3. status'[e] = status[e] /\ first'[e] = first[e]
      BY <1>8, <3>2, Sorts
    <3>4. ~ Locked(e)
      BY <1>5, <3>1 DEF Locked
    <3> QED BY <1>2, <3>3, <3>4 DEF FutInv, ResultInv
  <2> QED BY <2>1, <2>2, <2>3, <2>4, <2>5, <2>6 DEF ResultInv, Done
<1>12. TokenInv' /\ Ran' = Ran /\ (Held(ToResume)' <=> Held(ToResume))
  BY <1>2, <1>10, TokensKept
<1>13. CounterInv'
  <2>1. \A u \in Thread : pc'[u] \in {"call", "store"} /\ at'[u] = All => counter >= needed
    BY <1>4, <1>5 DEF FutInv, CounterInv
  <2>2. Done(All)' => counter >= needed
    BY <1>8, Sorts DEF FutInv, CounterInv, Done
  <2> QED BY <1>2, <1>12, <2>1, <2>2 DEF FutInv, CounterInv
<1>14. CoroutineInv'
  <2>1. \A u \in Thread : InCoroutine(u)' <=> InCoroutine(u)
    BY <1>5 DEF InCoroutine
  <2> QED BY <1>2, <1>10, <1>12, <2>1, Sorts DEF FutInv, CoroutineInv, ToResume, ToBegin
<1> QED BY <1>9, <1>11, <1>12, <1>13, <1>14 DEF FutInv

(* Call, and Complete at the end of a posted function. *)
LEMMA CallStep ==
    ASSUME FutInv, NEW t \in Callers, Call(t)
    PROVE  FutInv'
<1>1. PICK c \in Source, h \in Outcome : Swap(t, c, h)
  BY Sorts DEF Call, Outcome
<1> QED BY <1>1, SwapStep, Sorts DEF Call

(* A posted function completes the context it was posted for. *)
LEMMA CompleteStep ==
    ASSUME FutInv, NEW w \in Workers, Complete(w)
    PROVE  FutInv'
<1>1. w \in Thread /\ at[w] \in Context /\ how[w] \in Outcome
  BY Sorts DEF FutInv, TypeOK
<1>2. at[w] = All => counter >= needed
  BY <1>1 DEF Complete, FutInv, CounterInv
<1>3. Swap(w, at[w], how[w]) /\ pc[w] \in {"idle", "call"}
  BY DEF Complete
<1> QED BY <1>1, <1>2, <1>3, SwapStep

(* The result is stored, and the continuation taken: it is in one place     *)
(* before and after.                                                        *)
LEMMA StoreStep ==
    ASSUME FutInv, NEW t \in Thread, Store(t)
    PROVE  FutInv'
<1> DEFINE c == at[t]
<1>1. TypeOK /\ c \in Context /\ pc[t] = "store"
  BY DEF FutInv, TypeOK, Store
<1>2. /\ stored' = IF how[t] = "cancel" THEN stored ELSE [stored EXCEPT ![c] = how[t]]
      /\ taken' = [taken EXCEPT ![t] = continuation[c]]
      /\ continuation' = [continuation EXCEPT ![c] = NoTask]
      /\ pc' = [pc EXCEPT ![t] = "notify"]
      /\ UNCHANGED <<status, at, how, posted, registered, counter, needed, reader, got,
                     resumed, first>>
  BY DEF Store, readVars
<1>3. Done(c) /\ first[c] = how[t] /\ status[c] = Final(how[t])
  BY <1>1 DEF FutInv, ResultInv
<1> HIDE DEF c
<1>4. /\ pc'[t] = "notify" /\ \A u \in Thread : u # t => pc'[u] = pc[u]
      /\ taken'[t] = continuation[c] /\ \A u \in Thread : u # t => taken'[u] = taken[u]
      /\ continuation'[c] = NoTask /\ \A e \in Context : e # c => continuation'[e] = continuation[e]
      /\ \A e \in Context : e # c => stored'[e] = stored[e]
      /\ how[t] # "cancel" => stored'[c] = how[t]
  BY <1>1, <1>2 DEF TypeOK
<1>5. TypeOK'
  <2>1. how[t] \in Outcome
    BY <1>1 DEF TypeOK
  <2>2. stored' \in [Context -> {"none", "value", "error"}]
    BY <1>1, <1>2, <2>1 DEF TypeOK, Outcome
  <2> QED BY <1>1, <1>2, <2>2 DEF TypeOK
<1>6. ResultInv'
  <2>1. \A u \in Thread : pc'[u] = "store" => pc[u] = "store" /\ u # t
    BY <1>4
  <2>2. \A e \in Read : status[e] = "Complete" /\ ~ Locked(e)' /\ reader[e] # "done" => stored'[e] = first[e]
    <3> SUFFICES ASSUME NEW e \in Read, status[e] = "Complete", ~ Locked(e)', reader[e] # "done"
                 PROVE  stored'[e] = first[e]
      OBVIOUS
    <3>1. CASE e = c
      <4>1. how[t] # "cancel"
        BY <1>3, <3>1 DEF Final
      <4> QED BY <1>3, <1>4, <3>1, <4>1
    <3>2. CASE e # c
      <4>1. \A u \in Thread : ~ (pc'[u] = "store" /\ at[u] = e)
        BY <1>2 DEF Locked
      <4>2. ~ Locked(e)
        BY <1>4, <3>2, <4>1 DEF Locked, c
      <4> QED BY <1>4, <3>2, <4>2, Sorts DEF FutInv, ResultInv
    <3> QED BY <3>1, <3>2
  <2> QED BY <1>2, <2>1, <2>2 DEF FutInv, ResultInv, Done
<1>7. \A k \in Once : Held(k)' => Held(k)
  <2> SUFFICES ASSUME NEW k \in Once, Held(k)' PROVE Held(k)
    OBVIOUS
  <2>1. \/ \E e \in Context : continuation'[e] = k
        \/ \E u \in Thread : taken'[u] = k
        \/ k \in posted
    BY <1>2 DEF Held
  <2>2. k # NoTask
    BY Tasks
  <2> QED BY <1>1, <1>4, <2>1, <2>2 DEF Held
<1>8. TokenInv'
  <2> USE DEF FutInv, TokenInv
  <2>1. \A u, v \in Thread : taken'[u] \in Once /\ taken'[u] = taken'[v] => u = v
    BY <1>1, <1>4
  <2>2. \A e \in Context : continuation'[e] \in Once =>
            e # c /\ continuation'[e] = continuation[e]
    BY <1>4, Tasks
  <2>3. \A e \in Context : continuation[e] \in Once /\ continuation[e] = continuation[c] => e = c
    BY <1>1, Tasks
  <2>4. \A u \in Thread : taken'[u] \in Once => taken'[u] \notin posted
                                             /\ \A e \in Context : continuation'[e] # taken'[u]
    <3> SUFFICES ASSUME NEW u \in Thread, taken'[u] \in Once
                 PROVE  taken'[u] \notin posted /\ \A e \in Context : continuation'[e] # taken'[u]
      OBVIOUS
    <3>1. CASE u = t
      BY <1>1, <1>4, <2>2, <2>3, <3>1
    <3>2. CASE u # t
      BY <1>4, <2>2, <3>2
    <3> QED BY <3>1, <3>2
  <2>5. \A e \in Context : continuation'[e] \in Once => continuation'[e] \notin posted
    BY <2>2
  <2>6. /\ \A e \in Context, f \in Inputs : continuation'[e] = CountOf(f) => e = f
        /\ \A e \in Context : continuation'[e] = ToResume => e = All
    BY <2>2, Tasks
  <2>7. \A f \in Inputs : Held(CountOf(f))' => f \in registered
    <3> SUFFICES ASSUME NEW f \in Inputs, Held(CountOf(f))' PROVE f \in registered
      OBVIOUS
    <3>1. CountOf(f) \in Once
      BY Tasks
    <3>2. Held(CountOf(f))
      <4>1. (CountOf(f))' = CountOf(f)
        BY DEF CountOf
      <4> DEFINE k == CountOf(f)
      <4> HIDE DEF k
      <4>2. k \in Once /\ Held(k)'
        BY <3>1, <4>1 DEF k
      <4> QED BY <1>7, <4>2 DEF k
    <3> QED BY <3>2
  <2>8. \A f \in Inputs \cap registered : ~ Done(f)' => continuation'[f] = CountOf(f)
    <3>1. \A f \in Inputs : ~ Done(f)' => ~ Done(f) /\ f # c /\ f \in Context
      BY <1>2, <1>3, Sorts DEF Done
    <3> QED BY <1>4, <3>1
  <2> QED BY <1>2, <2>1, <2>4, <2>5, <2>6, <2>7, <2>8 DEF CountOf, ToResume
<1>9. Ran \subseteq Ran'
  <2>1. \A f \in Inputs : Held(CountOf(f))' => Held(CountOf(f))
    BY <1>7, Tasks DEF CountOf
  <2> QED BY <1>2, <2>1 DEF Ran
<1>10. CounterInv'
  BY <1>2, <1>4, <1>9, CounterKept DEF Done
<1>11. CoroutineInv'
  <2>1. \A u \in Thread : InCoroutine(u)' <=> InCoroutine(u)
    BY <1>1, <1>4 DEF InCoroutine
  <2>2. Held(ToResume)' => Held(ToResume)
    BY <1>7, Tasks DEF ToResume
  <2>3. (\E u \in Thread : taken'[u] = ToResume) => Done(All)
    <3>1. continuation[c] = ToResume => c = All
      BY <1>1 DEF FutInv, TokenInv
    <3> QED BY <1>3, <1>4, <3>1 DEF FutInv, CoroutineInv
  <2>4. NoTask # ToBegin
    BY DEF NoTask, ToBegin
  <2>5. /\ \A u \in Thread : taken'[u] # ToBegin
        /\ \A e \in Context : continuation'[e] # ToBegin
    BY <1>1, <1>4, <2>4 DEF FutInv, CoroutineInv
  <2> QED BY <1>2, <2>1, <2>2, <2>3, <2>5, Sorts DEF FutInv, CoroutineInv, ToResume, ToBegin, Done
<1> QED BY <1>5, <1>6, <1>8, <1>10, <1>11 DEF FutInv

(* A sleeper is woken. *)
LEMMA NotifyStep ==
    ASSUME FutInv, NEW t \in Thread, Notify(t)
    PROVE  FutInv'
<1>1. /\ pc[t] = "notify" /\ pc' = [pc EXCEPT ![t] = "continue"]
      /\ reader' = [c \in Read |->
                      IF c = at[t] /\ reader[c] = "asleep" THEN "wait" ELSE reader[c]]
      /\ UNCHANGED <<status, stored, continuation, at, how, taken, posted, registered, counter, needed,
                     got, resumed, first>>
  BY DEF Notify, contextVars
<1>2. TypeOK
  BY DEF FutInv
<1>3. /\ pc'[t] = "continue" /\ \A u \in Thread : u # t => pc'[u] = pc[u]
      /\ \A c \in Read : reader'[c] \in {reader[c], "wait"} /\ (reader'[c] # reader[c] => reader[c] = "asleep")
  BY <1>1, <1>2 DEF TypeOK
<1>4. TypeOK'
  BY <1>1, <1>2 DEF TypeOK
<1>5. ResultInv'
  <2>1. \A u \in Thread : pc'[u] = "store" <=> pc[u] = "store"
    BY <1>1, <1>3
  <2>2. \A c : Locked(c)' <=> Locked(c)
    BY <1>1, <2>1 DEF Locked
  <2>3. \A c \in Read : (reader'[c] = "take" <=> reader[c] = "take") /\ (reader'[c] = "done" <=> reader[c] = "done")
    BY <1>3
  <2> QED BY <1>1, <2>1, <2>2, <2>3 DEF FutInv, ResultInv, Done
<1>6. TokenInv' /\ Ran' = Ran /\ (Held(ToResume)' <=> Held(ToResume))
  BY <1>1, TokensKept DEF Done
<1>7. CounterInv'
  BY <1>1, <1>3, <1>6, CounterKept DEF Done
<1>8. CoroutineInv'
  <2>1. \A u \in Thread : InCoroutine(u)' <=> InCoroutine(u)
    BY <1>1, <1>3 DEF InCoroutine
  <2> QED BY <1>1, <1>6, <2>1, Sorts DEF FutInv, CoroutineInv, ToResume, ToBegin, Done
<1> QED BY <1>4, <1>5, <1>6, <1>7, <1>8 DEF FutInv

(* The continuation posts its function. *)
LEMMA ContinueStep ==
    ASSUME FutInv, NEW t \in Thread, Continue(t)
    PROVE  FutInv'
<1>1. /\ pc[t] = "continue"
      /\ posted' = posted \union Runs(taken[t])
      /\ taken' = [taken EXCEPT ![t] = NoTask]
      /\ UNCHANGED <<status, stored, continuation, registered, counter, needed, reader, got,
                     resumed, first>>
      /\ \E s \in {"idle", "done"} : At(t, s, All, "value")
  BY DEF Continue, contextVars, readVars, Returns
<1>2. PICK s \in {"idle", "done"} : At(t, s, All, "value")
  BY <1>1
<1>3. TypeOK /\ All \in Context /\ "value" \in Outcome
  BY Sorts DEF FutInv, Outcome
<1>4. /\ pc'[t] = s /\ at'[t] = All
      /\ \A u \in Thread : u # t => pc'[u] = pc[u] /\ at'[u] = at[u] /\ how'[u] = how[u]
      /\ pc' \in [Thread -> {"idle", "call", "store", "notify", "continue", "register",
                             "await", "suspend", "done"}]
      /\ at' \in [Thread -> Context] /\ how' \in [Thread -> Outcome]
  BY <1>2, <1>3, AtFacts
<1>5. /\ taken'[t] = NoTask /\ \A u \in Thread : u # t => taken'[u] = taken[u]
      /\ \A k \in Once : k \in posted' <=> k \in posted \/ k = taken[t]
      /\ taken[t] \in Task \cup {NoTask}
      /\ ToBegin \in posted' <=> ToBegin \in posted
      /\ taken' \in [Thread -> Task \cup {NoTask}]
  <2>1. taken[t] # ToBegin /\ NoTask # ToBegin
    BY DEF FutInv, CoroutineInv, NoTask, ToBegin
  <2> QED BY <1>1, <1>3, <2>1, Tasks DEF TypeOK, Runs
<1>6. TypeOK'
  <2>1. posted' \subseteq Task
    BY <1>1, <1>3, <1>5 DEF TypeOK, Runs
  <2> QED BY <1>1, <1>3, <1>4, <1>5, <2>1 DEF TypeOK
<1>7. ResultInv'
  BY <1>1, <1>4, ResultKept
<1>8. \A k \in Once : Held(k)' <=> Held(k)
  <2> SUFFICES ASSUME NEW k \in Once PROVE Held(k)' <=> Held(k)
    OBVIOUS
  <2>1. k # NoTask
    BY Tasks
  <2> QED BY <1>1, <1>5, <2>1 DEF Held
<1>9. /\ \A f \in Inputs : Held(CountOf(f))' <=> Held(CountOf(f))
      /\ Held(ToResume)' <=> Held(ToResume)
  BY <1>8, Tasks DEF CountOf, ToResume
<1>10. Ran' = Ran
  BY <1>1, <1>9 DEF Ran
<1>11. TokenInv'
  <2> USE DEF FutInv, TokenInv
  <2>1. /\ \A u, v \in Thread : taken'[u] \in Once /\ taken'[u] = taken'[v] => u = v
        /\ \A u \in Thread : taken'[u] \in Once => taken'[u] \notin posted'
                                                /\ \A c \in Context : continuation'[c] # taken'[u]
    BY <1>1, <1>5, Tasks
  <2>2. \A c \in Context : continuation'[c] \in Once => continuation'[c] \notin posted'
    BY <1>1, <1>5
  <2> QED BY <1>1, <1>9, <2>1, <2>2 DEF CountOf, ToResume, Done
<1>12. CounterInv'
  BY <1>1, <1>4, <1>10, CounterKept DEF Done
<1>13. CoroutineInv'
  <2>1. \A u \in Thread : InCoroutine(u)' <=> InCoroutine(u)
    BY <1>1, <1>4 DEF InCoroutine
  <2>2. /\ \A u \in Thread : taken'[u] # ToBegin
        /\ ToResume \in posted' \/ (\E u \in Thread : taken'[u] = ToResume) =>
              ToResume \in posted \/ (\E u \in Thread : taken[u] = ToResume)
    BY <1>5, Tasks DEF FutInv, CoroutineInv, ToBegin, NoTask
  <2> QED BY <1>1, <1>5, <1>9, <2>1, <2>2, Sorts DEF FutInv, CoroutineInv, ToResume, ToBegin, Done
<1> QED BY <1>6, <1>7, <1>11, <1>12, <1>13 DEF FutInv

-----------------------------------------------------------------------------
(* The threads that block *)

(* Whoever reads changes nothing of the coroutine. *)
LEMMA ReaderKeeps ==
    ASSUME FutInv, UNCHANGED <<status, continuation, pc, at, how, taken, posted, registered, counter,
                               needed, resumed, first>>
    PROVE  TokenInv' /\ CounterInv' /\ CoroutineInv' /\ (\A c : Locked(c)' <=> Locked(c))
<1>1. TokenInv' /\ Ran' = Ran /\ (Held(ToResume)' <=> Held(ToResume))
  BY TokensKept DEF Done
<1>2. CounterInv'
  BY <1>1, CounterKept DEF Done
<1>3. CoroutineInv'
  BY <1>1 DEF FutInv, CoroutineInv, ToResume, ToBegin, Done, InCoroutine
<1> QED BY <1>1, <1>2, <1>3 DEF Locked

(* Get looks at the status once. *)
LEMMA GetStep ==
    ASSUME FutInv, NEW c \in Read, Get(c)
    PROVE  FutInv'
<1>1. /\ reader[c] = "get"
      /\ reader' = [reader EXCEPT ![c] = CASE status[c] = "Pending"  -> "wait"
                                           [] status[c] = "Complete" -> "take"
                                           [] status[c] = "Canceled" -> "done"]
      /\ got' = IF status[c] = "Canceled" THEN [got EXCEPT ![c] = "cancel"] ELSE got
      /\ UNCHANGED <<status, stored, continuation, pc, at, how, taken, posted, registered, counter,
                     needed, resumed, first>>
  BY DEF Get, Reads, contextVars, threadVars
<1>2. TypeOK /\ c \in Context
  BY Sorts DEF FutInv
<1>3. \/ status[c] = "Pending" /\ reader' = [reader EXCEPT ![c] = "wait"]
      \/ status[c] = "Complete" /\ reader' = [reader EXCEPT ![c] = "take"]
      \/ status[c] = "Canceled" /\ reader' = [reader EXCEPT ![c] = "done"]
  <2>1. status[c] \in {"Pending", "Complete", "Canceled"}
    BY <1>2 DEF TypeOK
  <2> QED BY <1>1, <2>1
<1>4. TokenInv' /\ CounterInv' /\ CoroutineInv' /\ (\A d : Locked(d)' <=> Locked(d))
  BY <1>1, ReaderKeeps
<1>5. TypeOK'
  BY <1>1, <1>2, <1>3 DEF TypeOK
<1>6. status[c] = "Canceled" => first[c] = "cancel"
  <2>1. status[c] = "Canceled" => first[c] # "none" /\ Final(first[c]) = "Canceled"
    BY <1>2 DEF FutInv, ResultInv, Done
  <2> QED BY <2>1 DEF Final
<1>7. /\ \A d \in Read : d # c => reader'[d] = reader[d] /\ got'[d] = got[d]
      /\ reader'[c] = "take" => status[c] = "Complete"
      /\ reader'[c] = "done" => status[c] = "Canceled" /\ got'[c] = "cancel"
  BY <1>1, <1>2, <1>3 DEF TypeOK
<1>8. ResultInv'
  <2>1. \A d \in Read : reader'[d] = "take" => status'[d] = "Complete"
    BY <1>1, <1>7 DEF FutInv, ResultInv
  <2>2. \A d \in Read : reader'[d] = "done" => Done(d)' /\ got'[d] = first'[d]
    BY <1>1, <1>6, <1>7 DEF FutInv, ResultInv, Done
  <2>3. \A d \in Read : status'[d] = "Complete" /\ ~ Locked(d)' /\ reader'[d] # "done" => stored'[d] = first'[d]
    BY <1>1, <1>4, <1>7 DEF FutInv, ResultInv
  <2> QED BY <1>1, <2>1, <2>2, <2>3 DEF FutInv, ResultInv, Done
<1> QED BY <1>4, <1>5, <1>8 DEF FutInv

(* A reader sleeps, or finds the context completed. *)
LEMMA WaitStep ==
    ASSUME FutInv, NEW c \in Read, Wait(c)
    PROVE  FutInv'
<1>1. /\ reader[c] = "wait"
      /\ reader' = [reader EXCEPT ![c] = IF status[c] = "Pending" THEN "asleep" ELSE "get"]
      /\ UNCHANGED <<status, stored, continuation, pc, at, how, taken, posted, registered, counter,
                     needed, resumed, first, got>>
  BY DEF Wait, Reads, contextVars, threadVars
<1>2. TypeOK /\ c \in Context
  BY Sorts DEF FutInv
<1>3. TokenInv' /\ CounterInv' /\ CoroutineInv' /\ (\A d : Locked(d)' <=> Locked(d))
  BY <1>1, ReaderKeeps
<1>4. TypeOK'
  BY <1>1, <1>2 DEF TypeOK
<1>5. \A d \in Read : reader'[d] = reader[d] \/ (d = c /\ reader'[d] \in {"asleep", "get"})
  BY <1>1, <1>2 DEF TypeOK
<1>6. ResultInv'
  BY <1>1, <1>3, <1>5 DEF FutInv, ResultInv, Done
<1> QED BY <1>3, <1>4, <1>6 DEF FutInv

(* The lock is free, so what is stored is the first result. *)
LEMMA TakeStep ==
    ASSUME FutInv, NEW c \in Read, Take(c)
    PROVE  FutInv'
<1>1. /\ reader[c] = "take" /\ ~ Locked(c)
      /\ got' = [got EXCEPT ![c] = stored[c]]
      /\ stored' = [stored EXCEPT ![c] = After(c)]
      /\ reader' = [reader EXCEPT ![c] = "done"]
      /\ UNCHANGED <<status, continuation, pc, at, how, taken, posted, registered, counter,
                     needed, resumed, first>>
  BY DEF Take, Reads, Unlocked, threadVars
<1>2. TypeOK /\ c \in Context /\ All \in Context
  BY Sorts DEF FutInv
<1>3. TokenInv' /\ CounterInv' /\ CoroutineInv' /\ (\A d : Locked(d)' <=> Locked(d))
  BY <1>1, ReaderKeeps
<1>4. stored[c] = first[c] /\ status[c] = "Complete"
  BY <1>1 DEF FutInv, ResultInv
<1>5. /\ \A d \in Read : d # c => reader'[d] = reader[d] /\ got'[d] = got[d] /\ stored'[d] = stored[d]
      /\ reader'[c] = "done" /\ got'[c] = first[c]
  BY <1>1, <1>2, <1>4, Sorts DEF TypeOK
<1>6. TypeOK'
  <2>1. After(c) \in {"none", "value", "error"} /\ stored[c] \in {"none", "value", "error"}
    BY <1>2 DEF TypeOK, After
  <2>2. stored' \in [Context -> {"none", "value", "error"}]
    BY <1>1, <1>2, <2>1 DEF TypeOK
  <2>3. got' \in [Read -> {"none", "value", "error", "cancel"}]
    BY <1>1, <1>2, <2>1 DEF TypeOK
  <2> QED BY <1>1, <1>2, <2>2, <2>3 DEF TypeOK
<1>7. ResultInv'
  <2>1. \A d \in Read : reader'[d] = "take" => status'[d] = "Complete"
    BY <1>1, <1>5 DEF FutInv, ResultInv
  <2>2. \A d \in Read : reader'[d] = "done" => Done(d)' /\ got'[d] = first'[d]
    BY <1>1, <1>4, <1>5 DEF FutInv, ResultInv, Done
  <2>3. \A d \in Read : status'[d] = "Complete" /\ ~ Locked(d)' /\ reader'[d] # "done" => stored'[d] = first'[d]
    BY <1>1, <1>3, <1>5 DEF FutInv, ResultInv
  <2> QED BY <1>1, <2>1, <2>2, <2>3 DEF FutInv, ResultInv, Done
<1> QED BY <1>3, <1>6, <1>7 DEF FutInv

-----------------------------------------------------------------------------
(* The coroutine *)

(* A thread's place changes to one in the code. *)
LEMMA PcFacts ==
    ASSUME TypeOK, NEW w \in Thread, NEW s, pc' = [pc EXCEPT ![w] = s],
           s \in {"idle", "call", "store", "notify", "continue", "register", "await", "suspend", "done"}
    PROVE  /\ pc'[w] = s /\ \A u \in Thread : u # w => pc'[u] = pc[u]
           /\ pc' \in [Thread -> {"idle", "call", "store", "notify", "continue", "register",
                                  "await", "suspend", "done"}]
BY DEF TypeOK

(* The coroutine begins, once. *)
LEMMA BeginStep ==
    ASSUME FutInv, NEW w \in Workers, Begin(w)
    PROVE  FutInv'
<1>1. /\ pc[w] = "idle" /\ ToBegin \in posted /\ posted' = posted \ {ToBegin}
      /\ pc' = [pc EXCEPT ![w] = "register"]
      /\ UNCHANGED <<status, stored, continuation, at, how, taken, registered, counter, needed,
                     reader, got, resumed, first>>
  BY DEF Begin, Start, Started, contextVars, readVars, ToBegin
<1>2. TypeOK /\ w \in Thread /\ w \notin Callers
  BY Sorts DEF FutInv
<1>3. /\ pc'[w] = "register" /\ \A u \in Thread : u # w => pc'[u] = pc[u]
      /\ pc' \in [Thread -> {"idle", "call", "store", "notify", "continue", "register",
                             "await", "suspend", "done"}]
  BY <1>1, <1>2, PcFacts
<1>4. TypeOK'
  BY <1>1, <1>2, <1>3 DEF TypeOK
<1>5. ResultInv'
  BY <1>1, <1>3, ResultKept
<1>6. \A k \in Once : k \in posted' <=> k \in posted
  BY <1>1, Tasks DEF ToBegin
<1>7. TokenInv' /\ Ran' = Ran /\ (Held(ToResume)' <=> Held(ToResume))
  BY <1>1, <1>6, TokensKept DEF Done
<1>8. CounterInv'
  BY <1>1, <1>3, <1>7, CounterKept DEF Done
<1>9. CoroutineInv'
  <2>1. \A u \in Thread : InCoroutine(u)' <=> u = w \/ InCoroutine(u)
    BY <1>3 DEF InCoroutine
  <2>2. resumed = 0 /\ ~ Held(ToResume) /\ \A u \in Thread : ~ InCoroutine(u)
    BY <1>1, Sorts DEF FutInv, CoroutineInv, Thread
  <2>3. \A u \in Workers : InCoroutine(u)' <=> u = w
    BY <2>1, <2>2, Sorts
  <2>4. ~ (ToResume \in posted' \/ \E u \in Thread : taken'[u] = ToResume)
    BY <1>1, <2>2 DEF Held
  <2> QED BY <1>1, <1>2, <1>7, <2>1, <2>2, <2>3, <2>4, Sorts
             DEF FutInv, CoroutineInv, ToResume, ToBegin, Done
<1> QED BY <1>4, <1>5, <1>7, <1>8, <1>9 DEF FutInv

(* A continuation is set: it is kept or posted, in one place. *)
LEMMA Continuations ==
    ASSUME TypeOK, NEW c \in Context, NEW k \in Task, SetContinuation(c, k)
    PROVE  /\ \A d \in Context : d # c => continuation'[d] = continuation[d]
           /\ continuation' \in [Context -> Task \union {NoTask}] /\ posted' \subseteq Task
           /\ \/ ~ Done(c) /\ continuation'[c] = k /\ posted' = posted
              \/ Done(c) /\ continuation' = continuation /\ posted' = posted \cup {k}
BY DEF TypeOK, SetContinuation, Done

(* A future gets its continuation: a count is then in one place. *)
LEMMA RegisterStep ==
    ASSUME FutInv, NEW w \in Workers, NEW f \in Source, Register(w, f)
    PROVE  FutInv'
<1> DEFINE k == Continuing(f)
<1>1. /\ pc[w] = "register" /\ f \notin registered
      /\ SetContinuation(f, k)
      /\ registered' = registered \union {f}
      /\ \E s \in {"await", "register"} : pc' = [pc EXCEPT ![w] = s]
      /\ UNCHANGED <<status, stored, at, how, taken, counter, needed, reader, got, resumed, first>>
  BY DEF Register, readVars
<1>2. PICK s \in {"await", "register"} : pc' = [pc EXCEPT ![w] = s]
  BY <1>1
<1>3. TypeOK /\ w \in Thread /\ w \notin Callers /\ f \in Context /\ f # All
  BY Sorts DEF FutInv
<1>4. /\ pc'[w] = s /\ \A u \in Thread : u # w => pc'[u] = pc[u]
      /\ pc' \in [Thread -> {"idle", "call", "store", "notify", "continue", "register",
                             "await", "suspend", "done"}]
  BY <1>2, <1>3, PcFacts
<1>5. /\ k \in Task /\ k # ToResume /\ k # ToBegin
      /\ f \in Inputs => k = CountOf(f)
      /\ f \notin Inputs => k \notin Once
  <2>1. CASE f \in Inputs
    BY <2>1, Tasks DEF Continuing, CountOf, ToBegin
  <2>2. CASE f \notin Inputs
    <3>1. PICK v \in Thens : Parent[v] = f
      BY <2>2 DEF Inputs
    <3>2. (CHOOSE t \in Thens : Parent[t] = f) \in Thens
      BY <3>1
    <3>3. PICK u \in Thens : k = <<"then", u>>
      BY <2>2, <3>2 DEF Continuing
    <3> HIDE DEF k
    <3>4. k # ToResume /\ k # ToBegin
      BY <3>3 DEF ToResume, ToBegin
    <3>5. k \in Task /\ k \notin Once
      <4>1. u \in Context
        BY <3>3, Sorts
      <4> QED BY <3>3, <4>1, Tasks
    <3> QED BY <2>2, <3>4, <3>5
  <2> QED BY <2>1, <2>2
<1> HIDE DEF k
<1>6. /\ \A d \in Context : d # f => continuation'[d] = continuation[d]
      /\ continuation' \in [Context -> Task \union {NoTask}] /\ posted' \subseteq Task
      /\ \/ ~ Done(f) /\ continuation'[f] = k /\ posted' = posted
         \/ Done(f) /\ continuation' = continuation /\ posted' = posted \cup {k}
  BY <1>1, <1>3, <1>5, Continuations
<1>7. TypeOK'
  BY <1>1, <1>3, <1>4, <1>6 DEF TypeOK
<1>8. ResultInv'
  BY <1>1, <1>4, ResultKept
<1>9. /\ \A x \in Once : Held(x)' => Held(x) \/ x = k
      /\ k \in Once => ~ Held(k)
  <2>1. k \in Once => k = CountOf(f) /\ f \in Inputs
    BY <1>5
  <2>2. f \in Inputs => ~ Held(CountOf(f))
    BY <1>1 DEF FutInv, TokenInv
  <2>3. k \in Once => ~ Held(k)
    BY <2>1, <2>2
  <2>4. ASSUME NEW x \in Once, Held(x)'
        PROVE  Held(x) \/ x = k
    BY <1>1, <1>6, <2>4 DEF Held
  <2> QED BY <2>3, <2>4
<1>10. TokenInv'
  <2> USE DEF FutInv, TokenInv
  <2>1. /\ k \in Once => /\ \A c \in Context : continuation[c] # k
                         /\ \A t \in Thread : taken[t] # k
                         /\ k \notin posted
    BY <1>9 DEF Held
  <2>2. /\ \A t, u \in Thread : taken'[t] \in Once /\ taken'[t] = taken'[u] => t = u
        /\ \A t \in Thread : taken'[t] \in Once => taken'[t] \notin posted'
                                                /\ \A c \in Context : continuation'[c] # taken'[t]
    BY <1>1, <1>6, <2>1
  <2>3. \A c \in Context : continuation'[c] \in Once => continuation'[c] \notin posted'
    BY <1>6, <2>1
  <2>4. /\ \A c \in Context, g \in Inputs : continuation'[c] = CountOf(g) => c = g
        /\ \A c \in Context : continuation'[c] = ToResume => c = All
    BY <1>5, <1>6, Tasks
  <2>5. \A g \in Inputs : Held(CountOf(g))' => g \in registered'
    <3> SUFFICES ASSUME NEW g \in Inputs, Held(CountOf(g))' PROVE g \in registered'
      OBVIOUS
    <3>1. Held(CountOf(g)) \/ CountOf(g) = k
      BY <1>9, Tasks DEF CountOf
    <3>2. CountOf(g) = k => g = f
      BY <1>5, Tasks
    <3> QED BY <1>1, <3>1, <3>2
  <2>6. \A g \in Inputs \cap registered' : ~ Done(g)' => continuation'[g] = CountOf(g)
    <3>1. \A g \in Inputs : ~ Done(g)' => ~ Done(g) /\ g \in Context
      BY <1>1, Sorts DEF Done
    <3> QED BY <1>1, <1>5, <1>6, <3>1
  <2> QED BY <2>2, <2>3, <2>4, <2>5, <2>6 DEF CountOf, ToResume
<1>11. Ran \subseteq Ran'
  <2>1. \A g \in Inputs \cap registered : Held(CountOf(g))' => Held(CountOf(g))
    <3> SUFFICES ASSUME NEW g \in Inputs \cap registered, Held(CountOf(g))' PROVE Held(CountOf(g))
      OBVIOUS
    <3>1. Held(CountOf(g)) \/ CountOf(g) = k
      BY <1>9, Tasks DEF CountOf
    <3>2. CountOf(g) = k => g = f
      BY <1>5, Tasks
    <3> QED BY <1>1, <3>1, <3>2
  <2> QED BY <1>1, <2>1 DEF Ran
<1>12. CounterInv'
  BY <1>1, <1>4, <1>11, CounterKept DEF Done
<1>13. CoroutineInv'
  <2>1. \A u \in Thread : InCoroutine(u)' <=> InCoroutine(u)
    BY <1>1, <1>4 DEF InCoroutine
  <2>2. (Held(ToResume))' => Held(ToResume)
    BY <1>5, <1>9, Tasks DEF ToResume
  <2>3. /\ ToBegin \in posted' <=> ToBegin \in posted
        /\ ToResume \in posted' <=> ToResume \in posted
        /\ \A c \in Context : continuation'[c] # ToBegin
    BY <1>5, <1>6 DEF FutInv, CoroutineInv
  <2> QED BY <1>1, <2>1, <2>2, <2>3, Sorts DEF FutInv, CoroutineInv, ToResume, ToBegin, Done
<1> QED BY <1>7, <1>8, <1>10, <1>12, <1>13 DEF FutInv

(* await_ready: the coroutine goes on at once when All is completed. *)
LEMMA AwaitReadyStep ==
    ASSUME FutInv, NEW w \in Workers, AwaitReady(w)
    PROVE  FutInv'
<1>1. /\ pc[w] = "await"
      /\ UNCHANGED <<status, stored, continuation, at, how, taken, posted, registered, counter, needed,
                     reader, got, first>>
  BY DEF AwaitReady, contextVars, readVars
<1>2. PICK s \in {"idle", "suspend"} :
          /\ pc' = [pc EXCEPT ![w] = s]
          /\ s = "suspend" => resumed' = resumed
          /\ s = "idle" => Done(All) /\ resumed' = resumed + 1
  BY DEF AwaitReady, Resumes, Done
<1>3. TypeOK /\ w \in Thread /\ w \notin Callers
  BY Sorts DEF FutInv
<1>4. /\ pc'[w] = s /\ \A u \in Thread : u # w => pc'[u] = pc[u]
      /\ pc' \in [Thread -> {"idle", "call", "store", "notify", "continue", "register",
                             "await", "suspend", "done"}]
  BY <1>2, <1>3, PcFacts
<1>5. resumed = 0 /\ ~ Held(ToResume) /\ \A v \in Workers : InCoroutine(v) => v = w
  BY <1>1 DEF FutInv, CoroutineInv, InCoroutine
<1>6. resumed' \in {0, 1} /\ (resumed' = 1 => s = "idle" /\ Done(All))
  BY <1>2, <1>5
<1>7. TypeOK'
  BY <1>1, <1>3, <1>4, <1>6 DEF TypeOK
<1>8. ResultInv'
  BY <1>1, <1>4, ResultKept
<1>9. TokenInv' /\ Ran' = Ran /\ (Held(ToResume)' <=> Held(ToResume))
  BY <1>1, TokensKept DEF Done
<1>10. CounterInv'
  BY <1>1, <1>4, <1>9, CounterKept DEF Done
<1>11. CoroutineInv'
  <2>1. \A u \in Thread : InCoroutine(u)' => InCoroutine(u)
    BY <1>1, <1>4 DEF InCoroutine
  <2>2. s = "idle" => ~ InCoroutine(w)'
    BY <1>4 DEF InCoroutine
  <2>3. ToBegin \notin posted
    BY <1>1 DEF FutInv, CoroutineInv, InCoroutine
  <2>4. \A v \in Workers : InCoroutine(v)' => v = w /\ resumed' = 0
    BY <1>5, <1>6, <2>1, <2>2, Sorts
  <2>5. ~ (ToResume \in posted \/ \E u \in Thread : taken[u] = ToResume)
    BY <1>5 DEF Held
  <2> QED BY <1>1, <1>5, <1>6, <1>9, <2>1, <2>3, <2>4, <2>5, Sorts
             DEF FutInv, CoroutineInv, ToResume, ToBegin, Done
<1> QED BY <1>7, <1>8, <1>9, <1>10, <1>11 DEF FutInv

(* The coroutine leaves what resumes it to All. *)
LEMMA AwaitSuspendStep ==
    ASSUME FutInv, NEW w \in Workers, AwaitSuspend(w)
    PROVE  FutInv'
<1>1. /\ pc[w] = "suspend" /\ SetContinuation(All, ToResume)
      /\ pc' = [pc EXCEPT ![w] = "idle"]
      /\ UNCHANGED <<status, stored, at, how, taken, registered, counter, needed, reader, got,
                     resumed, first>>
  BY DEF AwaitSuspend, readVars, ToResume
<1>2. /\ TypeOK /\ w \in Thread /\ w \notin Callers /\ All \in Context /\ All \notin Inputs
      /\ ToResume \in Task /\ ToResume \in Once
  BY Sorts, Tasks DEF FutInv
<1>3. /\ pc'[w] = "idle" /\ \A u \in Thread : u # w => pc'[u] = pc[u]
      /\ pc' \in [Thread -> {"idle", "call", "store", "notify", "continue", "register",
                             "await", "suspend", "done"}]
  BY <1>1, <1>2, PcFacts
<1>4. /\ \A d \in Context : d # All => continuation'[d] = continuation[d]
      /\ continuation' \in [Context -> Task \union {NoTask}] /\ posted' \subseteq Task
      /\ \/ ~ Done(All) /\ continuation'[All] = ToResume /\ posted' = posted
         \/ Done(All) /\ continuation' = continuation /\ posted' = posted \cup {ToResume}
  BY <1>1, <1>2, Continuations
<1>5. resumed = 0 /\ ~ Held(ToResume) /\ \A v \in Workers : InCoroutine(v) => v = w
  BY <1>1 DEF FutInv, CoroutineInv, InCoroutine
<1>6. /\ \A c \in Context : continuation[c] # ToResume
      /\ \A t \in Thread : taken[t] # ToResume
      /\ ToResume \notin posted
  BY <1>5 DEF Held
<1>7. TypeOK'
  BY <1>1, <1>2, <1>3, <1>4 DEF TypeOK
<1>8. ResultInv'
  BY <1>1, <1>3, ResultKept
<1>9. \A f \in Inputs : CountOf(f) # ToResume
  BY Tasks
<1>10. \A f \in Inputs : (Held(CountOf(f)))' => Held(CountOf(f))
  <2> SUFFICES ASSUME NEW f \in Inputs, (Held(CountOf(f)))' PROVE Held(CountOf(f))
    OBVIOUS
  <2>1. \/ \E c \in Context : continuation'[c] = CountOf(f)
        \/ \E t \in Thread : taken[t] = CountOf(f)
        \/ CountOf(f) \in posted'
    BY <1>1 DEF Held, CountOf
  <2>2. CASE \E c \in Context : continuation'[c] = CountOf(f)
    BY <1>4, <1>9, <2>2 DEF Held
  <2>3. CASE \E t \in Thread : taken[t] = CountOf(f)
    BY <2>3 DEF Held
  <2>4. CASE CountOf(f) \in posted'
    BY <1>4, <1>9, <2>4 DEF Held
  <2> QED BY <2>1, <2>2, <2>3, <2>4
<1>11. TokenInv'
  <2> USE DEF FutInv, TokenInv
  <2>1. /\ \A t, u \in Thread : taken'[t] \in Once /\ taken'[t] = taken'[u] => t = u
        /\ \A t \in Thread : taken'[t] \in Once => taken'[t] \notin posted'
                                                /\ \A c \in Context : continuation'[c] # taken'[t]
    BY <1>1, <1>4, <1>6
  <2>2. \A c \in Context : continuation'[c] \in Once => continuation'[c] \notin posted'
    BY <1>4, <1>6
  <2>3. /\ \A c \in Context, g \in Inputs : continuation'[c] = CountOf(g) => c = g
        /\ \A c \in Context : continuation'[c] = ToResume => c = All
    BY <1>4, <1>9, <1>6
  <2>4. \A g \in Inputs : (Held(CountOf(g)))' => g \in registered'
    BY <1>1, <1>10
  <2>5. \A g \in Inputs \cap registered' : ~ (Done(g))' => continuation'[g] = CountOf(g)
    BY <1>1, <1>2, <1>4, Sorts DEF Done
  <2> QED BY <2>1, <2>2, <2>3, <2>4, <2>5 DEF CountOf, ToResume
<1>12. Ran \subseteq Ran'
  BY <1>1, <1>10 DEF Ran
<1>13. CounterInv'
  BY <1>1, <1>3, <1>12, CounterKept DEF Done
<1>14. CoroutineInv'
  <2>1. \A u \in Thread : (InCoroutine(u))' => InCoroutine(u) /\ u # w
    BY <1>1, <1>3 DEF InCoroutine
  <2>2. \A v \in Workers : ~ (InCoroutine(v))'
    BY <1>5, <2>1, Sorts
  <2>3. /\ ToBegin \notin posted /\ ToBegin # ToResume
    BY <1>1 DEF FutInv, CoroutineInv, InCoroutine, ToBegin, ToResume
  <2>4. ToBegin \notin posted' /\ \A c \in Context : continuation'[c] # ToBegin
    BY <1>4, <2>3 DEF FutInv, CoroutineInv
  <2>5. ToResume \in posted' \/ (\E t \in Thread : taken'[t] = ToResume) => Done(All)
    BY <1>1, <1>4, <1>6
  <2> QED BY <1>1, <1>5, <2>1, <2>2, <2>4, <2>5, Sorts
             DEF FutInv, CoroutineInv, ToResume, ToBegin, Done
<1> QED BY <1>7, <1>8, <1>11, <1>13, <1>14 DEF FutInv

(* A function that is to run once runs: nobody holds it any more. *)
LEMMA OnceRuns ==
    ASSUME FutInv, NEW k \in Once, k \in posted, posted' = posted \ {k},
           UNCHANGED <<continuation, taken, registered>>,
           \A c \in Context : Done(c) => (Done(c))'
    PROVE  /\ TokenInv' /\ ~ Held(k)'
           /\ \A j \in Once : j # k => (Held(j)' <=> Held(j))
<1>1. /\ \A c \in Context : continuation[c] # k
      /\ \A t \in Thread : taken[t] # k
  BY DEF FutInv, TokenInv
<1>2. ~ Held(k)'
  BY <1>1 DEF Held
<1>3. \A j \in Once : j # k => (Held(j)' <=> Held(j))
  BY DEF Held
<1>4. \A f \in Inputs : (Held(CountOf(f)))' => Held(CountOf(f))
  <2> SUFFICES ASSUME NEW f \in Inputs, (Held(CountOf(f)))' PROVE Held(CountOf(f))
    OBVIOUS
  <2> QED BY DEF Held, CountOf
<1>5. TokenInv'
  BY <1>4, Sorts DEF FutInv, TokenInv, CountOf, ToResume
<1> QED BY <1>2, <1>3, <1>5

(* The coroutine goes on: it did not before, and All is completed. *)
LEMMA ResumeStep ==
    ASSUME FutInv, NEW w \in Workers, Resume(w)
    PROVE  FutInv'
<1>1. /\ ToResume \in posted /\ posted' = posted \ {ToResume}
      /\ resumed' = resumed + 1
      /\ UNCHANGED <<status, stored, continuation, pc, at, how, taken, registered, counter, needed,
                     reader, got, first>>
  BY DEF Resume, Start, Started, Resumes, contextVars, threadVars, readVars, ToResume
<1>2. TypeOK /\ ToResume \in Once
  BY Tasks DEF FutInv
<1>3. resumed = 0 /\ Done(All) /\ ToBegin \notin posted /\ \A v \in Workers : ~ InCoroutine(v)
  BY <1>1 DEF FutInv, CoroutineInv, Held
<1>4. TypeOK'
  BY <1>1, <1>2 DEF TypeOK
<1>5. ResultInv'
  BY <1>1, ResultKept
<1>6. /\ TokenInv' /\ ~ Held(ToResume)'
      /\ \A j \in Once : j # ToResume => (Held(j)' <=> Held(j))
  BY <1>1, <1>2, OnceRuns DEF Done
<1>7. Ran' = Ran
  <2>1. \A f \in Inputs : CountOf(f) \in Once /\ CountOf(f) # ToResume
    BY Tasks
  <2>2. \A f \in Inputs : (Held(CountOf(f)))' <=> Held(CountOf(f))
    BY <1>6, <2>1 DEF CountOf
  <2> QED BY <1>1, <2>2 DEF Ran
<1>8. CounterInv'
  BY <1>1, <1>7, CounterKept DEF Done
<1>9. CoroutineInv'
  <2>1. \A u \in Thread : InCoroutine(u)' <=> InCoroutine(u)
    BY <1>1 DEF InCoroutine
  <2>2. ~ (Held(ToResume))' /\ ToBegin' = ToBegin /\ ToBegin \notin posted' /\ ToResume \notin posted'
    BY <1>1, <1>3, <1>6 DEF ToResume, ToBegin
  <2>3. \A t \in Thread : taken'[t] # ToResume
    BY <2>2 DEF Held, ToResume
  <2>4. resumed' = 1 /\ (Done(All))'
    BY <1>1, <1>3 DEF Done
  <2>5. \A v \in Workers : ~ (InCoroutine(v))'
    BY <1>3, <2>1, Sorts
  <2>6. /\ \A t \in Callers : ~ (InCoroutine(t))'
        /\ \A t \in Thread : taken'[t] # ToBegin
        /\ \A c \in Context : continuation'[c] # ToBegin
    BY <1>1, <2>1, Sorts DEF FutInv, CoroutineInv
  <2> QED BY <2>2, <2>3, <2>4, <2>5, <2>6 DEF CoroutineInv, ToResume, ToBegin
<1> QED BY <1>4, <1>5, <1>6, <1>8, <1>9 DEF FutInv

(* An idle thread calls OnSuccess for a source: the coroutine is elsewhere. *)
LEMMA CallsStep ==
    ASSUME FutInv, NEW w \in Workers, NEW k \in Task, NEW c \in Source, NEW h \in Outcome,
           pc[w] = "idle", At(w, "call", c, h), k \notin Once, k # ToBegin,
           posted' = posted \ {k},
           UNCHANGED <<status, continuation, taken, registered, counter, needed, resumed, first>>
    PROVE  /\ TokenInv' /\ CounterInv' /\ CoroutineInv' /\ (\A d : Locked(d)' <=> Locked(d))
           /\ pc'[w] = "call" /\ \A u \in Thread : u # w => pc'[u] = pc[u] /\ at'[u] = at[u] /\ how'[u] = how[u]
           /\ pc' \in [Thread -> {"idle", "call", "store", "notify", "continue", "register",
                                  "await", "suspend", "done"}]
           /\ at' \in [Thread -> Context] /\ how' \in [Thread -> Outcome] /\ posted' \subseteq Task
<1>1. TypeOK /\ w \in Thread /\ c \in Context /\ c # All
  BY Sorts DEF FutInv
<1>2. /\ pc'[w] = "call" /\ at'[w] = c
      /\ \A u \in Thread : u # w => pc'[u] = pc[u] /\ at'[u] = at[u] /\ how'[u] = how[u]
      /\ pc' \in [Thread -> {"idle", "call", "store", "notify", "continue", "register",
                             "await", "suspend", "done"}]
      /\ at' \in [Thread -> Context] /\ how' \in [Thread -> Outcome]
  BY <1>1, AtFacts
<1>3. posted' \subseteq Task
  BY <1>1 DEF TypeOK
<1>4. \A j \in Once : j \in posted' <=> j \in posted
  OBVIOUS
<1>5. TokenInv' /\ Ran' = Ran /\ (Held(ToResume)' <=> Held(ToResume))
  BY <1>4, TokensKept DEF Done
<1>6. CounterInv'
  BY <1>1, <1>2, <1>5, CounterKept DEF Done
<1>7. \A d : Locked(d)' <=> Locked(d)
  BY <1>2 DEF Locked
<1>8. CoroutineInv'
  <2>1. \A u \in Thread : InCoroutine(u)' <=> InCoroutine(u)
    BY <1>2 DEF InCoroutine
  <2>2. /\ ToBegin \in posted' <=> ToBegin \in posted
        /\ ToResume \in posted' <=> ToResume \in posted
    BY Tasks
  <2> QED BY <1>5, <2>1, <2>2, Sorts DEF FutInv, CoroutineInv, ToResume, ToBegin, Done
<1> QED BY <1>2, <1>3, <1>5, <1>6, <1>7, <1>8

(* StartAsync runs its callable. *)
LEMMA RunAsyncStep ==
    ASSUME FutInv, NEW w \in Workers, NEW f \in Asyncs, RunAsync(w, f)
    PROVE  FutInv'
<1> DEFINE k == <<"async", f>>
<1>1. /\ pc[w] = "idle" /\ posted' = posted \ {k} /\ At(w, "call", f, Result(f))
      /\ UNCHANGED <<status, stored, continuation, taken, registered, counter, needed, reader, got,
                     resumed, first>>
  BY DEF RunAsync, Start, Started, contextVars, readVars
<1>2. k \in Task /\ k \notin Once /\ k # ToBegin
  BY Sorts, Tasks DEF ToBegin
<1>3. f \in Source /\ Result(f) \in Outcome /\ TypeOK
  BY Sorts DEF Result, Outcome, FutInv
<1> HIDE DEF k
<1>4. /\ TokenInv' /\ CounterInv' /\ CoroutineInv'
      /\ pc'[w] = "call" /\ \A u \in Thread : u # w => pc'[u] = pc[u] /\ at'[u] = at[u] /\ how'[u] = how[u]
      /\ pc' \in [Thread -> {"idle", "call", "store", "notify", "continue", "register",
                             "await", "suspend", "done"}]
      /\ at' \in [Thread -> Context] /\ how' \in [Thread -> Outcome] /\ posted' \subseteq Task
  BY <1>1, <1>2, <1>3, CallsStep
<1>5. TypeOK'
  BY <1>1, <1>3, <1>4 DEF TypeOK
<1>6. ResultInv'
  BY <1>1, <1>4, ResultKept
<1> QED BY <1>4, <1>5, <1>6 DEF FutInv

(* Then takes the result of its parent, which nobody else reads. *)
LEMMA RunThenStep ==
    ASSUME FutInv, NEW w \in Workers, NEW f \in Thens, RunThen(w, f)
    PROVE  FutInv'
<1> DEFINE k == <<"then", f>>
           h == IF stored[Parent[f]] = "value" THEN Result(f) ELSE "error"
<1>1. /\ pc[w] = "idle" /\ posted' = posted \ {k} /\ At(w, "call", f, h)
      /\ stored' = [stored EXCEPT ![Parent[f]] = "none"]
      /\ UNCHANGED <<status, continuation, taken, registered, counter, needed, reader, got,
                     resumed, first>>
  BY DEF RunThen, Start, Started, readVars
<1>2. k \in Task /\ k \notin Once /\ k # ToBegin
  BY Sorts, Tasks DEF ToBegin
<1>3. f \in Source /\ h \in Outcome /\ TypeOK
  BY Sorts DEF Result, Outcome, FutInv
<1> HIDE DEF k, h
<1>4. /\ TokenInv' /\ CounterInv' /\ CoroutineInv' /\ (\A d : Locked(d)' <=> Locked(d))
      /\ pc'[w] = "call" /\ \A u \in Thread : u # w => pc'[u] = pc[u] /\ at'[u] = at[u] /\ how'[u] = how[u]
      /\ pc' \in [Thread -> {"idle", "call", "store", "notify", "continue", "register",
                             "await", "suspend", "done"}]
      /\ at' \in [Thread -> Context] /\ how' \in [Thread -> Outcome] /\ posted' \subseteq Task
  BY <1>1, <1>2, <1>3, CallsStep
<1>5. stored' \in [Context -> {"none", "value", "error"}]
  BY <1>1, <1>3 DEF TypeOK
<1>6. TypeOK'
  BY <1>1, <1>3, <1>4, <1>5 DEF TypeOK
<1>7. \A c \in Read : stored'[c] = stored[c]
  BY <1>1, <1>3, Sorts DEF TypeOK
<1>8. \A u \in Thread : pc'[u] = "store" => u # w /\ pc[u] = "store" /\ at'[u] = at[u] /\ how'[u] = how[u]
  BY <1>4
<1>9. ResultInv'
  <2>1. \A c \in Read : status'[c] = "Complete" /\ ~ Locked(c)' /\ reader'[c] # "done" => stored'[c] = first'[c]
    BY <1>1, <1>4, <1>7 DEF FutInv, ResultInv
  <2> QED BY <1>1, <1>8, <2>1 DEF FutInv, ResultInv, Done
<1> QED BY <1>4, <1>6, <1>9 DEF FutInv

(* One more count has run, and the counter counts it. *)
LEMMA RunCountStep ==
    ASSUME FutInv, NEW w \in Workers, NEW f \in Inputs, RunCount(w, f)
    PROVE  FutInv'
<1> DEFINE k == CountOf(f)
<1>1. /\ pc[w] = "idle" /\ k \in posted /\ posted' = posted \ {k}
      /\ counter' = counter + 1
      /\ \/ counter' = needed /\ At(w, "call", All, "value")
         \/ UNCHANGED <<pc, at, how>>
      /\ UNCHANGED <<status, stored, continuation, taken, registered, needed, reader, got,
                     resumed, first>>
  BY DEF RunCount, Start, Started, Counted, contextVars, readVars, CountOf
<1>2. /\ TypeOK /\ w \in Thread /\ All \in Context /\ "value" \in Outcome
      /\ k \in Once /\ k # ToResume /\ k # ToBegin
  BY Sorts, Tasks DEF FutInv, Outcome, CountOf, ToBegin
<1>3. /\ \A u \in Thread : u # w => pc'[u] = pc[u] /\ at'[u] = at[u] /\ how'[u] = how[u]
      /\ pc'[w] \in {"idle", "call"} /\ (pc'[w] = "call" => counter' = needed)
      /\ pc' \in [Thread -> {"idle", "call", "store", "notify", "continue", "register",
                             "await", "suspend", "done"}]
      /\ at' \in [Thread -> Context] /\ how' \in [Thread -> Outcome]
  <2>1. CASE counter' = needed /\ At(w, "call", All, "value")
    BY <1>2, <2>1, AtFacts
  <2>2. CASE UNCHANGED <<pc, at, how>>
    BY <1>1, <1>2, <2>2 DEF TypeOK
  <2> QED BY <1>1, <2>1, <2>2
<1>4. /\ TokenInv' /\ ~ Held(k)'
      /\ \A j \in Once : j # k => (Held(j)' <=> Held(j))
  BY <1>1, <1>2, OnceRuns DEF Done
<1>5. f \in registered /\ Held(k)
  BY <1>1 DEF FutInv, TokenInv, Held
<1>6. ~ (Held(CountOf(f)))'
  BY <1>4 DEF CountOf
<1>7. \A g \in Inputs : g # f => ((Held(CountOf(g)))' <=> Held(CountOf(g)))
  <2>1. \A g \in Inputs : g # f => CountOf(g) \in Once /\ CountOf(g) # k
    BY Tasks
  <2> QED BY <1>4, <2>1 DEF CountOf
<1> HIDE DEF k
<1>8. Ran' = Ran \cup {f} /\ f \notin Ran
  BY <1>1, <1>5, <1>6, <1>7 DEF Ran, k
<1>9. TypeOK'
  <2>1. posted' \subseteq Task /\ counter' \in Nat
    BY <1>1, <1>2 DEF TypeOK
  <2> QED BY <1>1, <1>2, <1>3, <2>1 DEF TypeOK
<1>10. ResultInv'
  BY <1>1, <1>3, ResultKept
<1>11. CounterInv'
  <2>1. Cardinality(Ran') = Cardinality(Ran) + 1
    BY <1>8, RanGrows, FS_AddElement
  <2>2. counter \in Nat /\ needed \in Nat /\ counter <= Cardinality(Ran)
    BY <1>2 DEF TypeOK, FutInv, CounterInv
  <2>3. counter' <= Cardinality(Ran')
    BY <1>1, <1>8, <2>1, <2>2, RanGrows
  <2>4. \A u \in Thread : pc'[u] \in {"call", "store"} /\ at'[u] = All => counter' >= needed'
    <3> SUFFICES ASSUME NEW u \in Thread, pc'[u] \in {"call", "store"}, at'[u] = All
                 PROVE  counter' >= needed
      BY <1>1
    <3>1. CASE u = w
      BY <1>3, <2>2, <3>1
    <3>2. CASE u # w
      <4>1. counter >= needed
        BY <1>3, <3>2 DEF FutInv, CounterInv
      <4> QED BY <1>1, <2>2, <4>1
    <3> QED BY <3>1, <3>2
  <2>5. (Done(All))' => counter' >= needed'
    <3>1. Done(All) => counter >= needed
      BY DEF FutInv, CounterInv
    <3> QED BY <1>1, <2>2, <3>1 DEF Done
  <2> QED BY <2>3, <2>4, <2>5 DEF CounterInv
<1>12. CoroutineInv'
  <2>1. \A u \in Thread : InCoroutine(u)' <=> InCoroutine(u)
    BY <1>1, <1>3 DEF InCoroutine
  <2>2. Held(ToResume)' <=> Held(ToResume)
    BY <1>2, <1>4, Tasks DEF ToResume
  <2>3. /\ ToBegin \in posted' <=> ToBegin \in posted
        /\ ToResume \in posted' <=> ToResume \in posted
    BY <1>1, <1>2
  <2> QED BY <1>1, <2>1, <2>2, <2>3, Sorts DEF FutInv, CoroutineInv, ToResume, ToBegin, Done
<1> QED BY <1>4, <1>9, <1>10, <1>11, <1>12 DEF FutInv

-----------------------------------------------------------------------------
(* The theorems *)

(* Nothing happens. *)
LEMMA StutterFut ==
    ASSUME FutInv, UNCHANGED vars
    PROVE  FutInv'
<1>1. UNCHANGED <<status, stored, continuation, pc, at, how, taken, posted, registered, counter, needed,
                  reader, got, resumed, first>>
  BY DEF vars, contextVars, threadVars, readVars
<1>2. TypeOK'
  BY <1>1 DEF FutInv, TypeOK
<1>3. ResultInv'
  BY <1>1, ResultKept
<1>4. TokenInv' /\ CounterInv' /\ CoroutineInv'
  BY <1>1, ReaderKeeps
<1> QED BY <1>2, <1>3, <1>4 DEF FutInv

(* The invariant, for every number of threads, contexts and readers. *)
THEOREM FutureInvariant == Spec => []FutInv
<1>1. Init => FutInv
  BY InitFut
<1>2. FutInv /\ [Next]_vars => FutInv'
  <2> SUFFICES ASSUME FutInv, [Next]_vars PROVE FutInv'
    OBVIOUS
  <2>1. ASSUME NEW t \in Thread, Completion(t) PROVE FutInv'
    BY <2>1, StoreStep, NotifyStep, ContinueStep DEF Completion
  <2>2. ASSUME NEW t \in Callers, Call(t) PROVE FutInv'
    BY <2>2, CallStep
  <2>3. ASSUME NEW c \in Read, Reader(c) PROVE FutInv'
    BY <2>3, GetStep, WaitStep, TakeStep DEF Reader
  <2>4. ASSUME NEW w \in Workers, Worker(w) PROVE FutInv'
    <3>1. CASE Coroutine(w)
      BY <3>1, BeginStep, RegisterStep, AwaitReadyStep, AwaitSuspendStep, ResumeStep DEF Coroutine
    <3>2. CASE Function(w)
      BY <3>2, RunAsyncStep, RunThenStep, RunCountStep, CompleteStep DEF Function
    <3> QED BY <2>4, <3>1, <3>2 DEF Worker
  <2>5. CASE UNCHANGED vars
    BY <2>5, StutterFut
  <2> QED BY <2>1, <2>2, <2>3, <2>4, <2>5 DEF Next
<1> QED BY <1>1, <1>2, PTL DEF Spec

(* Every variable keeps its type. *)
THEOREM FutureTypes == Spec => []TypeOK
<1>1. FutInv => TypeOK
  BY DEF FutInv
<1> QED BY <1>1, FutureInvariant, PTL

(* FirstResultStands: the thread in Get returns what the call that won the  *)
(* compare-and-swap set, whatever calls race with it.                       *)
THEOREM FutureResult == Spec => []FirstResultStands
<1>1. FutInv => FirstResultStands
  BY DEF FutInv, ResultInv, FirstResultStands
<1> QED BY <1>1, FutureInvariant, PTL

(* ResumesOnceWhenDone: the coroutine that awaits a WaitAll or a WaitAny    *)
(* goes on at most once, and not before as many futures are completed as it *)
(* waits for.                                                               *)
THEOREM FutureResumes == Spec => []ResumesOnceWhenDone
<1>1. FutInv => ResumesOnceWhenDone
  <2> SUFFICES ASSUME FutInv PROVE ResumesOnceWhenDone
    OBVIOUS
  <2> DEFINE D == {f \in Inputs : status[f] # "Pending"}
  <2>1. resumed <= 1
    BY DEF FutInv, CoroutineInv
  <2>2. resumed = 1 => counter >= needed
    BY DEF FutInv, CoroutineInv, CounterInv
  <2>3. Ran \subseteq D
    <3>1. \A f \in Inputs \cap registered : ~ Done(f) => Held(CountOf(f))
      BY Sorts DEF FutInv, TokenInv, Held
    <3> QED BY <3>1 DEF Ran, Done
  <2>4. IsFiniteSet(D)
    <3>1. D \subseteq Inputs
      OBVIOUS
    <3> QED BY <3>1, Sorts, FS_Subset
  <2>5. Cardinality(Ran) <= Cardinality(D) /\ Cardinality(Ran) \in Nat /\ Cardinality(D) \in Nat
    BY <2>3, <2>4, FS_Subset, FS_CardinalityType
  <2>6. counter \in Nat /\ needed \in Nat /\ counter <= Cardinality(Ran)
    BY DEF FutInv, TypeOK, CounterInv
  <2> HIDE DEF D
  <2>7. counter >= needed => Cardinality(D) >= needed
    BY <2>5, <2>6
  <2> QED BY <2>1, <2>2, <2>7 DEF ResumesOnceWhenDone, D
<1> QED BY <1>1, FutureInvariant, PTL

=============================================================================
