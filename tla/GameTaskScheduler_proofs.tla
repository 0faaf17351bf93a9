---------------------- MODULE GameTaskScheduler_proofs ----------------------
(***************************************************************************)
(* Proofs about the task scheduler, each from an invariant of its own:     *)
(*   IndInv     the acquired pointers and the running tasks agree, so the  *)
(*              running tasks exclude each other;                          *)
(*   OrderInv   the tasks of a controller lie in the order of their        *)
(*              creation, the oldest on its process, the others queued;    *)
(*   RetireInv  of a removed controller at most the running task is left;  *)
(*   AccessInv  an actor is there only while the scheduler knows it, so    *)
(*              what the workers resolve is what the scheduler locked;     *)
(*   WakeInv    reservations are those of ready processes that can start   *)
(*              once nobody else is in their way, so no set of ready       *)
(*              processes waits only for itself;                           *)
(*   RemoveInv  only a despawn removes a player, and only what a task      *)
(*              holds is removed by it, so a removal finds its target.     *)
(* One case per action.  All the ways to schedule a task are admissions    *)
(* (ScheduleAdmits), and three lemmas say where the tasks are after a      *)
(* step: AdmissionPlaces, CompletionPlaces and StartPlaces.                *)
(***************************************************************************)
EXTENDS GameTaskScheduler, FiniteSetTheorems, TLAPS

(* A new process is a process. *)
LEMMA FreshProcessType ==
    ASSUME NEW id \in Actors \cup {None}
    PROVE  /\ FreshProcess(id) \in Process
           /\ FreshProcess(id).state = "Waiting"
BY NumbersAssumption DEF FreshProcess, Taskless, Process, States, LiveStates

(* A process that is not in use is a process. *)
LEMMA DeadProcessType ==
    ASSUME NEW st \in States
    PROVE  DeadProcess(st) \in Process /\ DeadProcess(st).state = st
BY NumbersAssumption DEF DeadProcess, Taskless, Process, States, LiveStates

(* ChangeState yields a process with the state and the task it was given. *)
LEMMA ToStateType ==
    ASSUME NEW p \in Process, NEW st \in States, NEW t \in Task \cup {None}
    PROVE  /\ ToState(p, st, t) \in Process
           /\ ToState(p, st, t).state = st
           /\ ToState(p, st, t).task = t
BY NumbersAssumption DEF ToState, Process

(* Counting a failed attempt changes neither the state nor the task. *)
LEMMA AddStarvationCountType ==
    ASSUME NEW p \in Process
    PROVE  /\ AddStarvationCount(p) \in Process
           /\ AddStarvationCount(p).state = p.state
           /\ AddStarvationCount(p).task = p.task
BY NumbersAssumption DEF AddStarvationCount, Process

(* Every task that is built is a task. *)
LEMMA NewTaskType ==
    ASSUME NEW kind \in Kinds, NEW a \in Actors, NEW T \in SUBSET Actors,
           NEW c \in Callers \cup {None}, clock \in Nat
    PROVE  /\ NewTask(kind, a, T, c) \in Task
           /\ NewTask(kind, a, T, c).targets = T
           /\ Mentions(NewTask(kind, a, T, c)) = T \cup (IF kind = "spawn" THEN {a} ELSE {})
BY DEF NewTask, Task, Mentions

(* The task that spawns an actor mentions that actor only. *)
LEMMA SpawnTaskType ==
    ASSUME NEW a \in Actors, clock \in Nat
    PROVE  /\ NewTask("spawn", a, {}, None) \in Task
           /\ Mentions(NewTask("spawn", a, {}, None)) = {a}
BY DEF NewTask, Task, Kinds, Mentions

(* The queue of a new controller. *)
LEMMA EmptyQueue == <<>> \in Seq(Task) /\ DOMAIN <<>> = {}
OBVIOUS

(* Schedule after Prepare keeps the invariant, whatever tables Prepare      *)
(* leaves as long as they agree with the old ones on running processes.     *)
LEMMA AdmitKeepsInvariant ==
    ASSUME IndInv,
           NEW P \in [Slots -> Process], NEW Q \in [Actors -> Seq(Task)],
           NEW K \in SUBSET Actors, NEW R \in [Actors -> SUBSET Slots],
           NEW s \in Slots, NEW t \in Task,
           \A r \in Slots : P[r].state \in {"Ready", "Running"} => P[r] = procs[r],
           \A r \in Running : P[r] = procs[r],
           \A a \in Actors : \A i \in DOMAIN Q[a] : Mentions(Q[a][i]) \subseteq spawned',
           known \subseteq K, K \subseteq spawned',
           \A r \in Running : TargetsOf(r) \cap K \subseteq known,
           Mentions(t) \subseteq spawned',
           spawned \subseteq spawned', spawned' \subseteq Actors,
           snapshot' = snapshot, scan = {}, scan' = scan,
           shutdown' = shutdown, join' = join, left' = left,
           token' \in [Players \X Callers -> {"none", "pending", "set", "lost"}],
           Admit(P, Q, K, acquired, R, s, t)
    PROVE  IndInv'
<1> USE DEF IndInv, TypeOK
<1>1. /\ clock' \in Nat /\ known' = K
      /\ snapshot' \subseteq spawned' /\ scan' = {}
  BY DEF Admit, TargetsAreSpawned
<1>2. CASE /\ P[s].state \in {"Running", "Ready"}
           /\ procs' = P
           /\ queues' = [Q EXCEPT ![P[s].id] = Append(@, t)]
           /\ acquired' = acquired
           /\ reserved' = R
           /\ UNCHANGED workVars
  <2>1. queues' \in [Actors -> Seq(Task)]
    <3>1. P[s].id \in Actors => Append(Q[P[s].id], t) \in Seq(Task)
      OBVIOUS
    <3> QED BY <1>2, <3>1
  <2>2. TypeOK'
    BY <1>1, <1>2, <2>1 DEF workVars
  <2>3. ProcessStates'
    BY <1>1, <1>2 DEF ProcessStates, workVars, Running, InState
  <2>4. Running' = Running
    BY <1>2 DEF Running, InState
  <2>5. AcquiredByHolder'
    BY <1>1, <1>2, <2>4 DEF AcquiredByHolder, TargetsOf
  <2>6. \A a \in Actors : \A i \in DOMAIN queues'[a] : Mentions(queues'[a][i]) \subseteq spawned'
    <3> SUFFICES ASSUME NEW a \in Actors, NEW i \in DOMAIN queues'[a]
                 PROVE  Mentions(queues'[a][i]) \subseteq spawned'
      OBVIOUS
    <3>1. CASE a = P[s].id
      BY <1>2, <3>1
    <3>2. CASE a # P[s].id
      BY <1>2, <3>2
    <3> QED BY <3>1, <3>2
  <2>7. TargetsAreSpawned'
    BY <1>1, <1>2, <2>6 DEF TargetsAreSpawned, TargetsOf
  <2> QED BY <2>2, <2>3, <2>5, <2>7
<1>3. CASE /\ P[s].state = "Waiting"
           /\ CanStart(s, t.targets, K, acquired, R)
           /\ procs' = [P EXCEPT ![s] = ToState(@, "Running", t)]
           /\ queues' = Q
           /\ AllocateResource(s, t.targets, K, acquired, R)
           /\ PostStart(s)
  <2>1. /\ ToState(P[s], "Running", t) \in Process
        /\ ToState(P[s], "Running", t).state = "Running"
        /\ ToState(P[s], "Running", t).task = t
    BY ToStateType DEF States, LiveStates
  <2>2. TypeOK'
    BY <1>1, <1>3, <2>1 DEF AllocateResource, PostStart
  <2>3. \A r \in Slots \ {s} : procs'[r] = P[r] /\ phase'[r] = phase[r]
    BY <1>3 DEF PostStart
  <2>4. procs'[s].state = "Running" /\ procs'[s].task = t /\ phase'[s] = "posted"
    BY <1>3, <2>1 DEF PostStart
  <2>5. Running' = Running \cup {s} /\ s \notin Running
    BY <1>3, <2>3, <2>4 DEF Running, InState
  <2>6. ProcessStates'
    BY <1>1, <2>3, <2>4 DEF ProcessStates, Running, InState
  <2>7. AcquiredByHolder'
    <3>1. \A a \in Actors : acquired'[a] = IF a \in t.targets \cap K THEN s ELSE acquired[a]
      BY <1>3 DEF AllocateResource
    <3>2. \A a \in t.targets \cap K : acquired[a] = None
      BY <1>3 DEF CanStart, CanAcquire
    <3>3. \A r \in Running : procs'[r] = procs[r]
      BY <2>3, <2>5 DEF Running, InState
    <3>4. t.targets \subseteq Actors
      BY DEF Task
    <3>5. \A r \in Running' : \A a \in TargetsOf(r)' \cap known' : acquired'[a] = r
      <4> SUFFICES ASSUME NEW r \in Running', NEW a \in TargetsOf(r)' \cap known'
                   PROVE  acquired'[a] = r
        OBVIOUS
      <4>1. CASE r = s
        BY <4>1, <3>1, <2>4, <1>1, <3>4 DEF TargetsOf
      <4>2. CASE r # s
        <5>1. r \in Running /\ a \in TargetsOf(r) \cap known
          BY <4>2, <2>5, <3>3, <1>1 DEF TargetsOf
        <5>2. acquired[a] = r
          BY <5>1 DEF AcquiredByHolder
        <5>3. acquired[a] # None
          BY <5>1, <5>2, DisjointActors DEF Running, InState
        <5> QED BY <5>1, <5>2, <5>3, <3>1, <3>2
      <4> QED BY <4>1, <4>2
    <3>6. \A a \in Actors : acquired'[a] # None =>
             acquired'[a] \in Running' /\ a \in known' \cap procs'[acquired'[a]].task.targets
      <4> SUFFICES ASSUME NEW a \in Actors, acquired'[a] # None
                   PROVE  acquired'[a] \in Running' /\ a \in known' \cap procs'[acquired'[a]].task.targets
        OBVIOUS
      <4>1. CASE a \in t.targets \cap K
        BY <4>1, <3>1, <2>4, <2>5, <1>1
      <4>2. CASE a \notin t.targets \cap K
        BY <4>2, <3>1, <2>5, <3>3, <1>1 DEF AcquiredByHolder, TargetsOf
      <4> QED BY <4>1, <4>2
    <3> QED BY <3>5, <3>6 DEF AcquiredByHolder, TargetsOf
  <2>8. TargetsAreSpawned'
    BY <1>1, <1>3, <2>3, <2>4 DEF TargetsAreSpawned, TargetsOf
  <2> QED BY <2>2, <2>6, <2>7, <2>8
<1>4. CASE /\ P[s].state = "Waiting"
           /\ ~ CanStart(s, t.targets, K, acquired, R)
           /\ procs' = [P EXCEPT ![s] = ToState(@, "Ready", t)]
           /\ queues' = Q
           /\ acquired' = acquired
           /\ reserved' = R
           /\ UNCHANGED workVars
  <2>1. /\ ToState(P[s], "Ready", t) \in Process
        /\ ToState(P[s], "Ready", t).state = "Ready"
        /\ ToState(P[s], "Ready", t).task = t
    BY ToStateType DEF States, LiveStates
  <2>2. TypeOK'
    BY <1>1, <1>4, <2>1 DEF workVars
  <2>3. \A r \in Slots \ {s} : procs'[r] = P[r]
    BY <1>4
  <2>4. procs'[s].state = "Ready" /\ procs'[s].task = t
    BY <1>4, <2>1
  <2>5. Running' = Running
    BY <1>4, <2>3, <2>4 DEF Running, InState
  <2>6. ProcessStates'
    BY <1>1, <1>4, <2>3, <2>4 DEF ProcessStates, workVars, Running, InState
  <2>7. \A r \in Running : procs'[r] = procs[r]
    BY <1>4, <2>3 DEF Running, InState
  <2>8. AcquiredByHolder'
    BY <1>1, <1>4, <2>5, <2>7 DEF AcquiredByHolder, TargetsOf
  <2>9. TargetsAreSpawned'
    BY <1>1, <1>4, <2>3, <2>4 DEF TargetsAreSpawned, TargetsOf
  <2> QED BY <2>2, <2>6, <2>8, <2>9
<1> QED BY <1>2, <1>3, <1>4 DEF Admit

-----------------------------------------------------------------------------
(* The actors that are there from the start have distinct idle processes.   *)
LEMMA InitInvariant == Init => IndInv
<1> SUFFICES ASSUME Init PROVE IndInv
  OBVIOUS
<1>1. PICK f \in [InitialActors -> Slots] :
          procs = [s \in Slots |->
                IF \E a \in InitialActors : f[a] = s
                THEN FreshProcess(CHOOSE a \in InitialActors : f[a] = s)
                ELSE DeadProcess("Unused")]
  BY DEF Init
<1>2. \A s \in Slots : /\ procs[s] \in Process
                       /\ procs[s].state \in {"Waiting", "Unused"}
  <2> SUFFICES ASSUME NEW s \in Slots
               PROVE  procs[s] \in Process /\ procs[s].state \in {"Waiting", "Unused"}
    OBVIOUS
  <2>1. CASE \E a \in InitialActors : f[a] = s
    <3>1. (CHOOSE a \in InitialActors : f[a] = s) \in Actors
      BY <2>1, InitialAssumption
    <3> QED BY <1>1, <2>1, <3>1, FreshProcessType
  <2>2. CASE ~ \E a \in InitialActors : f[a] = s
    BY <1>1, <2>2, DeadProcessType DEF States
  <2> QED BY <2>1, <2>2
<1>3. TypeOK
  <2>1. procs \in [Slots -> Process]
    BY <1>1, <1>2
  <2>2. queues \in [Actors -> Seq(Task)]
    BY EmptyQueue DEF Init
  <2>3. /\ known \in SUBSET Actors /\ entities \in SUBSET Actors
        /\ snapshot \in SUBSET Actors /\ spawned \in SUBSET Actors
    BY InitialAssumption DEF Init
  <2>4. /\ acquired \in [Actors -> Slots \cup {None}]
        /\ reserved \in [Actors -> SUBSET Slots]
        /\ phase \in [Slots -> {"idle", "posted", "executing", "executed"}]
        /\ seen \in [Slots -> SUBSET Actors]
        /\ dead \in [Slots -> SUBSET Actors]
        /\ token \in [Players \X Callers -> {"none", "pending", "set", "lost"}]
    BY DEF Init
  <2>5. /\ clock \in Nat /\ scan \in SUBSET Slots
        /\ join \in {"none", "waiting", "returned"}
    BY DEF Init
  <2>6. shutdown \in BOOLEAN /\ left \in SUBSET Actors
    BY DEF Init
  <2> QED BY <2>1, <2>2, <2>3, <2>4, <2>5, <2>6 DEF TypeOK
<1>4. ProcessStates
  BY <1>2 DEF ProcessStates, Init
<1>5. AcquiredByHolder
  BY <1>2 DEF AcquiredByHolder, Init, Running, InState
<1>6. TargetsAreSpawned
  <2>1. \A a \in Actors : DOMAIN queues[a] = {}
    BY EmptyQueue DEF Init
  <2> QED BY <1>2, <2>1 DEF TargetsAreSpawned, Init
<1> QED BY <1>3, <1>4, <1>5, <1>6 DEF IndInv

(* A slot that may be taken for a new process holds neither a task that is  *)
(* ready nor one that runs.                                                 *)
LEMMA FreeSlotIsIdle ==
    ASSUME NEW P \in [Slots -> Process], NEW s \in FreeSlots(P)
    PROVE  s \in Slots /\ P[s].state \notin {"Ready", "Running", "Waiting"}
BY DEF FreeSlots, InState

-----------------------------------------------------------------------------
(* What Prepare leaves to Schedule *)

(* The tables with the new actors N added: a process for each, a temporary  *)
(* one perhaps, nothing queued and nothing reserved.                        *)
NewQueues(N) == [a \in Actors |-> IF a \in N THEN <<>> ELSE queues[a]]
NewReserved(N) == [a \in Actors |-> IF a \in N THEN {} ELSE reserved[a]]
Live(P, s) == P[s].state \in LiveStates
NewProcesses(P, N) ==
    /\ P \in [Slots -> Process]
    /\ \A r \in Slots : P[r] # procs[r] =>
          ~ Live(procs, r) /\ \E id \in N \cup {None} : P[r] = FreshProcess(id)
    /\ \A q, r \in Slots :
          ~ Live(procs, q) /\ Live(P, q) /\ ~ Live(procs, r) /\ Live(P, r)
              => P[q].id = None \/ P[q].id # P[r].id \/ q = r
    /\ \A a \in N : \E r \in Slots : P[r] = FreshProcess(a)

(* The task Schedule is given: the spawn of a new actor, which holds        *)
(* nothing, or a task whose targets the snapshots show.                     *)
DespawnShape(t) == t.kind = "despawn" => t.targets = {t.subject}
NewTaskOf(N, t) ==
    /\ t \in Task /\ t.born = clock /\ DespawnShape(t)
    /\ \/ \E a \in Actors : N = {a} /\ t.kind = "spawn" /\ t.subject = a /\ t.targets = {}
       \/ N = {} /\ t.kind # "spawn" /\ t.targets \subseteq snapshot

(* A despawn brings a promise that nobody has used, other tasks none. *)
PromiseOf(t) == <<t.subject, t.caller>>
PromiseTaken(t) ==
    /\ t.kind # "despawn" => token' = token
    /\ t.kind = "despawn" =>
          /\ t.subject \in Players /\ t.caller \in Callers
          /\ token[PromiseOf(t)] = "none"
          /\ token' = [token EXCEPT ![PromiseOf(t)] = "pending"]

Prepared(N, P, s, t) ==
    /\ N \in SUBSET Actors /\ N \cap spawned = {} /\ spawned' = spawned \cup N
    /\ s \in Slots /\ Live(P, s) /\ NewProcesses(P, N) /\ NewTaskOf(N, t)
    /\ UNCHANGED <<snapshot, shutdown, join, scan, left>> /\ scan = {}
    /\ token' \in [Players \X Callers -> {"none", "pending", "set", "lost"}]
    /\ PromiseTaken(t) /\ (t.kind = "despawn" => P[s].state = "Waiting")
    /\ Admit(P, NewQueues(N), known \cup N, acquired, NewReserved(N), s, t)

(* Every way to schedule is an admission of that kind. *)
Admission == \E N \in SUBSET Actors : \E P \in [Slots -> Process] :
                 \E s \in Slots : \E t \in Task : Prepared(N, P, s, t)

(* Without new actors the tables are the old ones. *)
LEMMA NoNewActors ==
    ASSUME TypeOK
    PROVE  /\ NewQueues({}) = queues /\ NewReserved({}) = reserved /\ known \cup {} = known
BY DEF TypeOK, NewQueues, NewReserved

(* With one new actor they are the tables AddController and AddEntity leave. *)
LEMMA OneNewActor ==
    ASSUME TypeOK, NEW a \in Actors
    PROVE  /\ NewQueues({a}) = [queues EXCEPT ![a] = <<>>]
           /\ NewReserved({a}) = [reserved EXCEPT ![a] = {}]
BY DEF TypeOK, NewQueues, NewReserved

(* A fresh process of an actor or a temporary one. *)
LEMMA FreshProcessIs ==
    ASSUME NEW id \in Actors \cup {None}
    PROVE  /\ FreshProcess(id).id = id /\ FreshProcess(id).task = None
           /\ FreshProcess(id).state = "Waiting" /\ ~ FreshProcess(id).terminateReserved
BY DEF FreshProcess, Taskless

(* The fields of a task that is built. *)
LEMMA TaskIs ==
    ASSUME NEW kind, NEW a, NEW T, NEW c
    PROVE  /\ NewTask(kind, a, T, c).kind = kind /\ NewTask(kind, a, T, c).subject = a
           /\ NewTask(kind, a, T, c).targets = T /\ NewTask(kind, a, T, c).born = clock
           /\ NewTask(kind, a, T, c).caller = c
BY DEF NewTask

(* Prepare may add no process. *)
LEMMA SameProcesses == TypeOK => NewProcesses(procs, {})
BY DEF TypeOK, NewProcesses

(* The five ways to schedule a task are admissions: a task of a controller, *)
LEMMA ScheduleActAdmits ==
    ASSUME TypeOK, NEW c \in Actors, NEW targets \in SUBSET Actors, ScheduleAct(c, targets)
    PROVE  Admission
<1>1. PICK s \in Slots : IsProcessOf(procs, s, c) /\
          Admit(procs, queues, known, acquired, reserved, s, NewTask("act", c, targets, None))
  BY DEF ScheduleAct
<1> DEFINE t == NewTask("act", c, targets, None)
<1>2. t \in Task /\ t.kind = "act" /\ t.targets = targets /\ t.born = clock
  BY NewTaskType, TaskIs DEF Kinds, TypeOK
<1>3. targets \subseteq snapshot
  BY DEF ScheduleAct, ActTargets
<1> HIDE DEF t
<1>4. NewTaskOf({}, t)
  BY <1>2, <1>3 DEF NewTaskOf, DespawnShape
<1>5. UNCHANGED <<spawned, snapshot, token, scan, left, shutdown, join>> /\ scan = {}
  BY DEF ScheduleAct, MaySchedule, worldVars
<1>6. Prepared({}, procs, s, t)
  BY <1>1, <1>2, <1>4, <1>5, NoNewActors, SameProcesses
     DEF Prepared, PromiseTaken, IsProcessOf, Live, TypeOK, t
<1> QED BY <1>2, <1>6 DEF Admission, TypeOK

(* an attack of a player, *)
LEMMA ScheduleAttackAdmits ==
    ASSUME TypeOK, NEW p \in Players, NEW monsters \in SUBSET Monsters, ScheduleAttack(p, monsters)
    PROVE  Admission
<1> DEFINE targets == {p} \cup (monsters \cap snapshot)
           t == NewTask("attack", p, targets, None)
<1>1. PICK s \in Slots : IsProcessOf(procs, s, p) /\
          Admit(procs, queues, known, acquired, reserved, s, t)
  BY DEF ScheduleAttack
<1>2. p \in Actors /\ targets \in SUBSET Actors /\ targets \subseteq snapshot
  BY DEF Actors, ScheduleAttack
<1> HIDE DEF targets
<1>3. t \in Task /\ t.kind = "attack" /\ t.targets = targets /\ t.born = clock
  BY <1>2, NewTaskType, TaskIs DEF Kinds, TypeOK
<1> HIDE DEF t
<1>4. NewTaskOf({}, t)
  BY <1>2, <1>3 DEF NewTaskOf, DespawnShape
<1>5. UNCHANGED <<spawned, snapshot, token, scan, left, shutdown, join>> /\ scan = {}
  BY DEF ScheduleAttack, MaySchedule, worldVars
<1>6. Prepared({}, procs, s, t)
  BY <1>1, <1>3, <1>4, <1>5, NoNewActors, SameProcesses
     DEF Prepared, PromiseTaken, IsProcessOf, Live, TypeOK
<1> QED BY <1>3, <1>6 DEF Admission, TypeOK

(* The task of a spawn. *)
LEMMA SpawnIsNew ==
    ASSUME TypeOK, NEW a \in Actors
    PROVE  LET t == NewTask("spawn", a, {}, None) IN t \in Task /\ NewTaskOf({a}, t) /\ t.kind = "spawn"
BY SpawnTaskType, TaskIs DEF TypeOK, NewTaskOf, DespawnShape

(* A process is made for a new actor in a slot that is free. *)
LEMMA OneNewProcess ==
    ASSUME TypeOK, NEW a \in Actors, NEW s \in FreeSlots(procs)
    PROVE  LET P == [procs EXCEPT ![s] = FreshProcess(a)]
           IN  s \in Slots /\ NewProcesses(P, {a}) /\ Live(P, s)
<1> DEFINE P == [procs EXCEPT ![s] = FreshProcess(a)]
<1>1. s \in Slots /\ ~ Live(procs, s)
  BY FreeSlotIsIdle DEF TypeOK, Live, LiveStates
<1>2. /\ P \in [Slots -> Process] /\ P[s] = FreshProcess(a)
      /\ \A r \in Slots \ {s} : P[r] = procs[r]
  BY <1>1, FreshProcessType DEF TypeOK
<1> HIDE DEF P
<1>5. \A r \in Slots : P[r] # procs[r] =>
          ~ Live(procs, r) /\ \E id \in {a} \cup {None} : P[r] = FreshProcess(id)
  BY <1>1, <1>2
<1>6. \A q \in Slots : ~ Live(procs, q) /\ Live(P, q) => q = s
  BY <1>2 DEF Live
<1>3. NewProcesses(P, {a})
  BY <1>1, <1>2, <1>5, <1>6 DEF NewProcesses
<1>4. Live(P, s)
  BY <1>2, FreshProcessIs DEF Live, LiveStates
<1> QED BY <1>1, <1>3, <1>4 DEF P

(* the spawn of a player, on its new process, *)
LEMMA SchedulePlayerSpawnAdmits ==
    ASSUME TypeOK, NEW p \in Players, SchedulePlayerSpawn(p)
    PROVE  Admission
<1> DEFINE t == NewTask("spawn", p, {}, None)
<1>0. p \in Actors
  BY DEF Actors
<1>1. PICK s \in FreeSlots(procs) :
          Admit([procs EXCEPT ![s] = FreshProcess(p)], [queues EXCEPT ![p] = <<>>],
                known \cup {p}, acquired, [reserved EXCEPT ![p] = {}], s, t)
  BY DEF SchedulePlayerSpawn
<1> DEFINE P == [procs EXCEPT ![s] = FreshProcess(p)]
<1>2. s \in Slots /\ NewProcesses(P, {p}) /\ Live(P, s)
  BY <1>0, OneNewProcess
<1>3. Admit(P, NewQueues({p}), known \cup {p}, acquired, NewReserved({p}), s, t)
  BY <1>0, <1>1, OneNewActor
<1>4. t \in Task /\ NewTaskOf({p}, t) /\ t.kind = "spawn"
  BY <1>0, SpawnIsNew
<1>5. /\ UNCHANGED <<snapshot, token, scan, left, shutdown, join>> /\ scan = {}
      /\ spawned' = spawned \cup {p} /\ p \notin spawned
  BY DEF SchedulePlayerSpawn, MaySchedule
<1> HIDE DEF P, t
<1>6. Prepared({p}, P, s, t)
  BY <1>0, <1>2, <1>3, <1>4, <1>5 DEF Prepared, PromiseTaken, TypeOK
<1> QED BY <1>0, <1>2, <1>4, <1>6 DEF Admission, NewProcesses

(* the spawn of a monster, on a temporary process or on a spawner's, *)
LEMMA ScheduleMonsterSpawnAdmits ==
    ASSUME TypeOK, NEW m \in Monsters, ScheduleMonsterSpawn(m)
    PROVE  Admission
<1> DEFINE t == NewTask("spawn", m, {}, None)
           P(s) == [procs EXCEPT ![s] = FreshProcess(m)]
           PP(s, r) == [P(s) EXCEPT ![r] = FreshProcess(None)]
<1>0. m \in Actors
  BY DEF Actors
<1>1. PICK s \in FreeSlots(procs) :
          \/ \E r \in FreeSlots(P(s)) :
                Admit(PP(s, r), NewQueues({m}), known \cup {m}, acquired, NewReserved({m}), r, t)
          \/ \E r \in Slots, o \in Monsters :
                /\ IsProcessOf(procs, r, o)
                /\ Admit(P(s), NewQueues({m}), known \cup {m}, acquired, NewReserved({m}), r, t)
  <2>1. /\ NewQueues({m}) = [queues EXCEPT ![m] = <<>>]
        /\ NewReserved({m}) = [reserved EXCEPT ![m] = {}]
    BY <1>0, OneNewActor
  <2> HIDE DEF t
  <2>2. \E s \in FreeSlots(procs) :
          \/ \E r \in FreeSlots(P(s)) :
                Admit(PP(s, r), [queues EXCEPT ![m] = <<>>], known \cup {m}, acquired,
                      [reserved EXCEPT ![m] = {}], r, t)
          \/ \E r \in Slots, o \in Monsters :
                /\ IsProcessOf(procs, r, o)
                /\ Admit(P(s), [queues EXCEPT ![m] = <<>>], known \cup {m}, acquired,
                         [reserved EXCEPT ![m] = {}], r, t)
    BY DEF ScheduleMonsterSpawn, t
  <2> QED BY <2>1, <2>2
<1>2. s \in Slots /\ NewProcesses(P(s), {m}) /\ Live(P(s), s) /\ ~ Live(procs, s)
  BY <1>0, OneNewProcess, FreeSlotIsIdle DEF TypeOK, Live, LiveStates
<1>4. t \in Task /\ NewTaskOf({m}, t) /\ t.kind = "spawn"
  BY <1>0, SpawnIsNew
<1>5. /\ UNCHANGED <<snapshot, token, scan, left, shutdown, join>> /\ scan = {}
      /\ spawned' = spawned \cup {m} /\ m \notin spawned
  BY DEF ScheduleMonsterSpawn, MaySchedule
<1>6. P(s)[s] = FreshProcess(m) /\ \A q \in Slots \ {s} : P(s)[q] = procs[q]
  BY <1>2 DEF TypeOK
<1> HIDE DEF t
<1>7. CASE \E r \in Slots, o \in Monsters :
             /\ IsProcessOf(procs, r, o)
             /\ Admit(P(s), NewQueues({m}), known \cup {m}, acquired, NewReserved({m}), r, t)
  <2>1. PICK r \in Slots :
             /\ Live(procs, r)
             /\ Admit(P(s), NewQueues({m}), known \cup {m}, acquired, NewReserved({m}), r, t)
    BY <1>7 DEF IsProcessOf, Live
  <2>2. Live(P(s), r)
    BY <1>2, <1>6, <2>1 DEF Live
  <2> HIDE DEF P
  <2>3. Prepared({m}, P(s), r, t)
    BY <1>0, <1>2, <1>4, <1>5, <2>1, <2>2 DEF Prepared, PromiseTaken, TypeOK
  <2> QED BY <1>0, <1>2, <1>4, <2>3 DEF Admission, NewProcesses
<1>8. CASE \E r \in FreeSlots(P(s)) :
             Admit(PP(s, r), NewQueues({m}), known \cup {m}, acquired, NewReserved({m}), r, t)
  <2>1. PICK r \in FreeSlots(P(s)) :
             Admit(PP(s, r), NewQueues({m}), known \cup {m}, acquired, NewReserved({m}), r, t)
    BY <1>8
  <2>2. r \in Slots /\ ~ Live(P(s), r)
    BY <1>2, FreeSlotIsIdle DEF NewProcesses, Live, LiveStates
  <2>3. r # s /\ ~ Live(procs, r)
    BY <1>2, <1>6, <2>2 DEF Live
  <2>4. /\ PP(s, r) \in [Slots -> Process] /\ PP(s, r)[r] = FreshProcess(None)
        /\ PP(s, r)[s] = FreshProcess(m)
        /\ \A q \in Slots \ {r, s} : PP(s, r)[q] = procs[q]
    BY <1>2, <1>6, <2>2, <2>3, FreshProcessType DEF NewProcesses
  <2>5. /\ FreshProcess(m).id = m /\ FreshProcess(None).id = None
        /\ FreshProcess(None).state = "Waiting"
    BY <1>0, FreshProcessIs
  <2> HIDE DEF PP, P
  <2>6. NewProcesses(PP(s, r), {m})
    BY <1>2, <2>2, <2>3, <2>4, <2>5 DEF NewProcesses, Live
  <2>7. Prepared({m}, PP(s, r), r, t)
    BY <1>0, <1>4, <1>5, <2>1, <2>2, <2>4, <2>5, <2>6
       DEF Prepared, PromiseTaken, TypeOK, Live, LiveStates
  <2> QED BY <1>0, <1>4, <2>2, <2>4, <2>7 DEF Admission
<1> QED BY <1>1, <1>7, <1>8

(* the despawn of a player, on a temporary process. *)
LEMMA ScheduleDespawnAdmits ==
    ASSUME TypeOK, NEW p \in Players, NEW caller \in Callers, ScheduleDespawn(p, caller)
    PROVE  Admission
<1> DEFINE t == NewTask("despawn", p, {p}, caller)
<1>0. p \in Actors
  BY DEF Actors
<1>1. PICK s \in FreeSlots(procs) :
          Admit([procs EXCEPT ![s] = FreshProcess(None)], queues, known, acquired, reserved, s, t)
  BY DEF ScheduleDespawn
<1> DEFINE P == [procs EXCEPT ![s] = FreshProcess(None)]
<1>2. s \in Slots /\ ~ Live(procs, s)
  BY FreeSlotIsIdle DEF TypeOK, Live, LiveStates
<1>3. P \in [Slots -> Process] /\ P[s] = FreshProcess(None) /\ \A r \in Slots \ {s} : P[r] = procs[r]
  BY <1>2, FreshProcessType DEF TypeOK
<1>4. /\ t \in Task /\ t.kind = "despawn" /\ t.targets = {p} /\ t.subject = p /\ t.born = clock
      /\ t.caller = caller
  BY <1>0, NewTaskType, TaskIs DEF Kinds, TypeOK
<1> HIDE DEF t
<1>5. /\ UNCHANGED <<spawned, snapshot, scan, left, shutdown, join>> /\ scan = {}
      /\ p \in snapshot
      /\ token' \in [Players \X Callers -> {"none", "pending", "set", "lost"}]
      /\ token[<<p, caller>>] = "none" /\ token' = [token EXCEPT ![<<p, caller>>] = "pending"]
  BY DEF ScheduleDespawn, MaySchedule, TypeOK
<1>6. NewTaskOf({}, t)
  BY <1>4, <1>5 DEF NewTaskOf, DespawnShape
<1>7. Admit(P, NewQueues({}), known \cup {}, acquired, NewReserved({}), s, t)
  BY <1>1, NoNewActors
<1> HIDE DEF P
<1>8. NewProcesses(P, {}) /\ Live(P, s)
  <2>1. FreshProcess(None).id = None /\ FreshProcess(None).state = "Waiting"
    BY FreshProcessIs
  <2>2. \A r \in Slots : P[r] # procs[r] =>
            ~ Live(procs, r) /\ \E id \in {} \cup {None} : P[r] = FreshProcess(id)
    BY <1>2, <1>3
  <2>3. \A q \in Slots : ~ Live(procs, q) /\ Live(P, q) => q = s
    BY <1>3 DEF Live
  <2> QED BY <1>2, <1>3, <2>1, <2>2, <2>3 DEF NewProcesses, Live, LiveStates
<1>9. PromiseTaken(t) /\ P[s].state = "Waiting"
  BY <1>3, <1>4, <1>5, FreshProcessIs DEF PromiseTaken, PromiseOf
<1>10. Prepared({}, P, s, t)
  BY <1>2, <1>5, <1>6, <1>7, <1>8, <1>9 DEF Prepared, TypeOK
<1> QED BY <1>2, <1>3, <1>4, <1>10 DEF Admission

(* A scheduling action admits a task or is the despawn that is dropped. *)
LEMMA ScheduleAdmits ==
    ASSUME TypeOK, ScheduleTask
    PROVE  Admission \/ \E p \in Players, caller \in Callers : DropDespawn(p, caller)
BY ScheduleActAdmits, ScheduleAttackAdmits, SchedulePlayerSpawnAdmits,
   ScheduleMonsterSpawnAdmits, ScheduleDespawnAdmits DEF ScheduleTask

(* Admission keeps the invariant: the processes Prepare adds are idle, and  *)
(* no running task can name an actor that was not spawned before.           *)
LEMMA AdmissionStep == IndInv /\ Admission => IndInv'
<1> SUFFICES ASSUME IndInv, Admission PROVE IndInv'
  OBVIOUS
<1>0. TypeOK /\ TargetsAreSpawned
  BY DEF IndInv
<1>1. PICK N \in SUBSET Actors, P \in [Slots -> Process], s \in Slots, t \in Task :
          Prepared(N, P, s, t)
  BY DEF Admission
<1> DEFINE Q == NewQueues(N)
           K == known \cup N
           R == NewReserved(N)
<1>2. /\ Q \in [Actors -> Seq(Task)] /\ R \in [Actors -> SUBSET Slots]
      /\ K \in SUBSET Actors
      /\ \A a \in Actors : Q[a] = <<>> \/ Q[a] = queues[a]
  BY <1>0, EmptyQueue DEF TypeOK, NewQueues, NewReserved
<1>3. /\ \A r \in Slots : P[r] # procs[r] =>
             ~ Live(procs, r) /\ \E id \in N \cup {None} : P[r] = FreshProcess(id)
      /\ N \cap spawned = {} /\ spawned' = spawned \cup N
      /\ UNCHANGED <<snapshot, shutdown, join, scan, left>> /\ scan = {}
      /\ token' \in [Players \X Callers -> {"none", "pending", "set", "lost"}]
      /\ Admit(P, Q, K, acquired, R, s, t)
  BY <1>1 DEF Prepared, NewProcesses
<1>4. Mentions(t) \subseteq spawned'
  BY <1>0, <1>1, <1>3 DEF Prepared, NewTaskOf, Mentions, TargetsAreSpawned
<1>5. \A r \in Slots : P[r].state \in {"Ready", "Running"} => P[r] = procs[r]
  BY <1>3, FreshProcessIs
<1>6. \A r \in Running : P[r] = procs[r]
  BY <1>3 DEF Running, InState, Live, LiveStates
<1>7. \A r \in Running : TargetsOf(r) \cap K \subseteq known
  BY <1>0, <1>3 DEF TargetsAreSpawned, Mentions, TargetsOf, Running, InState
<1>8. known \subseteq K /\ K \subseteq spawned' /\ spawned \subseteq spawned' /\ spawned' \subseteq Actors
  BY <1>0, <1>3 DEF TargetsAreSpawned, TypeOK
<1>9. \A a \in Actors : \A i \in DOMAIN Q[a] : Mentions(Q[a][i]) \subseteq spawned'
  BY <1>0, <1>2, <1>3, EmptyQueue DEF TargetsAreSpawned
<1> HIDE DEF Q, K, R
<1> QED BY <1>2, <1>3, <1>4, <1>5, <1>6, <1>7, <1>8, <1>9, AdmitKeepsInvariant

-----------------------------------------------------------------------------
(* A despawn that is dropped changes its promise only. *)
LEMMA DropDespawnStep ==
    ASSUME IndInv, NEW p \in Players, NEW caller \in Callers, DropDespawn(p, caller)
    PROVE  IndInv'
<1>1. UNCHANGED <<procVars, resVars, workVars, snapshot, spawned, left, shutdown, join, scan, clock>>
  BY DEF DropDespawn
<1>2. token' \in [Players \X Callers -> {"none", "pending", "set", "lost"}]
  BY DEF DropDespawn, IndInv, TypeOK
<1>3. TypeOK'
  BY <1>1, <1>2 DEF IndInv, TypeOK, procVars, resVars, workVars
<1>4. ProcessStates' /\ AcquiredByHolder' /\ TargetsAreSpawned'
  BY <1>1 DEF IndInv, ProcessStates, AcquiredByHolder, TargetsAreSpawned, TargetsOf,
              Running, InState, procVars, resVars, workVars
<1> QED BY <1>3, <1>4 DEF IndInv

(* The workers only move the phase of a process that stays Running. *)
LEMMA WorkerStep ==
    ASSUME IndInv, NEW s \in Slots, BeginExecution(s) \/ FinishExecution(s)
    PROVE  IndInv'
<1> USE DEF IndInv
<1>1. UNCHANGED <<procVars, resVars, worldVars, shutdown, join, scan, clock>>
  BY DEF BeginExecution, FinishExecution
<1>2. /\ phase[s] # "idle"
      /\ phase' \in [Slots -> {"idle", "posted", "executing", "executed"}]
      /\ phase'[s] # "idle"
      /\ \A r \in Slots \ {s} : phase'[r] = phase[r]
  BY DEF BeginExecution, FinishExecution, TypeOK
<1>3. procs[s].state = "Running" /\ procs[s].task \in Task
  BY <1>2 DEF ProcessStates
<1>4. /\ seen' \in [Slots -> SUBSET Actors]
      /\ dead' \in [Slots -> SUBSET Actors]
      /\ entities' \in SUBSET Actors
  <2>1. CASE BeginExecution(s)
    BY <2>1 DEF BeginExecution, TypeOK
  <2>2. CASE FinishExecution(s)
    <3>1. procs[s].task.subject \in Actors
      BY <1>3 DEF Task
    <3>2. seen' = [seen EXCEPT ![s] = {}]
      BY <2>2 DEF FinishExecution
    <3>3. \/ entities' = entities /\ dead' = dead
          \/ entities' = entities \cup {procs[s].task.subject} /\ dead' = dead
          \/ entities' = entities \ {procs[s].task.subject} /\ dead' = dead
          \/ \E killed \in SUBSET (seen[s] \cap Monsters) :
                entities' = entities \ killed /\ dead' = [dead EXCEPT ![s] = killed]
      BY <2>2 DEF FinishExecution
    <3>4. seen \in [Slots -> SUBSET Actors] /\ dead \in [Slots -> SUBSET Actors]
          /\ entities \in SUBSET Actors
      BY DEF TypeOK
    <3>5. seen[s] \cap Monsters \subseteq Actors
      BY DEF Actors
    <3> QED BY <3>1, <3>2, <3>3, <3>4, <3>5
  <2> QED BY <2>1, <2>2
<1>5. TypeOK'
  BY <1>1, <1>2, <1>4 DEF TypeOK, procVars, resVars, worldVars
<1>6. ProcessStates'
  BY <1>1, <1>2, <1>3 DEF ProcessStates, procVars
<1>7. AcquiredByHolder' /\ TargetsAreSpawned'
  BY <1>1 DEF AcquiredByHolder, TargetsAreSpawned, TargetsOf, Running, InState,
              procVars, resVars, worldVars
<1> QED BY <1>5, <1>6, <1>7

(* A ready task starts only with resources nobody holds. *)
LEMMA TryStartNextStep ==
    ASSUME IndInv, NEW s \in Slots, TryStartNext(s)
    PROVE  IndInv'
<1> USE DEF IndInv
<1> DEFINE task == procs[s].task
<1>1. /\ UNCHANGED <<queues, known, worldVars, shutdown, join, clock>>
      /\ scan' = scan \ {s}
  BY DEF TryStartNext
<1>2. procs[s].state = "Ready" /\ task \in Task /\ phase[s] = "idle"
  BY DEF TryStartNext, ProcessStates, TypeOK
<1>3. task.targets \subseteq Actors
  BY <1>2 DEF Task
<1>4. CASE /\ CanStart(s, TargetsOf(s), known, acquired, reserved)
           /\ procs' = [procs EXCEPT ![s] = ToState(@, "Running", @.task)]
           /\ AllocateResource(s, TargetsOf(s), known, acquired, reserved)
           /\ PostStart(s)
  <2>1. /\ ToState(procs[s], "Running", task) \in Process
        /\ ToState(procs[s], "Running", task).state = "Running"
        /\ ToState(procs[s], "Running", task).task = task
    <3>1. procs[s] \in Process /\ "Running" \in States /\ task \in Task \cup {None}
      BY <1>2 DEF TypeOK, States, LiveStates
    <3> HIDE DEF task
    <3> QED BY <3>1, ToStateType
  <2>2. \A r \in Slots \ {s} : procs'[r] = procs[r] /\ phase'[r] = phase[r]
    BY <1>4 DEF PostStart, TypeOK
  <2>3. /\ procs'[s].state = "Running" /\ procs'[s].task = task /\ phase'[s] = "posted"
        /\ procs' \in [Slots -> Process]
    BY <1>4, <2>1 DEF PostStart, TypeOK
  <2>4. Running' = Running \cup {s} /\ s \notin Running
    BY <1>2, <2>2, <2>3 DEF Running, InState
  <2>5. TypeOK'
    BY <1>1, <1>4, <2>3 DEF TypeOK, AllocateResource, PostStart, worldVars
  <2>6. ProcessStates'
    BY <1>1, <1>2, <2>2, <2>3 DEF ProcessStates
  <2>7. AcquiredByHolder'
    <3>1. \A a \in Actors : acquired'[a] =
              IF a \in task.targets \cap known THEN s ELSE acquired[a]
      BY <1>4 DEF AllocateResource, TargetsOf
    <3>2. \A a \in task.targets \cap known : acquired[a] = None
      BY <1>4 DEF CanStart, CanAcquire, TargetsOf
    <3>3. \A r \in Running : procs'[r] = procs[r]
      BY <2>2, <2>4 DEF Running, InState
    <3>4. \A r \in Running' : \A a \in procs'[r].task.targets \cap known' : acquired'[a] = r
      <4> SUFFICES ASSUME NEW r \in Running', NEW a \in procs'[r].task.targets \cap known'
                   PROVE  acquired'[a] = r
        OBVIOUS
      <4>1. CASE r = s
        BY <4>1, <3>1, <2>3, <1>1, <1>3
      <4>2. CASE r # s
        <5>1. r \in Running /\ a \in TargetsOf(r) \cap known
          BY <4>2, <2>4, <3>3, <1>1 DEF TargetsOf
        <5>2. acquired[a] = r
          BY <5>1 DEF AcquiredByHolder
        <5>3. acquired[a] # None /\ a \in Actors
          BY <5>1, <5>2, DisjointActors DEF Running, InState, TypeOK
        <5> QED BY <5>2, <5>3, <5>1, <3>1, <3>2
      <4> QED BY <4>1, <4>2
    <3>5. \A a \in Actors : acquired'[a] # None =>
             acquired'[a] \in Running' /\ a \in known' \cap procs'[acquired'[a]].task.targets
      <4> SUFFICES ASSUME NEW a \in Actors, acquired'[a] # None
                   PROVE  acquired'[a] \in Running' /\ a \in known' \cap procs'[acquired'[a]].task.targets
        OBVIOUS
      <4>1. CASE a \in task.targets \cap known
        BY <4>1, <3>1, <2>3, <2>4, <1>1
      <4>2. CASE a \notin task.targets \cap known
        BY <4>2, <3>1, <2>4, <3>3, <1>1 DEF AcquiredByHolder, TargetsOf
      <4> QED BY <4>1, <4>2
    <3> QED BY <3>4, <3>5 DEF AcquiredByHolder, TargetsOf
  <2>8. TargetsAreSpawned'
    BY <1>1, <1>2, <2>2, <2>3 DEF TargetsAreSpawned, TargetsOf, worldVars
  <2> QED BY <2>5, <2>6, <2>7, <2>8
<1>5. CASE /\ procs' = [procs EXCEPT ![s] = AddStarvationCount(@)]
           /\ reserved' = IF procs[s].starvation >= StarvationLimit
                           THEN [a \in Actors |-> IF a \in TargetsOf(s) \cap known
                                                  THEN reserved[a] \cup {s} ELSE reserved[a]]
                           ELSE reserved
           /\ UNCHANGED <<acquired, workVars>>
  <2>1. /\ procs' \in [Slots -> Process]
        /\ \A r \in Slots : /\ procs'[r].state = procs[r].state
                            /\ procs'[r].task = procs[r].task
    BY <1>5, AddStarvationCountType DEF TypeOK
  <2>2. reserved' \in [Actors -> SUBSET Slots]
    BY <1>5 DEF TypeOK
  <2>3. TypeOK'
    BY <1>1, <1>5, <2>1, <2>2 DEF TypeOK, worldVars, workVars
  <2>4. Running' = Running
    BY <2>1 DEF Running, InState
  <2>5. ProcessStates'
    BY <1>1, <1>5, <2>1 DEF ProcessStates, workVars
  <2>6. AcquiredByHolder'
    BY <1>1, <1>5, <2>1, <2>4 DEF AcquiredByHolder, TargetsOf, Running, InState
  <2>7. TargetsAreSpawned'
    BY <1>1, <2>1 DEF TargetsAreSpawned, TargetsOf, worldVars
  <2> QED BY <2>3, <2>5, <2>6, <2>7
<1> QED BY <1>4, <1>5 DEF TryStartNext

-----------------------------------------------------------------------------
(* RemoveController keeps running processes running with their task, and    *)
(* otherwise at most retires a process.                                     *)
LEMMA RemoveControllersType ==
    ASSUME procs \in [Slots -> Process], NEW gone
    PROVE  LET P == RemoveControllers(procs, gone)
           IN  /\ P \in [Slots -> Process]
               /\ \A r \in Slots : /\ P[r].state = procs[r].state \/ P[r].state = "Recycled"
                                   /\ procs[r].state = "Running" => P[r].state = "Running"
                                   /\ P[r].state \in {"Ready", "Running"} =>
                                         P[r].task = procs[r].task
                                   /\ procs[r].state = "Running" => P[r].id = procs[r].id
<1> DEFINE P == RemoveControllers(procs, gone)
<1>1. SUFFICES ASSUME NEW r \in Slots
               PROVE  /\ P[r] \in Process
                      /\ P[r].state = procs[r].state \/ P[r].state = "Recycled"
                      /\ procs[r].state = "Running" => P[r].state = "Running"
                      /\ P[r].state \in {"Ready", "Running"} => P[r].task = procs[r].task
                      /\ procs[r].state = "Running" => P[r].id = procs[r].id
  BY DEF RemoveControllers
<1>2. \/ P[r] = procs[r]
      \/ procs[r].state = "Running" /\ P[r] = [procs[r] EXCEPT !.terminateReserved = TRUE]
      \/ procs[r].state # "Running" /\ P[r] = DeadProcess("Recycled")
  BY DEF RemoveControllers
<1>3. CASE P[r] = procs[r]
  BY <1>3
<1>4. CASE procs[r].state = "Running" /\ P[r] = [procs[r] EXCEPT !.terminateReserved = TRUE]
  <2> DEFINE p == procs[r]
  <2>1. p \in Process
    OBVIOUS
  <2> HIDE DEF p
  <2>2. LET q == [p EXCEPT !.terminateReserved = TRUE]
        IN q \in Process /\ q.state = p.state /\ q.task = p.task /\ q.id = p.id
    BY <2>1 DEF Process
  <2> QED BY <1>4, <2>2 DEF p
<1>5. CASE procs[r].state # "Running" /\ P[r] = DeadProcess("Recycled")
  BY <1>5, DeadProcessType DEF States
<1> QED BY <1>2, <1>3, <1>4, <1>5

(* A completion gives back what its task held and removes whom it removed.  *)
LEMMA CompleteTaskStep ==
    ASSUME IndInv, NEW s \in Slots, CompleteTask(s)
    PROVE  IndInv'
<1> USE DEF IndInv, TypeOK
<1> DEFINE t == procs[s].task
           gone == RemovedBy(s)
           P == RemoveControllers(procs, gone)
           q == queues[P[s].id]
           next == [P EXCEPT ![s] = AfterCompletion(P[s], q)]
<1>1. /\ procs' = next
      /\ queues' = [a \in Actors |-> IF HasController(next, a)
                             THEN IF a = P[s].id /\ queues[a] # <<>>
                                  THEN Tail(queues[a]) ELSE queues[a]
                             ELSE <<>>]
      /\ ReleaseAndRemove(t.targets, gone)
      /\ left' = left \cup LeftBehind(P)
      /\ snapshot' = (snapshot \ gone) \cup (IF t.kind = "spawn" THEN {t.subject} ELSE {})
      /\ token' = IF t.kind = "despawn"
                       THEN [token EXCEPT ![<<t.subject, t.caller>>] = "set"] ELSE token
      /\ scan' = IF shutdown THEN {} ELSE InState(next, "Ready")
      /\ join' = IF shutdown /\ join = "waiting" /\ InState(next, "Running") = {}
                      THEN "returned" ELSE join
  BY DEF CompleteTask
<1>2. /\ phase' = [phase EXCEPT ![s] = "idle"]
      /\ dead' = [dead EXCEPT ![s] = {}]
      /\ UNCHANGED <<seen, entities, spawned, shutdown, clock>>
  BY DEF CompleteTask
<1>3. procs[s].state = "Running" /\ t \in Task
  BY DEF CompleteTask, ProcessStates
<1>4. /\ P \in [Slots -> Process]
      /\ \A r \in Slots : /\ P[r].state = procs[r].state \/ P[r].state = "Recycled"
                          /\ procs[r].state = "Running" => P[r].state = "Running"
                          /\ P[r].state \in {"Ready", "Running"} => P[r].task = procs[r].task
                          /\ procs[r].state = "Running" => P[r].id = procs[r].id
  BY RemoveControllersType
<1> HIDE DEF P, gone
<1>5. P[s].id \in Actors \cup {None}
  BY <1>4 DEF Process
<1>6. /\ AfterCompletion(P[s], q) \in Process
      /\ AfterCompletion(P[s], q).state \in {"Recycled", "Waiting", "Ready"}
      /\ AfterCompletion(P[s], q).state = "Ready" =>
            P[s].id \in Actors /\ q # <<>> /\ AfterCompletion(P[s], q).task = Head(q)
  <2>1. CASE P[s].id = None \/ P[s].terminateReserved
    BY <2>1, DeadProcessType DEF AfterCompletion, States
  <2>2. CASE ~ (P[s].id = None \/ P[s].terminateReserved) /\ q = <<>>
    BY <2>2, <1>4, ToStateType DEF AfterCompletion, States, LiveStates
  <2>3. CASE ~ (P[s].id = None \/ P[s].terminateReserved) /\ q # <<>>
    <3>1. P[s].id \in Actors
      BY <2>3, <1>5
    <3>2. q \in Seq(Task) /\ Head(q) \in Task
      BY <3>1, <2>3
    <3>3. AfterCompletion(P[s], q) = ToState(P[s], "Ready", Head(q))
      BY <2>3 DEF AfterCompletion
    <3> HIDE DEF q
    <3>4. /\ ToState(P[s], "Ready", Head(q)) \in Process
          /\ ToState(P[s], "Ready", Head(q)).state = "Ready"
          /\ ToState(P[s], "Ready", Head(q)).task = Head(q)
      <4>1. P[s] \in Process /\ "Ready" \in States /\ Head(q) \in Task \cup {None}
        BY <3>2, <1>4 DEF States, LiveStates
      <4> QED BY <4>1, ToStateType
    <3> QED BY <2>3, <3>1, <3>3, <3>4
  <2> QED BY <2>1, <2>2, <2>3
<1>7. /\ next \in [Slots -> Process]
      /\ next[s] = AfterCompletion(P[s], q)
      /\ \A r \in Slots \ {s} : next[r] = P[r]
  BY <1>4, <1>6
<1>8. queues' \in [Actors -> Seq(Task)]
  <2>1. \A a \in Actors : queues[a] # <<>> => Tail(queues[a]) \in Seq(Task)
    OBVIOUS
  <2> QED BY <1>1, <2>1, EmptyQueue
<1> HIDE DEF next
<1>9. TypeOK'
  <2>1. t.subject \in Actors
    BY <1>3 DEF Task
  <2>2. /\ known' \in SUBSET Actors
        /\ acquired' \in [Actors -> Slots \cup {None}]
        /\ reserved' \in [Actors -> SUBSET Slots]
    BY <1>1 DEF ReleaseAndRemove
  <2>3. snapshot' \in SUBSET Actors
    BY <1>1, <2>1
  <2>4. token' \in [Players \X Callers -> {"none", "pending", "set", "lost"}]
    BY <1>1
  <2>5. scan' \in SUBSET Slots /\ join' \in {"none", "waiting", "returned"}
    BY <1>1 DEF InState
  <2>6. left' \in SUBSET Actors
    BY <1>1 DEF LeftBehind
  <2> QED BY <1>1, <1>2, <1>7, <1>8, <2>2, <2>3, <2>4, <2>5, <2>6
<1>10. \A r \in Slots \ {s} : procs'[r].state \in {"Ready", "Running"} =>
             procs'[r].state = procs[r].state /\ procs'[r].task = procs[r].task
  <2> SUFFICES ASSUME NEW r \in Slots \ {s}, procs'[r].state \in {"Ready", "Running"}
               PROVE  procs'[r].state = procs[r].state /\ procs'[r].task = procs[r].task
    OBVIOUS
  <2>1. procs'[r] = P[r]
    BY <1>1, <1>7
  <2>2. /\ P[r].state = procs[r].state \/ P[r].state = "Recycled"
        /\ P[r].state \in {"Ready", "Running"} => P[r].task = procs[r].task
    BY <1>4
  <2> QED BY <2>1, <2>2
<1>11. Running' = Running \ {s} /\ s \in Running
  <2>1. procs'[s].state # "Running"
    BY <1>1, <1>6, <1>7
  <2>2. \A r \in Slots \ {s} : procs'[r].state = "Running" <=> procs[r].state = "Running"
    <3> SUFFICES ASSUME NEW r \in Slots \ {s}
                 PROVE  procs'[r].state = "Running" <=> procs[r].state = "Running"
      OBVIOUS
    <3>1. procs'[r] = P[r]
      BY <1>1, <1>7
    <3>2. /\ P[r].state = procs[r].state \/ P[r].state = "Recycled"
          /\ procs[r].state = "Running" => P[r].state = "Running"
      BY <1>4
    <3> QED BY <3>1, <3>2
  <2> QED BY <2>1, <2>2, <1>3 DEF Running, InState
<1>12. ProcessStates'
  <2> SUFFICES ASSUME NEW r \in Slots
               PROVE  /\ phase'[r] # "idle" <=> procs'[r].state = "Running"
                      /\ procs'[r].state \in {"Ready", "Running"} => procs'[r].task \in Task
                      /\ r \in scan' => procs'[r].state = "Ready"
    BY DEF ProcessStates
  <2>1. r \in scan' => procs'[r].state = "Ready"
    BY <1>1 DEF InState
  <2>2. CASE r = s
    <3>1. procs'[s].state = "Ready" => Head(q) \in Task
      BY <1>1, <1>6, <1>7
    <3> QED BY <1>1, <1>2, <1>6, <1>7, <2>1, <2>2, <3>1
  <2>3. CASE r # s
    <3>1. procs'[r].state = "Running" <=> procs[r].state = "Running"
      BY <1>11, <2>3 DEF Running, InState
    <3> QED BY <1>2, <1>10, <2>1, <2>3, <3>1 DEF ProcessStates
  <2> QED BY <2>2, <2>3
<1>13. AcquiredByHolder'
  <2>1. \A a \in Actors : acquired'[a] =
             IF a \in (t.targets \cap known) \cup gone THEN None ELSE acquired[a]
    BY <1>1 DEF ReleaseAndRemove
  <2>2. known' = known \ gone
    BY <1>1 DEF ReleaseAndRemove
  <2>3. \A r \in Running' : /\ r \in Running /\ r # s
                            /\ procs'[r].task = procs[r].task
    BY <1>10, <1>11 DEF Running, InState
  <2>4. \A r \in Running' : \A a \in procs'[r].task.targets \cap known' : acquired'[a] = r
    <3> SUFFICES ASSUME NEW r \in Running', NEW a \in procs'[r].task.targets \cap known'
                 PROVE  acquired'[a] = r
      OBVIOUS
    <3>1. r \in Running /\ r # s /\ a \in TargetsOf(r) \cap known /\ a \notin gone
      BY <2>2, <2>3 DEF TargetsOf
    <3>2. acquired[a] = r
      BY <3>1 DEF AcquiredByHolder
    <3>3. a \notin t.targets
      BY <1>11, <3>1, <3>2 DEF AcquiredByHolder, TargetsOf
    <3> QED BY <2>1, <3>1, <3>2, <3>3
  <2>5. \A a \in Actors : acquired'[a] # None =>
             acquired'[a] \in Running' /\ a \in known' \cap procs'[acquired'[a]].task.targets
    <3> SUFFICES ASSUME NEW a \in Actors, acquired'[a] # None
                 PROVE  acquired'[a] \in Running' /\ a \in known' \cap procs'[acquired'[a]].task.targets
      OBVIOUS
    <3>1. a \notin gone /\ a \notin t.targets \cap known /\ acquired'[a] = acquired[a]
      BY <2>1
    <3>2. acquired[a] \in Running /\ a \in known /\ a \in procs[acquired[a]].task.targets
      BY <3>1 DEF AcquiredByHolder, TargetsOf
    <3>3. acquired[a] # s
      BY <3>1, <3>2
    <3> QED BY <1>11, <2>2, <2>3, <3>1, <3>2, <3>3
  <2> QED BY <2>4, <2>5 DEF AcquiredByHolder, TargetsOf
<1>14. TargetsAreSpawned'
  <2>1. spawned' = spawned /\ known' \subseteq spawned
    BY <1>1, <1>2 DEF TargetsAreSpawned, ReleaseAndRemove
  <2>2. t.kind = "spawn" => t.subject \in spawned
    BY <1>3 DEF TargetsAreSpawned, Mentions
  <2>3. snapshot' \subseteq spawned
    BY <1>1, <2>2 DEF TargetsAreSpawned
  <2>4. \A a \in Actors : \A i \in DOMAIN queues'[a] : Mentions(queues'[a][i]) \subseteq spawned
    <3> SUFFICES ASSUME NEW a \in Actors, NEW i \in DOMAIN queues'[a]
                 PROVE  Mentions(queues'[a][i]) \subseteq spawned
      OBVIOUS
    <3>1. \/ queues'[a] = queues[a]
          \/ queues[a] # <<>> /\ queues'[a] = Tail(queues[a])
      BY <1>1, EmptyQueue
    <3>2. CASE queues'[a] = queues[a]
      BY <3>2 DEF TargetsAreSpawned
    <3>3. CASE queues[a] # <<>> /\ queues'[a] = Tail(queues[a])
      <4>1. i + 1 \in DOMAIN queues[a] /\ queues'[a][i] = queues[a][i + 1]
        BY <3>3
      <4> QED BY <4>1 DEF TargetsAreSpawned
    <3> QED BY <3>1, <3>2, <3>3
  <2>5. ASSUME NEW r \in Slots, procs'[r].state \in {"Ready", "Running"}
        PROVE  Mentions(procs'[r].task) \subseteq spawned
    <3>1. CASE r = s
      <4>1. P[s].id \in Actors /\ q # <<>> /\ procs'[s].task = Head(q)
        BY <1>1, <1>6, <1>7, <2>5, <3>1
      <4>2. 1 \in DOMAIN q /\ Head(q) = q[1]
        BY <4>1
      <4> QED BY <3>1, <4>1, <4>2 DEF TargetsAreSpawned
    <3>2. CASE r # s
      BY <1>10, <2>5, <3>2 DEF TargetsAreSpawned
    <3> QED BY <3>1, <3>2
  <2> QED BY <2>1, <2>3, <2>4, <2>5 DEF TargetsAreSpawned
<1> QED BY <1>9, <1>12, <1>13, <1>14

-----------------------------------------------------------------------------
(* The other strand turns and stuttering leave processes, resources and     *)
(* workers alone.                                                           *)
LEMMA OtherStep ==
    ASSUME IndInv, TryStartBreak \/ ShutdownAndJoin \/ UNCHANGED vars
    PROVE  IndInv'
<1>1. /\ UNCHANGED <<procVars, resVars, workVars, worldVars, clock>>
      /\ scan' = {} \/ scan' = scan
  BY DEF TryStartBreak, ShutdownAndJoin, vars
<1>2. shutdown' \in BOOLEAN /\ join' \in {"none", "waiting", "returned"}
  BY DEF TryStartBreak, ShutdownAndJoin, vars, IndInv, TypeOK
<1>3. TypeOK'
  BY <1>1, <1>2 DEF IndInv, TypeOK, procVars, resVars, workVars, worldVars
<1>4. ProcessStates' /\ AcquiredByHolder' /\ TargetsAreSpawned'
  BY <1>1 DEF IndInv, ProcessStates, AcquiredByHolder, TargetsAreSpawned, TargetsOf,
              Running, InState, procVars, resVars, workVars, worldVars
<1> QED BY <1>3, <1>4 DEF IndInv

(* IndInv is inductive. *)
LEMMA NextKeepsInvariant == IndInv /\ [Next]_vars => IndInv'
<1> SUFFICES ASSUME IndInv, [Next]_vars PROVE IndInv'
  OBVIOUS
<1>1. CASE ScheduleTask
  BY <1>1, ScheduleAdmits, AdmissionStep, DropDespawnStep DEF IndInv
<1>2. CASE \E s \in Slots : BeginExecution(s) \/ FinishExecution(s)
  BY <1>2, WorkerStep
<1>3. CASE \E s \in Slots : CompleteTask(s)
  BY <1>3, CompleteTaskStep
<1>4. CASE \E s \in Slots : TryStartNext(s)
  BY <1>4, TryStartNextStep
<1>5. CASE TryStartBreak \/ ShutdownAndJoin \/ UNCHANGED vars
  BY <1>5, OtherStep
<1> QED BY <1>1, <1>2, <1>3, <1>4, <1>5 DEF Next

(* IndInv holds in every reachable state, for any number of players,        *)
(* monsters, tasks, workers and any starvation limit.                       *)
THEOREM SchedulerInvariant == Spec => []IndInv
BY InitInvariant, NextKeepsInvariant, PTL DEF Spec

(* The scheduler's tables stay well formed. *)
THEOREM SchedulerTypes == Spec => []TypeOK
<1>1. IndInv => TypeOK
  BY DEF IndInv
<1> QED BY SchedulerInvariant, <1>1, PTL

(* The acquired pointer of a resource and the tasks that run agree, so the  *)
(* assertions of AllocateResource and DeallocateResource never fail.        *)
THEOREM SchedulerHolders == Spec => []AcquiredByHolder
<1>1. IndInv => AcquiredByHolder
  BY DEF IndInv
<1> QED BY SchedulerInvariant, <1>1, PTL

(* Tasks that run in parallel hold disjoint resources: a resource has one   *)
(* acquired pointer, and every holder is the one it points to.              *)
THEOREM SchedulerExclusion == Spec => []ExclusiveTargets
<1>1. IndInv => ExclusiveTargets
  <2> SUFFICES ASSUME IndInv,
                      NEW s1 \in Running, NEW s2 \in Running, s1 # s2,
                      NEW a \in TargetsOf(s1) \cap TargetsOf(s2) \cap known
               PROVE  FALSE
    BY DEF ExclusiveTargets
  <2>1. acquired[a] = s1 /\ acquired[a] = s2
    BY DEF IndInv, AcquiredByHolder
  <2> QED BY <2>1
<1> QED BY SchedulerInvariant, <1>1, PTL

-----------------------------------------------------------------------------
(* Where tasks are after a step *)

Busy(s) == procs[s].state \in {"Ready", "Running"}

(* ChangeState and the starvation count leave the controller alone. *)
LEMMA SameController ==
    ASSUME NEW p \in Process, NEW st, NEW t
    PROVE  /\ ToState(p, st, t).id = p.id /\ ToState(p, st, t).state = st /\ ToState(p, st, t).task = t
           /\ ToState(p, st, t).terminateReserved = p.terminateReserved
           /\ AddStarvationCount(p).id = p.id
           /\ AddStarvationCount(p).terminateReserved = p.terminateReserved
BY DEF ToState, AddStarvationCount, Process

(* Schedule puts the new task at one place, on its process or at the end of *)
(* the controller's queue, and leaves every other task where it was.        *)
Placed(N, P, s, t) ==
    /\ \A r \in Slots : r # s => procs'[r] = P[r]
    /\ \A r \in Slots : r # s =>
          phase'[r] = phase[r] /\ seen'[r] = seen[r] /\ dead'[r] = dead[r]
    /\ \A r \in Slots : Busy(r) => P[r] = procs[r]
    /\ \A r \in Slots : procs'[r].id = P[r].id
    /\ \A r \in Slots : procs'[r].terminateReserved = P[r].terminateReserved
    /\ clock' = clock + 1 /\ known' = known \cup N /\ entities' = entities
    /\ \/ /\ Busy(s) /\ procs' = P /\ phase' = phase /\ seen' = seen /\ dead' = dead
          /\ procs[s].id \in Actors =>
                queues' = [NewQueues(N) EXCEPT ![procs[s].id] = Append(@, t)]
          /\ procs[s].id \notin Actors => queues' = NewQueues(N)
       \/ /\ P[s].state = "Waiting" /\ ~ Busy(s) /\ queues' = NewQueues(N)
          /\ procs'[s].state \in {"Ready", "Running"} /\ procs'[s].task = t
          /\ phase'[s] \in {"idle", "posted"}
          /\ seen'[s] \in {seen[s], {}} /\ dead'[s] \in {dead[s], {}}

(* Every admission places its task so. *)
LEMMA AdmissionPlaces ==
    ASSUME TypeOK, ProcessStates, NEW N \in SUBSET Actors, NEW P \in [Slots -> Process],
           NEW s \in Slots, NEW t \in Task, Prepared(N, P, s, t)
    PROVE  Placed(N, P, s, t)
<1> USE DEF TypeOK
<1>1. /\ \A r \in Slots : P[r] # procs[r] =>
             ~ Live(procs, r) /\ \E id \in N \cup {None} : P[r] = FreshProcess(id)
      /\ Live(P, s) /\ Admit(P, NewQueues(N), known \cup N, acquired, NewReserved(N), s, t)
  BY DEF Prepared, NewProcesses
<1>2. \A r \in Slots : Busy(r) => P[r] = procs[r]
  BY <1>1 DEF Live, LiveStates, Busy
<1>3. \A r \in Slots : P[r].state \in {"Ready", "Running"} => P[r] = procs[r]
  BY <1>1, FreshProcessIs
<1>4. clock' = clock + 1 /\ known' = known \cup N /\ entities' = entities
  BY <1>1 DEF Admit, PostStart, workVars
<1>5. NewQueues(N) \in [Actors -> Seq(Task)]
  BY EmptyQueue DEF NewQueues
<1>6. CASE /\ P[s].state \in {"Running", "Ready"}
           /\ procs' = P
           /\ queues' = [NewQueues(N) EXCEPT ![P[s].id] = Append(@, t)]
           /\ UNCHANGED workVars
  <2>1. P[s] = procs[s] /\ Busy(s)
    BY <1>3, <1>6 DEF Busy
  <2>2. procs[s].id \notin Actors => queues' = NewQueues(N)
    BY <1>5, <1>6, <2>1
  <2> QED BY <1>2, <1>4, <1>6, <2>1, <2>2 DEF workVars, Placed
<1>7. ASSUME P[s].state = "Waiting", NEW X \in {"Ready", "Running"},
             procs' = [P EXCEPT ![s] = ToState(@, X, t)], queues' = NewQueues(N),
             PostStart(s) \/ UNCHANGED workVars
      PROVE  /\ \A r \in Slots : r # s => /\ procs'[r] = P[r] /\ phase'[r] = phase[r]
                                          /\ seen'[r] = seen[r] /\ dead'[r] = dead[r]
             /\ \A r \in Slots : procs'[r].id = P[r].id
             /\ \A r \in Slots : procs'[r].terminateReserved = P[r].terminateReserved
             /\ ~ Busy(s) /\ procs'[s].state \in {"Ready", "Running"} /\ procs'[s].task = t
             /\ phase'[s] \in {"idle", "posted"}
             /\ seen'[s] \in {seen[s], {}} /\ dead'[s] \in {dead[s], {}}
  <2>1. procs'[s] = ToState(P[s], X, t) /\ \A r \in Slots : r # s => procs'[r] = P[r]
    BY <1>7
  <2>2. /\ procs'[s].state = X /\ procs'[s].task = t /\ procs'[s].id = P[s].id
        /\ procs'[s].terminateReserved = P[s].terminateReserved
    BY <2>1, SameController
  <2>3. ~ Busy(s)
    BY <1>2, <1>7 DEF Busy
  <2>4. phase[s] = "idle"
    BY <2>3 DEF ProcessStates, Busy
  <2>5. /\ \A r \in Slots : r # s => phase'[r] = phase[r] /\ seen'[r] = seen[r] /\ dead'[r] = dead[r]
        /\ phase'[s] \in {"idle", "posted"}
        /\ seen'[s] \in {seen[s], {}} /\ dead'[s] \in {dead[s], {}}
    BY <1>7, <2>4 DEF PostStart, workVars
  <2> QED BY <2>1, <2>2, <2>3, <2>5
<1>8. CASE \E X \in {"Ready", "Running"} :
             /\ P[s].state = "Waiting"
             /\ procs' = [P EXCEPT ![s] = ToState(@, X, t)] /\ queues' = NewQueues(N)
             /\ PostStart(s) \/ UNCHANGED workVars
  <2>1. PICK X \in {"Ready", "Running"} :
             /\ P[s].state = "Waiting"
             /\ procs' = [P EXCEPT ![s] = ToState(@, X, t)] /\ queues' = NewQueues(N)
             /\ PostStart(s) \/ UNCHANGED workVars
    BY <1>8
  <2> QED BY <1>2, <1>4, <1>7, <2>1 DEF Placed
<1>9. \/ /\ P[s].state \in {"Running", "Ready"}
         /\ procs' = P
         /\ queues' = [NewQueues(N) EXCEPT ![P[s].id] = Append(@, t)]
         /\ UNCHANGED workVars
      \/ \E X \in {"Ready", "Running"} :
             /\ P[s].state = "Waiting"
             /\ procs' = [P EXCEPT ![s] = ToState(@, X, t)] /\ queues' = NewQueues(N)
             /\ PostStart(s) \/ UNCHANGED workVars
  BY <1>1 DEF Admit
<1> QED BY <1>6, <1>8, <1>9 DEF Placed

(* A completion takes the task of its process away and gives it the first   *)
(* of its controller's queue, if it goes on; other processes keep what they *)
(* have or are recycled, and the queues of removed controllers are dropped. *)
LEMMA CompletionPlaces ==
    ASSUME TypeOK, ProcessStates, NEW s \in Slots, CompleteTask(s)
    PROVE  /\ procs[s].state = "Running"
           /\ \A r \in Slots : Live(procs', r) => Live(procs, r) /\ procs'[r].id = procs[r].id
           /\ \A r \in Slots : r # s /\ Live(procs', r) =>
                  /\ procs'[r].state = procs[r].state /\ procs'[r].task = procs[r].task
                  /\ procs[r].id \in RemovedBy(s) => procs'[r].state = "Running" /\ procs'[r].terminateReserved
                  /\ procs[r].id \notin RemovedBy(s) => procs'[r] = procs[r]
           /\ Live(procs', s) =>
                  /\ procs[s].id \in Actors \ RemovedBy(s) /\ ~ procs[s].terminateReserved
                  /\ procs'[s].terminateReserved = FALSE
                  /\ \/ procs'[s].state = "Waiting" /\ queues[procs[s].id] = <<>>
                     \/ /\ procs'[s].state = "Ready" /\ queues[procs[s].id] # <<>>
                        /\ procs'[s].task = Head(queues[procs[s].id])
           /\ \A a \in Actors :
                  \/ queues'[a] = <<>>
                  \/ a # procs[s].id /\ queues'[a] = queues[a]
                  \/ a = procs[s].id /\ queues[a] # <<>> /\ queues'[a] = Tail(queues[a])
           /\ known' = known \ RemovedBy(s) /\ RemovedBy(s) \subseteq Actors
           /\ \A r \in Slots : r # s => phase'[r] = phase[r] /\ dead'[r] = dead[r]
           /\ phase'[s] = "idle" /\ dead'[s] = {} /\ phase[s] = "executed"
           /\ snapshot' = (snapshot \ RemovedBy(s)) \cup
                  (IF procs[s].task.kind = "spawn" THEN {procs[s].task.subject} ELSE {})
           /\ UNCHANGED <<seen, entities, spawned, clock>>
<1> USE DEF TypeOK
<1> DEFINE gone == RemovedBy(s)
           P == RemoveControllers(procs, gone)
           q == queues[P[s].id]
           next == [P EXCEPT ![s] = AfterCompletion(P[s], q)]
<1>1. /\ procs' = next
      /\ queues' = [a \in Actors |-> IF HasController(next, a)
                             THEN IF a = P[s].id /\ queues[a] # <<>>
                                  THEN Tail(queues[a]) ELSE queues[a]
                             ELSE <<>>]
      /\ known' = known \ gone /\ phase[s] = "executed"
      /\ snapshot' = (snapshot \ gone) \cup
                  (IF procs[s].task.kind = "spawn" THEN {procs[s].task.subject} ELSE {})
      /\ phase' = [phase EXCEPT ![s] = "idle"] /\ dead' = [dead EXCEPT ![s] = {}]
      /\ UNCHANGED <<seen, entities, spawned, clock>>
  BY DEF CompleteTask, ReleaseAndRemove
<1>2. procs[s].state = "Running" /\ procs[s].task \in Task
  BY <1>1 DEF ProcessStates
<1>3. gone \subseteq Actors
  BY <1>2 DEF RemovedBy, Task
<1>4. /\ P \in [Slots -> Process]
      /\ \A r \in Slots : /\ P[r].state = procs[r].state \/ P[r].state = "Recycled"
                          /\ procs[r].state = "Running" => P[r].state = "Running"
                          /\ P[r].state \in {"Ready", "Running"} => P[r].task = procs[r].task
                          /\ procs[r].state = "Running" => P[r].id = procs[r].id
  BY RemoveControllersType
<1>5. \A r \in Slots :
          P[r] = IF procs[r].state \in LiveStates /\ procs[r].id \in gone
                 THEN IF procs[r].state = "Running" THEN [procs[r] EXCEPT !.terminateReserved = TRUE]
                      ELSE DeadProcess("Recycled")
                 ELSE procs[r]
  BY DEF RemoveControllers
<1>6. \A p \in Process : /\ [p EXCEPT !.terminateReserved = TRUE].terminateReserved
                         /\ [p EXCEPT !.terminateReserved = TRUE].id = p.id
                         /\ [p EXCEPT !.terminateReserved = TRUE].state = p.state
                         /\ [p EXCEPT !.terminateReserved = TRUE].task = p.task
  BY DEF Process
<1>7. DeadProcess("Recycled").state = "Recycled"
  BY DeadProcessType DEF States
<1> HIDE DEF P, gone
<1>8. \A r \in Slots : Live(P, r) =>
          /\ Live(procs, r) /\ P[r].state = procs[r].state /\ P[r].id = procs[r].id
          /\ P[r].task = procs[r].task
          /\ procs[r].id \in gone => P[r].state = "Running" /\ P[r].terminateReserved
          /\ procs[r].id \notin gone => P[r] = procs[r]
  <2> SUFFICES ASSUME NEW r \in Slots, Live(P, r)
               PROVE  /\ Live(procs, r) /\ P[r].state = procs[r].state /\ P[r].id = procs[r].id
                      /\ P[r].task = procs[r].task
                      /\ procs[r].id \in gone => P[r].state = "Running" /\ P[r].terminateReserved
                      /\ procs[r].id \notin gone => P[r] = procs[r]
    OBVIOUS
  <2>1. procs[r] \in Process
    OBVIOUS
  <2>2. CASE procs[r].state \in LiveStates /\ procs[r].id \in gone /\ procs[r].state = "Running"
    <3>1. P[r] = [procs[r] EXCEPT !.terminateReserved = TRUE]
      BY <1>5, <2>2
    <3> QED BY <1>6, <2>1, <2>2, <3>1 DEF Live
  <2>3. CASE procs[r].state \in LiveStates /\ procs[r].id \in gone /\ procs[r].state # "Running"
    <3>1. P[r] = DeadProcess("Recycled")
      BY <1>5, <2>3
    <3> QED BY <1>7, <3>1 DEF Live, LiveStates
  <2>4. CASE ~ (procs[r].state \in LiveStates /\ procs[r].id \in gone)
    <3>1. P[r] = procs[r]
      BY <1>5, <2>4
    <3> QED BY <2>4, <3>1 DEF Live
  <2> QED BY <2>2, <2>3, <2>4
<1>9. /\ P[s].id = procs[s].id /\ P[s] \in Process
      /\ procs[s].id \in gone => P[s].terminateReserved
      /\ procs[s].id \notin gone => P[s] = procs[s]
  BY <1>2, <1>4, <1>8 DEF Live, LiveStates
<1>10. \A r \in Slots : r # s => next[r] = P[r]
  BY <1>4
<1>11. next[s] = AfterCompletion(P[s], q)
  BY <1>4
<1>12. procs[s].id \in Actors \cup {None}
  BY DEF Process
<1> HIDE DEF next
<1>13. Live(procs', s) =>
          /\ P[s].id # None /\ ~ P[s].terminateReserved
          /\ \/ q = <<>> /\ procs'[s] = ToState(P[s], "Waiting", None)
             \/ q # <<>> /\ procs'[s] = ToState(P[s], "Ready", Head(q))
  BY <1>1, <1>7, <1>11 DEF AfterCompletion, Live, LiveStates
<1>14. Live(procs', s) =>
          /\ procs[s].id \in Actors \ gone /\ ~ procs[s].terminateReserved
          /\ procs'[s].id = procs[s].id /\ procs'[s].terminateReserved = FALSE
          /\ \/ procs'[s].state = "Waiting" /\ queues[procs[s].id] = <<>>
             \/ /\ procs'[s].state = "Ready" /\ queues[procs[s].id] # <<>>
                /\ procs'[s].task = Head(queues[procs[s].id])
  BY <1>9, <1>12, <1>13, SameController DEF Process
<1>15. \A a \in Actors :
          \/ queues'[a] = <<>>
          \/ a # procs[s].id /\ queues'[a] = queues[a]
          \/ a = procs[s].id /\ queues[a] # <<>> /\ queues'[a] = Tail(queues[a])
  BY <1>1, <1>9
<1>16. \A r \in Slots : Live(procs', r) => Live(procs, r) /\ procs'[r].id = procs[r].id
  <2> SUFFICES ASSUME NEW r \in Slots, Live(procs', r)
               PROVE  Live(procs, r) /\ procs'[r].id = procs[r].id
    OBVIOUS
  <2>1. CASE r = s
    BY <1>2, <1>14, <2>1 DEF Live, LiveStates
  <2>2. CASE r # s
    BY <1>1, <1>8, <1>10, <2>2 DEF Live
  <2> QED BY <2>1, <2>2
<1>17. \A r \in Slots : r # s /\ Live(procs', r) =>
          /\ procs'[r].state = procs[r].state /\ procs'[r].task = procs[r].task
          /\ procs[r].id \in gone => procs'[r].state = "Running" /\ procs'[r].terminateReserved
          /\ procs[r].id \notin gone => procs'[r] = procs[r]
  BY <1>1, <1>8, <1>10 DEF Live
<1>18. /\ \A r \in Slots : r # s => phase'[r] = phase[r] /\ dead'[r] = dead[r]
       /\ phase'[s] = "idle" /\ dead'[s] = {}
  BY <1>1
<1> QED BY <1>1, <1>2, <1>3, <1>14, <1>15, <1>16, <1>17, <1>18 DEF gone

-----------------------------------------------------------------------------
(* The order of the tasks of a controller *)

OneControllerEach == \A r, s \in Slots :
    Live(procs, r) /\ Live(procs, s) /\ procs[r].id = procs[s].id /\ procs[r].id # None => r = s
ControllersAreSpawned == \A s \in Slots : Live(procs, s) => procs[s].id \in spawned \cup {None}
QueuesInOrder == \A a \in Actors : \A i, j \in DOMAIN queues[a] :
    i < j => queues[a][i].born < queues[a][j].born
QueuedBeforeNow == \A a \in Actors : \A i \in DOMAIN queues[a] : queues[a][i].born < clock
TaskBeforeQueue == \A s \in Slots : Busy(s) =>
    /\ procs[s].task.born < clock
    /\ procs[s].id \in Actors =>
          \A i \in DOMAIN queues[procs[s].id] : procs[s].task.born < queues[procs[s].id][i].born
WaitingHasNoQueue == \A s \in Slots :
    procs[s].state = "Waiting" /\ procs[s].id \in Actors => queues[procs[s].id] = <<>>
OrderInv ==
    /\ OneControllerEach
    /\ ControllersAreSpawned
    /\ QueuesInOrder
    /\ QueuedBeforeNow
    /\ TaskBeforeQueue
    /\ WaitingHasNoQueue

(* The positions of a queue after Append and after Tail. *)
LEMMA AppendPositions ==
    ASSUME NEW q \in Seq(Task), NEW t \in Task
    PROVE  /\ DOMAIN Append(q, t) = DOMAIN q \cup {Len(q) + 1}
           /\ DOMAIN q = 1 .. Len(q) /\ Len(q) \in Nat
           /\ \A i \in DOMAIN q : Append(q, t)[i] = q[i]
           /\ Append(q, t)[Len(q) + 1] = t
OBVIOUS

(* The positions of a queue after Tail. *)
LEMMA TailPositions ==
    ASSUME NEW q \in Seq(Task), q # <<>>
    PROVE  /\ 1 \in DOMAIN q /\ Head(q) = q[1] /\ Head(q) \in Task
           /\ \A i \in DOMAIN Tail(q) :
                  i \in Nat /\ i > 0 /\ i + 1 \in DOMAIN q /\ Tail(q)[i] = q[i + 1]
OBVIOUS

(* The numbers that tasks are ordered by. *)
LEMMA BornIsNat == \A t \in Task : t.born \in Nat
BY DEF Task

(* At first nobody has a task. *)
LEMMA InitOrder == Init => IndInv /\ OrderInv
<1> SUFFICES ASSUME Init PROVE OrderInv
  BY InitInvariant
<1>1. PICK f \in [InitialActors -> Slots] :
          /\ \A a, b \in InitialActors : f[a] = f[b] => a = b
          /\ procs = [s \in Slots |->
                IF \E a \in InitialActors : f[a] = s
                THEN FreshProcess(CHOOSE a \in InitialActors : f[a] = s)
                ELSE DeadProcess("Unused")]
  BY DEF Init
<1>2. \A s \in Slots :
          \/ /\ procs[s].state = "Waiting"
             /\ procs[s].id \in InitialActors /\ f[procs[s].id] = s
          \/ procs[s].state = "Unused"
  <2> SUFFICES ASSUME NEW s \in Slots
               PROVE  \/ /\ procs[s].state = "Waiting"
                         /\ procs[s].id \in InitialActors /\ f[procs[s].id] = s
                      \/ procs[s].state = "Unused"
    OBVIOUS
  <2>1. CASE \E a \in InitialActors : f[a] = s
    <3> DEFINE b == CHOOSE a \in InitialActors : f[a] = s
    <3>1. b \in InitialActors /\ f[b] = s
      BY <2>1
    <3> HIDE DEF b
    <3>2. procs[s] = FreshProcess(b)
      BY <1>1, <2>1 DEF b
    <3> QED BY <3>1, <3>2, FreshProcessIs, InitialAssumption
  <2>2. CASE ~ \E a \in InitialActors : f[a] = s
    BY <1>1, <2>2, DeadProcessType DEF States
  <2> QED BY <2>1, <2>2
<1>3. \A a \in Actors : queues[a] = <<>>
  BY DEF Init
<1>4. OneControllerEach
  BY <1>2 DEF OneControllerEach, Live, LiveStates
<1>5. ControllersAreSpawned
  BY <1>2 DEF ControllersAreSpawned, Live, LiveStates, Init
<1>6. QueuesInOrder /\ QueuedBeforeNow /\ WaitingHasNoQueue
  BY <1>3, EmptyQueue DEF QueuesInOrder, QueuedBeforeNow, WaitingHasNoQueue
<1>7. TaskBeforeQueue
  BY <1>2 DEF TaskBeforeQueue, Busy
<1> QED BY <1>4, <1>5, <1>6, <1>7 DEF OrderInv

(* The new actors get processes of their own, the new task the latest time. *)
LEMMA AdmissionKeepsOrder ==
    ASSUME IndInv, OrderInv, Admission
    PROVE  OrderInv'
<1>0. TypeOK /\ ProcessStates
  BY DEF IndInv
<1>1. PICK N \in SUBSET Actors, P \in [Slots -> Process], s \in Slots, t \in Task :
          Prepared(N, P, s, t)
  BY DEF Admission
<1>z. Placed(N, P, s, t)
  BY <1>0, <1>1, AdmissionPlaces
<1>2. /\ \A r \in Slots : r # s => procs'[r] = P[r]
      /\ \A r \in Slots : Busy(r) => P[r] = procs[r]
      /\ \A r \in Slots : procs'[r].id = P[r].id
      /\ clock' = clock + 1
  BY <1>z DEF Placed
<1>3. \/ /\ Busy(s) /\ procs' = P
         /\ procs[s].id \in Actors =>
                queues' = [NewQueues(N) EXCEPT ![procs[s].id] = Append(@, t)]
         /\ procs[s].id \notin Actors => queues' = NewQueues(N)
      \/ /\ P[s].state = "Waiting" /\ ~ Busy(s) /\ queues' = NewQueues(N)
         /\ procs'[s].state \in {"Ready", "Running"} /\ procs'[s].task = t
  BY <1>z DEF Placed
<1>4. /\ \A r \in Slots : P[r] # procs[r] =>
             ~ Live(procs, r) /\ \E id \in N \cup {None} : P[r] = FreshProcess(id)
      /\ \A q, r \in Slots :
             ~ Live(procs, q) /\ Live(P, q) /\ ~ Live(procs, r) /\ Live(P, r)
                 => P[q].id = None \/ P[q].id # P[r].id \/ q = r
      /\ N \cap spawned = {} /\ spawned' = spawned \cup N /\ Live(P, s) /\ t.born = clock
  BY <1>1 DEF Prepared, NewProcesses, NewTaskOf
<1>5. \A r \in Slots : Live(procs', r) => Live(P, r)
  BY <1>2, <1>4 DEF Live
<1>6. \A r \in Slots : Live(P, r) /\ ~ Live(procs, r) =>
          P[r].id \in N \cup {None} /\ P[r].task = None /\ P[r].state = "Waiting"
  BY <1>4, FreshProcessIs DEF Live
<1>7. \A r \in Slots : Live(procs, r) => P[r] = procs[r]
  BY <1>4
<1>8. /\ \A a \in Actors : a \in N => NewQueues(N)[a] = <<>>
      /\ \A a \in Actors : a \notin N => NewQueues(N)[a] = queues[a]
  BY DEF NewQueues
<1>9. OneControllerEach'
  <2> SUFFICES ASSUME NEW q \in Slots, NEW r \in Slots, Live(P, q), Live(P, r),
                      P[q].id = P[r].id, P[q].id # None
               PROVE  q = r
    BY <1>2, <1>5 DEF OneControllerEach, Live
  <2>1. CASE Live(procs, q) /\ Live(procs, r)
    BY <1>7, <2>1 DEF OrderInv, OneControllerEach
  <2>2. ASSUME NEW u \in Slots, NEW v \in Slots, Live(procs, u), ~ Live(procs, v), Live(P, v)
        PROVE  P[u].id # P[v].id \/ P[u].id = None
    <3>1. P[u].id \in spawned \cup {None} /\ P[v].id \in N \cup {None}
      BY <1>6, <1>7, <2>2 DEF OrderInv, ControllersAreSpawned
    <3> QED BY <1>4, <3>1
  <2>3. CASE ~ Live(procs, q) /\ ~ Live(procs, r)
    BY <1>4, <2>3
  <2> QED BY <2>1, <2>2, <2>3
<1>10. ControllersAreSpawned'
  BY <1>2, <1>4, <1>5, <1>6, <1>7 DEF OrderInv, ControllersAreSpawned, Live
<1>11. \A a \in Actors :
          \/ queues'[a] = <<>> \/ queues'[a] = queues[a]
          \/ a = procs[s].id /\ Busy(s) /\ queues'[a] = Append(queues[a], t)
  <2> SUFFICES ASSUME NEW a \in Actors
               PROVE  \/ queues'[a] = <<>> \/ queues'[a] = queues[a]
                      \/ a = procs[s].id /\ Busy(s) /\ queues'[a] = Append(queues[a], t)
    OBVIOUS
  <2>1. CASE Busy(s) /\ a = procs[s].id /\ queues' = [NewQueues(N) EXCEPT ![procs[s].id] = Append(@, t)]
    <3>1. Live(procs, s) /\ a # None
      BY <2>1, DisjointActors DEF Busy, Live, LiveStates
    <3>2. a \notin N
      BY <1>4, <2>1, <3>1 DEF OrderInv, ControllersAreSpawned
    <3> QED BY <1>8, <2>1, <3>2 DEF NewQueues
  <2>2. CASE queues'[a] = NewQueues(N)[a]
    BY <1>8, <2>2
  <2> QED BY <1>3, <2>1, <2>2 DEF NewQueues
<1>12. QueuesInOrder' /\ QueuedBeforeNow'
  <2> SUFFICES ASSUME NEW a \in Actors
               PROVE  /\ \A i, j \in DOMAIN queues'[a] : i < j => queues'[a][i].born < queues'[a][j].born
                      /\ \A i \in DOMAIN queues'[a] : queues'[a][i].born < clock'
    BY DEF QueuesInOrder, QueuedBeforeNow
  <2>1. CASE queues'[a] = <<>>
    BY <2>1, EmptyQueue
  <2>2. /\ queues[a] \in Seq(Task)
        /\ \A i, j \in DOMAIN queues[a] : i < j => queues[a][i].born < queues[a][j].born
        /\ \A i \in DOMAIN queues[a] : queues[a][i].born < clock /\ queues[a][i].born \in Nat
    BY <1>0, BornIsNat DEF TypeOK, OrderInv, QueuesInOrder, QueuedBeforeNow
  <2>3. CASE queues'[a] = queues[a]
    BY <1>0, <1>2, <2>2, <2>3 DEF TypeOK
  <2>4. CASE queues'[a] = Append(queues[a], t)
    <3>1. /\ DOMAIN queues'[a] = DOMAIN queues[a] \cup {Len(queues[a]) + 1}
          /\ DOMAIN queues[a] = 1 .. Len(queues[a]) /\ Len(queues[a]) \in Nat
          /\ \A i \in DOMAIN queues[a] : queues'[a][i] = queues[a][i]
          /\ queues'[a][Len(queues[a]) + 1] = t
      BY <2>2, <2>4, AppendPositions
    <3>2. /\ \A i \in DOMAIN queues[a] : queues'[a][i].born < clock
                                          /\ queues'[a][i].born \in Nat
          /\ queues'[a][Len(queues[a]) + 1].born = clock /\ clock \in Nat
      BY <1>0, <1>4, <2>2, <3>1 DEF TypeOK
    <3>3. \A i, j \in DOMAIN queues[a] : i < j => queues'[a][i].born < queues'[a][j].born
      BY <2>2, <3>1
    <3>4. \A i, j \in DOMAIN queues'[a] : i < j => queues'[a][i].born < queues'[a][j].born
      <4> SUFFICES ASSUME NEW i \in DOMAIN queues'[a], NEW j \in DOMAIN queues'[a], i < j
                   PROVE  queues'[a][i].born < queues'[a][j].born
        OBVIOUS
      <4>1. i \in DOMAIN queues[a]
        BY <3>1
      <4> QED BY <3>1, <3>2, <3>3, <4>1
    <3> QED BY <1>2, <3>1, <3>2, <3>4
  <2> QED BY <1>11, <2>1, <2>3, <2>4
<1>13. TaskBeforeQueue'
  <2> SUFFICES ASSUME NEW r \in Slots, Busy(r)'
               PROVE  /\ procs'[r].task.born < clock'
                      /\ procs'[r].id \in Actors =>
                            \A i \in DOMAIN queues'[procs'[r].id] :
                                procs'[r].task.born < queues'[procs'[r].id][i].born
    BY DEF TaskBeforeQueue
  <2>1. CASE Busy(r) /\ procs'[r] = procs[r]
    <3>1. procs[r].task.born < clock
      BY <2>1 DEF OrderInv, TaskBeforeQueue
    <3>2. procs[r].id \in Actors => \A i \in DOMAIN queues[procs[r].id] :
              procs[r].task.born < queues[procs[r].id][i].born
      BY <2>1 DEF OrderInv, TaskBeforeQueue
    <3>3. procs[r].task.born \in Nat
      BY <1>0, <2>1, BornIsNat DEF ProcessStates, Busy
    <3>4. ASSUME procs[r].id \in Actors, NEW i \in DOMAIN queues'[procs[r].id]
          PROVE  procs[r].task.born < queues'[procs[r].id][i].born
      <4>1. CASE queues'[procs[r].id] = <<>>
        BY <3>4, <4>1, EmptyQueue
      <4>2. CASE queues'[procs[r].id] = queues[procs[r].id]
        BY <3>2, <3>4, <4>2
      <4>3. CASE queues'[procs[r].id] = Append(queues[procs[r].id], t)
        <5>1. /\ i \in DOMAIN queues[procs[r].id] \/ i = Len(queues[procs[r].id]) + 1
              /\ \A k \in DOMAIN queues[procs[r].id] : queues'[procs[r].id][k] = queues[procs[r].id][k]
              /\ queues'[procs[r].id][Len(queues[procs[r].id]) + 1] = t
          BY <1>0, <3>4, <4>3, AppendPositions DEF TypeOK
        <5> QED BY <1>4, <3>1, <3>2, <3>4, <5>1
      <4> QED BY <1>11, <3>4, <4>1, <4>2, <4>3
    <3> QED BY <1>0, <1>2, <2>1, <3>1, <3>3, <3>4 DEF TypeOK
  <2>2. CASE r = s /\ ~ Busy(s) /\ P[s].state = "Waiting" /\ procs'[s].task = t /\ queues' = NewQueues(N)
    <3>1. procs'[s].id = P[s].id
      BY <1>2
    <3>2. P[s].id \in Actors => queues'[P[s].id] = <<>>
      <4>1. CASE Live(procs, s)
        BY <1>7, <1>8, <2>2, <4>1 DEF OrderInv, WaitingHasNoQueue
      <4>2. CASE ~ Live(procs, s)
        BY <1>4, <1>6, <1>8, <2>2, <4>2, DisjointActors
      <4> QED BY <4>1, <4>2
    <3> QED BY <1>0, <1>2, <1>4, <2>2, <3>1, <3>2, EmptyQueue DEF TypeOK
  <2>3. CASE r # s
    <3>1. procs'[r] = P[r]
      BY <1>2, <2>3
    <3>2. P[r] = procs[r]
      BY <1>6, <1>7, <3>1 DEF Busy, Live, LiveStates
    <3> QED BY <2>1, <3>1, <3>2 DEF Busy
  <2>4. CASE r = s /\ Busy(s) /\ procs' = P
    <3>1. procs'[r] = procs[r]
      BY <1>2, <2>4
    <3> QED BY <2>1, <2>4, <3>1
  <2> QED BY <1>3, <2>2, <2>3, <2>4
<1>14. WaitingHasNoQueue'
  <2> SUFFICES ASSUME NEW r \in Slots, procs'[r].state = "Waiting", procs'[r].id \in Actors
               PROVE  queues'[procs'[r].id] = <<>>
    BY DEF WaitingHasNoQueue
  <2>1. procs'[r] = P[r] /\ (r = s => Busy(s) /\ procs' = P)
    BY <1>2, <1>3
  <2>2. ~ Busy(r)
    BY <1>2, <2>1 DEF Busy
  <2>3. r # s
    BY <2>1, <2>2
  <2>4. NewQueues(N)[P[r].id] = <<>>
    <3>1. CASE Live(procs, r)
      BY <1>7, <1>8, <2>1, <3>1 DEF OrderInv, WaitingHasNoQueue
    <3>2. CASE ~ Live(procs, r)
      BY <1>6, <1>8, <2>1, <3>2, DisjointActors DEF Live, LiveStates
    <3> QED BY <3>1, <3>2
  <2>5. CASE queues' = NewQueues(N)
    BY <2>1, <2>4, <2>5
  <2>6. CASE Busy(s) /\ procs[s].id \in Actors
             /\ queues' = [NewQueues(N) EXCEPT ![procs[s].id] = Append(@, t)]
    <3>1. procs[s].id # P[r].id
      <4>1. Live(procs, s) /\ P[s] = procs[s] /\ procs[s].id # None
        BY <1>7, <2>6, DisjointActors DEF Busy, Live, LiveStates
      <4>2. Live(procs', r) /\ Live(procs', s) /\ procs'[s].id = procs[s].id
        BY <1>2, <1>3, <2>6, <4>1 DEF Live, LiveStates
      <4> QED BY <1>9, <2>1, <2>3, <4>1, <4>2 DEF OneControllerEach
    <3> QED BY <2>1, <2>4, <2>6, <3>1 DEF NewQueues
  <2> QED BY <1>3, <2>5, <2>6
<1> QED BY <1>9, <1>10, <1>12, <1>13, <1>14 DEF OrderInv

(* TryStartNext moves no task: it may start the one of its ready process. *)
LEMMA StartPlaces ==
    ASSUME TypeOK, ProcessStates, NEW s \in Slots, TryStartNext(s)
    PROVE  /\ procs[s].state = "Ready" /\ procs'[s].state \in {"Ready", "Running"}
           /\ procs'[s].id = procs[s].id /\ procs'[s].task = procs[s].task
           /\ procs'[s].terminateReserved = procs[s].terminateReserved
           /\ \A r \in Slots : r # s => procs'[r] = procs[r]
           /\ \A r \in Slots : r # s =>
                 phase'[r] = phase[r] /\ seen'[r] = seen[r] /\ dead'[r] = dead[r]
           /\ phase'[s] \in {"idle", "posted"} /\ seen'[s] \in {seen[s], {}} /\ dead'[s] \in {dead[s], {}}
           /\ UNCHANGED <<queues, known, entities, snapshot, spawned, clock>>
<1> USE DEF TypeOK
<1>1. procs[s].state = "Ready" /\ procs[s] \in Process /\ phase[s] = "idle"
  BY DEF TryStartNext, ProcessStates
<1>2. UNCHANGED <<queues, known, entities, snapshot, spawned, clock>>
  BY DEF TryStartNext, worldVars, workVars, PostStart
<1>3. /\ ToState(procs[s], "Running", procs[s].task).id = procs[s].id
      /\ ToState(procs[s], "Running", procs[s].task).state = "Running"
      /\ ToState(procs[s], "Running", procs[s].task).task = procs[s].task
      /\ ToState(procs[s], "Running", procs[s].task).terminateReserved = procs[s].terminateReserved
      /\ AddStarvationCount(procs[s]).id = procs[s].id
      /\ AddStarvationCount(procs[s]).state = "Ready"
      /\ AddStarvationCount(procs[s]).task = procs[s].task
      /\ AddStarvationCount(procs[s]).terminateReserved = procs[s].terminateReserved
  BY <1>1 DEF ToState, AddStarvationCount, Process
<1>4. CASE procs' = [procs EXCEPT ![s] = ToState(@, "Running", @.task)] /\ PostStart(s)
  BY <1>1, <1>2, <1>3, <1>4 DEF PostStart
<1>5. CASE procs' = [procs EXCEPT ![s] = AddStarvationCount(@)] /\ UNCHANGED workVars
  BY <1>1, <1>2, <1>3, <1>5 DEF workVars
<1> QED BY <1>4, <1>5 DEF TryStartNext

(* The head of the queue is its oldest task, whatever is left is younger. *)
LEMMA CompletionKeepsOrder ==
    ASSUME IndInv, OrderInv, NEW s \in Slots, CompleteTask(s)
    PROVE  OrderInv'
<1>0. TypeOK /\ ProcessStates
  BY DEF IndInv
<1>1. /\ procs[s].state = "Running"
      /\ \A r \in Slots : Live(procs', r) => Live(procs, r) /\ procs'[r].id = procs[r].id
  BY <1>0, CompletionPlaces
<1>2. \A r \in Slots : r # s /\ Live(procs', r) =>
          procs'[r].state = procs[r].state /\ procs'[r].task = procs[r].task
  BY <1>0, CompletionPlaces
<1>3. Live(procs', s) =>
          \/ procs'[s].state = "Waiting" /\ queues[procs[s].id] = <<>>
          \/ /\ procs'[s].state = "Ready" /\ queues[procs[s].id] # <<>>
             /\ procs'[s].task = Head(queues[procs[s].id])
  BY <1>0, CompletionPlaces
<1>4. \A a \in Actors :
          \/ queues'[a] = <<>>
          \/ a # procs[s].id /\ queues'[a] = queues[a]
          \/ a = procs[s].id /\ queues[a] # <<>> /\ queues'[a] = Tail(queues[a])
  BY <1>0, CompletionPlaces
<1>5. UNCHANGED <<spawned, clock>>
  BY <1>0, CompletionPlaces
<1>6. OneControllerEach' /\ ControllersAreSpawned'
  BY <1>1, <1>5 DEF OrderInv, OneControllerEach, ControllersAreSpawned
<1>7. QueuesInOrder' /\ QueuedBeforeNow'
  <2> SUFFICES ASSUME NEW a \in Actors
               PROVE  /\ \A i, j \in DOMAIN queues'[a] : i < j => queues'[a][i].born < queues'[a][j].born
                      /\ \A i \in DOMAIN queues'[a] : queues'[a][i].born < clock'
    BY DEF QueuesInOrder, QueuedBeforeNow
  <2>1. /\ \A i, j \in DOMAIN queues[a] : i < j => queues[a][i].born < queues[a][j].born
        /\ \A i \in DOMAIN queues[a] : queues[a][i].born < clock
    BY DEF OrderInv, QueuesInOrder, QueuedBeforeNow
  <2>2. CASE queues'[a] = <<>>
    BY <2>2, EmptyQueue
  <2>3. CASE queues'[a] = queues[a]
    BY <1>5, <2>1, <2>3
  <2>4. CASE queues[a] # <<>> /\ queues'[a] = Tail(queues[a])
    <3>1. queues[a] \in Seq(Task)
      BY <1>0 DEF TypeOK
    <3>2. \A i \in DOMAIN queues'[a] :
              i \in Nat /\ i > 0 /\ i + 1 \in DOMAIN queues[a] /\ queues'[a][i] = queues[a][i + 1]
      BY <2>4, <3>1, TailPositions
    <3>3. ASSUME NEW i \in DOMAIN queues'[a], NEW j \in DOMAIN queues'[a], i < j
          PROVE  queues'[a][i].born < queues'[a][j].born
      <4>1. i + 1 < j + 1 /\ i + 1 \in DOMAIN queues[a] /\ j + 1 \in DOMAIN queues[a]
        BY <3>2, <3>3
      <4> QED BY <2>1, <3>2, <4>1
    <3> QED BY <1>5, <2>1, <3>2, <3>3
  <2> QED BY <1>4, <2>2, <2>3, <2>4
<1>8. TaskBeforeQueue'
  <2> SUFFICES ASSUME NEW r \in Slots, Busy(r)'
               PROVE  /\ procs'[r].task.born < clock'
                      /\ procs'[r].id \in Actors =>
                            \A i \in DOMAIN queues'[procs'[r].id] :
                                procs'[r].task.born < queues'[procs'[r].id][i].born
    BY DEF TaskBeforeQueue
  <2>1. Live(procs', r) /\ Live(procs, r) /\ procs'[r].id = procs[r].id
    BY <1>1 DEF Busy, Live, LiveStates
  <2>2. CASE r # s
    <3>1. Busy(r) /\ procs'[r].task = procs[r].task
      BY <1>2, <2>1, <2>2 DEF Busy
    <3>2. ASSUME procs[r].id \in Actors
          PROVE  queues'[procs[r].id] \in {<<>>, queues[procs[r].id]}
      <4>1. procs[r].id # procs[s].id
        BY <1>1, <2>1, <2>2, <3>2, DisjointActors
           DEF OrderInv, OneControllerEach, Live, LiveStates
      <4> QED BY <1>4, <3>2, <4>1
    <3> QED BY <1>5, <2>1, <3>1, <3>2, EmptyQueue DEF OrderInv, TaskBeforeQueue
  <2>3. CASE r = s
    <3> DEFINE q == queues[procs[s].id]
    <3>1. q # <<>> /\ procs'[s].task = Head(q)
      BY <1>3, <2>1, <2>3 DEF Busy
    <3>2. procs[s].id \in Actors
      BY <1>0, <2>1, <2>3, CompletionPlaces
    <3>3. q \in Seq(Task) /\ queues'[procs[s].id] \in {<<>>, Tail(q)}
      BY <1>0, <1>4, <3>2 DEF TypeOK
    <3>4. /\ \A i, j \in DOMAIN q : i < j => q[i].born < q[j].born
          /\ \A i \in DOMAIN q : q[i].born < clock
      BY <3>2 DEF OrderInv, QueuesInOrder, QueuedBeforeNow
    <3> HIDE DEF q
    <3>5. /\ 1 \in DOMAIN q /\ Head(q) = q[1]
          /\ \A i \in DOMAIN Tail(q) :
                i \in Nat /\ i > 0 /\ i + 1 \in DOMAIN q /\ Tail(q)[i] = q[i + 1]
      BY <3>1, <3>3, TailPositions
    <3>6. procs'[s].task.born < clock'
      BY <1>5, <3>1, <3>4, <3>5
    <3>7. \A i \in DOMAIN Tail(q) : procs'[s].task.born < Tail(q)[i].born
      <4> SUFFICES ASSUME NEW i \in DOMAIN Tail(q)
                   PROVE  q[1].born < q[i + 1].born
        BY <3>1, <3>5
      <4>1. 1 < i + 1 /\ i + 1 \in DOMAIN q
        BY <3>5
      <4> QED BY <3>4, <3>5, <4>1
    <3> QED BY <2>1, <2>3, <3>3, <3>6, <3>7, EmptyQueue
  <2> QED BY <2>2, <2>3
<1>9. WaitingHasNoQueue'
  <2> SUFFICES ASSUME NEW r \in Slots, procs'[r].state = "Waiting", procs'[r].id \in Actors
               PROVE  queues'[procs'[r].id] = <<>>
    BY DEF WaitingHasNoQueue
  <2>1. Live(procs', r) /\ procs'[r].id = procs[r].id
    BY <1>1 DEF Live, LiveStates
  <2>2. queues[procs[r].id] = <<>>
    <3>1. CASE r = s
      BY <1>3, <2>1, <3>1
    <3>2. CASE r # s
      BY <1>2, <2>1, <3>2 DEF OrderInv, WaitingHasNoQueue
    <3> QED BY <3>1, <3>2
  <2> QED BY <1>4, <2>1, <2>2
<1> QED BY <1>6, <1>7, <1>8, <1>9 DEF OrderInv

(* Every other step moves no task at all. *)
LEMMA OtherKeepsOrder ==
    ASSUME IndInv, OrderInv,
           \/ \E s \in Slots : TryStartNext(s) \/ BeginExecution(s) \/ FinishExecution(s)
           \/ \E p \in Players, caller \in Callers : DropDespawn(p, caller)
           \/ TryStartBreak \/ ShutdownAndJoin \/ UNCHANGED vars
    PROVE  OrderInv'
<1>0. TypeOK /\ ProcessStates
  BY DEF IndInv
<1>1. ASSUME NEW s \in Slots, TryStartNext(s)
      PROVE  OrderInv'
  <2>1. /\ \A r \in Slots : procs'[r].id = procs[r].id /\ procs'[r].task = procs[r].task
        /\ procs[s].state = "Ready" /\ procs'[s].state \in {"Ready", "Running"}
        /\ \A r \in Slots : r # s => procs'[r] = procs[r]
        /\ UNCHANGED <<queues, spawned, clock>>
    BY <1>0, <1>1, StartPlaces
  <2>2. \A r \in Slots : /\ Live(procs', r) => Live(procs, r)
                         /\ Busy(r)' => Busy(r)
                         /\ procs'[r].state = "Waiting" => procs[r].state = "Waiting"
    BY <2>1 DEF Live, LiveStates, Busy
  <2>3. OneControllerEach' /\ ControllersAreSpawned'
    BY <2>1, <2>2 DEF OrderInv, OneControllerEach, ControllersAreSpawned
  <2>4. QueuesInOrder' /\ QueuedBeforeNow' /\ TaskBeforeQueue' /\ WaitingHasNoQueue'
    BY <2>1, <2>2 DEF OrderInv, QueuesInOrder, QueuedBeforeNow, TaskBeforeQueue, WaitingHasNoQueue
  <2> QED BY <2>3, <2>4 DEF OrderInv
<1>2. ASSUME UNCHANGED <<procs, queues, spawned, clock>>
      PROVE  OrderInv'
  BY <1>2 DEF OrderInv, OneControllerEach, ControllersAreSpawned, QueuesInOrder, QueuedBeforeNow,
              TaskBeforeQueue, WaitingHasNoQueue, Live, Busy
<1> QED BY <1>1, <1>2 DEF BeginExecution, FinishExecution, DropDespawn, TryStartBreak,
           ShutdownAndJoin, vars, procVars, worldVars

(* OrderInv is inductive relative to IndInv. *)
LEMMA OrderStep == IndInv /\ OrderInv /\ [Next]_vars => OrderInv'
<1> SUFFICES ASSUME IndInv, OrderInv, [Next]_vars PROVE OrderInv'
  OBVIOUS
<1>1. CASE ScheduleTask
  BY <1>1, ScheduleAdmits, AdmissionKeepsOrder, OtherKeepsOrder DEF IndInv
<1>2. CASE \E s \in Slots : CompleteTask(s)
  BY <1>2, CompletionKeepsOrder
<1> QED BY <1>1, <1>2, OtherKeepsOrder DEF Next

(* A controller runs its tasks in the order they were scheduled. *)
THEOREM SchedulerOrder == Spec => []ControllerOrder
<1>1. TypeOK /\ ProcessStates /\ OrderInv => ControllerOrder
  <2> SUFFICES ASSUME TypeOK, ProcessStates, OrderInv,
                      NEW s \in Slots, Live(procs, s), procs[s].id # None
               PROVE  LET q == queues[procs[s].id]
                          all == IF procs[s].task = None THEN q ELSE <<procs[s].task>> \o q
                      IN  /\ \A i, j \in DOMAIN all : i < j => all[i].born < all[j].born
                          /\ procs[s].state = "Waiting" => q = <<>>
    BY DEF ControllerOrder, Live
  <2> DEFINE q == queues[procs[s].id]
             all == <<procs[s].task>> \o q
  <2>1. /\ procs[s].id \in Actors /\ q \in Seq(Task)
        /\ procs[s].task \in Task \cup {None}
    BY DEF TypeOK, Process
  <2>2. procs[s].state = "Waiting" => q = <<>>
    BY <2>1 DEF OrderInv, WaitingHasNoQueue
  <2>3. \A i, j \in DOMAIN q : i < j => q[i].born < q[j].born
    BY <2>1 DEF OrderInv, QueuesInOrder
  <2>4. ASSUME procs[s].task # None
        PROVE  \A i, j \in DOMAIN all : i < j => all[i].born < all[j].born
    <3>1. procs[s].state # "Waiting" => \A i \in DOMAIN q : procs[s].task.born < q[i].born
      BY <2>1 DEF OrderInv, TaskBeforeQueue, Busy, Live, LiveStates
    <3> HIDE DEF q
    <3>2. /\ \A i \in DOMAIN all : i \in Nat /\ i > 0 /\ (i = 1 \/ i - 1 \in DOMAIN q)
          /\ all[1] = procs[s].task
          /\ \A i \in DOMAIN all : i # 1 => all[i] = q[i - 1]
      BY <2>1, <2>4
    <3> HIDE DEF all
    <3>3. ASSUME NEW i \in DOMAIN all, NEW j \in DOMAIN all, i < j
          PROVE  all[i].born < all[j].born
      <4>1. j # 1 /\ j - 1 \in DOMAIN q /\ all[j] = q[j - 1]
        BY <3>2, <3>3
      <4>2. CASE i = 1
        BY <2>2, <3>1, <3>2, <4>1, <4>2, EmptyQueue
      <4>3. CASE i # 1
        <5>1. i - 1 \in DOMAIN q /\ all[i] = q[i - 1] /\ i - 1 < j - 1
          BY <3>2, <3>3, <4>3
        <5> QED BY <2>3, <4>1, <5>1
      <4> QED BY <4>2, <4>3
    <3> QED BY <3>3
  <2> QED BY <2>2, <2>3, <2>4
<1>2. IndInv => TypeOK /\ ProcessStates
  BY DEF IndInv
<1>3. Spec => []OrderInv
  BY InitOrder, SchedulerInvariant, OrderStep, PTL DEF Spec
<1> QED BY SchedulerInvariant, <1>1, <1>2, <1>3, PTL

-----------------------------------------------------------------------------
(* Removed controllers *)

(* A controller that is not known any more is at most running. *)
RetireInv ==
    \A s \in Slots : Live(procs, s) =>
        \/ procs[s].id \in known \cup {None}
        \/ procs[s].state = "Running" /\ procs[s].terminateReserved

(* At first every controller is known. *)
LEMMA InitRetire == Init => RetireInv
<1> SUFFICES ASSUME Init PROVE RetireInv
  OBVIOUS
<1>1. OrderInv
  BY InitOrder
<1>2. known = spawned
  BY DEF Init
<1> QED BY <1>1, <1>2 DEF RetireInv, OrderInv, ControllersAreSpawned

(* Prepare makes its new controllers known. *)
LEMMA AdmissionKeepsRetired ==
    ASSUME IndInv, RetireInv, Admission
    PROVE  RetireInv'
<1>0. TypeOK /\ ProcessStates
  BY DEF IndInv
<1>1. PICK N \in SUBSET Actors, P \in [Slots -> Process], s \in Slots, t \in Task :
          Prepared(N, P, s, t)
  BY DEF Admission
<1>z. Placed(N, P, s, t)
  BY <1>0, <1>1, AdmissionPlaces
<1>2. \A r \in Slots : r # s => procs'[r] = P[r]
  BY <1>z DEF Placed
<1>3. (\A r \in Slots : Busy(r) => P[r] = procs[r]) /\ known' = known \cup N
  BY <1>z DEF Placed
<1>4. \A r \in Slots : procs'[r].id = P[r].id
  BY <1>z DEF Placed
<1>5. procs' = P \/ (P[s].state = "Waiting" /\ ~ Busy(s))
  BY <1>z DEF Placed
<1>6. /\ \A r \in Slots : P[r] # procs[r] =>
             ~ Live(procs, r) /\ \E id \in N \cup {None} : P[r] = FreshProcess(id)
      /\ Live(P, s)
  BY <1>1 DEF Prepared, NewProcesses
<1> SUFFICES ASSUME NEW r \in Slots, Live(procs', r)
             PROVE  \/ procs'[r].id \in known' \cup {None}
                    \/ procs'[r].state = "Running" /\ procs'[r].terminateReserved
  BY DEF RetireInv
<1>7. Live(P, r)
  BY <1>2, <1>6 DEF Live
<1>8. CASE ~ Live(procs, r)
  BY <1>3, <1>4, <1>6, <1>7, <1>8, FreshProcessIs DEF Live
<1>9. CASE Live(procs, r)
  <2>1. P[r] = procs[r]
    BY <1>6, <1>9
  <2>2. CASE procs[r].id \in known \cup {None}
    BY <1>3, <1>4, <2>1, <2>2
  <2>3. CASE procs[r].state = "Running" /\ procs[r].terminateReserved
    <3>1. procs'[r] = P[r]
      BY <1>2, <1>5, <2>3 DEF Busy
    <3> QED BY <2>1, <2>3, <3>1
  <2> QED BY <1>9, <2>2, <2>3 DEF RetireInv
<1> QED BY <1>8, <1>9

(* Removal recycles a controller's process unless it is running. *)
LEMMA CompletionKeepsRetired ==
    ASSUME IndInv, RetireInv, NEW s \in Slots, CompleteTask(s)
    PROVE  RetireInv'
<1>0. TypeOK /\ ProcessStates
  BY DEF IndInv
<1>1. \A r \in Slots : Live(procs', r) => Live(procs, r) /\ procs'[r].id = procs[r].id
  BY <1>0, CompletionPlaces
<1>2. \A r \in Slots : r # s /\ Live(procs', r) =>
          /\ procs[r].id \in RemovedBy(s) => procs'[r].state = "Running" /\ procs'[r].terminateReserved
          /\ procs[r].id \notin RemovedBy(s) => procs'[r] = procs[r]
  BY <1>0, CompletionPlaces
<1>3. Live(procs', s) => procs[s].id \in Actors \ RemovedBy(s) /\ ~ procs[s].terminateReserved
  BY <1>0, CompletionPlaces
<1>4. known' = known \ RemovedBy(s)
  BY <1>0, CompletionPlaces
<1> SUFFICES ASSUME NEW r \in Slots, Live(procs', r)
             PROVE  \/ procs'[r].id \in known' \cup {None}
                    \/ procs'[r].state = "Running" /\ procs'[r].terminateReserved
  BY DEF RetireInv
<1>5. CASE r = s
  BY <1>1, <1>3, <1>4, <1>5, DisjointActors DEF RetireInv
<1>6. CASE r # s
  BY <1>1, <1>2, <1>4, <1>6 DEF RetireInv
<1> QED BY <1>5, <1>6

(* No other step removes anybody or changes a controller. *)
LEMMA OtherKeepsRetired ==
    ASSUME IndInv, RetireInv,
           \/ \E s \in Slots : TryStartNext(s) \/ BeginExecution(s) \/ FinishExecution(s)
           \/ \E p \in Players, caller \in Callers : DropDespawn(p, caller)
           \/ TryStartBreak \/ ShutdownAndJoin \/ UNCHANGED vars
    PROVE  RetireInv'
<1>0. TypeOK /\ ProcessStates
  BY DEF IndInv
<1>1. ASSUME NEW s \in Slots, TryStartNext(s)
      PROVE  RetireInv'
  <2>1. /\ procs'[s].id = procs[s].id /\ procs[s].state = "Ready"
        /\ \A r \in Slots : r # s => procs'[r] = procs[r]
        /\ known' = known
    BY <1>0, <1>1, StartPlaces
  <2> QED BY <2>1 DEF RetireInv, Live, LiveStates
<1>2. ASSUME UNCHANGED <<procs, known>>
      PROVE  RetireInv'
  BY <1>2 DEF RetireInv, Live
<1> QED BY <1>1, <1>2 DEF BeginExecution, FinishExecution, DropDespawn, TryStartBreak,
           ShutdownAndJoin, vars, procVars, resVars

(* RetireInv is inductive relative to IndInv. *)
LEMMA RetireStep == IndInv /\ RetireInv /\ [Next]_vars => RetireInv'
<1> SUFFICES ASSUME IndInv, RetireInv, [Next]_vars PROVE RetireInv'
  OBVIOUS
<1>1. CASE ScheduleTask
  BY <1>1, ScheduleAdmits, AdmissionKeepsRetired, OtherKeepsRetired DEF IndInv
<1>2. CASE \E s \in Slots : CompleteTask(s)
  BY <1>2, CompletionKeepsRetired
<1> QED BY <1>1, <1>2, OtherKeepsRetired DEF Next

(* After a controller is removed none of its tasks starts any more. *)
THEOREM SchedulerRetire == Spec => []RemovedControllersRetire
<1>1. RetireInv => RemovedControllersRetire
  BY DEF RetireInv, RemovedControllersRetire, Live, LiveStates
<1>2. Spec => []RetireInv
  BY InitRetire, SchedulerInvariant, RetireStep, PTL DEF Spec
<1> QED BY <1>1, <1>2, PTL

-----------------------------------------------------------------------------
(* What the tasks use *)

Spawns(t, a) == t.kind = "spawn" /\ t.subject = a
Arriving(a) ==
    \/ \E s \in Slots : Busy(s) /\ phase[s] # "executed" /\ Spawns(procs[s].task, a)
    \/ \E b \in Actors : \E i \in DOMAIN queues[b] : Spawns(queues[b][i], a)
Targeted(a) ==
    \/ \E s \in Slots : Busy(s) /\ a \in TargetsOf(s)
    \/ \E b \in Actors : \E i \in DOMAIN queues[b] : a \in queues[b][i].targets

(* One task at most spawns an actor. *)
SpawnedByOne == \A a \in Actors : \A r, s \in Slots :
    Busy(r) /\ Busy(s) /\ Spawns(procs[r].task, a) /\ Spawns(procs[s].task, a) => r = s
SpawnedHereOrThere == \A a, b \in Actors : \A s \in Slots : \A i \in DOMAIN queues[b] :
    Busy(s) /\ Spawns(procs[s].task, a) => ~ Spawns(queues[b][i], a)
SpawnQueuedOnce == \A a, b, c \in Actors : \A i \in DOMAIN queues[b] : \A j \in DOMAIN queues[c] :
    Spawns(queues[b][i], a) /\ Spawns(queues[c][j], a) => b = c /\ i = j
SpawnedOnce == SpawnedByOne /\ SpawnedHereOrThere /\ SpawnQueuedOnce

(* Until it has spawned an actor is known and neither there nor targeted. *)
ArrivingIsNew == \A a \in Actors : Arriving(a) =>
    a \in known /\ a \notin entities /\ a \notin snapshot /\ ~ Targeted(a)
EntitiesAreKnown == entities \subseteq known
(* A worker has resolved only what its task names, and what the task has    *)
(* killed or despawned is gone when its completion comes.                   *)
WorkersAgree == \A s \in Slots :
    /\ phase[s] # "executing" => seen[s] = {}
    /\ phase[s] # "executed" => dead[s] = {}
    /\ phase[s] = "executing" => seen[s] \subseteq TargetsOf(s)
    /\ phase[s] = "executed" => dead[s] \subseteq TargetsOf(s) /\ RemovedBy(s) \cap entities = {}
DespawnShapes ==
    /\ \A s \in Slots : Busy(s) => DespawnShape(procs[s].task)
    /\ \A a \in Actors : \A i \in DOMAIN queues[a] : DespawnShape(queues[a][i])
AccessInv == SpawnedOnce /\ ArrivingIsNew /\ EntitiesAreKnown /\ WorkersAgree /\ DespawnShapes

(* At first no task is there. *)
LEMMA InitAccess == Init => AccessInv
<1> SUFFICES ASSUME Init PROVE AccessInv
  OBVIOUS
<1>1. \A s \in Slots : ~ Busy(s) /\ phase[s] = "idle" /\ seen[s] = {} /\ dead[s] = {}
  <2>1. \A s \in Slots : phase[s] = "idle" /\ seen[s] = {} /\ dead[s] = {} /\ s \notin scan
    BY DEF Init
  <2>2. \A s \in Slots : procs[s].state \in {"Waiting", "Unused"}
    <3> SUFFICES ASSUME NEW s \in Slots PROVE procs[s].state \in {"Waiting", "Unused"}
      OBVIOUS
    <3>1. \E a : procs[s] = FreshProcess(a) \/ procs[s] = DeadProcess("Unused")
      BY DEF Init
    <3> QED BY <3>1 DEF FreshProcess, DeadProcess, Taskless
  <2> QED BY <2>1, <2>2 DEF Busy
<1>2. \A a \in Actors : DOMAIN queues[a] = {}
  BY EmptyQueue DEF Init
<1>3. SpawnedOnce /\ ArrivingIsNew /\ DespawnShapes
  BY <1>1, <1>2 DEF SpawnedOnce, SpawnedByOne, SpawnedHereOrThere, SpawnQueuedOnce,
                    ArrivingIsNew, Arriving, DespawnShapes
<1>4. EntitiesAreKnown /\ WorkersAgree
  BY <1>1 DEF EntitiesAreKnown, WorkersAgree, Init
<1> QED BY <1>3, <1>4 DEF AccessInv

(* What a task removes is among its targets. *)
LEMMA RemovedAreTargets ==
    ASSUME AccessInv, ProcessStates, NEW s \in Slots, phase[s] = "executed"
    PROVE  RemovedBy(s) \subseteq TargetsOf(s) /\ Busy(s)
<1>1. Busy(s)
  BY DEF ProcessStates, Busy
<1>2. DespawnShape(procs[s].task) /\ dead[s] \subseteq TargetsOf(s)
  BY <1>1 DEF AccessInv, DespawnShapes, WorkersAgree
<1> QED BY <1>1, <1>2 DEF RemovedBy, DespawnShape, TargetsOf

(* Every task after an admission is the new one or was there before. *)
LEMMA AdmissionTasks ==
    ASSUME IndInv, OrderInv, NEW N \in SUBSET Actors, NEW P \in [Slots -> Process],
           NEW s \in Slots, NEW t \in Task, Prepared(N, P, s, t)
    PROVE  /\ \A r \in Slots : Busy(r)' =>
                  \/ Busy(r) /\ procs'[r] = procs[r] /\ phase'[r] = phase[r]
                             /\ seen'[r] = seen[r] /\ dead'[r] = dead[r]
                  \/ r = s /\ ~ Busy(s) /\ procs'[r].task = t /\ queues' = NewQueues(N)
           /\ \A b \in Actors : \A i \in DOMAIN queues'[b] :
                  \/ i \in DOMAIN queues[b] /\ queues'[b][i] = queues[b][i]
                  \/ /\ b = procs[s].id /\ i \notin DOMAIN queues[b] /\ queues'[b][i] = t
                     /\ i = Len(queues[b]) + 1 /\ Busy(s) /\ procs' = P
<1>0. TypeOK /\ ProcessStates
  BY DEF IndInv
<1>1. Placed(N, P, s, t)
  BY <1>0, AdmissionPlaces
<1>2. /\ \A r \in Slots : P[r] # procs[r] =>
             ~ Live(procs, r) /\ \E id \in N \cup {None} : P[r] = FreshProcess(id)
      /\ N \cap spawned = {}
  BY DEF Prepared, NewProcesses
<1>3. ASSUME NEW r \in Slots, Busy(r)'
      PROVE  \/ Busy(r) /\ procs'[r] = procs[r] /\ phase'[r] = phase[r]
                        /\ seen'[r] = seen[r] /\ dead'[r] = dead[r]
             \/ r = s /\ ~ Busy(s) /\ procs'[r].task = t /\ queues' = NewQueues(N)
  <2>1. CASE r # s \/ procs' = P
    <3>1. procs'[r] = P[r]
      BY <1>1, <2>1 DEF Placed
    <3>2. P[r] = procs[r]
      BY <1>2, <1>3, <3>1, FreshProcessIs DEF Busy
    <3>3. CASE r # s
      BY <1>1, <1>3, <3>1, <3>2, <3>3 DEF Placed, Busy
    <3>4. CASE r = s
      BY <1>1, <1>3, <3>1, <3>2, <3>4 DEF Placed, Busy
    <3> QED BY <3>3, <3>4
  <2>2. CASE r = s /\ procs' # P
    BY <1>1, <2>2 DEF Placed
  <2> QED BY <2>1, <2>2
<1>4. ASSUME NEW b \in Actors, NEW i \in DOMAIN queues'[b]
      PROVE  \/ i \in DOMAIN queues[b] /\ queues'[b][i] = queues[b][i]
             \/ /\ b = procs[s].id /\ i \notin DOMAIN queues[b] /\ queues'[b][i] = t
                /\ i = Len(queues[b]) + 1 /\ Busy(s) /\ procs' = P
  <2>1. NewQueues(N)[b] = IF b \in N THEN <<>> ELSE queues[b]
    BY DEF NewQueues
  <2>2. CASE Busy(s) /\ b = procs[s].id /\ procs' = P
             /\ queues' = [NewQueues(N) EXCEPT ![procs[s].id] = Append(@, t)]
    <3>1. b \notin N
      BY <1>2, <2>2, DisjointActors DEF OrderInv, ControllersAreSpawned, Live, LiveStates, Busy
    <3>2. queues'[b] = Append(queues[b], t)
      BY <2>1, <2>2, <3>1 DEF NewQueues
    <3>3. /\ DOMAIN queues'[b] = DOMAIN queues[b] \cup {Len(queues[b]) + 1}
          /\ DOMAIN queues[b] = 1 .. Len(queues[b]) /\ Len(queues[b]) \in Nat
          /\ \A k \in DOMAIN queues[b] : queues'[b][k] = queues[b][k]
          /\ queues'[b][Len(queues[b]) + 1] = t
      BY <1>0, <3>2, AppendPositions DEF TypeOK
    <3> QED BY <1>4, <2>2, <3>3
  <2>3. CASE queues'[b] = NewQueues(N)[b]
    BY <1>4, <2>1, <2>3, EmptyQueue
  <2> QED BY <1>1, <2>2, <2>3 DEF Placed, NewQueues
<1> QED BY <1>3, <1>4

(* A new task names actors of the snapshot or spawns one nobody names yet.  *)
LEMMA AdmissionKeepsAccess ==
    ASSUME IndInv, OrderInv, AccessInv, Admission
    PROVE  AccessInv'
<1>0. TypeOK /\ ProcessStates /\ TargetsAreSpawned
  BY DEF IndInv
<1>1. PICK N \in SUBSET Actors, P \in [Slots -> Process], s \in Slots, t \in Task :
          Prepared(N, P, s, t)
  BY DEF Admission
<1>z. Placed(N, P, s, t)
  BY <1>0, <1>1, AdmissionPlaces
<1>2. \A r \in Slots : Busy(r)' =>
          \/ Busy(r) /\ procs'[r] = procs[r] /\ phase'[r] = phase[r]
                     /\ seen'[r] = seen[r] /\ dead'[r] = dead[r]
          \/ r = s /\ ~ Busy(s) /\ procs'[r].task = t /\ queues' = NewQueues(N)
  BY <1>1, AdmissionTasks
<1>3. \A b \in Actors : \A i \in DOMAIN queues'[b] :
          \/ i \in DOMAIN queues[b] /\ queues'[b][i] = queues[b][i]
          \/ /\ b = procs[s].id /\ i \notin DOMAIN queues[b] /\ queues'[b][i] = t
             /\ i = Len(queues[b]) + 1 /\ Busy(s) /\ procs' = P
  BY <1>1, AdmissionTasks
<1>4. /\ DespawnShape(t) /\ N \cap spawned = {} /\ snapshot' = snapshot
      /\ \/ \E a \in Actors : N = {a} /\ t.kind = "spawn" /\ t.subject = a /\ t.targets = {}
         \/ N = {} /\ t.kind # "spawn" /\ t.targets \subseteq snapshot
  BY <1>1 DEF Prepared, NewTaskOf
<1>5. known' = known \cup N /\ entities' = entities
  BY <1>z DEF Placed
<1>6. \A a \in Actors : Spawns(t, a) => a \in N /\ a \notin spawned /\ t.targets = {}
  BY <1>4 DEF Spawns
<1>7. /\ \A r \in Slots, a \in Actors : Busy(r) /\ Spawns(procs[r].task, a) => a \in spawned
      /\ \A b, a \in Actors : \A i \in DOMAIN queues[b] : Spawns(queues[b][i], a) => a \in spawned
  BY <1>0 DEF TargetsAreSpawned, Mentions, Spawns, Busy
<1>8. /\ \A r \in Slots, a \in Actors : Busy(r) /\ a \in TargetsOf(r) => a \in spawned
      /\ \A b, a \in Actors : \A i \in DOMAIN queues[b] : a \in queues[b][i].targets => a \in spawned
  BY <1>0 DEF TargetsAreSpawned, Mentions, TargetsOf, Busy
<1>9. ASSUME NEW a \in Actors, ~ Spawns(t, a), Arriving(a)'
      PROVE  Arriving(a)
  BY <1>2, <1>3, <1>9 DEF Arriving
<1>10. ASSUME NEW a \in Actors, Targeted(a)'
       PROVE  Targeted(a) \/ a \in t.targets
  BY <1>2, <1>3, <1>10 DEF Targeted, TargetsOf
<1>11. SpawnedByOne'
  BY <1>2, <1>6, <1>7 DEF AccessInv, SpawnedOnce, SpawnedByOne
<1>12. SpawnedHereOrThere'
  <2> SUFFICES ASSUME NEW a \in Actors, NEW b \in Actors, NEW r \in Slots, NEW i \in DOMAIN queues'[b],
                      Busy(r)', Spawns(procs'[r].task, a), Spawns(queues'[b][i], a)
               PROVE  FALSE
    BY DEF SpawnedHereOrThere
  <2>1. CASE Spawns(t, a)
    <3>1. procs'[r].task = t /\ ~ Busy(s)
      BY <1>2, <1>6, <1>7, <2>1
    <3>2. queues'[b][i] = t /\ Busy(s)
      BY <1>3, <1>6, <1>7, <2>1
    <3> QED BY <3>1, <3>2
  <2>2. CASE ~ Spawns(t, a)
    BY <1>2, <1>3, <2>2 DEF AccessInv, SpawnedOnce, SpawnedHereOrThere
  <2> QED BY <2>1, <2>2
<1>13. SpawnQueuedOnce'
  <2> SUFFICES ASSUME NEW a \in Actors, NEW b \in Actors, NEW c \in Actors,
                      NEW i \in DOMAIN queues'[b], NEW j \in DOMAIN queues'[c],
                      Spawns(queues'[b][i], a), Spawns(queues'[c][j], a)
               PROVE  b = c /\ i = j
    BY DEF SpawnQueuedOnce
  <2>1. CASE Spawns(t, a)
    <3>1. b = procs[s].id /\ i = Len(queues[b]) + 1
      BY <1>3, <1>6, <1>7, <2>1
    <3>2. c = procs[s].id /\ j = Len(queues[c]) + 1
      BY <1>3, <1>6, <1>7, <2>1
    <3> QED BY <3>1, <3>2
  <2>2. CASE ~ Spawns(t, a)
    BY <1>3, <2>2 DEF AccessInv, SpawnedOnce, SpawnQueuedOnce
  <2> QED BY <2>1, <2>2
<1>14. ArrivingIsNew'
  <2> SUFFICES ASSUME NEW a \in Actors, Arriving(a)'
               PROVE  /\ a \in known' /\ a \notin entities' /\ a \notin snapshot'
                      /\ ~ Targeted(a)'
    BY DEF ArrivingIsNew
  <2>1. CASE Spawns(t, a)
    <3>1. a \in N /\ a \notin spawned /\ t.targets = {}
      BY <1>6, <2>1
    <3>2. ~ Targeted(a)
      BY <1>8, <3>1 DEF Targeted
    <3> QED BY <1>0, <1>4, <1>5, <1>10, <3>1, <3>2
            DEF TargetsAreSpawned, AccessInv, EntitiesAreKnown
  <2>2. CASE ~ Spawns(t, a)
    <3>1. Arriving(a)
      BY <1>9, <2>2
    <3>2. a \in known /\ a \notin entities /\ a \notin snapshot /\ ~ Targeted(a)
      BY <3>1 DEF AccessInv, ArrivingIsNew
    <3> QED BY <1>4, <1>5, <1>10, <3>2
  <2> QED BY <2>1, <2>2
<1>15. EntitiesAreKnown'
  BY <1>5 DEF AccessInv, EntitiesAreKnown
<1>16. WorkersAgree'
  <2> SUFFICES ASSUME NEW r \in Slots
               PROVE  /\ phase'[r] # "executing" => seen'[r] = {}
                      /\ phase'[r] # "executed" => dead'[r] = {}
                      /\ phase'[r] = "executing" => seen'[r] \subseteq procs'[r].task.targets
                      /\ phase'[r] = "executed" =>
                            dead'[r] \subseteq procs'[r].task.targets /\ RemovedBy(r)' \cap entities' = {}
    BY DEF WorkersAgree, TargetsOf
  <2>1. /\ phase[r] # "executing" => seen[r] = {}
        /\ phase[r] # "executed" => dead[r] = {}
        /\ phase[r] = "executing" => seen[r] \subseteq procs[r].task.targets
        /\ phase[r] = "executed" =>
              dead[r] \subseteq procs[r].task.targets /\ RemovedBy(r) \cap entities = {}
    BY DEF AccessInv, WorkersAgree, TargetsOf
  <2>2. CASE Busy(r) /\ Busy(r)'
    <3>1. procs'[r] = procs[r] /\ phase'[r] = phase[r] /\ seen'[r] = seen[r] /\ dead'[r] = dead[r]
      BY <1>2, <2>2
    <3> QED BY <1>5, <2>1, <3>1 DEF RemovedBy
  <2>3. CASE ~ Busy(r)
    <3>1. phase[r] = "idle"
      BY <1>0, <2>3 DEF ProcessStates, Busy
    <3>2. phase'[r] \in {"idle", "posted"} /\ seen'[r] \in {seen[r], {}} /\ dead'[r] \in {dead[r], {}}
      <4>1. CASE r # s
        BY <1>z, <3>1, <4>1 DEF Placed
      <4>2. CASE r = s
        BY <1>z, <2>3, <4>2 DEF Placed
      <4> QED BY <4>1, <4>2
    <3> QED BY <2>1, <3>1, <3>2
  <2>4. CASE Busy(r) /\ ~ Busy(r)'
    <3>1. procs'[r] = procs[r]
      BY <1>z, <2>4 DEF Placed
    <3> QED BY <2>4, <3>1 DEF Busy
  <2> QED BY <2>2, <2>3, <2>4
<1>17. DespawnShapes'
  BY <1>2, <1>3, <1>4 DEF AccessInv, DespawnShapes
<1> QED BY <1>11, <1>12, <1>13, <1>14, <1>15, <1>16, <1>17 DEF AccessInv, SpawnedOnce

(* Every task after a completion was there before: on the same process, at  *)
(* the same place of its queue, or one place further back in the queue of   *)
(* the completed controller.                                                *)
LEMMA CompletionTasks ==
    ASSUME TypeOK, ProcessStates, NEW s \in Slots, CompleteTask(s)
    PROVE  /\ \A r \in Slots : r # s /\ Busy(r)' =>
                  /\ Busy(r) /\ procs'[r].task = procs[r].task
                  /\ phase'[r] = phase[r] /\ dead'[r] = dead[r]
           /\ Busy(s)' =>
                  /\ procs[s].id \in Actors /\ 1 \in DOMAIN queues[procs[s].id]
                  /\ procs'[s].task = queues[procs[s].id][1]
           /\ \A b \in Actors : \A i \in DOMAIN queues'[b] :
                  \/ b # procs[s].id /\ i \in DOMAIN queues[b] /\ queues'[b][i] = queues[b][i]
                  \/ /\ b = procs[s].id /\ i \in Nat /\ i > 0
                     /\ i + 1 \in DOMAIN queues[b] /\ queues'[b][i] = queues[b][i + 1]
<1>1. ASSUME NEW r \in Slots, r # s, Busy(r)'
      PROVE  /\ Busy(r) /\ procs'[r].task = procs[r].task
             /\ phase'[r] = phase[r] /\ dead'[r] = dead[r]
  <2>1. Live(procs', r)
    BY <1>1 DEF Live, LiveStates, Busy
  <2>2. procs'[r].state = procs[r].state /\ procs'[r].task = procs[r].task
    BY <1>1, <2>1, CompletionPlaces
  <2>3. phase'[r] = phase[r] /\ dead'[r] = dead[r]
    BY <1>1 DEF CompleteTask, TypeOK
  <2> QED BY <1>1, <2>2, <2>3 DEF Busy
<1>2. ASSUME Busy(s)'
      PROVE  /\ procs[s].id \in Actors /\ 1 \in DOMAIN queues[procs[s].id]
             /\ procs'[s].task = queues[procs[s].id][1]
  <2>1. Live(procs', s)
    BY <1>2 DEF Live, LiveStates, Busy
  <2>2. procs[s].id \in Actors
    BY <2>1, CompletionPlaces
  <2>3. \/ procs'[s].state = "Waiting"
        \/ queues[procs[s].id] # <<>> /\ procs'[s].task = Head(queues[procs[s].id])
    BY <2>1, CompletionPlaces
  <2>4. queues[procs[s].id] \in Seq(Task)
    BY <2>2 DEF TypeOK
  <2> QED BY <1>2, <2>2, <2>3, <2>4, TailPositions DEF Busy
<1>3. ASSUME NEW b \in Actors, NEW i \in DOMAIN queues'[b]
      PROVE  \/ b # procs[s].id /\ i \in DOMAIN queues[b] /\ queues'[b][i] = queues[b][i]
             \/ /\ b = procs[s].id /\ i \in Nat /\ i > 0
                /\ i + 1 \in DOMAIN queues[b] /\ queues'[b][i] = queues[b][i + 1]
  <2>1. \/ queues'[b] = <<>>
        \/ b # procs[s].id /\ queues'[b] = queues[b]
        \/ b = procs[s].id /\ queues[b] # <<>> /\ queues'[b] = Tail(queues[b])
    BY CompletionPlaces
  <2>2. queues[b] \in Seq(Task)
    BY DEF TypeOK
  <2> QED BY <1>3, <2>1, <2>2, EmptyQueue, TailPositions
<1> QED BY <1>1, <1>2, <1>3

(* A completion removes only actors that have left the instance already.    *)
LEMMA CompletionKeepsAccess ==
    ASSUME IndInv, IndInv', AccessInv, NEW s \in Slots, CompleteTask(s)
    PROVE  AccessInv'
<1>0. TypeOK /\ ProcessStates /\ ProcessStates'
  BY DEF IndInv
<1>1. \A r \in Slots : r # s /\ Busy(r)' =>
          /\ Busy(r) /\ procs'[r].task = procs[r].task
          /\ phase'[r] = phase[r] /\ dead'[r] = dead[r]
  BY <1>0, CompletionTasks
<1>2. Busy(s)' => /\ procs[s].id \in Actors /\ 1 \in DOMAIN queues[procs[s].id]
                  /\ procs'[s].task = queues[procs[s].id][1]
  BY <1>0, CompletionTasks
<1>3. \A b \in Actors : \A i \in DOMAIN queues'[b] :
          \/ b # procs[s].id /\ i \in DOMAIN queues[b] /\ queues'[b][i] = queues[b][i]
          \/ /\ b = procs[s].id /\ i \in Nat /\ i > 0
             /\ i + 1 \in DOMAIN queues[b] /\ queues'[b][i] = queues[b][i + 1]
  BY <1>0, CompletionTasks
<1>4. /\ \A r \in Slots : r # s => phase'[r] = phase[r] /\ dead'[r] = dead[r]
      /\ phase'[s] = "idle" /\ dead'[s] = {} /\ phase[s] = "executed"
      /\ known' = known \ RemovedBy(s)
      /\ UNCHANGED <<seen, entities>>
  BY <1>0, CompletionPlaces
<1>5. snapshot' = (snapshot \ RemovedBy(s)) \cup
          (IF procs[s].task.kind = "spawn" THEN {procs[s].task.subject} ELSE {})
  BY <1>0, CompletionPlaces
<1>6. RemovedBy(s) \subseteq TargetsOf(s) /\ Busy(s)
  BY <1>0, <1>4, RemovedAreTargets
<1>7. SpawnedByOne'
  <2> SUFFICES ASSUME NEW a \in Actors, NEW q \in Slots, NEW r \in Slots, q # r, r # s,
                      Busy(q)', Busy(r)', Spawns(procs'[q].task, a), Spawns(procs'[r].task, a)
               PROVE  FALSE
    BY DEF SpawnedByOne
  <2>1. CASE q # s
    BY <1>1, <2>1 DEF AccessInv, SpawnedOnce, SpawnedByOne
  <2>2. CASE q = s
    BY <1>1, <1>2, <2>2 DEF AccessInv, SpawnedOnce, SpawnedHereOrThere
  <2> QED BY <2>1, <2>2
<1>8. SpawnedHereOrThere'
  <2> SUFFICES ASSUME NEW a \in Actors, NEW b \in Actors, NEW r \in Slots, NEW i \in DOMAIN queues'[b],
                      Busy(r)', Spawns(procs'[r].task, a), Spawns(queues'[b][i], a)
               PROVE  FALSE
    BY DEF SpawnedHereOrThere
  <2>1. CASE r # s
    BY <1>1, <1>3, <2>1 DEF AccessInv, SpawnedOnce, SpawnedHereOrThere
  <2>2. CASE r = s
    <3>1. PICK j \in DOMAIN queues[b] : /\ Spawns(queues[b][j], a)
                                        /\ b = procs[s].id => j \in Nat /\ j > 1
      BY <1>3
    <3>2. b = procs[s].id /\ j = 1
      BY <1>2, <2>2, <3>1 DEF AccessInv, SpawnedOnce, SpawnQueuedOnce
    <3> QED BY <3>1, <3>2
  <2> QED BY <2>1, <2>2
<1>9. SpawnQueuedOnce'
  <2> SUFFICES ASSUME NEW a \in Actors, NEW b \in Actors, NEW c \in Actors,
                      NEW i \in DOMAIN queues'[b], NEW j \in DOMAIN queues'[c],
                      Spawns(queues'[b][i], a), Spawns(queues'[c][j], a)
               PROVE  b = c /\ i = j
    BY DEF SpawnQueuedOnce
  <2>1. PICK k \in DOMAIN queues[b] : /\ Spawns(queues[b][k], a)
                                      /\ b = procs[s].id => i \in Nat /\ k = i + 1
                                      /\ b # procs[s].id => k = i
    BY <1>3
  <2>2. PICK l \in DOMAIN queues[c] : /\ Spawns(queues[c][l], a)
                                      /\ c = procs[s].id => j \in Nat /\ l = j + 1
                                      /\ c # procs[s].id => l = j
    BY <1>3
  <2>3. b = c /\ k = l
    BY <2>1, <2>2 DEF AccessInv, SpawnedOnce, SpawnQueuedOnce
  <2> QED BY <2>1, <2>2, <2>3
<1>10. ArrivingIsNew'
  <2> SUFFICES ASSUME NEW a \in Actors, Arriving(a)'
               PROVE  /\ a \in known' /\ a \notin entities' /\ a \notin snapshot'
                      /\ ~ Targeted(a)'
    BY DEF ArrivingIsNew
  <2>1. \/ \E r \in Slots : r # s /\ Busy(r) /\ phase[r] # "executed" /\ Spawns(procs[r].task, a)
        \/ \E b \in Actors : \E i \in DOMAIN queues[b] : Spawns(queues[b][i], a)
    BY <1>1, <1>2, <1>3 DEF Arriving
  <2>2. ~ Spawns(procs[s].task, a)
    BY <1>6, <2>1 DEF AccessInv, SpawnedOnce, SpawnedByOne, SpawnedHereOrThere
  <2>3. a \in known /\ a \notin entities /\ a \notin snapshot /\ ~ Targeted(a)
    BY <2>1 DEF Arriving, AccessInv, ArrivingIsNew
  <2>4. a \notin RemovedBy(s)
    BY <1>6, <2>3 DEF Targeted
  <2>5. ~ Targeted(a)'
    BY <1>1, <1>2, <1>3, <2>3 DEF Targeted, TargetsOf
  <2>6. a \notin snapshot'
    BY <1>5, <2>2, <2>3 DEF Spawns
  <2> QED BY <1>4, <2>3, <2>4, <2>5, <2>6
<1>11. EntitiesAreKnown'
  BY <1>4 DEF AccessInv, EntitiesAreKnown, WorkersAgree
<1>12. WorkersAgree'
  <2> SUFFICES ASSUME NEW r \in Slots
               PROVE  /\ phase'[r] # "executing" => seen'[r] = {}
                      /\ phase'[r] # "executed" => dead'[r] = {}
                      /\ phase'[r] = "executing" => seen'[r] \subseteq procs'[r].task.targets
                      /\ phase'[r] = "executed" =>
                            dead'[r] \subseteq procs'[r].task.targets /\ RemovedBy(r)' \cap entities' = {}
    BY DEF WorkersAgree, TargetsOf
  <2>1. /\ phase[r] # "executing" => seen[r] = {}
        /\ phase[r] # "executed" => dead[r] = {}
        /\ phase[r] = "executing" => seen[r] \subseteq procs[r].task.targets
        /\ phase[r] = "executed" =>
              dead[r] \subseteq procs[r].task.targets /\ RemovedBy(r) \cap entities = {}
    BY DEF AccessInv, WorkersAgree, TargetsOf
  <2>2. CASE r = s
    BY <1>4, <2>1, <2>2
  <2>3. CASE r # s
    <3>1. phase'[r] # "idle" => procs'[r].task = procs[r].task
      BY <1>0, <1>1, <2>3 DEF ProcessStates, Busy
    <3>2. phase'[r] # "idle" => RemovedBy(r)' = RemovedBy(r)
      BY <1>4, <2>3, <3>1 DEF RemovedBy
    <3> QED BY <1>4, <2>1, <2>3, <3>1, <3>2
  <2> QED BY <2>2, <2>3
<1>13. DespawnShapes'
  BY <1>1, <1>2, <1>3 DEF AccessInv, DespawnShapes
<1> QED BY <1>7, <1>8, <1>9, <1>10, <1>11, <1>12, <1>13 DEF AccessInv, SpawnedOnce

(* A worker begins its task: what it resolves is among the targets. *)
LEMMA BeginKeepsAccess ==
    ASSUME IndInv, AccessInv, NEW s \in Slots, BeginExecution(s)
    PROVE  AccessInv'
<1>0. TypeOK /\ ProcessStates
  BY DEF IndInv
<1>1. /\ UNCHANGED <<procs, queues, known, snapshot, dead, entities>>
      /\ phase[s] = "posted" /\ phase'[s] = (IF Selects(s) THEN "executing" ELSE "executed")
      /\ seen'[s] = (IF Selects(s) THEN TargetsOf(s) \cap entities ELSE {})
      /\ \A r \in Slots : r # s => phase'[r] = phase[r] /\ seen'[r] = seen[r]
  BY <1>0 DEF BeginExecution, TypeOK, procVars, resVars, worldVars
<1>2. SpawnedOnce' /\ DespawnShapes' /\ EntitiesAreKnown'
  BY <1>1 DEF AccessInv, SpawnedOnce, SpawnedByOne, SpawnedHereOrThere, SpawnQueuedOnce,
              DespawnShapes, EntitiesAreKnown, Busy
<1>3. ArrivingIsNew'
  <2>1. ASSUME NEW a \in Actors PROVE (Arriving(a)' => Arriving(a)) /\ (Targeted(a)' => Targeted(a))
    BY <1>1 DEF Arriving, Targeted, TargetsOf, Busy
  <2> QED BY <1>1, <2>1 DEF AccessInv, ArrivingIsNew
<1>4. WorkersAgree'
  <2> SUFFICES ASSUME NEW r \in Slots
               PROVE  /\ phase'[r] # "executing" => seen'[r] = {}
                      /\ phase'[r] # "executed" => dead[r] = {}
                      /\ phase'[r] = "executing" => seen'[r] \subseteq TargetsOf(r)
                      /\ phase'[r] = "executed" =>
                            dead[r] \subseteq TargetsOf(r) /\ RemovedBy(r) \cap entities = {}
    BY <1>1 DEF WorkersAgree, TargetsOf, RemovedBy
  <2>1. /\ phase[r] # "executing" => seen[r] = {}
        /\ phase[r] # "executed" => dead[r] = {}
        /\ phase[r] = "executing" => seen[r] \subseteq TargetsOf(r)
        /\ phase[r] = "executed" => dead[r] \subseteq TargetsOf(r) /\ RemovedBy(r) \cap entities = {}
    BY DEF AccessInv, WorkersAgree
  <2>2. CASE r # s
    BY <1>1, <2>1, <2>2
  <2>3. CASE r = s
    <3>1. dead[s] = {}
      BY <1>1, <2>1, <2>3
    <3>2. ~ Selects(s) => RemovedBy(s) \cap entities = {}
      BY <3>1 DEF Selects, RemovedBy
    <3> QED BY <1>1, <2>3, <3>1, <3>2
  <2> QED BY <2>2, <2>3
<1> QED BY <1>2, <1>3, <1>4 DEF AccessInv

(* A worker finishes: only the actor it spawned is new, and no other task   *)
(* that has run removes that one.                                           *)
LEMMA FinishKeepsAccess ==
    ASSUME IndInv, AccessInv, NEW s \in Slots, FinishExecution(s)
    PROVE  AccessInv'
<1>0. TypeOK /\ ProcessStates
  BY DEF IndInv
<1> DEFINE t == procs[s].task
<1>1. /\ UNCHANGED <<procs, queues, known, snapshot>>
      /\ phase[s] = "executing" /\ phase'[s] = "executed" /\ seen'[s] = {}
      /\ \A r \in Slots : r # s => phase'[r] = phase[r] /\ seen'[r] = seen[r] /\ dead'[r] = dead[r]
  BY <1>0 DEF FinishExecution, TypeOK, procVars, resVars, worldVars
<1>2. \/ /\ t.kind = "act" /\ entities' = entities /\ dead'[s] = dead[s]
      \/ /\ t.kind = "spawn" /\ entities' = entities \cup {t.subject} /\ dead'[s] = dead[s]
      \/ /\ t.kind = "despawn" /\ entities' = entities \ {t.subject} /\ dead'[s] = dead[s]
      \/ /\ t.kind = "attack" /\ dead'[s] \subseteq seen[s]
         /\ entities' = entities \ dead'[s]
  BY <1>0 DEF FinishExecution, TypeOK
<1>3. Busy(s) /\ t \in Task
  BY <1>0, <1>1 DEF ProcessStates, Busy
<1>4. t.kind = "spawn" => t.subject \in Actors /\ Arriving(t.subject) /\ Spawns(t, t.subject)
  BY <1>1, <1>3 DEF Arriving, Spawns, Task
<1>5. t.kind = "spawn" => t.subject \in known /\ ~ Targeted(t.subject)
  BY <1>4 DEF AccessInv, ArrivingIsNew
<1>6. seen[s] \subseteq TargetsOf(s) /\ dead[s] = {}
  BY <1>1 DEF AccessInv, WorkersAgree
<1> HIDE DEF t
<1>7. SpawnedOnce' /\ DespawnShapes'
  BY <1>1 DEF AccessInv, SpawnedOnce, SpawnedByOne, SpawnedHereOrThere, SpawnQueuedOnce,
              DespawnShapes, Busy
<1>8. EntitiesAreKnown'
  BY <1>1, <1>2, <1>5 DEF AccessInv, EntitiesAreKnown
<1>9. ArrivingIsNew'
  <2> SUFFICES ASSUME NEW a \in Actors, Arriving(a)'
               PROVE  a \in known /\ a \notin entities' /\ a \notin snapshot /\ ~ Targeted(a)
    BY <1>1 DEF ArrivingIsNew, Targeted, TargetsOf, Busy
  <2>1. \/ \E r \in Slots : r # s /\ Busy(r) /\ phase[r] # "executed" /\ Spawns(procs[r].task, a)
        \/ \E b \in Actors : \E i \in DOMAIN queues[b] : Spawns(queues[b][i], a)
    BY <1>1 DEF Arriving, Busy
  <2>2. ~ Spawns(t, a)
    BY <1>3, <2>1 DEF AccessInv, SpawnedOnce, SpawnedByOne, SpawnedHereOrThere, t
  <2>3. a \in known /\ a \notin entities /\ a \notin snapshot /\ ~ Targeted(a)
    BY <2>1 DEF Arriving, AccessInv, ArrivingIsNew
  <2> QED BY <1>2, <2>2, <2>3 DEF Spawns
<1>10. WorkersAgree'
  <2> SUFFICES ASSUME NEW r \in Slots
               PROVE  /\ phase'[r] # "executing" => seen'[r] = {}
                      /\ phase'[r] # "executed" => dead'[r] = {}
                      /\ phase'[r] = "executing" => seen'[r] \subseteq TargetsOf(r)
                      /\ phase'[r] = "executed" =>
                            dead'[r] \subseteq TargetsOf(r) /\ RemovedBy(r)' \cap entities' = {}
    BY <1>1 DEF WorkersAgree, TargetsOf
  <2>1. /\ phase[r] # "executing" => seen[r] = {}
        /\ phase[r] # "executed" => dead[r] = {}
        /\ phase[r] = "executing" => seen[r] \subseteq TargetsOf(r)
        /\ phase[r] = "executed" => dead[r] \subseteq TargetsOf(r) /\ RemovedBy(r) \cap entities = {}
    BY DEF AccessInv, WorkersAgree
  <2>2. CASE r # s
    <3>1. phase'[r] = "executed" => RemovedBy(r)' \cap entities' = {}
      <4>1. RemovedBy(r)' = RemovedBy(r)
        BY <1>1, <2>2 DEF RemovedBy
      <4>2. ASSUME phase[r] = "executed", t.kind = "spawn"
            PROVE  t.subject \notin RemovedBy(r)
        BY <1>0, <1>5, <4>2, RemovedAreTargets DEF Targeted
      <4> QED BY <1>1, <1>2, <2>1, <2>2, <4>1, <4>2
    <3> QED BY <1>1, <2>1, <2>2, <3>1
  <2>3. CASE r = s
    <3>1. dead'[s] \subseteq TargetsOf(s)
      BY <1>2, <1>6
    <3>2. RemovedBy(s)' \cap entities' = {}
      BY <1>1, <1>2 DEF RemovedBy, t
    <3> QED BY <1>1, <2>3, <3>1, <3>2
  <2> QED BY <2>2, <2>3
<1> QED BY <1>7, <1>8, <1>9, <1>10 DEF AccessInv

(* Starting a ready task and the steps that touch no task. *)
LEMMA OtherKeepsAccess ==
    ASSUME IndInv, AccessInv,
           \/ \E s \in Slots : TryStartNext(s)
           \/ \E p \in Players, caller \in Callers : DropDespawn(p, caller)
           \/ TryStartBreak \/ ShutdownAndJoin \/ UNCHANGED vars
    PROVE  AccessInv'
<1>0. TypeOK /\ ProcessStates
  BY DEF IndInv
<1>1. ASSUME NEW s \in Slots, TryStartNext(s)
      PROVE  AccessInv'
  <2>1. /\ \A r \in Slots : procs'[r].task = procs[r].task
        /\ \A r \in Slots : r # s => procs'[r] = procs[r]
        /\ procs[s].state = "Ready" /\ procs'[s].state \in {"Ready", "Running"}
    BY <1>0, <1>1, StartPlaces
  <2>2. /\ \A r \in Slots : r # s =>
              phase'[r] = phase[r] /\ seen'[r] = seen[r] /\ dead'[r] = dead[r]
        /\ phase'[s] \in {"idle", "posted"} /\ seen'[s] \in {seen[s], {}} /\ dead'[s] \in {dead[s], {}}
        /\ UNCHANGED <<queues, known, entities, snapshot>>
    BY <1>0, <1>1, StartPlaces
  <2>3. \A r \in Slots : Busy(r)' = Busy(r)
    BY <2>1 DEF Busy
  <2>4. phase[s] = "idle"
    BY <1>0, <2>1 DEF ProcessStates
  <2>5. SpawnedOnce' /\ DespawnShapes' /\ EntitiesAreKnown'
    BY <2>1, <2>2, <2>3 DEF AccessInv, SpawnedOnce, SpawnedByOne, SpawnedHereOrThere,
                            SpawnQueuedOnce, DespawnShapes, EntitiesAreKnown
  <2>6. ArrivingIsNew'
    <3>1. ASSUME NEW a \in Actors PROVE (Arriving(a)' => Arriving(a)) /\ (Targeted(a)' => Targeted(a))
      BY <2>1, <2>2, <2>3, <2>4 DEF Arriving, Targeted, TargetsOf
    <3> QED BY <2>2, <3>1 DEF AccessInv, ArrivingIsNew
  <2>7. WorkersAgree'
    <3>1. \A r \in Slots : r # s => RemovedBy(r)' = RemovedBy(r)
      BY <2>1, <2>2 DEF RemovedBy
    <3> QED BY <2>1, <2>2, <2>4, <3>1 DEF AccessInv, WorkersAgree, TargetsOf
  <2> QED BY <2>5, <2>6, <2>7 DEF AccessInv
<1>2. ASSUME UNCHANGED <<procs, queues, known, phase, seen, dead, entities, snapshot>>
      PROVE  AccessInv'
  <2>1. SpawnedOnce' /\ DespawnShapes' /\ EntitiesAreKnown'
    BY <1>2 DEF AccessInv, SpawnedOnce, SpawnedByOne, SpawnedHereOrThere, SpawnQueuedOnce,
                DespawnShapes, EntitiesAreKnown, Busy
  <2>2. ArrivingIsNew' /\ WorkersAgree'
    BY <1>2 DEF AccessInv, ArrivingIsNew, Arriving, Targeted, TargetsOf, Busy, WorkersAgree, RemovedBy
  <2> QED BY <2>1, <2>2 DEF AccessInv
<1> QED BY <1>1, <1>2 DEF DropDespawn, TryStartBreak, ShutdownAndJoin, vars, procVars, resVars,
                          workVars, worldVars

(* AccessInv is inductive relative to IndInv and OrderInv. *)
LEMMA AccessStep == IndInv /\ IndInv' /\ OrderInv /\ AccessInv /\ [Next]_vars => AccessInv'
<1> SUFFICES ASSUME IndInv, IndInv', OrderInv, AccessInv, [Next]_vars PROVE AccessInv'
  OBVIOUS
<1>1. CASE ScheduleTask
  BY <1>1, ScheduleAdmits, AdmissionKeepsAccess, OtherKeepsAccess DEF IndInv
<1>2. CASE \E s \in Slots : CompleteTask(s)
  BY <1>2, CompletionKeepsAccess
<1>3. CASE \E s \in Slots : BeginExecution(s) \/ FinishExecution(s)
  BY <1>3, BeginKeepsAccess, FinishKeepsAccess
<1> QED BY <1>1, <1>2, <1>3, OtherKeepsAccess DEF Next

(* The workers leave what they use in one step, or enter what nobody uses. *)
LEMMA AccessImplements ==
    IndInv /\ AccessInv /\ ExclusiveTargets /\ [Next]_vars => [Access!Next]_seen
<1> SUFFICES ASSUME IndInv, AccessInv, ExclusiveTargets, [Next]_vars, seen' # seen
             PROVE  Access!Next
  OBVIOUS
<1>0. TypeOK /\ ProcessStates
  BY DEF IndInv
<1>1. ASSUME NEW s \in Slots, seen' = [seen EXCEPT ![s] = {}]
      PROVE  Access!Next
  BY <1>1 DEF Access!Next, Access!Leave
<1>2. ASSUME NEW s \in Slots, BeginExecution(s)
      PROVE  Access!Next
  <2> DEFINE S == IF Selects(s) THEN TargetsOf(s) \cap entities ELSE {}
  <2>1. seen' = [seen EXCEPT ![s] = S] /\ phase[s] = "posted"
    BY <1>2 DEF BeginExecution
  <2>2. seen[s] = {}
    BY <2>1 DEF AccessInv, WorkersAgree
  <2>3. S \subseteq TargetsOf(s) \cap known /\ S \subseteq Actors
    BY <1>0 DEF AccessInv, EntitiesAreKnown, TypeOK
  <2>4. ASSUME NEW v \in Slots
        PROVE  seen[v] \cap S = {}
    <3>1. CASE seen[v] = {}
      BY <3>1
    <3>2. CASE seen[v] # {}
      <4>1. phase[v] = "executing" /\ seen[v] \subseteq TargetsOf(v)
        BY <3>2 DEF AccessInv, WorkersAgree
      <4>2. v # s /\ v \in Running /\ s \in Running
        BY <1>0, <2>1, <2>2, <3>2, <4>1 DEF ProcessStates, Running, InState
      <4>3. TargetsOf(s) \cap TargetsOf(v) \cap known = {}
        BY <4>2 DEF ExclusiveTargets
      <4> QED BY <2>3, <4>1, <4>3
    <3> QED BY <3>1, <3>2
  <2> HIDE DEF S
  <2>5. Access!Enter(s, S)
    BY <2>1, <2>2, <2>4 DEF Access!Enter
  <2> QED BY <2>3, <2>5 DEF Access!Next
<1>3. ASSUME NEW P, NEW Q, NEW K, NEW A, NEW R, NEW s \in Slots, NEW t, Admit(P, Q, K, A, R, s, t)
      PROVE  Access!Next
  BY <1>1, <1>3 DEF Admit, PostStart, workVars
<1>4. CASE ScheduleTask
  <2>1. Admission \/ \E p \in Players, caller \in Callers : DropDespawn(p, caller)
    BY <1>0, <1>4, ScheduleAdmits
  <2>2. CASE Admission
    BY <1>3, <2>2 DEF Admission, Prepared
  <2> QED BY <2>1, <2>2 DEF DropDespawn, workVars
<1>5. CASE \E s \in Slots : FinishExecution(s)
  BY <1>1, <1>5 DEF FinishExecution
<1>6. CASE \E s \in Slots : TryStartNext(s)
  BY <1>1, <1>6 DEF TryStartNext, PostStart, workVars
<1>7. CASE (\E s \in Slots : CompleteTask(s)) \/ TryStartBreak \/ ShutdownAndJoin \/ UNCHANGED vars
  BY <1>7 DEF CompleteTask, TryStartBreak, ShutdownAndJoin, vars, workVars
<1> QED BY <1>2, <1>4, <1>5, <1>6, <1>7 DEF Next

(* The scheduler implements exclusive access: the entities a task works on  *)
(* are its own from the moment its worker resolves them until it returns.   *)
THEOREM SchedulerRefinement == Spec => AccessIsExclusive
<1>1. Init => Access!Init
  BY DEF Init, Access!Init
<1>2. Spec => []OrderInv
  BY InitOrder, SchedulerInvariant, OrderStep, PTL DEF Spec
<1>3. Spec => []AccessInv
  BY <1>2, InitAccess, SchedulerInvariant, AccessStep, PTL DEF Spec
<1> QED BY <1>1, <1>3, SchedulerInvariant, SchedulerExclusion, AccessImplements, PTL
        DEF Spec, AccessIsExclusive, Access!Spec

-----------------------------------------------------------------------------
(* No lost wakeup *)

(* A reservation counts when its process is ready and has reserved every    *)
(* resource it waits for.                                                   *)
Honoured(q) == q \in Ready /\ \A b \in WaitedFor(q) : q \in reserved[b]

(* Where no address was left behind, every reservation counts.              *)
ReservationsCount ==
    \A a \in Actors \ left : \A q \in reserved[a] : Honoured(q) /\ a \in WaitedFor(q)

(* The ready processes the scan is done with do not wait only for           *)
(* themselves.  With an idle strand that is NoForgottenTask.                *)
NoneForgottenSoFar ==
    ~ shutdown /\ Running = {} =>
        \A S \in SUBSET (Ready \ scan) : S # {} => ~ WaitsOnlyForItself(S)
WakeInv == ReservationsCount /\ NoneForgottenSoFar

(* At first nothing is reserved and nobody is ready. *)
LEMMA InitWake == Init => WakeInv
<1> SUFFICES ASSUME Init PROVE WakeInv
  OBVIOUS
<1>1. IndInv
  BY InitInvariant
<1>2. \A s \in Slots : procs[s].state # "Ready"
  <2>1. PICK f \in [InitialActors -> Slots] :
          procs = [s \in Slots |->
                IF \E a \in InitialActors : f[a] = s
                THEN FreshProcess(CHOOSE a \in InitialActors : f[a] = s)
                ELSE DeadProcess("Unused")]
    BY DEF Init
  <2>2. \A x : FreshProcess(x).state = "Waiting" /\ DeadProcess("Unused").state = "Unused"
    BY DEF FreshProcess, DeadProcess, Taskless
  <2> QED BY <2>1, <2>2
<1>3. Ready = {}
  BY <1>2 DEF Ready, InState
<1>4. ReservationsCount
  BY DEF Init, ReservationsCount
<1> QED BY <1>3, <1>4 DEF WakeInv, NoneForgottenSoFar

(* A step after which every reservation is an old one, of a process that is *)
(* still ready, waits for no more than before and reserves all it waits     *)
(* for, keeps the first part.                                               *)
LEMMA OldReservationsCount ==
    ASSUME ReservationsCount, left \subseteq left',
           \A a \in Actors \ left' : \A q \in reserved'[a] :
               /\ q \in reserved[a]
               /\ q \in Ready => /\ q \in Ready' /\ a \in WaitedFor(q)'
                                 /\ WaitedFor(q)' \subseteq WaitedFor(q)
                                 /\ \A b \in WaitedFor(q)' : q \in reserved[b] => q \in reserved'[b]
    PROVE  ReservationsCount'
<1> SUFFICES ASSUME NEW a \in Actors \ left', NEW q \in reserved'[a]
             PROVE  Honoured(q)' /\ a \in WaitedFor(q)'
  BY DEF ReservationsCount
<1>1. q \in reserved[a] /\ Honoured(q)
  BY DEF ReservationsCount
<1>2. q \in Ready /\ \A b \in WaitedFor(q) : q \in reserved[b]
  BY <1>1 DEF Honoured
<1>3. /\ q \in Ready' /\ a \in WaitedFor(q)' /\ WaitedFor(q)' \subseteq WaitedFor(q)
      /\ \A b \in WaitedFor(q)' : q \in reserved[b] => q \in reserved'[b]
  BY <1>2
<1> QED BY <1>2, <1>3 DEF Honoured

(* A set of ready processes that did not wait only for itself still does    *)
(* not, with processes added that were not ready.                           *)
LEMMA StillKept ==
    ASSUME NEW S, NEW T, S = T \cap Ready, ~ WaitsOnlyForItself(S),
           Ready \subseteq Ready', left \subseteq left',
           \A s \in S : /\ WaitedFor(s) \subseteq WaitedFor(s)'
                        /\ \A a \in WaitedFor(s) : reserved[a] \cap Ready \subseteq reserved'[a]
    PROVE  ~ WaitsOnlyForItself(T)'
<1>1. PICK s \in S : WaitedFor(s) \cap left # {} \/ \E r \in Ready \ S : KeptBy(s, r)
  BY DEF WaitsOnlyForItself
<1>2. s \in T
  OBVIOUS
<1>3. CASE WaitedFor(s) \cap left # {}
  <2>1. WaitedFor(s)' \cap left' # {}
    BY <1>3
  <2> QED BY <1>2, <2>1 DEF WaitsOnlyForItself
<1>4. CASE \E r \in Ready \ S : KeptBy(s, r)
  <2>1. PICK r \in Ready \ S, a \in WaitedFor(s) : r \in reserved[a]
    BY <1>4 DEF KeptBy
  <2>2. r \in Ready' \ T /\ a \in WaitedFor(s)' /\ r \in reserved'[a]
    BY <2>1
  <2> QED BY <1>2, <2>2 DEF WaitsOnlyForItself, KeptBy
<1> QED BY <1>1, <1>3, <1>4

(* A ready process that cannot start while nothing runs is kept by another, *)
(* provided that all reservations count, or waits where an address was left.*)
LEMMA BlockedIsKept ==
    ASSUME TypeOK, AcquiredByHolder, ReservationsCount, Running = {},
           NEW s \in Slots, NEW T \in SUBSET Actors,
           ~ CanStart(s, T, known, acquired, reserved)
    PROVE  \E a \in T \cap known :
              /\ s \notin reserved[a]
              /\ a \in left \/ \E r \in Ready : r # s /\ r \in reserved[a]
<1>1. PICK a \in T \cap known : ~ CanAcquire(s, a, acquired, reserved)
  BY DEF CanStart
<1>2. a \in Actors /\ acquired[a] = None
  BY DEF AcquiredByHolder
<1>3. reserved[a] # {} /\ s \notin reserved[a]
  BY <1>1, <1>2 DEF CanAcquire
<1>4. CASE a \notin left
  <2>1. PICK r \in reserved[a] : TRUE
    BY <1>3
  <2>2. r \in Ready /\ r # s
    BY <1>2, <1>3, <1>4, <2>1 DEF ReservationsCount, Honoured
  <2> QED BY <1>3, <2>1, <2>2
<1> QED BY <1>3, <1>4

(* A task that is admitted changes no reservation that counts.  When it     *)
(* must wait and nothing runs, someone else keeps it.                       *)
LEMMA AdmissionKeepsWake ==
    ASSUME IndInv, WakeInv, Admission
    PROVE  WakeInv'
<1>0. TypeOK /\ ProcessStates /\ AcquiredByHolder /\ TargetsAreSpawned
  BY DEF IndInv
<1>00. ReservationsCount /\ NoneForgottenSoFar
  BY DEF WakeInv
<1>1. PICK N \in SUBSET Actors, P \in [Slots -> Process], s \in Slots, t \in Task :
          Prepared(N, P, s, t)
  BY DEF Admission
<1>2. Placed(N, P, s, t)
  BY <1>0, <1>1, AdmissionPlaces
<1>3. /\ N \cap spawned = {} /\ shutdown' = shutdown /\ left' = left /\ scan = {} /\ scan' = {}
      /\ Admit(P, NewQueues(N), known \cup N, acquired, NewReserved(N), s, t)
      /\ t.targets \cap N = {} /\ t.targets \subseteq Actors
  BY <1>1 DEF Prepared, NewTaskOf, Task
<1>4. known' = known \cup N
  BY <1>2 DEF Placed
<1>5. \A r \in Slots : Busy(r) => procs'[r] = procs[r]
  BY <1>2 DEF Placed
<1>6. \A r \in Slots : r # s /\ Busy(r)' => Busy(r)
  <2> SUFFICES ASSUME NEW r \in Slots, r # s, Busy(r)' PROVE Busy(r)
    OBVIOUS
  <2>1. procs'[r] = P[r]
    BY <1>2 DEF Placed
  <2>2. P[r] # procs[r] => P[r].state = "Waiting"
    BY <1>1, FreshProcessIs DEF Prepared, NewProcesses
  <2> QED BY <2>1, <2>2 DEF Busy
<1>7. /\ Ready \subseteq Ready' /\ Running \subseteq Running'
      /\ \A r \in Ready : WaitedFor(r)' = WaitedFor(r) /\ WaitedFor(r) \cap N = {}
                          /\ WaitedFor(r) \subseteq Actors
  <2>1. \A r \in Slots : Busy(r) => procs'[r] = procs[r] /\ procs[r].task.targets \cap N = {}
    BY <1>0, <1>3, <1>5 DEF TargetsAreSpawned, Mentions, Busy
  <2> QED BY <1>0, <1>4, <2>1 DEF Ready, Running, InState, Busy, WaitedFor, TargetsOf, TypeOK
<1>8. \A a \in Actors : reserved'[a] \subseteq NewReserved(N)[a]
  BY <1>3 DEF Admit, AllocateResource
<1>9. \A a \in Actors \ N : reserved[a] \cap Ready \subseteq reserved'[a]
  <2>1. \A a \in Actors \ N : NewReserved(N)[a] = reserved[a]
    BY DEF NewReserved
  <2>2. \/ reserved' = NewReserved(N)
        \/ P[s].state = "Waiting" /\ AllocateResource(s, t.targets, known \cup N, acquired, NewReserved(N))
    BY <1>3 DEF Admit
  <2>3. P[s].state = "Waiting" => s \notin Ready
    BY <1>2 DEF Placed, Ready, InState, Busy
  <2> QED BY <2>1, <2>2, <2>3 DEF AllocateResource
<1>10. ReservationsCount'
  <2>1. \A a \in Actors : reserved'[a] \subseteq (IF a \in N THEN {} ELSE reserved[a])
    BY <1>8 DEF NewReserved
  <2>2. ASSUME NEW a \in Actors \ left', NEW q \in reserved'[a]
        PROVE  /\ q \in reserved[a]
               /\ q \in Ready => /\ q \in Ready' /\ a \in WaitedFor(q)'
                                 /\ WaitedFor(q)' \subseteq WaitedFor(q)
                                 /\ \A b \in WaitedFor(q)' : q \in reserved[b] => q \in reserved'[b]
    <3>1. q \in reserved[a]
      BY <2>1
    <3>2. a \in WaitedFor(q)
      BY <1>00, <1>3, <3>1 DEF ReservationsCount
    <3> QED BY <1>7, <1>9, <3>1, <3>2
  <2> QED BY <1>00, <1>3, <2>2, OldReservationsCount
<1>11. NoneForgottenSoFar'
  <2> SUFFICES ASSUME ~ shutdown', Running' = {}, NEW S \in SUBSET (Ready' \ scan'), S # {}
               PROVE  ~ WaitsOnlyForItself(S)'
    BY DEF NoneForgottenSoFar
  <2>1. Running = {}
    BY <1>7
  <2>2. \A r \in Ready : /\ WaitedFor(r) \subseteq WaitedFor(r)'
                         /\ \A a \in WaitedFor(r) : reserved[a] \cap Ready \subseteq reserved'[a]
    BY <1>7, <1>9
  <2>3. CASE S \cap Ready # {}
    <3> DEFINE old == S \cap Ready
    <3>1. ~ WaitsOnlyForItself(old)
      BY <1>00, <1>3, <2>1, <2>3 DEF NoneForgottenSoFar
    <3>2. \A r \in old : /\ WaitedFor(r) \subseteq WaitedFor(r)'
                         /\ \A a \in WaitedFor(r) : reserved[a] \cap Ready \subseteq reserved'[a]
      BY <2>2
    <3>3. old = S \cap Ready
      OBVIOUS
    <3>4. left \subseteq left' /\ Ready \subseteq Ready'
      BY <1>3, <1>7
    <3> HIDE DEF old
    <3> QED BY <3>1, <3>2, <3>3, <3>4, StillKept
  <2>4. CASE S \cap Ready = {}
    <3>1. S = {s} /\ procs'[s].state = "Ready" /\ ~ Busy(s)
      <4>1. \A r \in S : r \in Slots /\ procs'[r].state = "Ready" /\ procs[r].state # "Ready"
        BY <2>4 DEF Ready, InState
      <4>2. \A r \in Slots : procs[r].state # "Running"
        BY <2>1 DEF Running, InState
      <4>3. \A r \in S : ~ Busy(r) /\ Busy(r)'
        BY <4>1, <4>2 DEF Busy
      <4>4. S = {s}
        BY <1>6, <4>1, <4>3
      <4> QED BY <4>1, <4>3, <4>4
    <3>2. /\ ~ CanStart(s, t.targets, known \cup N, acquired, NewReserved(N))
          /\ reserved' = NewReserved(N) /\ procs'[s].task = t
      <4>1. P[s].state = "Waiting" /\ procs'[s].task = t
        BY <1>2, <3>1 DEF Placed, Busy
      <4>2. P[s] \in Process
        OBVIOUS
      <4>3. ToState(P[s], "Running", t).state = "Running"
        BY SameController
      <4> QED BY <1>3, <3>1, <4>1, <4>3 DEF Admit
    <3>3. ~ CanStart(s, t.targets, known, acquired, reserved)
      BY <1>3, <3>2 DEF CanStart, CanAcquire, NewReserved
    <3>4. PICK a \in t.targets \cap known :
              a \in left \/ \E r \in Ready : r # s /\ r \in reserved[a]
      BY <1>0, <1>00, <1>3, <2>1, <3>3, BlockedIsKept
    <3>5. a \in WaitedFor(s)' /\ a \in Actors \ N
      BY <1>3, <1>4, <3>2, <3>4 DEF WaitedFor, TargetsOf
    <3>6. CASE a \in left
      BY <1>3, <3>1, <3>5, <3>6 DEF WaitsOnlyForItself
    <3>7. CASE \E r \in Ready : r # s /\ r \in reserved[a]
      <4>1. PICK r \in Ready : r # s /\ r \in reserved[a]
        BY <3>7
      <4>2. r \in Ready' \ S /\ r \in reserved'[a]
        BY <1>7, <1>9, <3>1, <3>5, <4>1
      <4> QED BY <3>1, <3>5, <4>2 DEF WaitsOnlyForItself, KeptBy
    <3> QED BY <3>4, <3>6, <3>7
  <2> QED BY <2>3, <2>4
<1> QED BY <1>10, <1>11 DEF WakeInv

(* A completion looks at every ready process again.  A ready process that   *)
(* it removes leaves its address where it reserved, and that is recorded.   *)
LEMMA CompletionKeepsWake ==
    ASSUME IndInv, WakeInv, NEW s \in Slots, CompleteTask(s)
    PROVE  WakeInv'
<1>0. TypeOK /\ ProcessStates
  BY DEF IndInv
<1>00. ReservationsCount /\ NoneForgottenSoFar
  BY DEF WakeInv
<1> DEFINE gone == RemovedBy(s)
           P == RemoveControllers(procs, gone)
           next == [P EXCEPT ![s] = AfterCompletion(P[s], queues[P[s].id])]
<1>1. /\ procs' = next /\ phase[s] = "executed"
      /\ ReleaseAndRemove(procs[s].task.targets, gone)
      /\ left' = left \cup LeftBehind(P)
      /\ scan' = IF shutdown THEN {} ELSE InState(next, "Ready")
      /\ shutdown' = shutdown
  BY DEF CompleteTask
<1>2. procs[s].state = "Running"
  BY <1>0, <1>1 DEF ProcessStates
<1>3. /\ P \in [Slots -> Process]
      /\ \A r \in Slots : /\ P[r].state = procs[r].state \/ P[r].state = "Recycled"
                          /\ P[r].state \in {"Ready", "Running"} => P[r].task = procs[r].task
  BY <1>0, RemoveControllersType DEF TypeOK
<1> HIDE DEF P, gone
<1>4. \A r \in Slots \ {s} : procs'[r] = P[r]
  BY <1>1, <1>3
<1>5. NoneForgottenSoFar'
  <2>1. shutdown' \/ Ready' \ scan' = {}
    BY <1>1 DEF Ready
  <2> QED BY <2>1 DEF NoneForgottenSoFar
<1>6. ReservationsCount'
  <2>1. known' = known \ gone /\ reserved' = [a \in Actors |-> IF a \in gone THEN {} ELSE reserved[a]]
    BY <1>1 DEF ReleaseAndRemove
  <2>2. ASSUME NEW a \in Actors \ left', NEW q \in reserved'[a]
        PROVE  /\ q \in reserved[a]
               /\ q \in Ready => /\ q \in Ready' /\ a \in WaitedFor(q)'
                                 /\ WaitedFor(q)' \subseteq WaitedFor(q)
                                 /\ \A b \in WaitedFor(q)' : q \in reserved[b] => q \in reserved'[b]
    <3>1. q \in reserved[a] /\ a \notin gone
      BY <2>1, <2>2
    <3>2. q \in Ready /\ a \in WaitedFor(q)
      BY <1>00, <1>1, <3>1 DEF ReservationsCount, Honoured
    <3>3. q \in Slots \ {s} /\ procs[q].state = "Ready"
      BY <1>2, <3>2 DEF Ready, InState
    <3>4. P[q].state # "Recycled"
      BY <1>1, <3>1, <3>3 DEF LeftBehind
    <3>5. procs'[q].state = "Ready" /\ procs'[q].task = procs[q].task
      BY <1>3, <1>4, <3>3, <3>4
    <3>6. q \in Ready' /\ WaitedFor(q)' = WaitedFor(q) \ gone
      BY <2>1, <3>3, <3>5 DEF Ready, InState, WaitedFor, TargetsOf
    <3>7. \A b \in WaitedFor(q)' : b \in Actors \ gone
      BY <1>0, <2>1, <3>6 DEF WaitedFor, TypeOK
    <3> QED BY <2>1, <3>1, <3>2, <3>6, <3>7
  <2>3. left \subseteq left'
    BY <1>1
  <2> QED BY <1>00, <2>2, <2>3, OldReservationsCount
<1> QED BY <1>5, <1>6 DEF WakeInv

(* The scan starts a process or finds it kept by somebody else: a process   *)
(* whose own reservations keep all the others could have started, since     *)
(* nothing runs and it has reserved everything it waits for.                *)
LEMMA ScanKeepsWake ==
    ASSUME IndInv, WakeInv, NEW s \in Slots, TryStartNext(s)
    PROVE  WakeInv'
<1>0. TypeOK /\ ProcessStates /\ AcquiredByHolder
  BY DEF IndInv
<1>00. ReservationsCount /\ NoneForgottenSoFar
  BY DEF WakeInv
<1>1. /\ procs[s].state = "Ready" /\ procs'[s].task = procs[s].task
      /\ \A r \in Slots : r # s => procs'[r] = procs[r]
      /\ known' = known
  BY <1>0, StartPlaces
<1>2. s \in scan /\ scan' = scan \ {s} /\ left' = left /\ shutdown' = shutdown
  BY DEF TryStartNext, worldVars
<1>3. /\ WaitedFor(s) \subseteq Actors /\ s \in Ready
      /\ \A r \in Slots : WaitedFor(r)' = WaitedFor(r)
  BY <1>0, <1>1 DEF WaitedFor, TargetsOf, TypeOK, Ready, InState
<1>4. CASE /\ procs' = [procs EXCEPT ![s] = ToState(@, "Running", @.task)]
           /\ AllocateResource(s, TargetsOf(s), known, acquired, reserved)
  <2>1. procs'[s].state = "Running"
    BY <1>0, <1>4, SameController DEF TypeOK
  <2>2. Running' # {}
    BY <2>1 DEF Running, InState
  <2>3. \A a \in Actors : reserved'[a] = IF a \in WaitedFor(s) THEN reserved[a] \ {s} ELSE reserved[a]
    BY <1>4 DEF AllocateResource, WaitedFor
  <2>4. ASSUME NEW a \in Actors \ left', NEW q \in reserved'[a]
        PROVE  /\ q \in reserved[a]
               /\ q \in Ready => /\ q \in Ready' /\ a \in WaitedFor(q)'
                                 /\ WaitedFor(q)' \subseteq WaitedFor(q)
                                 /\ \A b \in WaitedFor(q)' : q \in reserved[b] => q \in reserved'[b]
    <3>1. q \in reserved[a]
      BY <2>3
    <3>2. q \in Ready /\ a \in WaitedFor(q)
      BY <1>00, <1>2, <3>1 DEF ReservationsCount, Honoured
    <3>3. q # s
      BY <2>3, <2>4, <3>2
    <3>4. q \in Ready' /\ q \in Slots
      BY <1>1, <3>2, <3>3 DEF Ready, InState
    <3>5. WaitedFor(q) \subseteq Actors
      BY <1>0 DEF WaitedFor, TypeOK
    <3> QED BY <1>3, <2>3, <3>1, <3>2, <3>3, <3>4, <3>5
  <2>5. ReservationsCount'
    BY <1>00, <1>2, <2>4, OldReservationsCount
  <2> QED BY <2>2, <2>5 DEF WakeInv, NoneForgottenSoFar
<1>5. CASE /\ ~ CanStart(s, TargetsOf(s), known, acquired, reserved)
           /\ procs' = [procs EXCEPT ![s] = AddStarvationCount(@)]
           /\ \/ reserved' = reserved
              \/ reserved' = [a \in Actors |-> IF a \in WaitedFor(s)
                                               THEN reserved[a] \cup {s} ELSE reserved[a]]
  <2>1. procs'[s].state = "Ready"
    BY <1>0, <1>1, <1>5, AddStarvationCountType DEF TypeOK
  <2>2. Ready' = Ready /\ Running' = Running
    BY <1>1, <2>1 DEF Ready, Running, InState
  <2>3. \A a \in Actors : /\ reserved[a] \subseteq reserved'[a]
                          /\ \A q \in reserved'[a] : q \in reserved[a] \/
                                (q = s /\ a \in WaitedFor(s)
                                   /\ \A b \in WaitedFor(s) : s \in reserved'[b])
    BY <1>3, <1>5
  <2>4. \A r \in Ready : WaitedFor(r)' = WaitedFor(r) /\ WaitedFor(r) \subseteq Actors
    BY <1>0, <1>3 DEF WaitedFor, TypeOK, Ready, InState
  <2>5. ReservationsCount'
    <3> SUFFICES ASSUME NEW a \in Actors \ left, NEW q \in reserved'[a]
                 PROVE  Honoured(q)' /\ a \in WaitedFor(q)'
      BY <1>2 DEF ReservationsCount
    <3>1. CASE q \in reserved[a]
      BY <1>00, <2>2, <2>3, <2>4, <3>1 DEF ReservationsCount, Honoured
    <3>2. CASE q \notin reserved[a]
      BY <1>3, <2>2, <2>3, <2>4, <3>2 DEF Honoured
    <3> QED BY <3>1, <3>2
  <2>6. NoneForgottenSoFar'
    <3> SUFFICES ASSUME ~ shutdown', Running' = {}, NEW S \in SUBSET (Ready' \ scan'), S # {}
                 PROVE  ~ WaitsOnlyForItself(S)'
      BY DEF NoneForgottenSoFar
    <3>1. ~ shutdown /\ Running = {} /\ S \subseteq Ready
      BY <1>2, <2>2
    <3>2. PICK a \in WaitedFor(s) : /\ s \notin reserved[a]
                                    /\ a \in left \/ \E r \in Ready : r # s /\ r \in reserved[a]
      <4>1. TargetsOf(s) \cap known \subseteq Actors
        BY <1>3 DEF WaitedFor
      <4>2. ~ CanStart(s, TargetsOf(s) \cap known, known, acquired, reserved)
        BY <1>5 DEF CanStart
      <4>3. \E a \in (TargetsOf(s) \cap known) \cap known :
                /\ s \notin reserved[a]
                /\ a \in left \/ \E r \in Ready : r # s /\ r \in reserved[a]
        BY <1>0, <1>00, <3>1, <4>1, <4>2, BlockedIsKept
      <4>4. (TargetsOf(s) \cap known) \cap known = WaitedFor(s)
        BY DEF WaitedFor
      <4> QED BY ONLY <4>3, <4>4
    <3>3. ~ Honoured(s)
      BY <3>2 DEF Honoured
    <3> DEFINE others == S \ {s}
    <3>4. \A r \in Ready : /\ WaitedFor(r) \subseteq WaitedFor(r)'
                           /\ \A b \in WaitedFor(r) : reserved[b] \cap Ready \subseteq reserved'[b]
      BY <2>3, <2>4
    <3>5. CASE s \notin S
      <4>1. S \subseteq Ready \ scan
        BY <1>2, <3>1, <3>5
      <4>2. ~ WaitsOnlyForItself(S)
        BY <1>00, <3>1, <4>1 DEF NoneForgottenSoFar
      <4>3. S = S \cap Ready /\ left \subseteq left' /\ Ready \subseteq Ready'
        BY <1>2, <2>2, <3>1
      <4> QED BY <3>1, <3>4, <4>2, <4>3, StillKept
    <3>6. CASE s \in S /\ others = {}
      <4>1. S = {s} /\ a \in WaitedFor(s)'
        BY <1>3, <3>6
      <4>2. CASE a \in left
        BY <1>2, <4>1, <4>2 DEF WaitsOnlyForItself
      <4>3. CASE \E r \in Ready : r # s /\ r \in reserved[a]
        <5>1. PICK r \in Ready : r # s /\ r \in reserved[a]
          BY <4>3
        <5>2. r \in Ready' \ S /\ r \in reserved'[a]
          BY <1>3, <2>2, <2>3, <3>2, <4>1, <5>1
        <5> QED BY <4>1, <5>2 DEF WaitsOnlyForItself, KeptBy
      <4> QED BY <3>2, <4>2, <4>3
    <3>7. CASE s \in S /\ others # {}
      <4>1. others \in SUBSET (Ready \ scan)
        BY <1>2, <3>1
      <4>2. ~ WaitsOnlyForItself(others)
        BY <1>00, <3>1, <3>7, <4>1 DEF NoneForgottenSoFar
      <4>3. PICK q \in others : WaitedFor(q) \cap left # {} \/ \E r \in Ready \ others : KeptBy(q, r)
        BY <4>2 DEF WaitsOnlyForItself
      <4>4. q \in Ready /\ WaitedFor(q)' = WaitedFor(q) /\ WaitedFor(q) \subseteq Actors
        BY <2>4, <4>1, <4>3
      <4>5. CASE WaitedFor(q) \cap left # {}
        BY <1>2, <4>3, <4>4, <4>5 DEF WaitsOnlyForItself
      <4>6. CASE WaitedFor(q) \cap left = {} /\ \E r \in Ready \ others : KeptBy(q, r)
        <5>1. PICK r \in Ready \ others, b \in WaitedFor(q) : r \in reserved[b]
          BY <4>6 DEF KeptBy
        <5>2. r # s
          BY <1>00, <3>3, <4>4, <4>6, <5>1 DEF ReservationsCount
        <5>3. r \in Ready' \ S /\ b \in WaitedFor(q)' /\ r \in reserved'[b]
          BY <2>2, <2>3, <4>4, <5>1, <5>2
        <5> QED BY <4>3, <5>3 DEF WaitsOnlyForItself, KeptBy
      <4> QED BY <4>3, <4>5, <4>6
    <3> QED BY <3>5, <3>6, <3>7
  <2> QED BY <2>5, <2>6 DEF WakeInv
<1> QED BY <1>4, <1>5 DEF TryStartNext, WaitedFor

(* The scan breaks only when workers are taken, a worker's step is one of a *)
(* running task, and after a shutdown there is nothing to wake.             *)
LEMMA OtherKeepsWake ==
    ASSUME IndInv, WakeInv,
           \/ \E s \in Slots : BeginExecution(s) \/ FinishExecution(s)
           \/ \E p \in Players, caller \in Callers : DropDespawn(p, caller)
           \/ TryStartBreak \/ ShutdownAndJoin \/ UNCHANGED vars
    PROVE  WakeInv'
<1>1. UNCHANGED <<procs, known, reserved, left>>
  BY DEF BeginExecution, FinishExecution, DropDespawn, TryStartBreak, ShutdownAndJoin, vars,
         procVars, resVars, worldVars
<1>2. /\ Ready' = Ready /\ Running' = Running /\ ReservationsCount'
      /\ \A S : WaitsOnlyForItself(S)' <=> WaitsOnlyForItself(S)
  <2>1. Ready' = Ready /\ Running' = Running
    BY <1>1 DEF Ready, Running, InState
  <2>2. \A s : WaitedFor(s)' = WaitedFor(s)
    BY <1>1 DEF WaitedFor, TargetsOf
  <2>3. ReservationsCount'
    BY <1>1, <2>1, <2>2 DEF WakeInv, ReservationsCount, Honoured
  <2>4. \A S : WaitsOnlyForItself(S)' <=> WaitsOnlyForItself(S)
    BY <1>1, <2>1, <2>2 DEF WaitsOnlyForItself, KeptBy
  <2> QED BY <2>1, <2>3, <2>4
<1>3. CASE scan' = scan /\ shutdown' = shutdown
  BY <1>2, <1>3 DEF WakeInv, NoneForgottenSoFar
<1>4. CASE TryStartBreak
  <2>1. Cardinality(Running) >= MaxConcurrency
    BY <1>4 DEF TryStartBreak
  <2>2. Running # {}
    BY <2>1, NumbersAssumption, FS_EmptySet
  <2> QED BY <1>2, <2>2 DEF WakeInv, NoneForgottenSoFar
<1>5. CASE ShutdownAndJoin
  BY <1>2, <1>5 DEF ShutdownAndJoin, WakeInv, NoneForgottenSoFar
<1> QED BY <1>3, <1>4, <1>5 DEF BeginExecution, FinishExecution, DropDespawn, vars

(* WakeInv is inductive relative to IndInv. *)
LEMMA WakeStep == IndInv /\ WakeInv /\ [Next]_vars => WakeInv'
<1> SUFFICES ASSUME IndInv, WakeInv, [Next]_vars PROVE WakeInv'
  OBVIOUS
<1>1. CASE ScheduleTask
  BY <1>1, ScheduleAdmits, AdmissionKeepsWake, OtherKeepsWake DEF IndInv
<1>2. CASE \E s \in Slots : CompleteTask(s)
  BY <1>2, CompletionKeepsWake
<1>3. CASE \E s \in Slots : TryStartNext(s)
  BY <1>3, ScanKeepsWake
<1> QED BY <1>1, <1>2, <1>3, OtherKeepsWake DEF Next

(* No task is forgotten: when the strand is idle and nothing runs, no set   *)
(* of ready processes waits only for itself, unless one of them needs an    *)
(* entity in whose reservations a removed process has left its address.     *)
THEOREM SchedulerForgetsNothing == Spec => []NoForgottenTask
<1>1. WakeInv => NoForgottenTask
  BY DEF WakeInv, NoneForgottenSoFar, NoForgottenTask
<1>2. Spec => []WakeInv
  BY InitWake, SchedulerInvariant, WakeStep, PTL DEF Spec
<1> QED BY <1>1, <1>2, PTL

-----------------------------------------------------------------------------
(* What a completion removes *)

Despawns(s) == Busy(s) /\ procs[s].task.kind = "despawn"

(* Everybody the scheduler knows has a process that is not to be ended. *)
KnownHaveControllers == \A a \in known : \E s \in Slots :
    IsProcessOf(procs, s, a) /\ ~ procs[s].terminateReserved
(* What a worker holds or has killed nobody else removes meanwhile. *)
HeldAreKnown == \A s \in Slots : seen[s] \subseteq known /\ dead[s] \subseteq known \cap Monsters
(* A caller has one despawn of a player under way, on a process, and it     *)
(* awaits the promise of that one.                                          *)
DespawnsArePending == \A s \in Slots : Despawns(s) =>
    /\ procs[s].task.subject \in Players /\ procs[s].task.caller \in Callers
    /\ token[PromiseOf(procs[s].task)] = "pending"
OneDespawnPerPromise == \A r, s \in Slots :
    Despawns(r) /\ Despawns(s) /\ PromiseOf(procs[r].task) = PromiseOf(procs[s].task) => r = s
DespawnsAreNotQueued == \A a \in Actors : \A i \in DOMAIN queues[a] :
    queues[a][i].kind # "despawn"
(* Only a despawn removes a player. *)
UndespawnedAreKnown == \A p \in Players \cap spawned :
    (\A c \in Callers : token[<<p, c>>] # "set") => p \in known
RemoveInv ==
    /\ KnownHaveControllers
    /\ HeldAreKnown
    /\ DespawnsArePending
    /\ OneDespawnPerPromise
    /\ DespawnsAreNotQueued
    /\ UndespawnedAreKnown

(* At first the known actors have their processes and nobody has a task. *)
LEMMA InitRemove == Init => RemoveInv
<1> SUFFICES ASSUME Init PROVE RemoveInv
  OBVIOUS
<1>1. PICK f \in [InitialActors -> Slots] :
          /\ \A a, b \in InitialActors : f[a] = f[b] => a = b
          /\ procs = [s \in Slots |->
                IF \E a \in InitialActors : f[a] = s
                THEN FreshProcess(CHOOSE a \in InitialActors : f[a] = s)
                ELSE DeadProcess("Unused")]
  BY DEF Init
<1>2. KnownHaveControllers
  <2> SUFFICES ASSUME NEW a \in InitialActors
               PROVE  IsProcessOf(procs, f[a], a) /\ ~ procs[f[a]].terminateReserved
    BY DEF KnownHaveControllers, Init
  <2> DEFINE b == CHOOSE b \in InitialActors : f[b] = f[a]
  <2>1. b \in InitialActors /\ f[b] = f[a]
    OBVIOUS
  <2>2. procs[f[a]] = FreshProcess(b)
    BY <1>1
  <2> HIDE DEF b
  <2>3. b = a
    BY <1>1, <2>1
  <2> QED BY <2>2, <2>3, FreshProcessIs, InitialAssumption DEF IsProcessOf, LiveStates
<1>3. \A s \in Slots : ~ Busy(s)
  <2> SUFFICES ASSUME NEW s \in Slots PROVE ~ Busy(s)
    OBVIOUS
  <2>1. \E a : procs[s] = FreshProcess(a) \/ procs[s] = DeadProcess("Unused")
    BY <1>1
  <2> QED BY <2>1 DEF FreshProcess, DeadProcess, Taskless, Busy
<1>4. DespawnsArePending /\ OneDespawnPerPromise
  BY <1>3 DEF DespawnsArePending, OneDespawnPerPromise, Despawns
<1>5. HeldAreKnown /\ UndespawnedAreKnown
  BY DEF HeldAreKnown, UndespawnedAreKnown, Init
<1>6. DespawnsAreNotQueued
  BY EmptyQueue DEF DespawnsAreNotQueued, Init
<1> QED BY <1>2, <1>4, <1>5, <1>6 DEF RemoveInv

(* A new actor gets its process with its resource, a new despawn a promise  *)
(* that nobody else has.                                                    *)
LEMMA AdmissionKeepsRemove ==
    ASSUME IndInv, OrderInv, RemoveInv, Admission
    PROVE  RemoveInv'
<1>0. TypeOK /\ ProcessStates
  BY DEF IndInv
<1>1. PICK N \in SUBSET Actors, P \in [Slots -> Process], s \in Slots, t \in Task :
          Prepared(N, P, s, t)
  BY DEF Admission
<1>2. Placed(N, P, s, t)
  BY <1>0, <1>1, AdmissionPlaces
<1>3. \A r \in Slots : Busy(r)' =>
          \/ Busy(r) /\ procs'[r] = procs[r] /\ phase'[r] = phase[r]
                     /\ seen'[r] = seen[r] /\ dead'[r] = dead[r]
          \/ r = s /\ ~ Busy(s) /\ procs'[r].task = t /\ queues' = NewQueues(N)
  BY <1>1, AdmissionTasks
<1>4. \A b \in Actors : \A i \in DOMAIN queues'[b] :
          \/ i \in DOMAIN queues[b] /\ queues'[b][i] = queues[b][i]
          \/ /\ b = procs[s].id /\ i \notin DOMAIN queues[b] /\ queues'[b][i] = t
             /\ i = Len(queues[b]) + 1 /\ Busy(s) /\ procs' = P
  BY <1>1, AdmissionTasks
<1>5. /\ \A r \in Slots : P[r] # procs[r] =>
             ~ Live(procs, r) /\ \E id \in N \cup {None} : P[r] = FreshProcess(id)
      /\ \A a \in N : \E r \in Slots : P[r] = FreshProcess(a)
      /\ Live(P, s) /\ spawned' = spawned \cup N
      /\ PromiseTaken(t) /\ (t.kind = "despawn" => P[s].state = "Waiting")
  BY <1>1 DEF Prepared, NewProcesses
<1>6. /\ known' = known \cup N
      /\ \A r \in Slots : procs'[r].id = P[r].id /\ procs'[r].terminateReserved = P[r].terminateReserved
      /\ \A r \in Slots : seen'[r] \in {seen[r], {}} /\ dead'[r] \in {dead[r], {}}
  BY <1>2 DEF Placed
<1>7. \A r \in Slots : Live(P, r) => Live(procs', r)
  BY <1>2 DEF Placed, Live, LiveStates
<1>8. KnownHaveControllers'
  <2> SUFFICES ASSUME NEW a \in known \cup N
               PROVE  \E r \in Slots : IsProcessOf(procs', r, a) /\ ~ procs'[r].terminateReserved
    BY <1>6 DEF KnownHaveControllers
  <2>1. \E r \in Slots : Live(P, r) /\ P[r].id = a /\ ~ P[r].terminateReserved
    <3>1. CASE a \in N
      BY <1>5, <3>1, FreshProcessIs DEF Live, LiveStates
    <3>2. CASE a \in known
      BY <1>5, <3>2 DEF RemoveInv, KnownHaveControllers, IsProcessOf, Live
    <3> QED BY <3>1, <3>2
  <2> QED BY <1>6, <1>7, <2>1 DEF IsProcessOf, Live
<1>9. HeldAreKnown'
  BY <1>6 DEF RemoveInv, HeldAreKnown
<1>10. ASSUME NEW k \in Players \X Callers
       PROVE  /\ token[k] = "pending" => token'[k] = "pending"
              /\ token'[k] # "set" => token[k] # "set"
  BY <1>0, <1>5, <1>10 DEF PromiseTaken, TypeOK
<1>11. ASSUME NEW r \in Slots, Despawns(r)'
       PROVE  \/ Despawns(r) /\ procs'[r].task = procs[r].task
              \/ r = s /\ procs'[r].task = t /\ t.kind = "despawn"
  BY <1>3, <1>11 DEF Despawns, Busy
<1>12. t.kind = "despawn" =>
          /\ PromiseOf(t) \in Players \X Callers
          /\ token[PromiseOf(t)] = "none" /\ token'[PromiseOf(t)] = "pending"
          /\ t.subject \in Players /\ t.caller \in Callers
  BY <1>0, <1>5 DEF PromiseTaken, PromiseOf, TypeOK
<1>13. \A r \in Slots : Despawns(r) =>
          /\ procs[r].task.subject \in Players /\ procs[r].task.caller \in Callers
          /\ PromiseOf(procs[r].task) \in Players \X Callers
          /\ token[PromiseOf(procs[r].task)] = "pending"
  BY DEF RemoveInv, DespawnsArePending, PromiseOf
<1>14. DespawnsArePending'
  <2> SUFFICES ASSUME NEW r \in Slots, Despawns(r)'
               PROVE  /\ procs'[r].task.subject \in Players /\ procs'[r].task.caller \in Callers
                      /\ token'[PromiseOf(procs'[r].task)] = "pending"
    BY DEF DespawnsArePending, PromiseOf
  <2> QED BY <1>10, <1>11, <1>12, <1>13
<1>15. OneDespawnPerPromise'
  <2> SUFFICES ASSUME NEW q \in Slots, NEW r \in Slots, Despawns(q)', Despawns(r)',
                      PromiseOf(procs'[q].task) = PromiseOf(procs'[r].task)
               PROVE  q = r
    BY DEF OneDespawnPerPromise, PromiseOf
  <2> QED BY <1>11, <1>12, <1>13 DEF RemoveInv, OneDespawnPerPromise
<1>16. DespawnsAreNotQueued'
  <2>1. Busy(s) => t.kind # "despawn"
    BY <1>2, <1>5 DEF Placed, Busy
  <2> QED BY <1>4, <2>1 DEF RemoveInv, DespawnsAreNotQueued
<1>17. UndespawnedAreKnown'
  BY <1>5, <1>6, <1>10 DEF RemoveInv, UndespawnedAreKnown
<1> QED BY <1>8, <1>9, <1>14, <1>15, <1>16, <1>17 DEF RemoveInv

(* A completion ends no process of a controller that stays. *)
LEMMA CompletionSpares ==
    ASSUME TypeOK, ProcessStates, NEW s \in Slots, CompleteTask(s), NEW r \in Slots,
           Live(procs, r), procs[r].id \in Actors \ RemovedBy(s), ~ procs[r].terminateReserved
    PROVE  Live(procs', r) /\ procs'[r].id = procs[r].id /\ ~ procs'[r].terminateReserved
<1> USE DEF TypeOK
<1> DEFINE P == RemoveControllers(procs, RemovedBy(s))
           q == queues[P[s].id]
<1>1. procs' = [P EXCEPT ![s] = AfterCompletion(P[s], q)]
  BY DEF CompleteTask
<1>2. P[r] = procs[r]
  BY DEF RemoveControllers
<1>3. P \in [Slots -> Process]
  BY RemoveControllersType
<1> HIDE DEF P
<1>4. CASE r # s
  BY <1>1, <1>2, <1>3, <1>4 DEF Live
<1>5. CASE r = s
  <2>1. P[s].id # None /\ ~ P[s].terminateReserved /\ P[s] \in Process
    BY <1>2, <1>3, <1>5, DisjointActors
  <2>2. procs'[s] = ToState(P[s], "Waiting", None) \/ procs'[s] = ToState(P[s], "Ready", Head(q))
    BY <1>1, <1>3, <2>1 DEF AfterCompletion
  <2> HIDE DEF q
  <2> QED BY <1>2, <1>5, <2>1, <2>2, SameController DEF Live, LiveStates
<1> QED BY <1>4, <1>5

(* A completion removes what nobody else holds, and answers the despawn.    *)
LEMMA CompletionKeepsRemove ==
    ASSUME IndInv, ExclusiveTargets, AccessInv, RemoveInv, NEW s \in Slots, CompleteTask(s)
    PROVE  RemoveInv'
<1>0. TypeOK /\ ProcessStates
  BY DEF IndInv
<1> DEFINE t == procs[s].task
<1>1. \A r \in Slots : r # s /\ Busy(r)' =>
          /\ Busy(r) /\ procs'[r].task = procs[r].task
          /\ phase'[r] = phase[r] /\ dead'[r] = dead[r]
  BY <1>0, CompletionTasks
<1>2. Busy(s)' => /\ procs[s].id \in Actors /\ 1 \in DOMAIN queues[procs[s].id]
                  /\ procs'[s].task = queues[procs[s].id][1]
  BY <1>0, CompletionTasks
<1>3. \A b \in Actors : \A i \in DOMAIN queues'[b] :
          \/ b # procs[s].id /\ i \in DOMAIN queues[b] /\ queues'[b][i] = queues[b][i]
          \/ /\ b = procs[s].id /\ i \in Nat /\ i > 0
             /\ i + 1 \in DOMAIN queues[b] /\ queues'[b][i] = queues[b][i + 1]
  BY <1>0, CompletionTasks
<1>4. /\ \A r \in Slots : r # s => phase'[r] = phase[r] /\ dead'[r] = dead[r]
      /\ dead'[s] = {} /\ phase[s] = "executed" /\ procs[s].state = "Running"
      /\ known' = known \ RemovedBy(s)
      /\ UNCHANGED <<seen, spawned>>
  BY <1>0, CompletionPlaces
<1>5. token' = IF t.kind = "despawn" THEN [token EXCEPT ![PromiseOf(t)] = "set"] ELSE token
  BY DEF CompleteTask, PromiseOf
<1>6. RemovedBy(s) \subseteq TargetsOf(s) /\ Busy(s)
  BY <1>0, <1>4, RemovedAreTargets
<1>7. KnownHaveControllers'
  <2> SUFFICES ASSUME NEW a \in known, a \notin RemovedBy(s)
               PROVE  \E r \in Slots : IsProcessOf(procs', r, a) /\ ~ procs'[r].terminateReserved
    BY <1>4 DEF KnownHaveControllers
  <2>1. PICK r \in Slots : IsProcessOf(procs, r, a) /\ ~ procs[r].terminateReserved
    BY DEF RemoveInv, KnownHaveControllers
  <2>2. Live(procs, r) /\ procs[r].id \in Actors \ RemovedBy(s)
    BY <1>0, <2>1 DEF IsProcessOf, Live, TypeOK
  <2>3. Live(procs', r) /\ procs'[r].id = procs[r].id /\ ~ procs'[r].terminateReserved
    BY <1>0, <2>1, <2>2, CompletionSpares
  <2> QED BY <2>1, <2>3 DEF IsProcessOf, Live
<1>8. HeldAreKnown'
  <2> SUFFICES ASSUME NEW r \in Slots, NEW x \in seen'[r] \cup dead'[r]
               PROVE  x \in known \ RemovedBy(s) /\ (x \in dead'[r] => x \in Monsters)
    BY <1>4 DEF HeldAreKnown
  <2>1. r # s
    BY <1>4 DEF AccessInv, WorkersAgree
  <2>2. x \in seen[r] \cup dead[r] /\ (x \in dead'[r] => x \in dead[r])
    BY <1>4, <2>1
  <2>3. phase[r] \in {"executing", "executed"} /\ x \in TargetsOf(r)
    BY <2>2 DEF AccessInv, WorkersAgree
  <2>4. x \in known /\ (x \in dead[r] => x \in Monsters)
    BY <2>2 DEF RemoveInv, HeldAreKnown
  <2>5. r \in Running /\ s \in Running
    BY <1>0, <1>4, <2>3 DEF ProcessStates, Running, InState
  <2>6. x \notin TargetsOf(s)
    BY <2>1, <2>3, <2>4, <2>5 DEF ExclusiveTargets
  <2> QED BY <1>6, <2>2, <2>4, <2>6
<1>9. ASSUME NEW r \in Slots, Despawns(r)'
      PROVE  r # s /\ Despawns(r) /\ procs'[r].task = procs[r].task
  <2>1. r # s
    BY <1>2, <1>9 DEF Despawns, Busy, RemoveInv, DespawnsAreNotQueued
  <2> QED BY <1>1, <1>9, <2>1 DEF Despawns, Busy
<1>10. t.kind = "despawn" => Despawns(s)
  BY <1>6 DEF Despawns
<1>11. \A r \in Slots : Despawns(r) =>
          /\ procs[r].task.subject \in Players /\ procs[r].task.caller \in Callers
          /\ PromiseOf(procs[r].task) \in Players \X Callers
          /\ token[PromiseOf(procs[r].task)] = "pending"
  BY DEF RemoveInv, DespawnsArePending, PromiseOf
<1>12. DespawnsArePending'
  <2> SUFFICES ASSUME NEW r \in Slots, Despawns(r)'
               PROVE  /\ procs'[r].task.subject \in Players /\ procs'[r].task.caller \in Callers
                      /\ token'[PromiseOf(procs'[r].task)] = "pending"
    BY DEF DespawnsArePending, PromiseOf
  <2>1. r # s /\ Despawns(r) /\ procs'[r].task = procs[r].task
    BY <1>9
  <2>2. t.kind = "despawn" => PromiseOf(procs[r].task) # PromiseOf(t)
    BY <1>10, <2>1 DEF RemoveInv, OneDespawnPerPromise
  <2>3. token'[PromiseOf(procs[r].task)] = token[PromiseOf(procs[r].task)]
    <3>1. PromiseOf(procs[r].task) \in DOMAIN token
      BY <1>0, <1>11, <2>1 DEF TypeOK
    <3> HIDE DEF t
    <3> QED BY <1>5, <2>2, <3>1
  <2> QED BY <1>11, <2>1, <2>3
<1>13. OneDespawnPerPromise'
  <2> SUFFICES ASSUME NEW q \in Slots, NEW r \in Slots, Despawns(q)', Despawns(r)',
                      PromiseOf(procs'[q].task) = PromiseOf(procs'[r].task)
               PROVE  q = r
    BY DEF OneDespawnPerPromise, PromiseOf
  <2> QED BY <1>9 DEF RemoveInv, OneDespawnPerPromise
<1>14. DespawnsAreNotQueued'
  BY <1>3 DEF RemoveInv, DespawnsAreNotQueued
<1>15. UndespawnedAreKnown'
  <2> SUFFICES ASSUME NEW p \in Players \cap spawned, \A c \in Callers : token'[<<p, c>>] # "set"
               PROVE  p \in known \ RemovedBy(s)
    BY <1>4 DEF UndespawnedAreKnown
  <2>1. \A c \in Callers : /\ token[<<p, c>>] # "set"
                           /\ t.kind = "despawn" => <<p, c>> # PromiseOf(t)
    <3> SUFFICES ASSUME NEW c \in Callers
                 PROVE  /\ token[<<p, c>>] # "set"
                        /\ t.kind = "despawn" => <<p, c>> # PromiseOf(t)
      OBVIOUS
    <3>1. <<p, c>> \in DOMAIN token
      BY <1>0 DEF TypeOK
    <3>2. token'[<<p, c>>] # "set"
      OBVIOUS
    <3> HIDE DEF t
    <3> QED BY <1>5, <3>1, <3>2
  <2>2. p \in known
    BY <2>1 DEF RemoveInv, UndespawnedAreKnown
  <2>3. CASE t.kind = "despawn"
    <3>1. t.caller \in Callers /\ RemovedBy(s) = {t.subject}
      BY <1>10, <1>11, <2>3 DEF RemovedBy
    <3> QED BY <2>1, <2>2, <2>3, <3>1 DEF PromiseOf
  <2>4. CASE t.kind # "despawn"
    <3>1. RemovedBy(s) \subseteq Monsters
      BY <2>4 DEF RemovedBy, RemoveInv, HeldAreKnown
    <3> QED BY <2>2, <3>1, DisjointActors
  <2> QED BY <2>3, <2>4
<1> QED BY <1>7, <1>8, <1>12, <1>13, <1>14, <1>15 DEF RemoveInv

(* Neither the workers nor the scan add or remove anybody. *)
LEMMA OtherKeepsRemove ==
    ASSUME IndInv, AccessInv, RemoveInv,
           \/ \E s \in Slots : TryStartNext(s) \/ BeginExecution(s) \/ FinishExecution(s)
           \/ \E p \in Players, caller \in Callers : DropDespawn(p, caller)
           \/ TryStartBreak \/ ShutdownAndJoin \/ UNCHANGED vars
    PROVE  RemoveInv'
<1>0. TypeOK /\ ProcessStates
  BY DEF IndInv
<1>1. ASSUME UNCHANGED <<queues, known, spawned>>,
             \A r \in Slots : /\ Live(procs, r) => Live(procs', r)
                              /\ Busy(r)' => Busy(r)
                              /\ procs'[r].id = procs[r].id /\ procs'[r].task = procs[r].task
                              /\ procs'[r].terminateReserved = procs[r].terminateReserved,
             \A r \in Slots : seen'[r] \subseteq known /\ dead'[r] \subseteq known \cap Monsters,
             \A k \in Players \X Callers : /\ token[k] = "pending" => token'[k] = "pending"
                                           /\ token'[k] # "set" => token[k] # "set"
      PROVE  RemoveInv'
  <2>1. KnownHaveControllers' /\ HeldAreKnown'
    BY <1>1 DEF RemoveInv, KnownHaveControllers, HeldAreKnown, IsProcessOf, Live
  <2>2. \A r \in Slots : Despawns(r)' => Despawns(r)
    BY <1>1 DEF Despawns
  <2>3. DespawnsArePending' /\ OneDespawnPerPromise'
    BY <1>1, <2>2 DEF RemoveInv, DespawnsArePending, OneDespawnPerPromise, PromiseOf
  <2>4. DespawnsAreNotQueued' /\ UndespawnedAreKnown'
    BY <1>1 DEF RemoveInv, DespawnsAreNotQueued, UndespawnedAreKnown
  <2> QED BY <2>1, <2>3, <2>4 DEF RemoveInv
<1>2. \A r \in Slots : seen[r] \subseteq known /\ dead[r] \subseteq known \cap Monsters
  BY DEF RemoveInv, HeldAreKnown
<1>3. ASSUME NEW s \in Slots, TryStartNext(s)
      PROVE  RemoveInv'
  <2>1. /\ \A r \in Slots : procs'[r].id = procs[r].id /\ procs'[r].task = procs[r].task
                            /\ procs'[r].terminateReserved = procs[r].terminateReserved
        /\ \A r \in Slots : r # s => procs'[r] = procs[r]
        /\ procs[s].state = "Ready" /\ procs'[s].state \in {"Ready", "Running"}
    BY <1>0, <1>3, StartPlaces
  <2>2. /\ \A r \in Slots : r # s => seen'[r] = seen[r] /\ dead'[r] = dead[r]
        /\ seen'[s] \in {seen[s], {}} /\ dead'[s] \in {dead[s], {}}
        /\ UNCHANGED <<queues, known, spawned>>
    BY <1>0, <1>3, StartPlaces
  <2>3. token' = token
    BY <1>3 DEF TryStartNext, worldVars
  <2>4. \A r \in Slots : (Live(procs, r) => Live(procs', r)) /\ (Busy(r)' => Busy(r))
    BY <2>1 DEF Live, LiveStates, Busy
  <2>5. \A r \in Slots : seen'[r] \subseteq known /\ dead'[r] \subseteq known \cap Monsters
    BY <1>2, <2>2
  <2> QED BY <1>1, <2>1, <2>2, <2>3, <2>4, <2>5
<1>4. ASSUME UNCHANGED <<procs, queues, known, spawned, token>>,
             \A r \in Slots : seen'[r] \subseteq known /\ dead'[r] \subseteq known \cap Monsters
      PROVE  RemoveInv'
  BY <1>1, <1>4 DEF Live, Busy
<1>5. ASSUME NEW s \in Slots, BeginExecution(s)
      PROVE  RemoveInv'
  <2>1. /\ UNCHANGED <<procs, queues, known, spawned, token, dead>>
        /\ seen' = [seen EXCEPT ![s] = IF Selects(s) THEN TargetsOf(s) \cap entities ELSE {}]
    BY <1>5 DEF BeginExecution, procVars, resVars, worldVars
  <2>2. entities \subseteq known
    BY DEF AccessInv, EntitiesAreKnown
  <2>3. \A r \in Slots : seen'[r] \subseteq known
    BY <1>0, <1>2, <2>1, <2>2 DEF TypeOK
  <2> QED BY <1>2, <1>4, <2>1, <2>3
<1>6. ASSUME NEW s \in Slots, FinishExecution(s)
      PROVE  RemoveInv'
  <2>1. /\ UNCHANGED <<procs, queues, known, spawned, token>>
        /\ seen' = [seen EXCEPT ![s] = {}]
        /\ dead' = dead \/ \E killed \in SUBSET (seen[s] \cap Monsters) :
                               dead' = [dead EXCEPT ![s] = killed]
    BY <1>6 DEF FinishExecution, procVars, resVars, worldVars
  <2>2. \A r \in Slots : seen'[r] \subseteq known /\ dead'[r] \subseteq known \cap Monsters
    BY <1>0, <1>2, <2>1 DEF TypeOK
  <2> QED BY <1>4, <2>1, <2>2
<1>7. ASSUME NEW p \in Players, NEW caller \in Callers, DropDespawn(p, caller)
      PROVE  RemoveInv'
  <2>1. /\ UNCHANGED <<procs, queues, known, spawned, seen, dead>>
        /\ token[<<p, caller>>] = "none"
        /\ token' = [token EXCEPT ![<<p, caller>>] = "lost"]
    BY <1>7 DEF DropDespawn, procVars, resVars, workVars
  <2>2. \A k \in Players \X Callers : /\ token[k] = "pending" => token'[k] = "pending"
                                      /\ token'[k] # "set" => token[k] # "set"
    BY <1>0, <2>1 DEF TypeOK
  <2> QED BY <1>1, <1>2, <2>1, <2>2 DEF Live, Busy
<1>8. ASSUME UNCHANGED <<procs, queues, known, spawned, token, seen, dead>>
      PROVE  RemoveInv'
  BY <1>2, <1>4, <1>8
<1> QED BY <1>3, <1>5, <1>6, <1>7, <1>8 DEF TryStartBreak, ShutdownAndJoin, vars, procVars,
           resVars, workVars, worldVars

(* RemoveInv is inductive relative to the invariants before it. *)
LEMMA RemoveStep ==
    IndInv /\ ExclusiveTargets /\ OrderInv /\ AccessInv /\ RemoveInv /\ [Next]_vars => RemoveInv'
<1> SUFFICES ASSUME IndInv, ExclusiveTargets, OrderInv, AccessInv, RemoveInv, [Next]_vars
             PROVE  RemoveInv'
  OBVIOUS
<1>1. CASE ScheduleTask
  BY <1>1, ScheduleAdmits, AdmissionKeepsRemove, OtherKeepsRemove DEF IndInv
<1>2. CASE \E s \in Slots : CompleteTask(s)
  BY <1>2, CompletionKeepsRemove
<1> QED BY <1>1, <1>2, OtherKeepsRemove DEF Next

(* Nobody but the one who despawns a player has had a despawn of him        *)
(* admitted.                                                                *)
DespawnedByOne(p) == \A c, d \in Callers :
    {token[<<p, c>>], token[<<p, d>>]} \subseteq {"pending", "set"} => c = d

(* What a task removes is there, a player if one caller only despawns him.  *)
LEMMA RemovedAreThere ==
    ASSUME IndInv, AccessInv, RemoveInv, NEW s \in Slots, phase[s] = "executed",
           NEW a \in RemovedBy(s), a \in Players => DespawnedByOne(a)
    PROVE  HasController(procs, a) /\ a \in known
<1>1. Busy(s) /\ RemovedBy(s) \subseteq TargetsOf(s)
  BY RemovedAreTargets DEF IndInv
<1>2. a \in known
  <2>1. CASE procs[s].task.kind = "despawn"
    <3> DEFINE c == procs[s].task.caller
    <3>1. a \in Players /\ c \in Callers /\ token[<<a, c>>] = "pending"
      BY <1>1, <2>1 DEF RemovedBy, RemoveInv, DespawnsArePending, Despawns, PromiseOf
    <3>2. a \in spawned
      BY <1>1 DEF IndInv, TargetsAreSpawned, Mentions, TargetsOf, Busy
    <3> HIDE DEF c
    <3>3. \A d \in Callers : token[<<a, d>>] # "set"
      BY <3>1 DEF DespawnedByOne
    <3> QED BY <3>1, <3>2, <3>3 DEF RemoveInv, UndespawnedAreKnown
  <2>2. CASE procs[s].task.kind # "despawn"
    BY <2>2 DEF RemovedBy, RemoveInv, HeldAreKnown
  <2> QED BY <2>1, <2>2
<1> QED BY <1>2 DEF RemoveInv, KnownHaveControllers, HasController

(* A completion hook finds what it removes, whatever the other tasks have   *)
(* killed or despawned meanwhile, as long as no player is despawned by two  *)
(* callers: then RemoveController asserts for the second.                   *)
THEOREM SchedulerRemovals ==
    Spec => []((\A p \in Players : DespawnedByOne(p)) => RemovalsFindTheirTarget)
<1>1. IndInv /\ AccessInv /\ RemoveInv =>
          ((\A p \in Players : DespawnedByOne(p)) => RemovalsFindTheirTarget)
  BY RemovedAreThere DEF RemovalsFindTheirTarget
<1>2. Spec => []OrderInv
  BY InitOrder, SchedulerInvariant, OrderStep, PTL DEF Spec
<1>3. Spec => []AccessInv
  BY <1>2, InitAccess, SchedulerInvariant, AccessStep, PTL DEF Spec
<1>4. Spec => []RemoveInv
  BY <1>2, <1>3, InitRemove, SchedulerInvariant, SchedulerExclusion, RemoveStep, PTL DEF Spec
<1> QED BY <1>1, <1>3, <1>4, SchedulerInvariant, PTL

=============================================================================
