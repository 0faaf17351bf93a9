------------------------- MODULE GameTaskScheduler -------------------------
(***************************************************************************)
(* The task scheduler of a game instance                                   *)
(* (xr/server/game/instance/task/game_task_scheduler.cpp) with the tasks   *)
(* it runs (xr/server/game/instance/task/impl).                            *)
(*                                                                         *)
(* Every entity of the instance is a resource.  A task names the entities  *)
(* it touches; the scheduler lets the tasks of the controllers run on the  *)
(* worker threads in parallel, provided that no two of them hold the same  *)
(* resource.  All its bookkeeping runs on the strand of the instance: an   *)
(* action below is one strand turn, except that TryStartAll is a loop and  *)
(* one action is one iteration, the strand being busy while scan # {}.     *)
(* BeginExecution and FinishExecution run on the workers.                  *)
(*                                                                         *)
(* An operator named Mutant... is the operator that follows it with a      *)
(* plausible mistake in it; no action uses one.  They show that the        *)
(* properties below notice such a mistake.                                 *)
(***************************************************************************)
EXTENDS Integers, Sequences, FiniteSets

CONSTANTS
    Players,          \* players of the instance: one controller and one entity each
    Monsters,         \* actors driven by the AI, likewise
    Slots,            \* addresses of Process objects; as many as ever live at once
    Callers,          \* code paths that may submit a PlayerDespawn (game_server.cpp)
    InitialActors,    \* actors that are already in the instance
    MaxConcurrency,   \* worker threads of the executor
    StarvationLimit,  \* 10 in the code
    MaxTasks,         \* bound: tasks admitted by Schedule
    None              \* null pointer

Actors == Players \cup Monsters

ASSUME DisjointActors == Players \cap Monsters = {} /\ None \notin Actors \cup Slots
ASSUME NumbersAssumption ==
    /\ MaxConcurrency \in Nat \ {0}
    /\ StarvationLimit \in Nat
    /\ MaxTasks \in Nat
ASSUME InitialAssumption ==
    /\ InitialActors \subseteq Actors
    /\ \E f \in [InitialActors -> Slots] : \A a, b \in InitialActors : f[a] = f[b] => a = b

VARIABLES
    procs,       \* _processes and the recycle buffer, by address
    queues,      \* _processTaskQueues
    known,       \* keys of _resources
    acquired,    \* Resource::acquired (and ::state, Assigned iff it is not null)
    reserved,    \* Resource::reserved
    shutdown,    \* _shutdown
    join,        \* the caller of Join(): not called, waiting, returned
    scan,        \* ready processes the running TryStartAll has still to visit
    phase,       \* where the started task of a process is
    seen,        \* entities the running task has resolved to pointers
    dead,        \* monsters the running task has killed
    entities,    \* GameEntityContainer, written by the workers
    snapshot,    \* GameSnapshotContainer, written on the strand
    spawned,     \* ids that have been published
    token,       \* completion promise of each PlayerDespawn
    left,        \* history: entities in whose Resource::reserved an address was left
    clock        \* creation time of the next task

procVars  == <<procs, queues>>
resVars   == <<known, acquired, reserved>>
workVars  == <<phase, seen, dead, entities>>
worldVars == <<snapshot, spawned, token, left>>
vars == <<procVars, resVars, workVars, worldVars, shutdown, join, scan, clock>>

-----------------------------------------------------------------------------
(* Tasks and processes *)

Kinds == {"act", "attack", "spawn", "despawn"}
Task == [kind : Kinds, subject : Actors, targets : SUBSET Actors,
         born : Nat, caller : Callers \cup {None}]

NewTask(kind, subject, targets, caller) ==
    [kind |-> kind, subject |-> subject, targets |-> targets,
     born |-> clock, caller |-> caller]

LiveStates == {"Waiting", "Ready", "Running"}
States == LiveStates \cup {"Unused", "Recycled"}

Process == [state : States, id : Actors \cup {None}, task : Task \cup {None},
            starvation : 0 .. StarvationLimit + 1, terminateReserved : BOOLEAN]

Taskless(state, id) == [state |-> state, id |-> id, task |-> None,
                        starvation |-> 0, terminateReserved |-> FALSE]
FreshProcess(id) == Taskless("Waiting", id)
DeadProcess(state) == Taskless(state, None)

(* ChangeState: the starvation count restarts with every change. *)
ToState(p, state, task) ==
    [state |-> state, id |-> p.id, task |-> task,
     starvation |-> 0, terminateReserved |-> p.terminateReserved]

(* The count matters only up to the first value above the limit. *)
AddStarvationCount(p) ==
    [p EXCEPT !.starvation = IF @ <= StarvationLimit THEN @ + 1 ELSE @]

InState(P, state) == {s \in Slots : P[s].state = state}
Running == InState(procs, "Running")
Ready == InState(procs, "Ready")
TargetsOf(s) == procs[s].task.targets

IsProcessOf(P, s, a) == P[s].state \in LiveStates /\ P[s].id = a
HasController(P, a) == \E s \in Slots : IsProcessOf(P, s, a)

(* CreateProcess takes a node of the recycle buffer when there is one. *)
FreeSlots(P) == LET recycled == InState(P, "Recycled")
                IN  IF recycled # {} THEN recycled ELSE InState(P, "Unused")

-----------------------------------------------------------------------------
(* Resources *)

MutantIgnoreHolder(s, a, A, R) == R[a] = {} \/ s \in R[a]
MutantIgnoreOwnReservation(s, a, A, R) == A[a] = None /\ R[a] = {}
CanAcquire(s, a, A, R) == A[a] = None /\ (R[a] = {} \/ s \in R[a])

(* Missing resources do not count: FindResource returns nullptr. *)
CanStart(s, targets, K, A, R) == \A a \in targets \cap K : CanAcquire(s, a, A, R)

AllocateResource(s, targets, K, A, R) ==
    /\ acquired' = [a \in Actors |-> IF a \in targets \cap K THEN s ELSE A[a]]
    /\ reserved' = [a \in Actors |-> IF a \in targets \cap K THEN R[a] \ {s} ELSE R[a]]

(* DeallocateResource for the task of s, then RemoveEntity for all of gone. *)
ReleaseAndRemove(targets, gone) ==
    /\ known' = known \ gone
    /\ acquired' = [a \in Actors |-> IF a \in (targets \cap known) \cup gone
                                      THEN None ELSE acquired[a]]
    /\ reserved' = [a \in Actors |-> IF a \in gone THEN {} ELSE reserved[a]]

-----------------------------------------------------------------------------
(* Schedule, after Prepare: P, Q, K, A, R are the tables Prepare left. *)

PostStart(s) ==
    /\ phase' = [phase EXCEPT ![s] = "posted"]
    /\ seen' = [seen EXCEPT ![s] = {}]
    /\ dead' = [dead EXCEPT ![s] = {}]
    /\ UNCHANGED entities

Admit(P, Q, K, A, R, s, t) ==
    /\ clock' = clock + 1
    /\ known' = K
    /\ \/ /\ P[s].state \in {"Running", "Ready"}
          /\ procs' = P
          /\ queues' = [Q EXCEPT ![P[s].id] = Append(@, t)]
          /\ acquired' = A
          /\ reserved' = R
          /\ UNCHANGED workVars
       \/ /\ P[s].state = "Waiting"
          /\ CanStart(s, t.targets, K, A, R)
          /\ procs' = [P EXCEPT ![s] = ToState(@, "Running", t)]
          /\ queues' = Q
          /\ AllocateResource(s, t.targets, K, A, R)
          /\ PostStart(s)
       \/ /\ P[s].state = "Waiting"
          /\ ~ CanStart(s, t.targets, K, A, R)
          /\ procs' = [P EXCEPT ![s] = ToState(@, "Ready", t)]
          /\ queues' = Q
          /\ acquired' = A
          /\ reserved' = R
          /\ UNCHANGED workVars

(* A turn of the strand that may admit a task: between two strand turns, *)
(* before Shutdown, within the bound.                                    *)
MaySchedule == scan = {} /\ ~ shutdown /\ clock <= MaxTasks

-----------------------------------------------------------------------------
Init ==
    /\ \E f \in [InitialActors -> Slots] :
          /\ \A a, b \in InitialActors : f[a] = f[b] => a = b
          /\ procs = [s \in Slots |->
                IF \E a \in InitialActors : f[a] = s
                THEN FreshProcess(CHOOSE a \in InitialActors : f[a] = s)
                ELSE DeadProcess("Unused")]
    /\ queues = [a \in Actors |-> <<>>]
    /\ known = InitialActors
    /\ acquired = [a \in Actors |-> None]
    /\ reserved = [a \in Actors |-> {}]
    /\ shutdown = FALSE
    /\ join = "none"
    /\ scan = {}
    /\ phase = [s \in Slots |-> "idle"]
    /\ seen = [s \in Slots |-> {}]
    /\ dead = [s \in Slots |-> {}]
    /\ entities = InitialActors
    /\ snapshot = InitialActors
    /\ spawned = InitialActors
    /\ token = [w \in Players \X Callers |-> "none"]
    /\ left = {}
    /\ clock = 1

(* A task of controller c whose targets are c's own entity (moves, skills,  *)
(* items) or nothing (chat), and for the AI also the players in its box.    *)
(* SelectTargetIds only lets entities of the snapshot through.              *)
ActTargets(c) ==
    (IF c \in Players THEN {{}} ELSE {}) \cup
    (IF c \notin snapshot THEN {}
     ELSE IF c \in Players THEN {{c}}
     ELSE {{c} \cup ps : ps \in SUBSET (Players \cap snapshot)})

ScheduleAct(c, targets) ==
    /\ MaySchedule
    /\ targets \in ActTargets(c)
    /\ \E s \in Slots :
          /\ IsProcessOf(procs, s, c)
          /\ Admit(procs, queues, known, acquired, reserved, s,
                   NewTask("act", c, targets, None))
    /\ UNCHANGED <<worldVars, shutdown, join, scan>>

(* PlayerAttackEffectApply: the player and the monsters its client hit;     *)
(* ids the snapshot no longer has are erased, an empty rest is not admitted.*)
ScheduleAttack(p, monsters) ==
    /\ MaySchedule
    /\ p \in snapshot
    /\ monsters \cap snapshot # {}
    /\ \E s \in Slots :
          /\ IsProcessOf(procs, s, p)
          /\ Admit(procs, queues, known, acquired, reserved, s,
                   NewTask("attack", p, {p} \cup (monsters \cap snapshot), None))
    /\ UNCHANGED <<worldVars, shutdown, join, scan>>

(* PlayerSpawn: Prepare adds the controller and the entity, and the task    *)
(* runs on the new controller.                                              *)
SchedulePlayerSpawn(p) ==
    /\ MaySchedule
    /\ p \notin spawned
    /\ spawned' = spawned \cup {p}
    /\ \E s \in FreeSlots(procs) :
          Admit([procs EXCEPT ![s] = FreshProcess(p)], [queues EXCEPT ![p] = <<>>],
                known \cup {p}, acquired, [reserved EXCEPT ![p] = {}], s,
                NewTask("spawn", p, {}, None))
    /\ UNCHANGED <<snapshot, token, left, shutdown, join, scan>>

(* SpawnerInstall and MonsterSpawn: Prepare is the same, and the task runs  *)
(* on a temporary process or on the controller of the spawner.              *)
ScheduleMonsterSpawn(m) ==
    /\ MaySchedule
    /\ m \notin spawned
    /\ spawned' = spawned \cup {m}
    /\ \E s \in FreeSlots(procs) :
          LET P == [procs EXCEPT ![s] = FreshProcess(m)]
              Q == [queues EXCEPT ![m] = <<>>]
              K == known \cup {m}
              R == [reserved EXCEPT ![m] = {}]
              t == NewTask("spawn", m, {}, None)
          IN  \/ \E r \in FreeSlots(P) :
                    Admit([P EXCEPT ![r] = FreshProcess(None)], Q, K, acquired, R, r, t)
              \/ \E r \in Slots, o \in Monsters :
                    /\ IsProcessOf(procs, r, o)
                    /\ Admit(P, Q, K, acquired, R, r, t)
    /\ UNCHANGED <<snapshot, token, left, shutdown, join, scan>>

(* PlayerDespawn, on a temporary process.  The caller awaits the promise.   *)
ScheduleDespawn(p, caller) ==
    /\ MaySchedule
    /\ token[<<p, caller>>] = "none"
    /\ p \in snapshot
    /\ token' = [token EXCEPT ![<<p, caller>>] = "pending"]
    /\ \E s \in FreeSlots(procs) :
          Admit([procs EXCEPT ![s] = FreshProcess(None)], queues,
                known, acquired, reserved, s, NewTask("despawn", p, {p}, caller))
    /\ UNCHANGED <<snapshot, spawned, left, shutdown, join, scan>>

(* The same call when the scheduler is shut down or the player has no       *)
(* snapshot: the task is destroyed and nobody sets its promise.             *)
DropDespawn(p, caller) ==
    /\ scan = {}
    /\ p \in spawned
    /\ token[<<p, caller>>] = "none"
    /\ shutdown \/ p \notin snapshot
    /\ token' = [token EXCEPT ![<<p, caller>>] = "lost"]
    /\ UNCHANGED <<procVars, resVars, workVars, snapshot, spawned, left,
                   shutdown, join, scan, clock>>

-----------------------------------------------------------------------------
(* The workers *)

Selects(s) ==
    LET t == procs[s].task IN
    CASE t.kind = "spawn"  -> TRUE
      [] t.kind = "attack" -> t.subject \in entities /\ t.targets \cap Monsters \cap entities # {}
      [] OTHER             -> t.targets = {} \/ t.subject \in entities

(* GameTask::Start resolves the ids; when it cannot, the task is skipped    *)
(* but still completed.                                                     *)
BeginExecution(s) ==
    /\ phase[s] = "posted"
    /\ phase' = [phase EXCEPT ![s] = IF Selects(s) THEN "executing" ELSE "executed"]
    /\ seen' = [seen EXCEPT ![s] = IF Selects(s) THEN TargetsOf(s) \cap entities ELSE {}]
    /\ UNCHANGED <<procVars, resVars, worldVars, dead, entities, shutdown, join, scan, clock>>

(* Execute of the task; any of the monsters that are hit may die. *)
FinishExecution(s) ==
    /\ phase[s] = "executing"
    /\ phase' = [phase EXCEPT ![s] = "executed"]
    /\ LET t == procs[s].task IN
       \/ /\ t.kind = "act"
          /\ UNCHANGED <<entities, dead>>
       \/ /\ t.kind = "spawn"
          /\ entities' = entities \cup {t.subject}
          /\ UNCHANGED dead
       \/ /\ t.kind = "despawn"
          /\ entities' = entities \ {t.subject}
          /\ UNCHANGED dead
       \/ /\ t.kind = "attack"
          /\ \E killed \in SUBSET (seen[s] \cap Monsters) :
                /\ entities' = entities \ killed
                /\ dead' = [dead EXCEPT ![s] = killed]
    /\ seen' = [seen EXCEPT ![s] = {}]
    /\ UNCHANGED <<procVars, resVars, worldVars, shutdown, join, scan, clock>>

-----------------------------------------------------------------------------
(* The completion turn on the strand: ReleaseTask, DeallocateResource, the  *)
(* task's OnComplete hook, then the scheduler's OnComplete.                 *)

MutantRemoveEveryHit(s) == LET t == procs[s].task IN
    CASE t.kind = "attack"  -> t.targets \cap Monsters
      [] t.kind = "despawn" -> {t.subject}
      [] OTHER              -> {}

(* Actors whose controller and entity the hook removes. *)
RemovedBy(s) == LET t == procs[s].task IN
    CASE t.kind = "attack"  -> dead[s]
      [] t.kind = "despawn" -> {t.subject}
      [] OTHER              -> {}

(* RemoveController on every process of gone; the completing one is Running.*)
RemoveControllers(P, gone) ==
    [s \in Slots |-> IF P[s].state \in LiveStates /\ P[s].id \in gone
                     THEN IF P[s].state = "Running"
                          THEN [P[s] EXCEPT !.terminateReserved = TRUE]
                          ELSE DeadProcess("Recycled")
                     ELSE P[s]]

(* A ready process that is removed leaves its address in the reservations it *)
(* has made: nothing takes it out again.  Where that has happened is kept.  *)
LeftBehind(P) ==
    {a \in Actors : \E r \in reserved[a] : procs[r].state = "Ready" /\ P[r].state = "Recycled"}

MutantTakeLast(p, q) ==
    IF p.id = None \/ p.terminateReserved THEN DeadProcess("Recycled")
    ELSE IF q = <<>> THEN ToState(p, "Waiting", None)
    ELSE ToState(p, "Ready", q[Len(q)])
MutantIgnoreTerminate(p, q) ==
    IF p.id = None THEN DeadProcess("Recycled")
    ELSE IF q = <<>> THEN ToState(p, "Waiting", None)
    ELSE ToState(p, "Ready", Head(q))

(* What OnComplete makes of the completing process p with task queue q. *)
AfterCompletion(p, q) ==
    IF p.id = None \/ p.terminateReserved THEN DeadProcess("Recycled")
    ELSE IF q = <<>> THEN ToState(p, "Waiting", None)
    ELSE ToState(p, "Ready", Head(q))

CompleteTask(s) ==
    /\ scan = {}
    /\ phase[s] = "executed"
    /\ LET t == procs[s].task
           gone == RemovedBy(s)
           P == RemoveControllers(procs, gone)
           next == [P EXCEPT ![s] = AfterCompletion(P[s], queues[P[s].id])]
       IN  /\ procs' = next
           /\ queues' = [a \in Actors |-> IF HasController(next, a)
                             THEN IF a = P[s].id /\ queues[a] # <<>>
                                  THEN Tail(queues[a]) ELSE queues[a]
                             ELSE <<>>]
           /\ ReleaseAndRemove(t.targets, gone)
           /\ left' = left \cup LeftBehind(P)
           /\ snapshot' = (snapshot \ gone) \cup (IF t.kind = "spawn" THEN {t.subject} ELSE {})
           /\ token' = IF t.kind = "despawn"
                       THEN [token EXCEPT ![<<t.subject, t.caller>>] = "set"] ELSE token
           /\ scan' = IF shutdown THEN {} ELSE InState(next, "Ready")
           /\ join' = IF shutdown /\ join = "waiting" /\ InState(next, "Running") = {}
                      THEN "returned" ELSE join
    /\ phase' = [phase EXCEPT ![s] = "idle"]
    /\ dead' = [dead EXCEPT ![s] = {}]
    /\ UNCHANGED <<seen, entities, spawned, shutdown, clock>>

(* One iteration of the loop of TryStartAll, oldest task first. *)
TryStartNext(s) ==
    /\ s \in scan
    /\ \A r \in scan : procs[s].task.born <= procs[r].task.born
    /\ Cardinality(Running) < MaxConcurrency
    /\ scan' = scan \ {s}
    /\ IF CanStart(s, TargetsOf(s), known, acquired, reserved)
       THEN /\ procs' = [procs EXCEPT ![s] = ToState(@, "Running", @.task)]
            /\ AllocateResource(s, TargetsOf(s), known, acquired, reserved)
            /\ PostStart(s)
       ELSE /\ procs' = [procs EXCEPT ![s] = AddStarvationCount(@)]
            /\ reserved' = IF procs[s].starvation >= StarvationLimit
                           THEN [a \in Actors |-> IF a \in TargetsOf(s) \cap known
                                                  THEN reserved[a] \cup {s} ELSE reserved[a]]
                           ELSE reserved
            /\ UNCHANGED <<acquired, workVars>>
    /\ UNCHANGED <<queues, known, worldVars, shutdown, join, clock>>

(* The loop breaks when every worker is taken. *)
TryStartBreak ==
    /\ scan # {}
    /\ Cardinality(Running) >= MaxConcurrency
    /\ scan' = {}
    /\ UNCHANGED <<procVars, resVars, workVars, worldVars, shutdown, join, clock>>

MutantJoinAlwaysWaits ==
    /\ scan = {}
    /\ ~ shutdown
    /\ snapshot \cap Players = {}
    /\ shutdown' = TRUE
    /\ join' = "waiting"
    /\ UNCHANGED <<procVars, resVars, workVars, worldVars, scan, clock>>

(* ScheduleGameInstanceShutdown: an instance without player snapshots is    *)
(* shut down and joined in one strand turn.                                 *)
ShutdownAndJoin ==
    /\ scan = {}
    /\ ~ shutdown
    /\ snapshot \cap Players = {}
    /\ shutdown' = TRUE
    /\ join' = IF Running = {} THEN "returned" ELSE "waiting"
    /\ UNCHANGED <<procVars, resVars, workVars, worldVars, scan, clock>>

-----------------------------------------------------------------------------
ScheduleTask ==
    \/ \E c \in Actors : \E targets \in SUBSET Actors : ScheduleAct(c, targets)
    \/ \E p \in Players : \E ms \in SUBSET Monsters : ScheduleAttack(p, ms)
    \/ \E p \in Players : SchedulePlayerSpawn(p)
    \/ \E m \in Monsters : ScheduleMonsterSpawn(m)
    \/ \E p \in Players, caller \in Callers :
          ScheduleDespawn(p, caller) \/ DropDespawn(p, caller)

Next ==
    \/ ScheduleTask
    \/ \E s \in Slots : BeginExecution(s)
    \/ \E s \in Slots : FinishExecution(s)
    \/ \E s \in Slots : CompleteTask(s)
    \/ \E s \in Slots : TryStartNext(s)
    \/ TryStartBreak
    \/ ShutdownAndJoin

(* The executor runs every function posted to it, and the strand likewise.  *)
Fairness ==
    /\ \A s \in Slots : /\ WF_vars(BeginExecution(s))
                        /\ WF_vars(FinishExecution(s))
                        /\ WF_vars(CompleteTask(s))
                        /\ WF_vars(TryStartNext(s))
    /\ WF_vars(TryStartBreak)

Spec == Init /\ [][Next]_vars
FairSpec == Spec /\ Fairness

-----------------------------------------------------------------------------
(* Properties *)

(* Every variable keeps its shape. *)
TypeOK ==
    /\ procs \in [Slots -> Process]
    /\ queues \in [Actors -> Seq(Task)]
    /\ known \in SUBSET Actors
    /\ acquired \in [Actors -> Slots \cup {None}]
    /\ reserved \in [Actors -> SUBSET Slots]
    /\ shutdown \in BOOLEAN
    /\ join \in {"none", "waiting", "returned"}
    /\ scan \in SUBSET Slots
    /\ phase \in [Slots -> {"idle", "posted", "executing", "executed"}]
    /\ seen \in [Slots -> SUBSET Actors]
    /\ dead \in [Slots -> SUBSET Actors]
    /\ entities \in SUBSET Actors
    /\ snapshot \in SUBSET Actors
    /\ spawned \in SUBSET Actors
    /\ token \in [Players \X Callers -> {"none", "pending", "set", "lost"}]
    /\ left \in SUBSET Actors
    /\ clock \in Nat

(* Two tasks that run in parallel never hold the same resource: what the    *)
(* scheduler is for.                                                        *)
ExclusiveTargets ==
    \A s1, s2 \in Running :
        s1 # s2 => TargetsOf(s1) \cap TargetsOf(s2) \cap known = {}

(* Resource::acquired points to the running process that holds it and to    *)
(* nobody else: the assertions of AllocateResource (a resource that is      *)
(* taken is free) and of DeallocateResource (a resource that is given back  *)
(* was acquired by this process), over every interleaving.                  *)
AcquiredByHolder ==
    /\ \A s \in Running : \A a \in TargetsOf(s) \cap known : acquired[a] = s
    /\ \A a \in Actors : acquired[a] # None =>
          /\ acquired[a] \in Running
          /\ a \in known \cap TargetsOf(acquired[a])

(* A process has a started task exactly while it is Running, and a task     *)
(* whenever it is Ready or Running; the loop of TryStartAll only visits     *)
(* ready processes; nothing refers to an entity before it is added.  With   *)
(* AcquiredByHolder these make ExclusiveTargets inductive.                  *)
ProcessStates ==
    \A s \in Slots :
        /\ phase[s] # "idle" <=> procs[s].state = "Running"
        /\ procs[s].state \in {"Ready", "Running"} => procs[s].task \in Task
        /\ s \in scan => procs[s].state = "Ready"
Mentions(t) == t.targets \cup (IF t.kind = "spawn" THEN {t.subject} ELSE {})
TargetsAreSpawned ==
    /\ known \cup snapshot \subseteq spawned
    /\ \A s \in Slots : procs[s].state \in {"Ready", "Running"} => Mentions(procs[s].task) \subseteq spawned
    /\ \A a \in Actors : \A i \in DOMAIN queues[a] : Mentions(queues[a][i]) \subseteq spawned
IndInv == TypeOK /\ ProcessStates /\ AcquiredByHolder /\ TargetsAreSpawned

(* What a completion hook removes is there to be removed: the branches of   *)
(* RemoveController and RemoveEntity that assert are not reached.           *)
RemovalsFindTheirTarget ==
    \A s \in Slots : phase[s] = "executed" =>
        \A a \in RemovedBy(s) : HasController(procs, a) /\ a \in known

(* A controller runs its tasks in the order they were scheduled.            *)
ControllerOrder ==
    \A s \in Slots : procs[s].state \in LiveStates /\ procs[s].id # None =>
        LET q == queues[procs[s].id]
            all == IF procs[s].task = None THEN q ELSE <<procs[s].task>> \o q
        IN  /\ \A i, j \in DOMAIN all : i < j => all[i].born < all[j].born
            /\ procs[s].state = "Waiting" => q = <<>>

(* After a controller is removed none of its tasks starts any more, those   *)
(* in its queue and the one that was ready included: what is left of a      *)
(* removed controller is at most its running task.                          *)
RemovedControllersRetire ==
    \A s \in Slots : procs[s].state \in {"Waiting", "Ready"} =>
        procs[s].id \in known \cup {None}

(* No lost wakeup: only completions look at the ready processes again, so   *)
(* when the strand is idle and nothing runs no process may be left ready.   *)
(* In other words, no set of ready processes waits only for itself, unless  *)
(* one of them needs an entity in whose reservations a removed process has  *)
(* left its address: that address makes the scan reserve for a task that    *)
(* cannot start, and two tasks may then be left waiting for each other.     *)
WaitedFor(s) == TargetsOf(s) \cap known
KeptBy(s, r) == \E a \in WaitedFor(s) : r \in reserved[a]
WaitsOnlyForItself(S) ==
    \A s \in S : WaitedFor(s) \cap left = {} /\ \A r \in Ready \ S : ~ KeptBy(s, r)
NoForgottenTask ==
    scan = {} /\ Running = {} /\ ~ shutdown =>
        \A S \in SUBSET Ready : S # {} => ~ WaitsOnlyForItself(S)

(* The task counted as started never leaves the scheduler without its       *)
(* completion, and the joiner is told of the last one.                      *)
JoinReturns == join = "waiting" ~> join = "returned"

(* Whoever awaits an admitted PlayerDespawn is resumed, unless the instance *)
(* shuts down or an address has been left behind in some reservation.       *)
DespawnAnswered ==
    \A w \in Players \X Callers :
        token[w] = "pending" ~> (token[w] = "set" \/ shutdown \/ left # {})

(* Entities the workers use, for the abstract specification.                *)
Access == INSTANCE ExclusiveAccess WITH Users <- Slots, Objects <- Actors, using <- seen
AccessIsExclusive == Access!Spec

=============================================================================
