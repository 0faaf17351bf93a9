# zerosugar: formal models

zerosugar is a game server framework (futures, strands, channels, sessions, RPC)
and the servers of one game built on it (login, lobby, game) with the services
they share (coordination, database). This directory holds TLA+ models of the
parts in which several threads, coroutines or processes act on shared state, TLC
configurations that check them on small instances, and TLAPS proofs of the
properties that matter most.

1. [The system](#1-the-system)
2. [Modules](#2-modules)
3. [Correspondence with the code](#3-correspondence-with-the-code)
4. [Runs, bounds, fairness](#4-runs-bounds-fairness)
5. [Proofs](#5-proofs)
6. [What the models found](#6-what-the-models-found)
7. [What is not modelled](#7-what-is-not-modelled)

Paths below are relative to `src/zerosugar`.

## 1. The system

### Components

**Strand** (`shared/execution/executor/strand.cpp`). State: `_posted`, `_owner`
(a stack of thread ids), `_taskCount`, the concurrent queue `_tasks`. Operations:
`Post`, `Dispatch`, `PostFlushTask`, `FlushTasks`. Everything stateful in the
servers is confined to a strand. Hard: counter and queue change at different
moments; several flushes of one strand run at once; `Dispatch` runs a task inline
in the owner. Correct when: one thread at a time; first in, first out for each
submitter; no submitted task is left without a flush.

**Channel and AsyncEnumerable** (`shared/execution/channel`). State: `_status`,
`_items`, `_signalHandlers`. Operations: `Send`, `Close`, `NotifyOne/All`,
`TryPop`, `AddOrExecuteSignalHandler`, `co_await`, `HasNext`. Hard: the consumer
tries, tests and registers in three steps while producers send and close; close
and its notification are two steps. Correct when: no wake-up or close is lost; a
producer's items arrive in order, each once; what a generator yields is received.

**Future and Promise** (`shared/execution/future`). State of a shared context:
status, value or exception, one continuation. Operations: `Set`, `SetException`,
`Cancel`, `SetContinuation`, `Wait`, `Get`, and built from them `Then`,
`StartAsync`, `WaitAll`, `WaitAny`, `co_await`. Hard: completions race each other,
the registration of the continuation, and a thread about to sleep. Correct when:
the first completion stands; the continuation runs once; who waits goes on.

**Game executor** (`shared/execution/executor/impl/game_executor.cpp`). Workers
with a queue each, stealing, sleeping on a condition variable, `Stop`. Correct
when: a posted function runs once and no worker sleeps beside work.

**Asio executor, timers, execution context.** Thin wrappers of Boost.Asio.

**Session and Server** (`shared/network/session`, `shared/network/server`). A
session has its Asio strand, a queue of buffers to send, a channel of events; the
server accepts, keeps the table of sessions and runs one consuming coroutine for
each. Operations: accept, `Send`, `Close`, the completions of reads and writes,
destruction, `Run`, `Shutdown`. Hard: errors of both directions, close by either
side, a handler that throws, shutdown with an accept in progress. Correct when:
bytes go out in order; a loss is reported once and ends the session.

**RPC** (`xr/network/rpc`). Client: pending calls by id, streaming calls as
channels, registration of provided services. Server: the provider of each service
and the caller of each pending call. Hard: two handlers of the server on different
strands; items that overtake or follow the result; lost connections. Correct when:
an answer finds its call, streams have no holes, every call is answered.

**Coordination service** (`xr/service/coordination`). A tree of game servers,
game instances and users on one strand; the load balancer; snowflake keys;
dungeon matching; command channels to the game servers with awaited responses.
Hard: state read before a `co_await` and used after it; users who move or leave
in between. Correct when: the tree agrees with where clients are; keys are given
out once; a dungeon is entered by whole groups that agreed.

**Dungeon matching** (`.../contents/match/dungeon_match_coordinator.cpp`). State:
`_matchUsers`, `_matchQueues` (pointers into `_matchUsers`), `_matchGroups`.
Operations: request, cancel, approve, reject, the tick of `Run`, and the launch of
a dungeon on a game server in two halves around a `co_await`.

**Snowflake ids** (`shared/snowflake/snowflake.h`, `PublishSnowflakeKey` in
`xr/service/coordination/coordination_service.cpp`). The service hands out keys;
servers build ids of time, key and sequence number. Correct when: no id twice.

**Login, gateway and database services, connection pool.** Tokens under a lock;
stored procedures; a pool with polling `Borrow`, `TakeBack` and `Ping`.

**Login and lobby servers.** One state machine per session, fed by a channel.

**Game server** (`xr/server/game`). Table of clients; commands of the coordination
service; login, release, disconnect, migration; shutdown of empty instances.

**Game repository** (`xr/server/game/repository/game_repository.cpp`). Per
character: changes that wait, a pending save, finalizers that wait. Hard: a save
is remote and may fail or throw; the client's release, its loss and a failed save
all finalize. Correct when: changes are saved one at a time in order; who is told
that saves are final finds everything saved.

**Game task scheduler** (`xr/server/game/instance/task`). State: processes with a
state and a current task, a queue per controller, resources with `acquired` and
`reserved`, the shutdown and join promises. Operations: `Schedule`, `TryStartAll`,
`Start`, `OnComplete`, `RemoveController`, `RemoveEntity`, `Shutdown`, `Join`.
Hard: tasks run on workers in parallel, while admission and completion run on the
strand; controllers are removed with a task ready, queued or running; reservations
against starvation. Correct when: two tasks never hold one entity; no task is
forgotten; removed controllers start nothing; `Join` returns.

**Instance content, behaviour trees, navigation, generated messages, tools,
applications, helpers.** See section 7.

### How they interact

A socket event becomes an item of a session channel; its consumer runs on the
session's strand, decodes packets and posts to the strand of a game instance;
there the scheduler admits a task, a worker executes it, and the completion comes
back to the strand. Inventory changes go to the repository, on the character's
strand, and from there over RPC to the database service. Moving between zones
goes over RPC to the coordination service, which answers over a command channel
(again an `AsyncEnumerable`). So the strand and the channel carry everything
else: a lost wake-up there stalls a server, and all other models assume what
`SerialExecutor` promises.

## 2. Modules

| Module | Models | Role |
|---|---|---|
| `SerialExecutor` | what a strand promises | abstract specification |
| `Strand` | `strand.cpp` | implements `SerialExecutor` |
| `AsyncEnumerable` | `mpmc_channel.h`, `async_enumerable.h` | |
| `Future` | `shared/execution/future` and its `operation`s | |
| `GameExecutor` | `game_executor.cpp` | |
| `SessionServer` | `session.cpp`, `server.cpp`, composed with the event channel between them | |
| `Rpc` | `rpc_client.cpp`, `rpc_client.h`, `rpc_server.cpp`: several clients and the server | |
| `World` | the registry (`coordination_service.cpp`, `node/`, `command/`) composed with the clients, instances and commands of the game servers | |
| `DungeonMatch` | `dungeon_match_coordinator.cpp` and what it meets of `coordination_service.cpp` | |
| `SnowflakeKeys` | `PublishSnowflakeKey`, `snowflake.h` | |
| `GameRepository` | `game_repository.cpp` and its callers in `game_server.cpp` | |
| `ExclusiveAccess` | what the scheduler promises to tasks | abstract specification |
| `GameTaskScheduler` | `game_task_scheduler.cpp` and its tasks | implements `ExclusiveAccess` |
| `..._proofs` | | theorems about the module; `Wakeup_proofs` about `GameExecutor` and `AsyncEnumerable`, `Coordination_proofs` about `World` and `SnowflakeKeys`, `Network_proofs` about `Rpc` and `SessionServer`, whose definitions have different names for this (`PoolInit`, `KeyInit`, `ServerInit`, ...) |
| `MC...` | | the instances for TLC |

What one module assumes of another: `SessionServer`, `Rpc`, `GameRepository`,
`World`, `DungeonMatch` and `GameTaskScheduler` take a strand to be what
`SerialExecutor` says, with one turn of a coroutine as one action; `SessionServer`
and `Rpc` take the channel to be as `AsyncEnumerable` has it; `World` takes from
`Rpc` that commands, responses and requests of one server travel in order, and
from `SessionServer` that a session the server closes by itself is not reported.

In each module an operator named `Mutant...` stands before the operator it is a
wrong version of: a dropped test, an off-by-one, a missing reset. No action uses
it. Putting it in the place of the right one makes TLC report the property named
beside it in `PROJECT.json`, which shows that the property depends on that line.

## 3. Correspondence with the code

`PROJECT.json` maps each definition to its lines. What follows is what a reader
of the two should know.

**Strand.** A thread is in user code or in the code of the strand (`pc`); an
action is one critical section under `_spinMutex`, one queue operation or one
`PostFlushTask`. A task may submit again, by posting or inline. `tasks[t]` is the
nest of tasks a thread is in. The executor below is the number `flushes` of
`FlushTasks` calls that wait: any idle worker takes one. The queue is first in,
first out as a whole; the concurrent queue of the code promises that only for
each producer, and nothing the module states compares tasks of two submitters.
`try_lock` and `release` have no caller and `Stop` is empty.

**AsyncEnumerable.** Producers are arbitrary threads that send a value, a range or
an exception, close, or leave a generator by an exception (send without a signal,
then close). The consumer is the loop `while (e.HasNext()) co_await e`, one step
per lock or atomic access. At an exception it goes on or leaves, both in every run
(`AfterThrow`): `CommandChannelRunner` catches per item and goes on
(`command_channel_runner.cpp:48-86`); the relays and streaming loops of `RPCClient`, the
session state machines and `CommandResponseChannelRunner` have the loop inside of the
`try`, and `Server::Run` returns from its handler: these leave. Every channel of the
code has one consumer.

**GameTaskScheduler.** Strand turns are atomic, except `TryStartAll`, whose loop
takes one action per process (`scan`), with nothing else on the strand meanwhile.
`BeginExecution` and `FinishExecution` are `Start` of the task on a worker, before
and after it resolves its targets. Process objects have addresses (`Slots`), since
`reserved` holds addresses that outlive their process. Tasks: one without effect
on others, an attack (which may kill), the spawns, and `PlayerDespawn` with its
promise. Statistics (`_totalTaskCount`) and logging are left out. Constants: the
code's starvation limit is 10, `StarvationLimit` is a parameter.

**DungeonMatch.** An action is what the strand does between two `co_await`s. A
launch is `HandleMatchGroupApproved` up to its `co_await`, then success or failure
at any later time. Users leave, arrive at the dungeon, or are lost on their way;
`client` is where the game client really is, `parent` what the service believes. A
user id stands for one login and is not used again. A failed assertion or a null
pointer sets `fault` and nothing follows. Removing an empty dungeon instance is
left to `World`. `CreateMatchingGroup` has a second
loop, over queues of another size, which finds nothing the first has left.

**SnowflakeKeys.** `RequestSnowflakeKey`, `ReturnSnowflakeKey` and `Generate` are
one action each, under the strand and the mutex. A crash forgets the server's
copy of the key, not the service's. `Generate` waits for the next millisecond when
the sequence number wraps: the action is then disabled until `Tick`. The clock does
not go back (the code asserts it). The service itself does not restart.

**GameRepository.** One character; its strand is the queue `tasks`, `RunTask` takes
the first task up to its next `co_await`. The database service answers any
outstanding save at any time with success, an error, or an exception; the answer
is taken to come after the `co_await` that waits for it, so `Start` always
suspends. Entries of `saves` have an identity, so that using an entry after it was
erased is seen (`fault`); that is undefined behaviour in the code and the model
stops there.

**Future.** A completion is four steps of its thread: the compare-and-swap under
`_mutex`, which it keeps until it has stored the result and swapped the
continuation out (`Store`), then `notify_one`, then the continuation, which posts a
function to the executor. Readers of `_status` look without the mutex, in between
as well; whoever takes the mutex waits (`Locked`). The instance is a coroutine
that chains a callable to a promise, starts an asynchronous call, gives both
futures to `WaitAll` or `WaitAny` (`needed`) and awaits; another thread blocks in
`Get`. One thread blocks on one future: `notify_one` would not wake a second one.
`Reset`, with which `AIController`, `Socket` and the relays of `RPCClient` reuse a
context between uses, is left out.

**GameExecutor.** The locked section of each worker's loop, of `Post` and of a theft
are one action each; `notify_one` comes after the lock is released. `try_lock` of a
theft may fail. A queue is a set: batches of one queue can be taken by two workers,
so the pool promises no order. A worker may post from inside a function.

**SessionServer.** `strand[s]` is the queue of what is posted to the session's Asio
strand, completions included. `Network` is the other end and TCP: data, a close, a
break at any moment, writes that complete or fail. The users of sessions (the
derived servers) keep a pointer or not, send, close, throw from `OnReceive`. The
channel of events is the one of `AsyncEnumerable`, with the consumer resumed inside
`Send` by the strand, as it is there. A session is destroyed when nothing refers
to it (`Referenced`).

**Rpc.** A client does everything on one strand; the RPC server handles the packets
of one connection in order and of different ones at once, so the insertion of a
route, the forwarding of the request and the look-up for the answer are separate
actions. The provider's procedure takes items, yields items, returns or throws at
any time. What it yields goes into the channel of its enumerable (`out`), and a coroutine
of `RPCClient` relays it (`relay`): it takes an item, converts and sends it in one turn of
the strand, or pops in vain, asks `IsClosed` and then ends the call or waits, two steps
between which the procedure may yield and close. The relay of a duplex procedure first
waits for either channel, looks which has signalled and resets both (`RelayLooks`). The
typed channel and the string channel of a duplex call are one `out`: the relay between
them and the loop of `rpc_client.cpp:517-522` run on the same strand, and
an item in between is an item of `out`. The caller's stream has the two ways to notice its
end that the code has (`HasNext` and `co_await`), which differ (section 6). Ids of calls
do not collide.

**World.** The coordination service's coroutines are cut at their `co_await`s; the
authentication of a player on a game server is a coroutine with two (`Authenticate`,
`AddClient`, `Spawn`), interleaved with the end of its session, with others that
present the same token, and with the instance's shutdown. The load balancer gives
any registered server. A player's record keeps a pointer to its instance; where the
code dereferences it after the instance was removed the action goes both ways.
The ten seconds until an empty instance is shut down are any delay that lets the response
to its launch be read first.

## 4. Runs, bounds, fairness

| Run | Bounds | States | Shows |
|---|---|---|---|
| `scheduler` | a player and a monster that spawn; 2 workers, 4 addresses, 5 tasks, one caller that despawns, reservation at the first failure | 483,650 | order per controller, retirement of removed controllers, removals find their target, no forgotten task; the entities used by workers follow `ExclusiveAccess`; a joiner and the awaiter of an admitted despawn are answered |
| `double_despawn` | a player, a monster, two callers that despawn | a counterexample | the second despawn of a player finds no controller (section 6) |
| `strand` | 3 workers, 2 outside threads, 4 tasks | 45,948 | mutual exclusion, refinement of `SerialExecutor`, every task runs |
| `channel` | 2 producers, 2 items each, a consumer that may leave at any exception | 44,205 | order; every item reaches a consumer that has not left; a close ends the consumer |
| `future` | a promise with a `Then`, an asynchronous call that throws, a setter, a canceler, 2 workers, a thread in `Get` | 472,170 | the first result stands, the coroutine goes on once and in time, whoever waits goes on |
| `game_executor` | 2 workers, an outside thread, 3 functions | 214,934 | a function is at one place and runs once, every function runs, `Stop` returns |
| `sessions` | 1 connection, 3 bytes in buffers of 1 and 2, writes of 1, 1 event ahead | 700,556 | bytes in order, nothing after an error, losses are reported, sessions that nobody keeps are counted off |
| `rpc` | 2 clients that both try to provide 1 service, 1 call of any kind, 2 items each way, 1 lost connection | 1,233,974 | answers find their call; streams have no holes, and at a graceful close only their end can be missing; calls complete |
| `world` | 1 game server, 2 players of one zone, 2 connections, 2 instances, 2 authentications | 204,501 | registry and servers agree, clients are users, `AddPlayer` returns, lost players leave |
| `dungeon_match` | 4 users, groups of 2, 2 dungeons, 2 groups per dungeon, 4 requests | 467,604 | groups and users agree; only launches strand users; a dungeon is entered by those who agreed |
| `snowflake_keys` | 3 servers, 2 keys, 2 sequence numbers, 5 requests, 2 ms | 1,572,575 (servers symmetric) | each key once, no id twice while the counter is in the pool |
| `repository_saves` | 5 changes, all callers and answers | 6,386 | one save at a time, in order; finalized means saved; finalizers are answered |

**Why the bounds are enough.** A violation of exclusion or a forgotten task needs
two tasks that share an entity and a third that releases it; five tasks allow that
after the spawns of both, with a removal among them, and the monster's death removes a
controller in each of its states; the proofs cover any number. A double despawn takes one player and
two callers. The strand's races are between one submitter, one flush that
is leaving and one that comes: three workers let a third flush arrive in the
middle; the proofs cover any number. The channel's are between one consumer and
two producers, again proved for any number. One call has every
interleaving of its route, its two streams, their ends and a lost connection; the steps
of other calls leave it alone (lemma `Elsewhere`). Two groups in two dungeons of four
users, with two requests left over for users who come back, let a user be in the
queue of one dungeon while the group of another decides. The
last key, the wrap of the sequence number and the reuse of returned keys all occur
with `Keys = Sequences = 2`; the code has 1024 and 4096. Five changes are two more
than the longest chain the repository can distinguish: pending, waiting, and
after the shutdown.

**What is bounded.** `MaxTasks`, `MaxSends`, `MaxGroups`, `MaxRequests`, `MaxTime`,
`MaxChanges` bound what the environment submits. When they are used up the system
may come to rest, hence `CHECK_DEADLOCK FALSE`; that it rests with nothing left to
do is what the liveness properties say.

**Fairness.** `Strand`: a thread that has entered the strand's code or a task goes
on, and the executor below runs posted functions. `AsyncEnumerable`: the
consumer's executor runs what is posted; a thread inside a call finishes it;
nobody is obliged to send or close. `GameTaskScheduler`: workers run posted tasks
and the strand runs completions; nobody has to schedule. `Future`: threads
go on and the executor runs what is posted; nobody has to set, throw or cancel.
`GameExecutor`: workers go on and a notified sleeper wakes; neither a spurious
wake-up nor a successful theft is assumed. `SessionServer`: Asio completes the
operations of a broken connection and writes, and the strand runs; no derived server
has to let go of a session (section 6). `Rpc`: packets on connections that are
up arrive and are handled, relays run, and a procedure returns once nobody sends it
parameters. `World`: coroutines go on and
queues are read; players and the timers of instances are free. `GameRepository`: the strand runs and the database service answers.
All are weak fairness of steps the runtime takes by itself once enabled.

## 5. Proofs

All theorems hold for every value of the constants and follow one pattern:
`Init => IndInv`, `IndInv /\ [Next]_vars => IndInv'`, `IndInv => Inv`. There are no
assumptions besides the `ASSUME`s of the modules (disjointness, finiteness of the
thread sets, numbers are natural).

**GameTaskScheduler_proofs** proves `TypeOK`, `AcquiredByHolder`, `ExclusiveTargets`,
`ControllerOrder`, `RemovedControllersRetire`, `NoForgottenTask`, the refinement of
`ExclusiveAccess` and, of players whom one caller despawns, `RemovalsFindTheirTarget`.
Exclusion alone is not inductive: that two running tasks have disjoint targets follows from each resource's `acquired` pointing to its holder,
so the invariant carries that agreement in both directions, the connection of
process state and phase (a completion finds a running process), and that tasks
only mention entities that have been spawned (a task of a new entity cannot hold
what it does not know yet). `AdmitKeepsInvariant` is shared by the ways to
schedule; `CompleteTaskStep`, which frees, removes and re-queues at once, is the
long one. The order of a controller's tasks needs that a process has one task out
of its queue at a time and that the queue is sorted by admission; the retirement of
removed controllers, that of such a controller nothing is left but the task that
runs, if one does (`RetireInv`). For the refinement a worker that begins to execute a task is
`Enter`, one that has returned is `Leave`, and every other step is shown to leave
the entities in use alone: what a worker has resolved is a part of its targets,
which no other running task shares. That no task is forgotten (`WakeInv`) has two
parts. Where no address was left behind, a reservation is that of a ready process which
has reserved all it waits for (`ReservationsCount`): a scan reserves all or nothing, and
what a task names is known before, so no entity is added to it later. And the ready
processes the scan is done with do not wait only for themselves while nothing runs
(`NoneForgottenSoFar`): the process it looks at either starts, or is kept by another
one; it cannot be the one that keeps all the others, since then it has reserved all it
waits for, nobody holds it, and it would have started. That a completion finds what it
removes (`RemoveInv`) needs that whoever is known has a process not marked for
termination, that only the task which holds an entity removes it (so nobody takes what a
worker has resolved or killed from under it), and that a despawn under way has a promise
of its own that is pending, so a player none of whose promises is set has not been
removed. It cannot hold of every instance: two callers may despawn one player
(section 6). `SchedulerRemovals` says so with `DespawnedByOne`, for any number of
callers; in run `scheduler` there is one, and the exception is empty there. TLC had found the invariants true of 1,044,669 states
(2 players, 2 monsters, 2 callers, 4 tasks), `WakeInv` of 2,585,953 and of the instance
of section 6, `RemoveInv` of 1,668,989 (the same with five addresses), where the
exception is needed.

**Strand_proofs** proves `OneAtATime`, `CountIsExact`, `NoLostWakeup` and the
refinement of `SerialExecutor`. Exclusion comes first: only the thread that found
`_owner` empty is in the loop, and `_owner` names it once per nested task. That
makes the counter local to one thread, hence exact: what is counted is queued or
about to be. The wake-up then follows from `WakeOnTheWay`: counted implies posted,
posted implies an owner, a flush, or a thread about to post one. The refinement
needs one more invariant, `QueueInOrder`: tasks of one submitter stand in the queue
in the order of their numbers, and the one it is about to emplace comes after them.
Then the locked section of `Post` is `Submit`, an inline `Dispatch` is `Enter`,
`PopTask` is `Start` of a task that no other of its submitter precedes, the end of
a task is `Finish`, and the rest, `emplace` included, are stutters.

**Wakeup_proofs**, about channels, proves `NoLostClose`, `NoLostWakeup` and `InOrder`. The
first is inductive with the types; the second needs the case in which an exception
is sent without a signal: then a producer is still on its way to `Close`, whose
notification the invariant keeps track of. `InOrder` is inductive: what a call sends
is numbered on from its producer's last item, and receiving moves the first item of
one sequence to the end of the other.

**Wakeup_proofs**, about the thread pool, proves `OnePlace` and `NoSleepBesideWork`, the safety half of
`EveryTaskRuns`. For the first, `OnePlace` is restated of each function
(`OnePlacePointwise`), since `Post`, `Execute` and a theft each move one function or
one whole queue; and `BatchIsRun` is needed: a worker has a batch only while it
runs it, so that the swap with a stolen queue overwrites nothing. The second is cut
at `running`: whatever is posted to a worker in `wait` sets `running`, and `running`
of such a worker means that it was notified or that the thread that found `running`
unset is between its unlock and its `notify_one` (`SleepersAreTold`).

**Future_proofs** proves `FirstResultStands` and `ResumesOnceWhenDone`. `ResultInv`
says that the call that won the compare-and-swap is the only one that stores, and
that a context that is decided and unlocked has its result stored. `TokenInv` says
that a continuation is in one place: with its context, with the one thread that
took it, or posted. `CounterInv` compares the counter of `WaitAll` with the
continuations that have run, and `CoroutineInv` says that the coroutine is with one
worker, or registered, or posted, or has gone on. TLC had found them true of
472,170 states.

**GameRepository_proofs** proves `PendingHasDriver`, `SavedInOrder` and
`FinalizedIsSaved`. The parts of `RepInv`: which calls of `FinalizeSaves` a task or a
signal stands for (`CallInv`), that a pending entry has one driver (`DriverInv`),
which changes are still on the strand (`NumberedInv`), how answered, asked and
waiting changes are ordered (`OrderInv`), that none of them is lost (`CoverInv`) and
how many there are (`CountInv`). `RepositoryEntryStays` says that
`OnCompleteSaveChanges` always finds its entry; `RepositorySignalIsStale`, that a
`FinalizeSaves` that has waited never does (section 6).

**DungeonMatch_proofs** proves `GroupsAreWhole`, `OnlyLaunchStrands` and `EnteredByAll`,
and that a user who waits has exactly one place, in one queue (`OnePlace`).
`GroupsAreWhole` is not inductive: that a tick cuts a queue into groups of
`GroupSize` different users needs queues without repetitions that hold exactly the
waiting users (`QueueInv`), and that a new group meets no old one needs that groups
are numbered upwards and are in one of `_matchGroups`, a launch and the failed ones
(`GroupInv`). The long step is the tick: a position of a queue belongs to the group
given by a division (`TakenAreMembers`), and to one only (`NewGroupsDisjoint`). TLC
had found the invariant true of 467,604 states.

**Coordination_proofs**, about `World`, proves `RegistryMatchesServers` and
`ClientsAreUsers`. The registry knows of a game server what packets tell it, and they
are under way while both sides go on; so the invariant (`WorldInv`) says of every packet
what holds at both ends until it is read. Of an instance there is one packet at most
(`InstanceInv`): the command to launch it, then the answer, then the request for its
removal, each written only after the one before was read; the registry names the
instance from the answer to the removal, the server runs it from the command to the
request. That the removal comes after the answer is the ten seconds of
`ScheduleGameInstanceShutdown`, a guard of `ShutdownInstance`: the theorem rests on it.
Of a player (`UserInv`), one request only may find `_migrating` set, however many
coroutines present his token; whoever got it is allowed to enter, becomes the client, and
is followed by a `RemovePlayer` at last, and in each of these three places nobody else
stands for him (`Present`). For this each coroutine of `AuthenticateHandler` has one
request at most, while it waits (`HandlerInv`), and a session keeps its player. TLC had
found the invariant true of 204,501 states (two players) and of 44,500 (two servers).

**Coordination_proofs**, about the keys, proves `EveryKeyOnce` and `UniqueWithinPool`. A fresh key is
new because every key that is out comes from below the counter. An id repeats only
if the same server repeats a number within a millisecond, which its sequence
number excludes (`IdsArePast`), or if another server has its key, which
`EveryKeyOnce` excludes as long as keys are below `Keys`, so that `k % Keys` is `k`.

**Network_proofs**, about the RPC, proves `AnswersFindTheirCall` and `StreamsAreWhole`. Neither is inductive,
nor is either provable without the other's reasons, so the invariant (`RpcInv`) says of
each call where it is. `WhereOf` and `StageOf`: its request is in one queue, or with the
server, or its procedure runs, or its result is on the way back, and the packets are
between its caller and its provider only. `RouteOf`: as long as the provider may still
answer, the server's route names the caller, although the route is entered, used and
erased by handlers of two connections. `ShapeOf`: a queue has one request, and nothing
of a provider behind its result. `YieldOf` and `ParamOf`: the items of a stream that
have left one end and not reached the other are in the queues between, each once and
in order (`Chain`), the first with the request. An answer finds its call because the
caller forgets a call only when it reads the result, and the result is the last; a
graceful close means that all items the relay has sent were read because they were before
it, and what it has not sent is still in `out`, where it follows them. A
connection that breaks cuts its queue at any place (`CutChain`): from then on the chain
promises nothing of its end, unless the result is in what is left. A step is about one
call; that it leaves the invariant of the others alone is proved once (`Elsewhere`).
TLC had found the invariant true of 586,089 states (two calls) and of 404,679 (two items
each way).

**Network_proofs**, about sessions, proves `SentInOrder` and `NothingAfterError`. Bytes
are numbered as they are given to `Send`, so that what lies between two numbers is one
sequence (`Bytes`), which may be cut and joined anywhere (`BytesCut`, `BytesMeet`), and a
queue of buffers that follow each other flattens to one (`FollowFlat`). The invariant
(`SessionInv`) says of each session that the bytes after those on the wire are in the
write under way, `_sendWaitQueue` and the tasks of the strand, in this order (`Kept`),
and why nothing gets in between (`Ordered`): without `_sendPending` there is no write, no
completion and no queue; with it there is one write or one completion, never both - or
the write has failed, and then nothing is written again (`FailsWhenLost`: the connection
is closed or its peer gone). One lemma for each step that moves bytes; the others post or
run tasks without bytes (`Aside`). That a session stays silent (`ReportInv`) needs that it
can only be reported from the table, and that `HandleAccept` puts it there once, before.
TLC had found both invariants true of 700,556 states.

**Only model-checked:** liveness and `ENABLED`, which are out of the prover's reach.
Every invariant and every step property that a run checks is stated by a theorem.

## 6. What the models found

Each is a behaviour of the code, seen in a run of a model or noticed while writing
it. Where a property is named, its statement makes the exception explicit.

*Scheduler*

- **A player is despawned twice.** `ReleaseClient` takes the client out of the
  container after awaiting its despawn; a disconnect in between submits a second
  one, whose completion finds no controller: `assert(false)` in `RemoveController`
  (`game_task_scheduler.cpp:215`), then in `RemoveEntity` (`:234`). Run
  `double_despawn`; the runs that pass have one caller.
- **A reservation outlives its process** (`NoForgottenTask`, `DespawnAnswered`).
  `RemoveController` of a ready process leaves its address in `reserved`
  (`game_task_scheduler.cpp:210`); other tasks wait behind it until a process at the
  same address happens to clear it. Worse, it makes a scan reserve for a task that
  cannot start. With two players, three monsters, five addresses and seven tasks two
  ready tasks keep each other: the first is blocked by the stale address and reserves
  all it needs; the second, whose process lives at that address, is blocked by the
  first and reserves too. Nothing runs, both could start now, and nobody looks again
  before another task completes. An earlier form of the property excused only tasks
  that are behind a stale address at that moment; the proof of it failed, and that
  instance shows why. The history variable `left` records where it has happened.
- **A dropped despawn never answers** (`DespawnAnswered`): after `Shutdown` the task
  is dropped with its promise unset, so its awaiter stays suspended.

*Channel, sessions*

- **A consumer that catches outside of its loop misses items**
  (`async_enumerable.h:241`). Between a failed `TryPop` and `IsClosed` an item and
  the close arrive; the consumer throws and the item stays in the channel. By the same
  two observations a generator that has simply returned can end its consumer by an
  exception, while `test_async_enumerable.cpp:150` counts every item without a `try`.
  Only a consumer that catches inside, and asks `HasNext` again, gets the item; so
  `EveryItemReceived` is about consumers that have not left.
- **A session the server closes stays in `_sessions`** (`LossReported`): `Close` closes
  the event channel (`session.cpp:58`), so `OnError` is not called and the count is
  not decremented. A handler that throws ends `Run` with the same result.
- **The RPC server keeps the sessions it has lost**: its `OnError` is empty
  (`rpc_server.cpp:31`), and the pointers in `_sessions` (`:158`) and `_pendingRPCs`
  (`:195`) keep a broken session alive, routed to and counted. `CountReturns` is about
  sessions that no derived server keeps: the login and the lobby server have weak
  pointers, the game server lets go when `ProcessClientRemove` returns.
- **An accept that completes before `Shutdown` cancels it** is inserted after the
  loop that closes the sessions, and the server accepts again.

*RPC*

- **A lost connection leaves calls pending** (`CallCompletes`): `Run` ends, nothing
  completes the client's calls, and the server keeps their routes. Service names
  are never unregistered: a provider that restarts is refused.
- **The end of a parameter stream seen by `HasNext` is not sent**, only the end seen
  by `co_await`; an end before the first item sends no request. The call is never
  answered (`CallCompletes`).
- An error as the result of a server-streaming call sends an exception to the
  channel without closing it.
- **A stream can lose its end under a graceful close** (`rpc_client.cpp:446` and `:530`):
  the relay finds no item, then that the channel is closed, and answers
  `RpcErrorStreamingClosedGracefully`; what was yielded in between is dropped.
  `StreamsAreWhole` says how much can be missing: the last items, and nothing else.
- **The relay of a duplex procedure can become deaf** (`rpc_client.h:152`): it resets
  both contexts after it has looked which has signalled, and with them a signal that came
  in between. `CallCompletes` excuses the calls of such a relay.

*Coordination and game servers*

- **The parent of a user can be freed** (`coordination_service.cpp:255`): `SetParent`
  without `AddChild`, so that `GetChildCount() > 0` (`:377`) refuses no removal, and a
  player who arrives more than ten seconds late has a parent that is gone. The
  assertions at `:291` and `:294` take it to be there.
- Two concurrent `AddPlayer` for one zone launch two instances.
- A server can be selected before its first response has set `_channel`
  (`node/game_server.cpp:113`).
- A second or refused `Authenticate` closes the session from the server's side, which
  is not reported: the client stays. A disconnect during the authentication leaves
  the player registered; one between `AddClient` and the spawn drops the despawn
  task, `WaitAll` never returns, and the entity spawns without a client
  (`LostPlayersLeave` speaks of players whose despawn was submitted to a live
  entity). An instance may be shut down between the two.
- **Users are stuck after a failed launch of a dungeon** (`OnlyLaunchStrands`): the
  group has been taken out before the launch and its users stay `Grouped`. A decision
  sent meanwhile uses the missing group (`DecideWithoutGroup`).
- **A user who leaves stays in the match queue**, and telling the group finds no
  server: `assert(gameServer)`, `dungeon_match_coordinator.cpp:379` and `:470`. The model
  stops there (`fault`). `RemoveExpiredGroup` is not called (`:209`).
- **One key too many**: `next <= max` (`coordination_service.cpp:601`) admits key 1024,
  which in an id is key 0. `UniqueWithinPool` speaks of the time before it. The
  counter restarts at 0 with the service.

*Repository*

- **A stale iterator** (`game_repository.cpp:81`): every `FinalizeSaves` that waits
  erases an entry already erased by the one who signalled it. This is a theorem,
  `RepositorySignalIsStale`: no interleaving avoids it.
- **A save that throws is never completed** (`PendingHasDriver`, `FinalizeAnswered`):
  the entry stays pending and its finalizers wait.
- `FinalizeSaves` with nothing pending erases the shutdown flag with the entry, so a
  later change is saved after all (`game_repository.cpp:113`).

## 7. What is not modelled

- **Asio wrappers, timers, sockets**: I/O; the models take from Asio that a posted
  function runs once and that an Asio strand keeps order. **Buffers**: data structures
  of one thread, unit-tested.
- **`SharedContext::Reset`**, but for what the relay of a duplex procedure loses by it
  (`RelayLooks` of `Rpc`).
- **Login, gateway and database services**: tokens under a lock, forwarding, stored
  procedures whose atomicity is MySQL's. **Connection pool**: whole connections move
  between two concurrent containers; `Ping` never replaces one that is lost.
- **Lobby and login servers**: one coroutine per session that awaits RPC calls in a
  fixed order; its session is `SessionServer`'s, its input an `AsyncEnumerable`. A
  disconnect while a call is awaited leaves the account logged in.
- **Game rules** inside a task, which run on reserved entities one task at a time;
  sight, movement, inventory; **behaviour trees**, one coroutine per monster on the
  strand of its instance; **navigation**, a vendored library.
- In `World`: chat, status reports, release of a client towards a dungeon (part of
  `DungeonMatch`), `OnCharacterSaveError`. In `DungeonMatch`: `Start`, `Shutdown`,
  `Join`. In both: a restart of the coordination service, which the code does not
  provide for.
- **Generated messages, code generator, applications, bot client, logging and other
  stateless helpers.**

Worth proving next: that the sessions' use of their event channel is what
`AsyncEnumerable` promises, as a refinement.
