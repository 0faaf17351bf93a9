---------------------------- MODULE SessionServer ----------------------------
(***************************************************************************)
(* The sessions of a server (shared/network/session/session.cpp) and the   *)
(* server that accepts them (shared/network/server/server.cpp).            *)
(*                                                                         *)
(* A session does everything on its own Asio strand: a function posted to  *)
(* it, or the completion of a read or a write, is a task of strand[s], and *)
(* the tasks of one strand run one at a time in order.  The server keeps a *)
(* table of its sessions, and for each a coroutine, Run, that consumes the *)
(* session's channel of events on the same strand: a Send by the strand    *)
(* resumes the coroutine inside of that Send.                              *)
(*                                                                         *)
(* The derived servers (login, lobby, game, RPC) are what they may do in   *)
(* OnAccept and OnReceive: keep a pointer to the session, close it, throw, *)
(* and later send, close or let go of the pointer from any thread.         *)
(*                                                                         *)
(* Bytes are numbers in the order of submission.  An operator named        *)
(* Mutant... is a plausible mistake in the one after it; nothing uses it.  *)
(***************************************************************************)
EXTENDS Integers, Sequences, FiniteSets, SequencesExt

CONSTANTS
    MaxSessions,    \* bound: connections ever made
    Sizes,          \* sizes of the buffers given to Send
    MaxWrite,       \* mtuSize, the most one write sends
    MaxBytes,       \* bound: bytes given to Send, for each session
    MaxEvents,      \* bound: a peer sends nothing while so many events wait
    HandlerThrows   \* an OnReceive may throw

ASSUME WriteAssumption ==
    MaxWrite \in Nat \ {0} /\ Sizes \subseteq Nat \ {0} /\ MaxSessions \in Nat

Session == 1 .. MaxSessions   \* PublishSessionId counts from 1

VARIABLES
    acceptor,       \* the accept operation or its completion handler
    accepted,       \* _nextSessionId
    shutdown,       \* how far Server::Shutdown is
    table,          \* _sessions
    sessionCount,   \* _sessionCount
    socket,         \* the server's end of each connection
    peer,           \* the other end: up, left with data unread, gone
    strand,         \* tasks posted to the strand of each session
    reading,        \* an async_read_some is under way
    writing,        \* an async_write of _sendBuffer is under way
    sendPending,    \* _sendPending
    sendBuffer,     \* _sendBuffer
    sendWaitQueue,  \* _sendWaitQueue
    submitted,      \* bytes given to Send so far
    wire,           \* bytes handed to TCP, in order
    channel,        \* status of the session's event channel
    events,         \* its items
    consumer,       \* the coroutine Run
    held,           \* a derived server keeps a pointer to the session
    reported,       \* OnError has been called
    destructed      \* ~Session has run

acceptVars == <<acceptor, accepted, shutdown>>
tableVars == <<table, sessionCount, reported>>
socketVars == <<socket, peer, reading, writing, wire>>
sendVars == <<sendPending, sendBuffer, sendWaitQueue>>
eventVars == <<channel, events, consumer>>
sessionVars == <<acceptVars, tableVars, socketVars, sendVars, eventVars,
                 strand, submitted, held, destructed>>

Task(op) == [op |-> op, data |-> <<>>]
Posted(s, task) == [strand EXCEPT ![s] = Append(@, task)]

ServerInit ==
    /\ acceptor = "listening" /\ accepted = 0 /\ shutdown = "no"
    /\ table = {} /\ sessionCount = 0
    /\ socket = [s \in Session |-> "none"]
    /\ peer = [s \in Session |-> "none"]
    /\ strand = [s \in Session |-> <<>>]
    /\ reading = [s \in Session |-> FALSE]
    /\ writing = [s \in Session |-> FALSE]
    /\ sendPending = [s \in Session |-> FALSE]
    /\ sendBuffer = [s \in Session |-> <<>>]
    /\ sendWaitQueue = [s \in Session |-> <<>>]
    /\ submitted = [s \in Session |-> 0]
    /\ wire = [s \in Session |-> <<>>]
    /\ channel = [s \in Session |-> "Open"]
    /\ events = [s \in Session |-> <<>>]
    /\ consumer = [s \in Session |-> "none"]
    /\ held = [s \in Session |-> FALSE]
    /\ reported = [s \in Session |-> FALSE]
    /\ destructed = [s \in Session |-> FALSE]

-----------------------------------------------------------------------------
(* Accepting and shutting down *)

(* A connection comes in: the completion of async_accept is queued. *)
Connect ==
    /\ acceptor = "listening"
    /\ accepted < MaxSessions
    /\ acceptor' = "accepted"
    /\ accepted' = accepted + 1
    /\ socket' = [socket EXCEPT ![accepted + 1] = "open"]
    /\ peer' = [peer EXCEPT ![accepted + 1] = "up"]
    /\ UNCHANGED <<shutdown, tableVars, reading, writing, wire, sendVars,
                   eventVars, strand, submitted, held, destructed>>

(* HandleAccept up to StartReceive; OnAccept may keep the session. *)
AcceptSession ==
    /\ acceptor = "accepted"
    /\ acceptor' = "inserted"
    /\ table' = table \union {accepted}
    /\ sessionCount' = sessionCount + 1
    /\ \E keeps \in BOOLEAN : held' = [held EXCEPT ![accepted] = keeps]
    /\ strand' = Posted(accepted, Task("StartReceive"))
    /\ UNCHANGED <<accepted, shutdown, reported, socketVars, sendVars, eventVars,
                   submitted, destructed>>

(* The rest of HandleAccept, which posts Run, and the next AcceptAsync:    *)
(* the first read may complete in between.                                 *)
AcceptNext ==
    /\ acceptor = "inserted"
    /\ acceptor' = "listening"
    /\ strand' = Posted(accepted, Task("Run"))
    /\ UNCHANGED <<accepted, shutdown, tableVars, socketVars, sendVars, eventVars,
                   submitted, held, destructed>>

(* Shutdown cancels the accept operation; it cannot cancel one that has    *)
(* completed and whose handler will accept again.                          *)
CancelAccept ==
    /\ shutdown = "no"
    /\ shutdown' = "cancelled"
    /\ acceptor' = IF acceptor = "listening" THEN "aborted" ELSE acceptor
    /\ UNCHANGED <<accepted, tableVars, socketVars, sendVars, eventVars, strand,
                   submitted, held, destructed>>

CloseAll ==
    /\ shutdown = "cancelled"
    /\ shutdown' = "done"
    /\ strand' = [s \in Session |-> IF s \in table
                                    THEN Append(strand[s], Task("Close"))
                                    ELSE strand[s]]
    /\ UNCHANGED <<acceptor, accepted, tableVars, socketVars, sendVars, eventVars,
                   submitted, held, destructed>>

(* OnAccept with operation_aborted does not accept again. *)
AcceptAborted ==
    /\ acceptor = "aborted"
    /\ acceptor' = "stopped"
    /\ UNCHANGED <<accepted, shutdown, tableVars, socketVars, sendVars, eventVars,
                   strand, submitted, held, destructed>>

-----------------------------------------------------------------------------
(* The connection *)

(* Data arrives, or is the last that a peer who has left had sent. *)
ReadCompletes(s) ==
    /\ reading[s] /\ socket[s] = "open" /\ peer[s] \in {"up", "left"}
    /\ peer[s] = "up" => Len(events[s]) < MaxEvents
    /\ peer' = [peer EXCEPT ![s] = IF @ = "left" THEN "gone" ELSE @]
    /\ reading' = [reading EXCEPT ![s] = FALSE]
    /\ strand' = Posted(s, Task("ReadDone"))
    /\ UNCHANGED <<acceptVars, tableVars, socket, writing, wire, sendVars,
                   eventVars, submitted, held, destructed>>

(* The peer leaves; what it had sent may not have been read yet. *)
PeerLeaves(s) ==
    /\ peer[s] = "up"
    /\ \E p \in {"left", "gone"} : peer' = [peer EXCEPT ![s] = p]
    /\ UNCHANGED <<acceptVars, tableVars, socket, reading, writing, wire, sendVars,
                   eventVars, strand, submitted, held, destructed>>

ReadFails(s) ==
    /\ reading[s]
    /\ socket[s] = "closed" \/ peer[s] = "gone"
    /\ reading' = [reading EXCEPT ![s] = FALSE]
    /\ strand' = Posted(s, Task("ReadError"))
    /\ UNCHANGED <<acceptVars, tableVars, socket, peer, writing, wire, sendVars,
                   eventVars, submitted, held, destructed>>

(* async_write completes when all of the buffer is handed to TCP, which it *)
(* may be after the peer has gone.                                         *)
WriteCompletes(s) ==
    /\ writing[s] /\ socket[s] = "open"
    /\ writing' = [writing EXCEPT ![s] = FALSE]
    /\ wire' = [wire EXCEPT ![s] = @ \o sendBuffer[s]]
    /\ strand' = Posted(s, Task("WriteDone"))
    /\ UNCHANGED <<acceptVars, tableVars, socket, peer, reading, sendVars,
                   eventVars, submitted, held, destructed>>

(* What it had handed over is left out: nothing is written after it. *)
WriteFails(s) ==
    /\ writing[s]
    /\ socket[s] = "closed" \/ peer[s] # "up"
    /\ writing' = [writing EXCEPT ![s] = FALSE]
    /\ strand' = Posted(s, Task("WriteError"))
    /\ UNCHANGED <<acceptVars, tableVars, socket, peer, reading, wire, sendVars,
                   eventVars, submitted, held, destructed>>

-----------------------------------------------------------------------------
(* The strand of a session *)

(* A task starts when the one before it, with all that it resumed, is over. *)
Runs(s, op) ==
    /\ consumer[s] # "running"
    /\ strand[s] # <<>> /\ Head(strand[s]).op = op
Popped(s) == [strand EXCEPT ![s] = Tail(@)]

(* Session::StartReceive, ReceiveAsync *)
StartReceive(s) ==
    /\ Runs(s, "StartReceive")
    /\ strand' = Popped(s)
    /\ reading' = [reading EXCEPT ![s] = TRUE]
    /\ UNCHANGED <<acceptVars, tableVars, socket, peer, writing, wire, sendVars,
                   eventVars, submitted, held, destructed>>

(* Channel::Send with NotifyOne: a waiting Run is resumed at once. *)
MutantSilent(s) == consumer
Notified(s) == [consumer EXCEPT ![s] = IF @ = "waiting" THEN "running" ELSE @]

SendEvent(s, event) ==
    /\ events' = [events EXCEPT ![s] = Append(@, event)]
    /\ consumer' = Notified(s)
    /\ UNCHANGED channel

(* HandleReceive: the event, then the next read. *)
ReadDone(s) ==
    /\ Runs(s, "ReadDone")
    /\ strand' = Popped(s)
    /\ SendEvent(s, "Receive")
    /\ reading' = [reading EXCEPT ![s] = TRUE]
    /\ UNCHANGED <<acceptVars, tableVars, socket, peer, writing, wire, sendVars,
                   submitted, held, destructed>>

(* HandleError.  After a failed write _sendPending stays set. *)
IoFailed(s) ==
    /\ Runs(s, "ReadError") \/ Runs(s, "WriteError")
    /\ strand' = Popped(s)
    /\ SendEvent(s, "IoError")
    /\ UNCHANGED <<acceptVars, tableVars, socketVars, sendVars, submitted, held, destructed>>

(* SendAsync: a write takes at most MaxWrite bytes, the rest waits. *)
MutantJumpsQueue(queue, data) == <<data>> \o queue
Queued(queue, data) == Append(queue, data)

StartWrite(s, data) ==
    /\ sendPending' = [sendPending EXCEPT ![s] = TRUE]
    /\ sendBuffer' = [sendBuffer EXCEPT ![s] = SubSeq(data, 1, Min({MaxWrite, Len(data)}))]
    /\ sendWaitQueue' = [sendWaitQueue EXCEPT ![s] =
          IF Len(data) > MaxWrite THEN <<SubSeq(data, MaxWrite + 1, Len(data))>> ELSE <<>>]
    /\ writing' = [writing EXCEPT ![s] = TRUE]

SendAsync(s) ==
    /\ Runs(s, "Send")
    /\ strand' = Popped(s)
    /\ LET data == Head(strand[s]).data
       IN  \/ /\ sendPending[s]
              /\ sendWaitQueue' = [sendWaitQueue EXCEPT ![s] = Queued(@, data)]
              /\ UNCHANGED <<sendPending, sendBuffer, writing>>
           \/ ~sendPending[s] /\ StartWrite(s, data)
    /\ UNCHANGED <<acceptVars, tableVars, socket, peer, reading, wire, eventVars,
                   submitted, held, destructed>>

(* OnWriteAsync: all that has waited is merged into the next write. *)
OnWriteAsync(s) ==
    /\ Runs(s, "WriteDone")
    /\ strand' = Popped(s)
    /\ IF sendWaitQueue[s] = <<>>
       THEN /\ sendPending' = [sendPending EXCEPT ![s] = FALSE]
            /\ sendBuffer' = [sendBuffer EXCEPT ![s] = <<>>]
            /\ UNCHANGED <<sendWaitQueue, writing>>
       ELSE StartWrite(s, FlattenSeq(sendWaitQueue[s]))
    /\ UNCHANGED <<acceptVars, tableVars, socket, peer, reading, wire, eventVars,
                   submitted, held, destructed>>

(* Close: a Run that waits ends with AsyncEnumerableClosedException. *)
Close(s) ==
    /\ Runs(s, "Close")
    /\ strand' = Popped(s)
    /\ socket' = [socket EXCEPT ![s] = "closed"]
    /\ channel' = [channel EXCEPT ![s] = "Closed"]
    /\ consumer' = [consumer EXCEPT ![s] = IF @ = "waiting" THEN "ended" ELSE @]
    /\ UNCHANGED <<acceptVars, tableVars, peer, reading, writing, wire, sendVars,
                   events, submitted, held, destructed>>

(* Run begins, or goes on after the event that another thread has sent. *)
Resume(s) ==
    /\ Runs(s, "Run") \/ Runs(s, "Resume")
    /\ strand' = Popped(s)
    /\ consumer' = [consumer EXCEPT ![s] = "running"]
    /\ UNCHANGED <<acceptVars, tableVars, socketVars, sendVars, channel, events,
                   submitted, held, destructed>>

-----------------------------------------------------------------------------
(* The coroutine Run, on the same strand *)

(* No event is left: it waits, or finds the channel closed. *)
Wait(s) ==
    /\ consumer[s] = "running" /\ events[s] = <<>>
    /\ consumer' = [consumer EXCEPT ![s] = IF channel[s] = "Open" THEN "waiting" ELSE "ended"]
    /\ UNCHANGED <<acceptVars, tableVars, socketVars, sendVars, channel, events,
                   strand, submitted, held, destructed>>

Takes(s, event) ==
    /\ consumer[s] = "running"
    /\ events[s] # <<>> /\ Head(events[s]) = event
    /\ events' = [events EXCEPT ![s] = Tail(@)]

(* A second Close changes nothing and is left out. *)
Closing(s) ==
    socket[s] = "closed" \/ \E i \in DOMAIN strand[s] : strand[s][i].op = "Close"

MutantAnySession(s) == TRUE
FindSession(s) == s \in table

(* HandleSessionReceive, with what the OnReceive of a server may do. *)
OnReceive(s) ==
    /\ Takes(s, "Receive")
    /\ \/ UNCHANGED <<consumer, strand>>
       \/ /\ FindSession(s) /\ ~Closing(s)
          /\ strand' = Posted(s, Task("Close"))
          /\ UNCHANGED consumer
       \/ /\ FindSession(s) /\ HandlerThrows
          /\ consumer' = [consumer EXCEPT ![s] = "ended"]
          /\ UNCHANGED strand
    /\ UNCHANGED <<acceptVars, tableVars, socketVars, sendVars, channel, submitted, held, destructed>>

(* HandleSessionError: only the first error finds the session. *)
MutantKept(s) == table
Erased(s) == table \ {s}

OnError(s) ==
    /\ Takes(s, "IoError")
    /\ table' = Erased(s)
    /\ reported' = [reported EXCEPT ![s] = @ \/ FindSession(s)]
    /\ UNCHANGED <<acceptVars, sessionCount, socketVars, sendVars, channel, consumer,
                   strand, submitted, held, destructed>>

(* HandleSessionDestruct *)
OnDestruct(s) ==
    /\ Takes(s, "Destruct")
    /\ sessionCount' = sessionCount - 1
    /\ UNCHANGED <<acceptVars, table, reported, socketVars, sendVars, channel, consumer,
                   strand, submitted, held, destructed>>

-----------------------------------------------------------------------------
(* The derived servers, from any thread *)

(* Bound: none is given to a closed socket, on which the write would fail  *)
(* at once.                                                                *)
UserSend(s, size) ==
    /\ held[s] /\ ~Closing(s)
    /\ submitted[s] + size <= MaxBytes
    /\ strand' = Posted(s, [op |-> "Send",
                            data |-> [k \in 1 .. size |-> submitted[s] + k]])
    /\ submitted' = [submitted EXCEPT ![s] = @ + size]
    /\ UNCHANGED <<acceptVars, tableVars, socketVars, sendVars, eventVars, held, destructed>>

UserClose(s) ==
    /\ held[s]
    /\ ~Closing(s)
    /\ strand' = Posted(s, Task("Close"))
    /\ UNCHANGED <<acceptVars, tableVars, socketVars, sendVars, eventVars, submitted, held, destructed>>

UserDrops(s) ==
    /\ held[s]
    /\ held' = [held EXCEPT ![s] = FALSE]
    /\ UNCHANGED <<acceptVars, tableVars, socketVars, sendVars, eventVars, strand, submitted, destructed>>

(* The pointers to a session: in the table, in HandleAccept, in a derived  *)
(* server, in operations under way and in tasks.                           *)
Referenced(s) ==
    \/ s \in table
    \/ acceptor \in {"accepted", "inserted"} /\ s = accepted
    \/ held[s] \/ reading[s] \/ writing[s]
    \/ \E i \in DOMAIN strand[s] : strand[s][i].op \notin {"Run", "Resume"}

(* ~Session in the thread that drops the last pointer: its event resumes a *)
(* waiting Run through the strand.                                         *)
Destruct(s) ==
    /\ s <= accepted /\ ~destructed[s] /\ ~Referenced(s)
    /\ destructed' = [destructed EXCEPT ![s] = TRUE]
    /\ socket' = [socket EXCEPT ![s] = "closed"]
    /\ events' = [events EXCEPT ![s] = Append(@, "Destruct")]
    /\ IF consumer[s] = "waiting"
       THEN /\ consumer' = [consumer EXCEPT ![s] = "resuming"]
            /\ strand' = Posted(s, Task("Resume"))
       ELSE UNCHANGED <<consumer, strand>>
    /\ UNCHANGED <<acceptVars, tableVars, peer, reading, writing, wire, sendVars,
                   channel, submitted, held>>

-----------------------------------------------------------------------------

Accept == AcceptSession \/ AcceptNext \/ AcceptAborted
Strand(s) ==
    \/ StartReceive(s) \/ ReadDone(s) \/ IoFailed(s) \/ SendAsync(s) \/ OnWriteAsync(s)
    \/ Close(s) \/ Resume(s) \/ Wait(s) \/ OnReceive(s) \/ OnError(s) \/ OnDestruct(s)
User(s) == UserClose(s) \/ UserDrops(s) \/ \E size \in Sizes : UserSend(s, size)
Network(s) ==
    ReadCompletes(s) \/ PeerLeaves(s) \/ ReadFails(s) \/ WriteCompletes(s) \/ WriteFails(s)

ServerNext ==
    \/ Accept \/ Connect \/ CancelAccept \/ CloseAll
    \/ \E s \in Session : Strand(s) \/ Network(s) \/ User(s) \/ Destruct(s)

ServerSpec == ServerInit /\ [][ServerNext]_sessionVars

(* Asio completes every operation whose end of the connection is broken    *)
(* and every write, and runs what is posted.  No peer has to send or to    *)
(* leave, nobody has to close, and no derived server has to let go of a    *)
(* session: RPCServer never does.                                          *)
ServerFairness ==
    /\ WF_sessionVars(Accept)
    /\ \A s \in Session :
          /\ WF_sessionVars(Strand(s))
          /\ WF_sessionVars(ReadFails(s) \/ (peer[s] = "left" /\ ReadCompletes(s)))
          /\ WF_sessionVars(WriteCompletes(s) \/ WriteFails(s))
          /\ WF_sessionVars(Destruct(s))

FairSpec == ServerSpec /\ ServerFairness

-----------------------------------------------------------------------------
(* Properties *)

(* What the peer is sent is what was given to Send, in that order, nothing *)
(* twice, nothing skipped, however the buffers were queued behind a write, *)
(* merged and cut; and until a write fails, what is not on the wire yet is *)
(* still in the buffers of the session.                                    *)
Unsent(s) ==
    (IF writing[s] THEN sendBuffer[s] ELSE <<>>)
      \o FlattenSeq(sendWaitQueue[s])
      \o FlattenSeq([i \in DOMAIN strand[s] |-> strand[s][i].data])
SentInOrder ==
    \A s \in Session :
        LET all == [k \in 1 .. submitted[s] |-> k]
        IN  /\ IsPrefix(wire[s], all)
            /\ socket[s] = "open" /\ peer[s] = "up" => wire[s] \o Unsent(s) = all

(* After OnError a server hears nothing more of the session, although data *)
(* that was read before, and the error of the other direction, may come    *)
(* after the first error.                                                  *)
NothingAfterError ==
    [][\A s \in Session : reported[s] =>
          /\ reported'[s] /\ s \notin table'
          /\ events[s] # <<>> /\ Head(events[s]) = "Receive" /\ events'[s] = Tail(events[s]) =>
                UNCHANGED <<strand, consumer>>]_sessionVars

(* A connection that breaks is reported to the server, which then forgets  *)
(* the session - as long as the coroutine that would tell it is there.  It *)
(* is not after Session::Close (session.cpp:58 closes the event channel)   *)
(* or after a handler has thrown: such a session stays in _sessions.       *)
LossReported ==
    \A s \in Session :
        peer[s] # "up" /\ s \in table ~> s \notin table \/ consumer[s] = "ended"

(* A session that has been reported, and that no derived server keeps, is  *)
(* destroyed and counted off, unless it was also closed: no table, task or *)
(* operation of the network library keeps it alive for ever, and its last  *)
(* event wakes Run.  The login and the lobby server keep weak pointers and *)
(* the game server lets go when ProcessClientRemove returns; RPCServer     *)
(* keeps every session it has registered, and those are not counted off.   *)
CountedOff(s) == destructed[s] /\ "Destruct" \notin ToSet(events[s])
CountReturns ==
    \A s \in Session : reported[s] /\ ~held[s] ~> CountedOff(s) \/ consumer[s] = "ended"
=============================================================================
