--------------------------- MODULE AsyncEnumerable ---------------------------
(***************************************************************************)
(* A channel (shared/execution/channel/impl/mpmc_channel.h) and the        *)
(* coroutine that consumes it with co_await (async_enumerable.h).  Every   *)
(* stream of the servers is one of these: the events of a session, the     *)
(* packets of a session state machine, the commands between a game server  *)
(* and the coordination service, and the streaming remote calls.           *)
(*                                                                         *)
(* Producers are any threads.  The consumer is one coroutine, as in every  *)
(* use of the code, that runs                                              *)
(*     while (enumerable.HasNext()) { item = co_await enumerable; ... }    *)
(* An action is one section under _mutex or one access to _status: between *)
(* two of them any thread may step in.                                     *)
(*                                                                         *)
(* An operator named Mutant... is the operator that follows it with a      *)
(* plausible mistake in it; no action uses one.                            *)
(***************************************************************************)
EXTENDS Integers, Sequences, FiniteSets, SequencesExt

CONSTANTS
    Producers,   \* threads that send to the channel or close it
    MaxSends     \* bound: items one producer sends

ASSUME MaxSendsAssumption == MaxSends \in Nat

VARIABLES
    status,      \* _status
    items,       \* _items
    consumer,    \* where the consumer is
    producer,    \* where each producer is
    sent,        \* how many items each producer has sent
    received     \* the items co_await has given to the consumer, or thrown

vars == <<status, items, consumer, producer, sent, received>>

(* An item is a value or an exception_ptr. *)
Item == [by : Producers, n : Nat \ {0}, error : BOOLEAN]
NewItem(p, k, error) == [by |-> p, n |-> sent[p] + k, error |-> error]

(*  loop      before HasNext, or in the body of the loop                   *)
(*  take      before TrySetCurrent: in await_ready or in the lambda that a *)
(*            signal handler has dispatched to the consumer's executor     *)
(*  test      TrySetCurrent has failed; before IsClosed                    *)
(*  register  before AddOrExecuteSignalHandler                             *)
(*  waiting   suspended, its handler in _signalHandlers                    *)
(*  ended     HasNext was false: the loop is over                          *)
(*  thrown    an exception has left the loop                               *)
ConsumerAt == {"loop", "take", "test", "register", "waiting", "ended", "thrown"}

(*  open      not in a call                                                *)
(*  throwing  in unhandled_exception, between Send and Close               *)
(*  closing   in Close, between the exchange of _status and NotifyAll      *)
(*  finished  its Close has returned                                       *)
ProducerAt == {"open", "throwing", "closing", "finished"}

Left == consumer \in {"ended", "thrown"}

Init ==
    /\ status = "Open"
    /\ items = <<>>
    /\ consumer = "loop"
    /\ producer = [p \in Producers |-> "open"]
    /\ sent = [p \in Producers |-> 0]
    /\ received = <<>>

-----------------------------------------------------------------------------
(* Producers *)

(* NotifyOne and NotifyAll: a stored handler is taken out under the lock   *)
(* and called; it dispatches the consumer's next try.                      *)
MutantKeepsHandler == consumer
Notified == IF consumer = "waiting" THEN "take" ELSE consumer

Push(new) == items' = items \o new

(* Send and yield_value with ChannelSignal::NotifyOne: a value, a range of *)
(* values, or the exception of a failed remote call.                       *)
Send(p, new) ==
    /\ producer[p] = "open"
    /\ sent[p] + Len(new) <= MaxSends
    /\ Push(new)
    /\ sent' = [sent EXCEPT ![p] = @ + Len(new)]
    /\ consumer' = Notified
    /\ UNCHANGED <<status, producer, received>>

SendValue(p) == Send(p, <<NewItem(p, 1, FALSE)>>)
SendRange(p) == Send(p, <<NewItem(p, 1, FALSE), NewItem(p, 2, FALSE)>>)
SendError(p) == Send(p, <<NewItem(p, 1, TRUE)>>)

(* unhandled_exception sends with ChannelSignal::None, then closes. *)
Throw(p) ==
    /\ producer[p] = "open"
    /\ sent[p] < MaxSends
    /\ Push(<<NewItem(p, 1, TRUE)>>)
    /\ sent' = [sent EXCEPT ![p] = @ + 1]
    /\ producer' = [producer EXCEPT ![p] = "throwing"]
    /\ UNCHANGED <<status, consumer, received>>

(* The compare_exchange of Close: only the call that closes notifies. *)
Close(p) ==
    /\ producer[p] \in {"open", "throwing"}
    /\ status' = "Closed"
    /\ producer' = [producer EXCEPT ![p] = IF status = "Open" THEN "closing" ELSE "finished"]
    /\ UNCHANGED <<items, consumer, sent, received>>

MutantForgetsToNotify == consumer
ClosedNotified == Notified

NotifyAll(p) ==
    /\ producer[p] = "closing"
    /\ consumer' = ClosedNotified
    /\ producer' = [producer EXCEPT ![p] = "finished"]
    /\ UNCHANGED <<status, items, sent, received>>

-----------------------------------------------------------------------------
(* The consumer *)

HasNext == status = "Open" \/ items # <<>>

Continue ==
    /\ consumer = "loop"
    /\ consumer' = IF HasNext THEN "take" ELSE "ended"
    /\ UNCHANGED <<status, items, producer, sent, received>>

(* Where an exception thrown by co_await takes the consumer: a             *)
(* CommandChannelRunner catches it and goes on, the state machines of the  *)
(* sessions and the streams of RPCClient have their try around the loop,   *)
(* and leave an item that has come with the close.                         *)
AfterThrow == {"loop", "thrown"}

MutantPopsTwo(q) == SubSeq(q, 3, Len(q))
Pop(q) == Tail(q)

(* TrySetCurrent, with await_resume when there is an item. *)
TrySetCurrent ==
    /\ consumer = "take"
    /\ IF items = <<>>
       THEN /\ consumer' = "test"
            /\ UNCHANGED <<items, received>>
       ELSE /\ received' = Append(received, Head(items))
            /\ items' = Pop(items)
            /\ consumer' \in IF Head(items).error THEN AfterThrow ELSE {"loop"}
    /\ UNCHANGED <<status, producer, sent>>

(* IsClosed after a failed TrySetCurrent: await_resume finds no item and   *)
(* throws AsyncEnumerableClosedException, or the coroutine suspends.       *)
TestClosed ==
    /\ consumer = "test"
    /\ consumer' \in IF status = "Closed" THEN AfterThrow ELSE {"register"}
    /\ UNCHANGED <<status, items, producer, sent, received>>

MayWait == status = "Open" /\ items = <<>>

(* AddOrExecuteSignalHandler. *)
Register ==
    /\ consumer = "register"
    /\ consumer' = IF MayWait THEN "waiting" ELSE "take"
    /\ UNCHANGED <<status, items, producer, sent, received>>

-----------------------------------------------------------------------------

ProducerStep(p) ==
    \/ SendValue(p) \/ SendRange(p) \/ SendError(p)
    \/ Throw(p) \/ Close(p) \/ NotifyAll(p)

ConsumerStep == Continue \/ TrySetCurrent \/ TestClosed \/ Register

Next == ConsumerStep \/ \E p \in Producers : ProducerStep(p)

Spec == Init /\ [][Next]_vars

(* The consumer's executor runs what is posted to it and the body of the   *)
(* loop returns; a thread inside of a call goes on.  Nobody has to send    *)
(* another item or to close.                                               *)
Fairness ==
    /\ WF_vars(ConsumerStep)
    /\ \A p \in Producers :
          /\ WF_vars(producer[p] = "throwing" /\ Close(p))
          /\ WF_vars(NotifyAll(p))

FairSpec == Spec /\ Fairness

-----------------------------------------------------------------------------
(* Properties *)

TypeOK ==
    /\ status \in {"Open", "Closed"}
    /\ items \in Seq(Item)
    /\ consumer \in ConsumerAt
    /\ producer \in [Producers -> ProducerAt]
    /\ sent \in [Producers -> Nat]
    /\ received \in Seq(Item)

(* No lost wake-up.  The consumer is suspended beside an item only while a *)
(* producer that will still notify is inside of its call, although an item *)
(* can arrive between every two steps the consumer takes to suspend.       *)
NoLostWakeup ==
    consumer = "waiting" /\ items # <<>> =>
        \E p \in Producers : producer[p] \in {"throwing", "closing"}

(* No lost close.  The consumer is suspended on a closed channel only      *)
(* while the call that closed it has not notified yet.                     *)
NoLostClose ==
    consumer = "waiting" /\ status = "Closed" =>
        \E p \in Producers : producer[p] = "closing"

(* Received and queued items are together exactly what was sent: each      *)
(* producer's items in the order it sent them, none twice, none missing.   *)
Ascending(q) == \A i, j \in DOMAIN q : i < j /\ q[i].by = q[j].by => q[i].n < q[j].n
Complete(q) ==
    \A p \in Producers :
        {q[i].n : i \in {j \in DOMAIN q : q[j].by = p}} = 1 .. sent[p]
InOrder == Ascending(received \o items) /\ Complete(received \o items)

(* Every item sent reaches the consumer, unless the consumer has left. *)
EveryItemReceived ==
    \A k \in 1 .. MaxSends * Cardinality(Producers) :
        Len(received) + Len(items) >= k ~> Len(received) >= k \/ Left

(* Once the channel is closed the consumer comes to its end. *)
CloseEndsConsumer == status = "Closed" ~> Left

(* The inductive invariant of the proofs. *)
Quiet == consumer = "waiting" /\ \A p \in Producers : producer[p] # "closing"
IndInv ==
    /\ TypeOK
    /\ NoLostClose
    /\ Quiet /\ items # <<>> => \E p \in Producers : producer[p] = "throwing"
=============================================================================
