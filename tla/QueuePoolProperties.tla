------------------------- MODULE QueuePoolProperties -------------------------
(***************************************************************************)
(* What the pool of QueuePool.tla promises, and what its documentation and *)
(* tests say of it.                                                        *)
(***************************************************************************)
EXTENDS QueuePool

-----------------------------------------------------------------------------
(* What becomes of a message.                                              *)

IsCall(m, p, n) == m # NoMsg /\ m.from = p /\ m.n = n

Queued(p, n) == {i \in DOMAIN queue : IsCall(queue[i], p, n)}
InHand(p, n) == IsCall(node, p, n)
Popped(p, n) == \E e \in log : IsCall(e.msg, p, n)

\* The message of the n-th call of p is in at most one place, once: the queue, the
\* consumer's node, or the record of what was popped; in one of them if it has returned.
InOnePlace(p, n) ==
    LET copies == Cardinality(Queued(p, n)) + (IF InHand(p, n) THEN 1 ELSE 0)
                                            + (IF Popped(p, n) THEN 1 ELSE 0)
    IN  copies <= 1 /\ (n <= sent[p] => copies = 1)

\* The message of every call of Enqueue that has returned is in exactly one place.  It
\* must hold whatever the consumer, a stop and the other producers do in between.
ExactlyOnce ==
    /\ repeated = {}
    /\ \A p \in Producers, n \in 1..MaxEnqueues : InOnePlace(p, n)

\* What was popped more than once is of a call that found the queue full.
RepeatsOverflowed == \A m \in repeated : <<m.from, m.n>> \in overflowed

\* On a queue that overflows, only a call that found it full and went into the overflow
\* wait may lose its message or send it twice.  Such calls of other producers, before or
\* at the same time, do no harm to one whose first push had a node, nor does a stop.
OverflowConfined ==
    /\ RepeatsOverflowed
    /\ \A p \in Producers, n \in 1..MaxEnqueues : <<p, n>> \notin overflowed => InOnePlace(p, n)

\* Dequeue finishes the messages of one producer in the order of its calls, the
\* copies that the overflow wait makes included.
DeliveryOrder ==
    [][ \A e \in log : node # NoMsg /\ node' = NoMsg /\ e.msg.from = node.from
                         => e.msg.n <= node.n ]_vars

\* A message goes only to a listener that somebody subscribed for its key.
RoutedToSubscriber ==
    \A e \in log : e.fate \in Listeners => <<e.msg.key, e.fate>> \in subscriptions

\* A message whose key had a listener before Enqueue was called is not dropped as
\* one of an unknown queue: Subscribe creates the queue of its key.
SubscribedNeverUnknown == \A e \in log : e.fate = "unknown" => ~e.msg.known

StopDrops == {e \in log : e.fate = "stopped"}

\* A stop discards at most the one message the consumer has in hand.
AtMostOneStopDrop == Cardinality(StopDrops) <= 1

\* Dequeue reads the key of its node, to look it up, only after a pop has filled it:
\* a wait that a stop has ended leaves it uninitialised.
NeverDispatchesEmptyNode == cpc \in {"lookup", "consume"} => node # NoMsg

\* The queue as the threads of the pool use it.
QueueStatus(t) ==
    IF t = Consumer
    THEN CASE cpc \in {"pop", "eval"} -> "popping"
           [] cpc \in {"popFree", "evalFree"} -> "freeing"
           [] OTHER -> "idle"
    ELSE CASE ppc[t] \in {"construct", "retry"} -> "pushing"
           [] ppc[t] \in {"link", "retryLink"} -> "holding"
           [] OTHER -> "idle"
QueueValue(t) == CASE QueueStatus(t) \in {"pushing", "holding"} -> msg[t]
                   [] QueueStatus(t) = "freeing" -> node
                   [] OTHER -> NoMsg

Bounded == INSTANCE BoundedQueue WITH
    Threads <- Producers \cup {Consumer}, Values <- Message, NoValue <- NoMsg,
    items <- queue, sawEmpty <- {},
    status <- [t \in Producers \cup {Consumer} |-> QueueStatus(t)],
    value <- [t \in Producers \cup {Consumer} |-> QueueValue(t)]

\* The pool relies on its lock-free queue for no more than a bounded FIFO gives that is
\* filled and emptied concurrently: the two halves of each push and pop, and a refusal
\* whenever the nodes in flight leave none.
UsesBoundedQueue == Bounded!Spec

-----------------------------------------------------------------------------
(* Sleeping and waking.  notify_one and notify_all are called without the  *)
(* mutex of the wait, so a notify can fall between the evaluation of the   *)
(* predicate and the sleep; these state that nothing else leaves a thread  *)
(* asleep that has something to do.                                        *)

Asleep == Consumer \in consume_waiters
InOverflowWait(p) == ppc[p] \in {"retry", "retryLink", "block", "blocked", "unlock"}

\* The consumer decides to sleep, or sleeps, on a queue with messages only if a
\* notify came too early, or a producer has its notify_one still to call: it is on
\* its way to it, or asleep itself in the overflow wait.
SleepHasCause ==
    /\ Asleep \/ cpc \in {"evalStop", "block"}
    /\ queue # <<>>
    => Consumer \in missed \/ \E p \in Producers : ppc[p] = "notify" \/ InOverflowWait(p)

\* The consumer sleeps through a stop only if notify_all came too early or is due.
StopWakesConsumer ==
    (Asleep \/ cpc = "block") /\ stop => Consumer \in missed \/ opc = "notifyStop"

\* The owner sleeps in WaitForConsumersFinished after the consumer has raised the
\* flag only if the notify_all of the event came too early or is due.
FinishWakesOwner ==
    (Owner \in event_waiters \/ opc = "eventBlock") /\ notify_flag
       => Owner \in missed \/ cpc = "notifyFinished"

-----------------------------------------------------------------------------
(* Stopping and deleting.                                                  *)

\* The pool was created with a SignConsumerFinished and is deleted only after its
\* thread has made its last use of it: the detached consumer outlives the pool by at
\* most the notification of the event, which is not a member of the pool.
ConsumerNeverOutlivesPool ==
    signature /\ ~alive => cpc \in {"notifyFinished", "done"}

\* Once StopProcessing has returned to its caller, with a SignConsumerFinished, no
\* message is popped, consumed or dropped, and no listener is looked up.
StopReturned == signature /\ stop /\ opc \in {"idle", "gone"}
QuietAfterStop == [][StopReturned => UNCHANGED <<node, listener, log, repeated>>]_vars

-----------------------------------------------------------------------------
(* Progress, up to the lost wakeups above.                                 *)

StalledConsumer == Asleep /\ (Consumer \in missed \/ \E p \in Producers : InOverflowWait(p))
StalledOwner    == Owner \in event_waiters /\ Owner \in missed

\* A queued message is taken, unless the pool is stopped or the wakeup was lost.
QueuedIsTaken ==
    \A p \in Producers, n \in 1..MaxEnqueues :
       Queued(p, n) # {} ~> Queued(p, n) = {} \/ stop \/ StalledConsumer

\* The consumer thread ends once stop is requested, unless the wakeup was lost.
StopEndsConsumer == stop ~> cpc = "done" \/ StalledConsumer

\* StopProcessing returns, unless one of its two wakeups was lost.
StopReturnsOrStalls == opc = "notifyStop" ~> opc \in {"idle", "gone"} \/ StalledConsumer
                                                                     \/ StalledOwner

-----------------------------------------------------------------------------
(* What the safety properties rest on: an invariant that is inductive.      *)

\* The consumer is counted from its start until it takes itself off.
Counted == cpc \notin {"start", "setFlag", "notifyFinished", "done"}
CounterInv == consumers_left = IF signature /\ Counted THEN 1 ELSE 0

\* Dequeue goes on without a message only if a stop has been requested.
NodeInv ==
    /\ cpc \in {"popFree", "evalFree", "lookup", "consume"} => node # NoMsg
    /\ cpc \in {"unlock", "check"} => node # NoMsg \/ stop
    /\ cpc = "consume" => listener # Null

\* A producer inside Enqueue has its message and has not used up its calls.
ProducerInv ==
    \A p \in Producers : ppc[p] # "idle" => msg[p] # NoMsg /\ sent[p] < MaxEnqueues

\* A waiter is at its wait.
WaitInv ==
    /\ Asleep => cpc = "blocked"
    /\ Owner \in event_waiters => opc = "eventBlocked"

\* The flag of the event is raised after the consumer's last use of the pool, and with
\* a SignConsumerFinished nobody returns from StopProcessing before that.
StopInv ==
    /\ opc # "idle" => stop
    /\ notify_flag => cpc \in {"notifyFinished", "done"}
    /\ signature /\ opc = "eventUnlock" => notify_flag
    /\ signature /\ stop /\ opc \in {"idle", "return", "gone"} => notify_flag
    /\ ~alive => opc = "gone"

IInv ==
    /\ TypeOK /\ CounterInv /\ NodeInv /\ ProducerInv /\ WaitInv /\ StopInv
    /\ SleepHasCause /\ StopWakesConsumer /\ FinishWakesOwner

\* What the map holds, and what the consumer found in it, has been subscribed.
RoutingInv ==
    /\ \A k \in Keys : map[k] \in Listeners => <<k, map[k]>> \in subscriptions
    /\ cpc = "consume" => <<node.key, listener>> \in subscriptions
    /\ RoutedToSubscriber

\* With the locked std::map, a key that was ever subscribed has a listener.
Subscribed(k) == \E l \in Listeners : <<k, l>> \in subscriptions
KnownIsSubscribed(m) == m # NoMsg /\ m.known => Subscribed(m.key)
KnownInv ==
    /\ \A k \in Keys : Subscribed(k) => map[k] \in Listeners
    /\ \A p \in Producers : KnownIsSubscribed(msg[p])
    /\ \A i \in DOMAIN queue : KnownIsSubscribed(queue[i])
    /\ KnownIsSubscribed(node)
    /\ SubscribedNeverUnknown

\* A message dropped at a stop is the last one: the thread is on its way out.
StopDropInv ==
    /\ StopDrops # {} => stop /\ cpc \in {"loop", "decrease", "setFlag", "notifyFinished", "done"}
    /\ \A e, f \in StopDrops : e = f

\* The node of a round of Dequeue has been finished before the next one pops.
NodeFinished ==
    cpc \notin {"popFree", "evalFree", "unlock", "check", "lookup", "consume"} => node = NoMsg

\* No push fails: the queue is the locked list, or it has a node for every call.
NeverFull == QueueTraits = "mutex" \/ Capacity >= Cardinality(Producers) * MaxEnqueues

\* The call of Enqueue that a producer is inside.  It has overflowed if it is in the
\* overflow wait, and not before its first push has failed; no later call has.
CallInv ==
    /\ \A p \in Producers :
          /\ ppc[p] # "idle" => msg[p].from = p /\ msg[p].n = sent[p] + 1
          /\ ppc[p] = "lock" \/ InOverflowWait(p) => <<p, sent[p] + 1>> \in overflowed
          /\ ppc[p] \in {"idle", "construct", "link"} => <<p, sent[p] + 1>> \notin overflowed
          /\ \A n \in 1..MaxEnqueues : n > sent[p] + 1 => <<p, n>> \notin overflowed
    /\ NeverFull => overflowed = {}

\* Two messages on their way, m ahead of o, are of different producers or come from
\* successive calls; only the overflow wait repeats one.
Before(m, o) ==
    m.from = o.from => m.n < o.n \/ (m.n = o.n /\ <<m.from, m.n>> \in overflowed)

\* The n-th call of p has returned, or is about to and has linked its message.  A call
\* that has overflowed may have linked it at any time.
Sent(p, n) ==
    \/ n <= sent[p]
    \/ n = sent[p] + 1 /\ (<<p, n>> \notin overflowed => ppc[p] = "notify")

\* Along the way of the messages, from the queue over the node to the log, the numbers of
\* one producer fall, and none is of a call yet to come.
OrderInv ==
    /\ \A i, j \in DOMAIN queue : i < j => Before(queue[i], queue[j])
    /\ node # NoMsg => \A i \in DOMAIN queue : Before(node, queue[i])
    /\ \A e \in log : /\ node # NoMsg => Before(e.msg, node)
                      /\ \A i \in DOMAIN queue : Before(e.msg, queue[i])
    /\ \A i \in DOMAIN queue : Sent(queue[i].from, queue[i].n)
    /\ node # NoMsg => Sent(node.from, node.n)
    /\ \A e \in log : Sent(e.msg.from, e.msg.n)

\* What has been sent by a call that found room is somewhere.
PlaceInv ==
    \A p \in Producers, n \in 1..MaxEnqueues :
       Sent(p, n) /\ <<p, n>> \notin overflowed => Queued(p, n) # {} \/ InHand(p, n) \/ Popped(p, n)

MessageInv == NodeFinished /\ CallInv /\ OrderInv /\ PlaceInv /\ RepeatsOverflowed

-----------------------------------------------------------------------------
(* What the documentation and the tests say, and the code does not do.     *)

\* QueuePool.h says a thread waits when the queue overflows: when Enqueue returns its
\* value has been put in the queue.
EnqueueAccepts ==
    \A p \in Producers :
       ppc[p] = "notify" => LET n == sent[p] + 1
                            IN  Queued(p, n) # {} \/ InHand(p, n) \/ Popped(p, n)

\* The value of one Enqueue is delivered once, also after a wait for capacity.
AcceptedOnce == repeated = {}

\* The tests write from N threads and consume, and stop a pool with an empty queue, and
\* count it a success that this does not hang: a consumer that sleeps is woken when there
\* is a message or a stop.
WorkWakesConsumer == Asleep /\ (queue # <<>> \/ stop) ~> ~Asleep
=============================================================================
