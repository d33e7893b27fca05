------------------------------ MODULE QueuePool ------------------------------
(***************************************************************************)
(* QueuePool.h: many logical queues, told apart by a key, carried by one   *)
(* queue of (key, value) nodes.  Producer threads call Enqueue, one        *)
(* detached consumer thread pops nodes and hands each to the listener      *)
(* subscribed for its key, and an owner thread subscribes listeners, stops *)
(* the pool and deletes it.                                                *)
(*                                                                         *)
(* A thread is a program counter; an action is the code between two points *)
(* at which another thread can interfere (an atomic, a mutex, a condition  *)
(* variable, the shared queue, the shared map).  The traits are constants: *)
(* QueueTraits "lockfree" is boost's fixed size queue, "mutex" the locked  *)
(* std::list; MapTraits "safe" is SafeUnorderedMap, "mutex" the locked     *)
(* std::map.                                                               *)
(***************************************************************************)
EXTENDS Naturals, Sequences, FiniteSets, ListenerMap

CONSTANTS Producers, Consumer, Owner,  \* the threads
          QueueTraits,                 \* the queue traits the pool is built with
          Capacity,                    \* TotalCapacity of the lock-free queue
          MaxEnqueues,                 \* bound: calls of Enqueue per producer
          NoMsg, NoThread

ASSUME ThreadsAssumption ==
    /\ IsFiniteSet(Producers)
    /\ Consumer \notin Producers /\ Owner \notin Producers
    /\ NoThread \notin Producers \cup {Consumer, Owner}
    /\ Consumer # Owner
ASSUME TraitsAssumption ==
    /\ QueueTraits \in {"lockfree", "mutex"}
    /\ Capacity \in Nat \ {0}
    /\ MaxEnqueues \in Nat
ASSUME FatesAssumption == {"unknown", "stopped"} \cap Listeners = {}

\* What one call of Enqueue sends: its key, who sends it, which of that thread's
\* calls it is, and (history) whether the key had been subscribed before the call.
Message == [key: Keys, from: Producers, n: 1..MaxEnqueues, known: BOOLEAN]
ASSUME NoMsgAssumption == NoMsg \notin Message

VARIABLES
    queue,            \* queue_: the messages linked into it
    stop,             \* stop_command_.stop_requested()
    alive,            \* the pool has not been deleted
    signature,        \* Create was given a SignConsumerFinished
    consumers_left, notify_flag,          \* its counter and its Event's flag
    cpc, node, listener,                  \* the consumer thread and its locals
    ppc, msg, sent,                       \* the producers, their argument, their calls so far
    opc, deleting,                        \* the owner; whether it is in ~QueuePool
    consume_mutex, consume_waiters,       \* condit_consume_mutex_, consume_condvar_
    enqueue_mutex, enqueue_waiters,       \* condit_enqueue_mutex_, enqueue_condvar_
    event_mutex, event_waiters,           \* the mutex and the condition variable of Event
    subscriptions,    \* history: the (key, listener) pairs Subscribe was called with
    overflowed,       \* history: the (producer, call) pairs that found the queue full
    log,              \* history: the popped messages with what became of each
    repeated,         \* history: the messages that were popped more than once
    missed            \* history: threads whose last sleep was decided before a notify

Consume == INSTANCE CondVar WITH mutex <- consume_mutex, waiters <- consume_waiters
Produce == INSTANCE CondVar WITH mutex <- enqueue_mutex, waiters <- enqueue_waiters
Finish  == INSTANCE CondVar WITH mutex <- event_mutex,   waiters <- event_waiters

consumerVars == <<cpc, node, listener>>
producerVars == <<ppc, msg, sent, overflowed>>
ownerVars    == <<opc, deleting, alive, stop, signature>>
finishVars   == <<consumers_left, notify_flag>>
consumeVars  == <<consume_mutex, consume_waiters>>
enqueueVars  == <<enqueue_mutex, enqueue_waiters>>
eventVars    == <<event_mutex, event_waiters>>
waitVars     == <<consumeVars, enqueueVars, eventVars>>
mapVars      == <<map, subscriptions>>
logVars      == <<log, repeated>>
vars == <<queue, mapVars, finishVars, consumerVars, producerVars, ownerVars, waitVars,
          logVars, missed>>

-----------------------------------------------------------------------------
(* The queue.  bounded_push takes a node from the freelist, fails if there  *)
(* is none, and then links it; pop unlinks a node and then gives it back.   *)
(* Nodes held between the two halves count against the capacity.           *)

Linking == {p \in Producers : ppc[p] \in {"link", "retryLink"}}
NodesInUse == Len(queue) + Cardinality(Linking)
                         + (IF cpc \in {"popFree", "evalFree"} THEN 1 ELSE 0)

\* [mutant] Counts the linked nodes only.
ExhaustedByLength == QueueTraits = "lockfree" /\ Len(queue) >= Capacity

Exhausted == QueueTraits = "lockfree" /\ NodesInUse >= Capacity

\* [mutants] The front is read and not removed; the newest node is taken.
DequeuePeek  == queue # <<>> /\ node' = Head(queue) /\ UNCHANGED queue
DequeueNewest ==
    /\ queue # <<>>
    /\ node' = queue[Len(queue)] /\ queue' = SubSeq(queue, 1, Len(queue) - 1)

\* Dequeue of the traits: has_value iff the queue is not empty.
DequeueHit  == queue # <<>> /\ node' = Head(queue) /\ queue' = Tail(queue)
DequeueMiss == queue = <<>> /\ UNCHANGED <<queue, node>>

-----------------------------------------------------------------------------
(* The map of listeners: the operations of ListenerMap, each one step.      *)

GetFromMap(k) == listener' = Found(k) /\ LookedUp(k)

-----------------------------------------------------------------------------
(* A notify that comes after its receiver has found its predicate false and *)
(* before it sleeps wakes nobody: the receiver is recorded in missed.       *)

NotifyConsumerMissed ==
    missed' = IF cpc \in {"evalStop", "block"} THEN missed \cup {Consumer} ELSE missed
NotifyOwnerMissed ==
    missed' = IF opc = "eventBlock" THEN missed \cup {Owner} ELSE missed

-----------------------------------------------------------------------------
(* The consumer thread: ConsumerThreadFunctionStatic.                      *)

CGoto(from, to) == cpc = from /\ cpc' = to

\* [mutant] The thread does not count itself.
CStartUncounted ==
    /\ CGoto("start", "loop") /\ UNCHANGED consumers_left
    /\ UNCHANGED <<queue, map, notify_flag, node, listener, waitVars, logVars, missed>>

\* GetStopToken of the new thread, then IncreaseConsumersLeft.
CStart ==
    /\ CGoto("start", "loop")
    /\ consumers_left' = IF signature THEN consumers_left + 1 ELSE consumers_left
    /\ UNCHANGED <<queue, map, notify_flag, node, listener, waitVars, logVars, missed>>

\* [mutant] The loop does not look at the stop token.
CLoopForever ==
    /\ CGoto("loop", "pop")
    /\ UNCHANGED <<queue, map, finishVars, node, listener, waitVars, logVars, missed>>

\* The head of the loop of ConsumerThreadFunction.
CLoop ==
    /\ CGoto("loop", IF stop THEN "decrease" ELSE "pop")
    /\ UNCHANGED <<queue, map, finishVars, node, listener, waitVars, logVars, missed>>

\* Dequeue's first attempt, without the mutex.
CPop ==
    /\ \/ DequeueHit  /\ CGoto("pop", "popFree")
       \/ DequeueMiss /\ CGoto("pop", "lock")
    /\ UNCHANGED <<map, finishVars, listener, waitVars, logVars, missed>>

\* The node goes back to the freelist, in either attempt.
CFree ==
    /\ CGoto("popFree", "check") \/ CGoto("evalFree", "unlock")
    /\ UNCHANGED <<queue, map, finishVars, node, listener, waitVars, logVars, missed>>

\* [mutant] The predicate does not try the queue again under the mutex.
CLockNoRecheck ==
    /\ \/ CGoto("lock", "evalStop")    /\ Consume!Lock(Consumer)
       \/ CGoto("blocked", "eval") /\ Consume!Relock(Consumer)
    /\ UNCHANGED <<queue, map, finishVars, node, listener, enqueueVars, eventVars, logVars, missed>>

\* unique_lock on condit_consume_mutex_, and its re-acquisition inside wait.
CLock ==
    /\ \/ CGoto("lock", "eval")    /\ Consume!Lock(Consumer)
       \/ CGoto("blocked", "eval") /\ Consume!Relock(Consumer)
    /\ UNCHANGED <<queue, map, finishVars, node, listener, enqueueVars, eventVars, logVars, missed>>

\* The wait predicate, first half: has_value = Traits::Dequeue(...).
CEval ==
    /\ \/ DequeueHit  /\ CGoto("eval", "evalFree")
       \/ DequeueMiss /\ CGoto("eval", "evalStop")
    /\ missed' = missed \ {Consumer}
    /\ UNCHANGED <<map, finishVars, listener, waitVars, logVars>>

\* [mutant] The predicate is has_value alone.
CEvalNoStop ==
    /\ CGoto("evalStop", "block")
    /\ UNCHANGED <<queue, map, finishVars, node, listener, waitVars, logVars, missed>>

\* The wait predicate, second half: || stop_token.stop_requested().
CEvalStop ==
    /\ CGoto("evalStop", IF stop THEN "unlock" ELSE "block")
    /\ UNCHANGED <<queue, map, finishVars, node, listener, waitVars, logVars, missed>>

\* The predicate was false: wait(lock).
CBlock ==
    /\ CGoto("block", "blocked") /\ Consume!Block(Consumer)
    /\ UNCHANGED <<queue, map, finishVars, node, listener, enqueueVars, eventVars, logVars, missed>>

CUnlock ==
    /\ CGoto("unlock", "check") /\ Consume!Unlock(Consumer)
    /\ UNCHANGED <<queue, map, finishVars, node, listener, enqueueVars, eventVars, logVars, missed>>

\* The node leaves Dequeue's scope; fate is a listener, "unknown" or "stopped".
Finished(fate) ==
    /\ log' = log \cup {[msg |-> node, fate |-> fate]}
    /\ repeated' = IF \E e \in log : e.msg = node THEN repeated \cup {node} ELSE repeated
    /\ node' = NoMsg

\* [mutant] No return after a wait that a stop has ended.
CCheckNothing ==
    /\ CGoto("check", "lookup")
    /\ UNCHANGED <<queue, map, finishVars, node, listener, waitVars, logVars, missed>>

\* After the wait: if stop was requested return, even with a message in hand.
CCheck ==
    /\ \/ ~stop /\ CGoto("check", "lookup") /\ UNCHANGED <<node, logVars>>
       \/ /\ stop /\ CGoto("check", "loop")
          /\ IF node = NoMsg THEN UNCHANGED <<node, logVars>> ELSE Finished("stopped")
    /\ UNCHANGED <<queue, map, finishVars, listener, waitVars, missed>>

\* GetFromMap; without a listener the message is reported and dropped.
CLookup ==
    /\ cpc = "lookup" /\ GetFromMap(node.key)
    /\ \/ listener' # Null /\ cpc' = "consume" /\ UNCHANGED <<node, logVars>>
       \/ listener' = Null /\ cpc' = "loop" /\ Finished("unknown")
    /\ UNCHANGED <<queue, finishVars, waitVars, missed>>

\* listener->Consume(node.key, value).
CConsume ==
    /\ CGoto("consume", "notifyCapacity") /\ Finished(listener)
    /\ UNCHANGED <<queue, map, finishVars, listener, waitVars, missed>>

\* StartEndCapacityEvent.
CNotifyCapacity ==
    /\ CGoto("notifyCapacity", "loop") /\ Produce!NotifyOne
    /\ UNCHANGED <<queue, map, finishVars, node, listener, consumeVars, eventVars, logVars, missed>>

\* DecreaseConsumersLeft: the counter, then the flag of the event if it is 0, ...
CDecrease ==
    /\ \/ ~signature /\ CGoto("decrease", "done") /\ UNCHANGED consumers_left
       \/ /\ signature /\ consumers_left' = consumers_left - 1
          /\ CGoto("decrease", IF consumers_left' = 0 THEN "setFlag" ELSE "done")
    /\ UNCHANGED <<queue, map, notify_flag, node, listener, waitVars, logVars, missed>>

CSetFlag ==
    /\ CGoto("setFlag", "notifyFinished") /\ notify_flag' = TRUE
    /\ UNCHANGED <<queue, map, consumers_left, node, listener, waitVars, logVars, missed>>

\* ... then the notification.
CNotifyFinished ==
    /\ CGoto("notifyFinished", "done") /\ Finish!NotifyAll /\ NotifyOwnerMissed
    /\ UNCHANGED <<queue, map, finishVars, node, listener, consumeVars, enqueueVars, logVars>>

ConsumerStep ==
    /\ \/ CStart \/ CLoop \/ CPop \/ CFree \/ CLock \/ CEval \/ CEvalStop \/ CBlock \/ CUnlock
       \/ CCheck \/ CLookup \/ CConsume \/ CNotifyCapacity \/ CDecrease \/ CSetFlag
       \/ CNotifyFinished
    /\ UNCHANGED <<producerVars, ownerVars, subscriptions>>

-----------------------------------------------------------------------------
(* Enqueue, called by producer p.                                          *)

PGoto(p, from, to) == ppc[p] = from /\ ppc' = [ppc EXCEPT ![p] = to]

\* The call.
Enqueue(p, k) ==
    /\ sent[p] < MaxEnqueues
    /\ PGoto(p, "idle", "construct")
    /\ msg' = [msg EXCEPT ![p] = [key |-> k, from |-> p, n |-> sent[p] + 1,
                                  known |-> \E l \in Listeners : <<k, l>> \in subscriptions]]
    /\ UNCHANGED <<queue, sent, overflowed, consumeVars, enqueueVars, missed>>

\* [mutant] Enqueue does not look at what the first Traits::Enqueue returns.
PConstructUnchecked(p) ==
    /\ PGoto(p, "construct", IF Exhausted THEN "notify" ELSE "link")
    /\ UNCHANGED <<queue, msg, sent, overflowed, consumeVars, enqueueVars, missed>>

\* The first Traits::Enqueue: it has a node, or it fails and the slow path begins.
PConstruct(p) ==
    /\ PGoto(p, "construct", IF Exhausted THEN "lock" ELSE "link")
    /\ overflowed' = IF Exhausted THEN overflowed \cup {<<p, sent[p] + 1>>} ELSE overflowed
    /\ UNCHANGED <<queue, msg, sent, consumeVars, enqueueVars, missed>>

\* The value enters the queue.  In the slow path Traits::Enqueue has succeeded,
\* its negation makes the wait predicate false, and the producer goes to sleep.
PLink(p) ==
    /\ PGoto(p, "link", "notify") \/ PGoto(p, "retryLink", "block")
    /\ queue' = Append(queue, msg[p])
    /\ UNCHANGED <<msg, sent, overflowed, consumeVars, enqueueVars, missed>>

\* unique_lock on condit_enqueue_mutex_, and its re-acquisition inside wait.
PLock(p) ==
    /\ \/ PGoto(p, "lock", "retry")    /\ Produce!Lock(p)
       \/ PGoto(p, "blocked", "retry") /\ Produce!Relock(p)
    /\ UNCHANGED <<queue, msg, sent, overflowed, consumeVars, missed>>

\* The wait predicate !Traits::Enqueue(...): true, and the wait over, if it fails.
PRetry(p) ==
    /\ PGoto(p, "retry", IF Exhausted THEN "unlock" ELSE "retryLink")
    /\ UNCHANGED <<queue, msg, sent, overflowed, consumeVars, enqueueVars, missed>>

PBlock(p) ==
    /\ PGoto(p, "block", "blocked") /\ Produce!Block(p)
    /\ UNCHANGED <<queue, msg, sent, overflowed, consumeVars, missed>>

PUnlock(p) ==
    /\ PGoto(p, "unlock", "notify") /\ Produce!Unlock(p)
    /\ UNCHANGED <<queue, msg, sent, overflowed, consumeVars, missed>>

\* StartHasValueEvent, and the return of Enqueue.
PNotify(p) ==
    /\ PGoto(p, "notify", "idle") /\ Consume!NotifyOne /\ NotifyConsumerMissed
    /\ msg' = [msg EXCEPT ![p] = NoMsg]
    /\ sent' = [sent EXCEPT ![p] = @ + 1]
    /\ UNCHANGED <<queue, overflowed, enqueueVars>>

producerFrame == <<mapVars, finishVars, consumerVars, ownerVars, eventVars, logVars>>

ProducerStep(p) ==
    /\ \/ PConstruct(p) \/ PLink(p) \/ PLock(p) \/ PRetry(p) \/ PBlock(p) \/ PUnlock(p)
       \/ PNotify(p)
    /\ UNCHANGED producerFrame

-----------------------------------------------------------------------------
(* The owner: Subscribe, StopProcessing and the destructor.                *)

OGoto(from, to) == opc = from /\ opc' = to

Subscribe(k, l) ==
    /\ opc = "idle"
    /\ AddToMap(k, l)
    /\ subscriptions' = subscriptions \cup {<<k, l>>}
    /\ UNCHANGED <<stop, opc, deleting, alive, waitVars, missed>>

\* StopProcessing, by itself or from ~QueuePool (d); first request_stop.
StopProcessing(d) ==
    /\ OGoto("idle", "notifyStop")
    /\ stop' = TRUE /\ deleting' = d
    /\ UNCHANGED <<mapVars, alive, waitVars, missed>>

\* [mutant] StopProcessing does not wait.
ONotifyStopAndReturn ==
    /\ OGoto("notifyStop", "return")
    /\ Consume!NotifyAll /\ NotifyConsumerMissed
    /\ UNCHANGED <<mapVars, stop, deleting, alive, enqueueVars, eventVars>>

\* StartDestructEvent.
ONotifyStop ==
    /\ OGoto("notifyStop", IF signature THEN "eventLock" ELSE "return")
    /\ Consume!NotifyAll /\ NotifyConsumerMissed
    /\ UNCHANGED <<mapVars, stop, deleting, alive, enqueueVars, eventVars>>

\* WaitForConsumersFinished is Event::Wait.
OEventLock ==
    /\ \/ OGoto("eventLock", "eventEval")    /\ Finish!Lock(Owner)
       \/ OGoto("eventBlocked", "eventEval") /\ Finish!Relock(Owner)
    /\ UNCHANGED <<mapVars, stop, deleting, alive, consumeVars, enqueueVars, missed>>

\* [mutant] The wait has no flag to look at.
OEventEvalNoFlag ==
    /\ OGoto("eventEval", "eventBlock")
    /\ missed' = missed \ {Owner}
    /\ UNCHANGED <<mapVars, stop, deleting, alive, waitVars>>

OEventEval ==
    /\ OGoto("eventEval", IF notify_flag THEN "eventUnlock" ELSE "eventBlock")
    /\ missed' = missed \ {Owner}
    /\ UNCHANGED <<mapVars, stop, deleting, alive, waitVars>>

OEventBlock ==
    /\ OGoto("eventBlock", "eventBlocked") /\ Finish!Block(Owner)
    /\ UNCHANGED <<mapVars, stop, deleting, alive, consumeVars, enqueueVars, missed>>

OEventUnlock ==
    /\ OGoto("eventUnlock", "return") /\ Finish!Unlock(Owner)
    /\ UNCHANGED <<mapVars, stop, deleting, alive, consumeVars, enqueueVars, missed>>

\* StopProcessing returns; in ~QueuePool the members are then destroyed.
OReturn ==
    /\ OGoto("return", IF deleting THEN "gone" ELSE "idle")
    /\ alive' = ~deleting
    /\ UNCHANGED <<mapVars, stop, deleting, waitVars, missed>>

ownerFrame == <<queue, signature, finishVars, consumerVars, producerVars, logVars>>

OwnerStep ==
    /\ ONotifyStop \/ OEventLock \/ OEventEval \/ OEventBlock \/ OEventUnlock \/ OReturn
    /\ UNCHANGED ownerFrame

-----------------------------------------------------------------------------
\* Create: the thread is started and detached, and has not run yet.
Init ==
    /\ queue = <<>> /\ map = [k \in Keys |-> Absent] /\ stop = FALSE /\ alive = TRUE
    /\ signature \in BOOLEAN /\ consumers_left = 0 /\ notify_flag = FALSE
    /\ cpc = "start" /\ node = NoMsg /\ listener = Null
    /\ ppc = [p \in Producers |-> "idle"] /\ msg = [p \in Producers |-> NoMsg]
    /\ sent = [p \in Producers |-> 0]
    /\ opc = "idle" /\ deleting = FALSE
    /\ consume_mutex = NoThread /\ consume_waiters = {}
    /\ enqueue_mutex = NoThread /\ enqueue_waiters = {}
    /\ event_mutex = NoThread /\ event_waiters = {}
    /\ subscriptions = {} /\ overflowed = {} /\ log = {} /\ repeated = {} /\ missed = {}

\* What the users of the pool may call.  The pool is deleted only when no producer is
\* inside Enqueue, and then no longer used.
Call ==
    \/ ~deleting /\ (\E p \in Producers, k \in Keys : Enqueue(p, k)) /\ UNCHANGED producerFrame
    \/ (\E k \in Keys, l \in Listeners : Subscribe(k, l)) /\ UNCHANGED ownerFrame
    \/ /\ \E d \in BOOLEAN : /\ d => \A p \in Producers : ppc[p] = "idle"
                             /\ StopProcessing(d)
       /\ UNCHANGED ownerFrame

\* A sleeper wakes without having been notified.
Spurious ==
    /\ \/ Consume!SpuriousWakeup(Consumer) /\ UNCHANGED <<enqueueVars, eventVars>>
       \/ Finish!SpuriousWakeup(Owner) /\ UNCHANGED <<consumeVars, enqueueVars>>
       \/ (\E p \in Producers : Produce!SpuriousWakeup(p)) /\ UNCHANGED <<consumeVars, eventVars>>
    /\ UNCHANGED <<queue, mapVars, finishVars, consumerVars, producerVars, ownerVars, logVars, missed>>

Next == ConsumerStep \/ OwnerStep \/ (\E p \in Producers : ProducerStep(p)) \/ Call \/ Spurious

Spec == Init /\ [][Next]_vars

\* Every thread that is inside the code of the pool keeps running; calls and
\* spurious wakeups need never come.
Fairness ==
    /\ WF_vars(ConsumerStep)
    /\ WF_vars(OwnerStep)
    /\ \A p \in Producers : WF_vars(ProducerStep(p))

FairSpec == Spec /\ Fairness

-----------------------------------------------------------------------------
ConsumerPC == {"start", "loop", "pop", "popFree", "lock", "eval", "evalFree", "evalStop",
               "block", "blocked", "unlock", "check", "lookup", "consume", "notifyCapacity",
               "decrease", "setFlag", "notifyFinished", "done"}
ProducerPC == {"idle", "construct", "link", "lock", "retry", "retryLink", "block", "blocked",
               "unlock", "notify"}
OwnerPC == {"idle", "notifyStop", "eventLock", "eventEval", "eventBlock", "eventBlocked",
            "eventUnlock", "return", "gone"}
Fate == Listeners \cup {"unknown", "stopped"}

\* Every variable has its type; each condition variable is waited on only by the
\* threads that may wait on it.
TypeOK ==
    /\ queue \in Seq(Message)
    /\ map \in [Keys -> Entries]
    /\ stop \in BOOLEAN /\ alive \in BOOLEAN /\ signature \in BOOLEAN /\ notify_flag \in BOOLEAN
    /\ consumers_left \in {0, 1}
    /\ cpc \in ConsumerPC /\ node \in Message \cup {NoMsg} /\ listener \in Listeners \cup {Null}
    /\ ppc \in [Producers -> ProducerPC]
    /\ msg \in [Producers -> Message \cup {NoMsg}]
    /\ sent \in [Producers -> 0..MaxEnqueues]
    /\ opc \in OwnerPC /\ deleting \in BOOLEAN
    /\ consume_mutex \in {NoThread, Consumer} /\ consume_waiters \subseteq {Consumer}
    /\ enqueue_mutex \in Producers \cup {NoThread} /\ enqueue_waiters \subseteq Producers
    /\ event_mutex \in {NoThread, Owner} /\ event_waiters \subseteq {Owner}
    /\ subscriptions \subseteq Keys \X Listeners
    /\ overflowed \subseteq Producers \X (1..MaxEnqueues)
    /\ log \subseteq [msg: Message, fate: Fate] /\ repeated \subseteq Message
    /\ missed \subseteq {Consumer, Owner}
=============================================================================
