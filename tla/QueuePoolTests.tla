--------------------------- MODULE QueuePoolTests ---------------------------
(***************************************************************************)
(* The programs of QueuePoolTests.cpp on the pool of QueuePool.tla.  The   *)
(* owner is the thread of the test.  In Test000 it subscribes a listener   *)
(* per queue and starts a detached thread per queue, which fills it; in    *)
(* Test004 and Test008 it fills the queues itself, and then subscribes.    *)
(* A listener counts what it consumes and raises stop_event at the final   *)
(* count; the test waits for that, stops the pool and deletes it.          *)
(***************************************************************************)
EXTENDS QueuePoolProperties

CONSTANTS Tests,                             \* the tests to run, one per behaviour
          ThreadSeq, KeySeq, ListenerSeq     \* the threads, the queue and the listener of each

Ids == 1..Len(KeySeq)

ASSUME TestsAssumption ==
    /\ Tests \subseteq {"Test000", "Test004", "Test008"}
    /\ KeySeq \in Seq(Keys) /\ KeySeq # <<>>
    /\ ThreadSeq \in [Ids -> Producers] /\ ListenerSeq \in [Ids -> Listeners]
    /\ \A i, j \in Ids : ThreadSeq[i] = ThreadSeq[j] => i = j
    /\ MaxEnqueues >= Len(KeySeq)

Script == [Test000 |-> <<"subscribe", "start", "wait", "stop", "finish", "destroy">>,
           Test004 |-> <<"enqueue", "subscribe", "wait", "stop", "finish", "destroy">>,
           Test008 |-> <<"enqueue", "subscribe", "wait", "destroy", "finish">>]

VARIABLES
    test, step, id,         \* the test, its statement, the counter of that statement's loop
    result_counter,         \* result_counter_
    apc,                    \* the consumer inside the listener's Consume
    wpc, stop_flag, stop_mutex, stop_waiters,    \* the wait for stop_event, and stop_event
    counting                \* the threads that have ++counter still to do

StopEvent == INSTANCE CondVar WITH mutex <- stop_mutex, waiters <- stop_waiters

programVars == <<test, step, id>>
stopVars    == <<stop_mutex, stop_waiters>>
consumeCall == <<result_counter, apc, stop_flag>>
testVars    == <<programVars, consumeCall, wpc, stopVars, counting>>
poolVars    == <<queue, mapVars, finishVars, consumerVars, producerVars, ownerVars, waitVars,
                 logVars>>
allVars     == <<vars, testVars>>

-----------------------------------------------------------------------------
(* TestListenerBase::Consume, called by the consumer thread.               *)

\* final_counter_: 4 * 1001 in Test000, 8 in the others; here one message per call.
Final == IF test = "Test000" THEN Len(KeySeq) * MaxEnqueues ELSE Len(KeySeq)

\* [mutant] One message too early.
NeedFinishEarly(count) == count + 1 >= Final

NeedFinish(count) == count >= Final

ConsumeCount ==
    /\ cpc = "consume" /\ apc = "call"
    /\ result_counter' = result_counter + 1
    /\ apc' = IF NeedFinish(result_counter') THEN "raise" ELSE "return"
    /\ UNCHANGED <<stop_flag, stopVars, missed>>

\* [mutant] The event notifies and keeps no flag.
ConsumeRaiseNothing ==
    /\ apc = "raise" /\ apc' = "notify"
    /\ UNCHANGED <<result_counter, stop_flag, stopVars, missed>>

\* stop_event_->NotifyAll: the flag, and then the notification.
ConsumeRaise ==
    /\ apc = "raise" /\ apc' = "notify" /\ stop_flag' = TRUE
    /\ UNCHANGED <<result_counter, stopVars, missed>>

ConsumeNotify ==
    /\ apc = "notify" /\ apc' = "return" /\ StopEvent!NotifyAll
    /\ missed' = IF wpc = "block" THEN missed \cup {Owner} ELSE missed
    /\ UNCHANGED <<result_counter, stop_flag>>

\* The consumer thread, with the body of Consume inside the pool's call of it.
ConsumerThread ==
    \/ /\ ConsumeCount \/ ConsumeRaise \/ ConsumeNotify
       /\ UNCHANGED <<poolVars, programVars, wpc, counting>>
    \/ /\ cpc = "consume" => apc = "return"
       /\ ConsumerStep /\ apc' = "call"
       /\ UNCHANGED <<result_counter, stop_flag, programVars, wpc, stopVars, counting>>

-----------------------------------------------------------------------------
(* The threads that CreatePool starts and detaches.                        *)

Started(i) == test = "Test000" /\ (step > 2 \/ (step = 2 /\ id > i))

\* The body of the loop: Enqueue into the queue of the thread's number, ...
ThreadEnqueue(i) ==
    /\ Started(i) /\ i \notin counting
    /\ Enqueue(ThreadSeq[i], KeySeq[i])
    /\ UNCHANGED <<producerFrame, testVars>>

\* ... which ends with the notification, ...
InsideEnqueue(i) ==
    /\ alive /\ ProducerStep(ThreadSeq[i])
    /\ counting' = IF ppc[ThreadSeq[i]] = "notify" /\ test = "Test000" THEN counting \cup {i}
                                                                       ELSE counting
    /\ UNCHANGED <<programVars, consumeCall, wpc, stopVars>>

\* ... and ++counter.
ThreadCount(i) ==
    /\ alive /\ i \in counting /\ counting' = counting \ {i}
    /\ UNCHANGED <<vars, programVars, consumeCall, wpc, stopVars>>

Thread(i) == ThreadEnqueue(i) \/ InsideEnqueue(i) \/ ThreadCount(i)

-----------------------------------------------------------------------------
(* The test.                                                               *)

\* The test is at its statement s, and not inside a call of the pool.
At(s) ==
    /\ step <= Len(Script[test]) /\ Script[test][step] = s
    /\ opc \in {"idle", "gone"}
    /\ test = "Test000" \/ ppc[ThreadSeq[1]] = "idle"

Continue == step' = step + 1 /\ UNCHANGED <<test, id>>
Loop ==
    /\ id' = IF id = Len(KeySeq) THEN 1 ELSE id + 1
    /\ step' = IF id = Len(KeySeq) THEN step + 1 ELSE step
    /\ UNCHANGED test

MainEnqueue ==
    /\ At("enqueue") /\ Enqueue(ThreadSeq[1], KeySeq[id]) /\ Loop
    /\ UNCHANGED <<producerFrame, consumeCall, wpc, stopVars, counting>>

MainSubscribe ==
    /\ At("subscribe") /\ Subscribe(KeySeq[id], ListenerSeq[id]) /\ Loop
    /\ UNCHANGED <<ownerFrame, consumeCall, wpc, stopVars, counting>>

MainStart ==
    /\ At("start") /\ Loop /\ UNCHANGED <<vars, consumeCall, wpc, stopVars, counting>>

Wait(from, to) == At("wait") /\ wpc = from /\ wpc' = to

\* stop_event.Wait()
MainWait ==
    /\ \/ Wait("lock", "eval")     /\ StopEvent!Lock(Owner)   /\ UNCHANGED <<missed, programVars>>
       \/ Wait("blocked", "eval")  /\ StopEvent!Relock(Owner) /\ UNCHANGED <<missed, programVars>>
       \/ Wait("block", "blocked") /\ StopEvent!Block(Owner)  /\ UNCHANGED <<missed, programVars>>
       \/ /\ Wait("eval", IF stop_flag THEN "unlock" ELSE "block")
          /\ missed' = missed \ {Owner} /\ UNCHANGED <<stopVars, programVars>>
       \/ Wait("unlock", "lock")   /\ StopEvent!Unlock(Owner) /\ Continue /\ UNCHANGED missed
    /\ UNCHANGED <<poolVars, consumeCall, counting>>

\* pool->StopProcessing(), and the deletion of the pool.
MainStop ==
    /\ \/ At("stop") /\ StopProcessing(FALSE)
       \/ At("destroy") /\ StopProcessing(TRUE)
    /\ Continue /\ UNCHANGED <<ownerFrame, consumeCall, wpc, stopVars, counting>>

\* finished.WaitForConsumersFinished(), after StopProcessing has waited for the same.
MainFinish ==
    /\ At("finish") /\ notify_flag /\ Continue
    /\ UNCHANGED <<vars, consumeCall, wpc, stopVars, counting>>

Main ==
    \/ MainEnqueue \/ MainSubscribe \/ MainStart \/ MainWait \/ MainStop \/ MainFinish
    \/ OwnerStep /\ UNCHANGED testVars

Ended == step > Len(Script[test]) /\ opc = "gone"

-----------------------------------------------------------------------------
\* [mutant] Test000 does not call ResetCounter.
NotReset(t) == {0, Len(KeySeq) * MaxEnqueues}

\* result_counter_ is static, and only Test000 resets it.
FirstCount(t) == IF t = "Test000" THEN {0} ELSE {0, Len(KeySeq) * MaxEnqueues}

TestInit ==
    /\ Init /\ signature
    /\ test \in Tests /\ step = 1 /\ id = 1
    /\ result_counter \in FirstCount(test) /\ apc = "call"
    /\ wpc = "lock" /\ stop_flag = FALSE /\ stop_mutex = NoThread /\ stop_waiters = {}
    /\ counting = {}

SpuriousInTest ==
    \/ Spurious /\ UNCHANGED testVars
    \/ /\ StopEvent!SpuriousWakeup(Owner)
       /\ UNCHANGED <<vars, programVars, consumeCall, wpc, counting>>

TestNext == ConsumerThread \/ Main \/ (\E i \in Ids : Thread(i)) \/ SpuriousInTest

TestSpec == TestInit /\ [][TestNext]_allVars
FairTestSpec ==
    /\ TestSpec
    /\ WF_allVars(ConsumerThread) /\ WF_allVars(Main) /\ \A i \in Ids : WF_allVars(Thread(i))

-----------------------------------------------------------------------------
\* Consume's assertion: a listener is given the messages of its own queue.
ListenerGetsOwnId ==
    cpc = "consume" => \E i \in Ids : node.key = KeySeq[i] /\ listener = ListenerSeq[i]

\* The message of the n-th call of thread i has been given to a listener.
Consumed(i, n) ==
    \/ \E e \in log : IsCall(e.msg, ThreadSeq[i], n) /\ e.fate \in Listeners
    \/ cpc = "consume" /\ InHand(ThreadSeq[i], n)

\* When Test000 has waited for stop_event, every message has been consumed: the stop
\* that follows discards none.
StopEventMeansAllConsumed ==
    test = "Test000" /\ step > 3 => \A i \in Ids, n \in 1..MaxEnqueues : Consumed(i, n)

\* When the test deletes the pool, and when it returns and its locals go (the
\* SignConsumerFinished, stop_event, counter), the other threads have no more to do with
\* them than one step: the consumer the notification of the signature's event, a
\* thread the notification of its last Enqueue and ++counter after it.
OnlyLastStepsOutlive ==
    (~alive \/ Ended) =>
       /\ cpc \in {"notifyFinished", "done"}
       /\ test = "Test000" => \A i \in Ids :
             \/ ppc[ThreadSeq[i]] = "idle"   /\ sent[ThreadSeq[i]] = MaxEnqueues
             \/ ppc[ThreadSeq[i]] = "notify" /\ sent[ThreadSeq[i]] = MaxEnqueues - 1

StalledTest == Owner \in stop_waiters /\ Owner \in missed
UnknownDropped == \E e \in log : e.fate = "unknown"

\* A test does not hang, unless one of the wakeups it needs is lost, or, in Test004 and
\* Test008, the consumer has seen a message before its listener was subscribed.
TestEnds ==
    \/ <>Ended
    \/ <>[](StalledConsumer \/ StalledOwner \/ StalledTest)
    \/ <>(test # "Test000" /\ UnknownDropped)
=============================================================================
