------------------------ MODULE QueuePoolTestsProofs ------------------------
(***************************************************************************)
(* Proofs about QueuePoolTests.tla, for any number of threads and calls:   *)
(* the assertion of Consume holds, no test leaves a thread behind that     *)
(* still needs the pool, and the stop event of Test000 means what the test *)
(* takes it for.                                                           *)
(***************************************************************************)
EXTENDS QueuePoolTests, QueuePoolMessageProofs, QueuePoolOrderProofs

-----------------------------------------------------------------------------
(* The pool inside a test.                                                 *)

PoolInv == IInv /\ RoutingInv /\ NodeFinished /\ CallInv /\ OrderInv

\* The owner is a waiter of stop_event too: missed may change for it.
OwnMiss ==
    /\ UNCHANGED poolVars
    /\ missed' = missed \cup {Owner} \/ (missed' = missed \ {Owner} /\ opc \in {"idle", "gone"})

\* A thread per queue, and a listener.
LEMMA ThreadsAndKeys ==
    /\ 1 \in Ids /\ Len(KeySeq) \in Nat \ {0} /\ Ids \subseteq Nat \ {0}
    /\ \A i \in Ids : KeySeq[i] \in Keys /\ ThreadSeq[i] \in Producers /\ ListenerSeq[i] \in Listeners
BY TestsAssumption, EmptySeq, LenProperties, ElementOfSeq DEF Ids

\* To the pool a step of a test is one of its threads', a call, or none.
LEMMA TestIsPoolStep ==
    ASSUME id \in Ids, [TestNext]_allVars
    PROVE  [AnyNext]_vars \/ OwnMiss
<1>1. CASE ConsumerThread
    BY <1>1 DEF ConsumerThread, ConsumeCount, ConsumeRaise, ConsumeNotify, AnyNext, OwnMiss,
       poolVars, vars
<1>2. ASSUME NEW i \in Ids, Thread(i) PROVE [AnyNext]_vars
  <2>1. ThreadSeq[i] \in Producers /\ KeySeq[i] \in Keys
    BY ThreadsAndKeys
  <2> QED
    BY <1>2, <2>1 DEF Thread, ThreadEnqueue, InsideEnqueue, ThreadCount, AnyNext, AnyCall
<1>3. CASE Main
  <2>1. CASE MainEnqueue
    BY <2>1, ThreadsAndKeys DEF MainEnqueue, AnyNext, AnyCall
  <2>2. CASE MainSubscribe
    BY <2>2, ThreadsAndKeys DEF MainSubscribe, AnyNext, AnyCall
  <2>3. CASE MainStart \/ MainFinish
    BY <2>3 DEF MainStart, MainFinish
  <2>4. CASE MainWait
    BY <2>4 DEF MainWait, Wait, At, OwnMiss, vars, poolVars
  <2>5. CASE MainStop
    BY <2>5 DEF MainStop, AnyNext, AnyCall
  <2>6. CASE OwnerStep
    BY <2>6 DEF AnyNext
  <2> QED
    BY <1>3, <2>1, <2>2, <2>3, <2>4, <2>5, <2>6 DEF Main
<1>4. CASE SpuriousInTest
    BY <1>4 DEF SpuriousInTest, AnyNext
<1>5. CASE UNCHANGED allVars
    BY <1>5 DEF allVars
<1> QED
    BY <1>1, <1>2, <1>3, <1>4, <1>5 DEF TestNext

LEMMA OwnMissKeeps ==
    ASSUME PoolInv, OwnMiss
    PROVE  PoolInv'
<1> USE DEF OwnMiss, poolVars, consumerVars, producerVars, ownerVars, mapVars, finishVars,
        waitVars, consumeVars, enqueueVars, eventVars, logVars
<1>1. TypeOK'
    BY DEF PoolInv, IInv, TypeOK, Entries
<1>2. CounterInv' /\ NodeInv' /\ ProducerInv' /\ StopInv' /\ WaitInv'
    BY DEF PoolInv, IInv, CounterInv, Counted, NodeInv, ProducerInv, StopInv, WaitInv, Asleep
<1>3. SleepHasCause' /\ StopWakesConsumer' /\ FinishWakesOwner'
    BY ThreadsAssumption DEF PoolInv, IInv, WaitInv, SleepHasCause, StopWakesConsumer, FinishWakesOwner,
       Asleep, InOverflowWait
<1>4. RoutingInv' /\ NodeFinished' /\ CallInv'
    BY DEF PoolInv, RoutingInv, RoutedToSubscriber, NodeFinished, CallInv, InOverflowWait
<1>5. OrderInv'
    BY DEF PoolInv, OrderInv, Before, Sent
<1> QED
    BY <1>1, <1>2, <1>3, <1>4, <1>5 DEF PoolInv, IInv

LEMMA PoolInvStep ==
    ASSUME PoolInv, id \in Ids, [TestNext]_allVars
    PROVE  PoolInv'
<1>1. CASE [AnyNext]_vars
    BY <1>1, NextIInv, RoutingStep, NodeFinishedStep, CallStep, OrderStep DEF PoolInv
<1>2. CASE OwnMiss
    BY <1>2, OwnMissKeeps
<1> QED
    BY <1>1, <1>2, TestIsPoolStep

-----------------------------------------------------------------------------
(* The test.                                                               *)

\* Only the keys of the test are subscribed, each to its listener.
OwnListeners == subscriptions \subseteq {<<KeySeq[i], ListenerSeq[i]>> : i \in Ids}

\* Test000 does not get past its wait without the event, nor into a stop before it.
StepInv ==
    /\ test \in {"Test000", "Test004", "Test008"} /\ step \in Nat \ {0} /\ id \in Ids
    /\ signature
    /\ wpc = "unlock" => stop_flag
    /\ test = "Test000" /\ step > 3 => stop_flag
    /\ test = "Test000" /\ opc # "idle" => step > 3

\* In Test000 the threads alone send.
OnlyThreads ==
    test = "Test000" =>
       \A p \in Producers : p \in {ThreadSeq[i] : i \in Ids} \/ (ppc[p] = "idle" /\ sent[p] = 0)

ProgramInv == OwnListeners /\ StepInv /\ OnlyThreads

\* Where Test000 is.
LEMMA ScriptOfTest000 ==
    ASSUME test = "Test000", step \in Nat \ {0}, NEW s, At(s)
    PROVE  /\ step \in 1..6
           /\ s = "subscribe" <=> step = 1
           /\ s = "start" <=> step = 2
           /\ s = "wait" <=> step = 3
           /\ s = "stop" <=> step = 4
           /\ s = "destroy" <=> step = 6
           /\ s # "enqueue"
<1>1. step \in 1..6 /\ s = <<"subscribe", "start", "wait", "stop", "finish", "destroy">>[step]
    BY DEF At, Script
<1> QED
    BY <1>1

LEMMA LoopKeeps ==
    ASSUME step \in Nat \ {0}, id \in Ids, Loop
    PROVE  test' = test /\ step' \in {step, step + 1} /\ id' \in Ids
BY ThreadsAndKeys DEF Loop, Ids

LEMMA ListenersStep ==
    ASSUME ProgramInv, [TestNext]_allVars
    PROVE  OwnListeners'
<1>1. CASE UNCHANGED subscriptions
    BY <1>1 DEF ProgramInv, OwnListeners
<1>2. CASE MainSubscribe
    BY <1>2 DEF ProgramInv, OwnListeners, StepInv, MainSubscribe, Subscribe
<1>3. ConsumerThread \/ (\E i \in Ids : Thread(i)) \/ SpuriousInTest \/ UNCHANGED allVars
        => UNCHANGED subscriptions
    BY DEF ConsumerThread, ConsumerStep, ConsumeCount, ConsumeRaise, ConsumeNotify, Thread,
       ThreadEnqueue, InsideEnqueue, ThreadCount, ProducerStep, producerFrame, SpuriousInTest,
       Spurious, allVars, vars, poolVars, mapVars
<1>4. Main => UNCHANGED subscriptions \/ MainSubscribe
    BY DEF Main, MainEnqueue, MainStart, MainWait, MainStop, MainFinish, OwnerStep, ONotifyStop,
       OEventLock, OEventEval, OEventBlock, OEventUnlock, OReturn, StopProcessing, producerFrame,
       vars, poolVars, mapVars
<1> QED
    BY <1>1, <1>2, <1>3, <1>4 DEF TestNext

LEMMA StepStep ==
    ASSUME ProgramInv, [TestNext]_allVars
    PROVE  StepInv'
<1> USE DEF ProgramInv, StepInv
<1>1. CASE UNCHANGED <<programVars, wpc, stop_flag, signature, opc>>
    BY <1>1 DEF programVars
<1>2. CASE ConsumerThread
  <2>1. /\ UNCHANGED <<programVars, wpc, signature, opc>>
        /\ stop_flag => stop_flag'
    BY <1>2 DEF ConsumerThread, ConsumeCount, ConsumeRaise, ConsumeNotify, ConsumerStep, poolVars,
       ownerVars
  <2> QED
    BY <2>1 DEF programVars
<1>3. (\E i \in Ids : Thread(i)) \/ SpuriousInTest \/ UNCHANGED allVars
        => UNCHANGED <<programVars, wpc, stop_flag, signature, opc>>
    BY DEF Thread, ThreadEnqueue, InsideEnqueue, ThreadCount, ProducerStep, producerFrame,
       SpuriousInTest, Spurious, allVars, testVars, vars, consumeCall, ownerVars
<1>4. CASE MainEnqueue \/ MainSubscribe \/ MainStart
  <2>1. /\ UNCHANGED <<wpc, stop_flag, signature, opc>> /\ Loop
        /\ At("enqueue") \/ At("subscribe") \/ At("start")
    BY <1>4 DEF MainEnqueue, MainSubscribe, MainStart, Enqueue, Subscribe, producerFrame, ownerFrame,
       consumeCall, vars, ownerVars
  <2>2. test = "Test000" => step < 3
    BY <2>1, ScriptOfTest000
  <2> QED
    BY <2>1, <2>2, LoopKeeps
<1>5. CASE MainWait
  <2>1. UNCHANGED <<test, id, stop_flag, signature, opc>> /\ At("wait")
    BY <1>5 DEF MainWait, Wait, Continue, programVars, consumeCall, poolVars, ownerVars
  <2>2. test = "Test000" => step = 3
    BY <2>1, ScriptOfTest000
  <2>3. \/ wpc = "unlock" /\ wpc' = "lock" /\ step' = step + 1
        \/ step' = step /\ (wpc' = "unlock" => stop_flag)
    BY <1>5 DEF MainWait, Wait, Continue, programVars
  <2> QED
    BY <2>1, <2>2, <2>3
<1>6. CASE MainStop
  <2>1. /\ UNCHANGED <<test, id, stop_flag, wpc, signature>> /\ step' = step + 1
        /\ At("stop") \/ At("destroy")
    BY <1>6 DEF MainStop, StopProcessing, Continue, consumeCall, ownerFrame
  <2>2. test = "Test000" => step > 3
    BY <2>1, ScriptOfTest000
  <2> QED
    BY <2>1, <2>2
<1>7. CASE MainFinish
  <2>1. /\ UNCHANGED <<test, id, stop_flag, wpc, signature, opc>> /\ step' = step + 1
        /\ At("finish")
    BY <1>7 DEF MainFinish, Continue, consumeCall, vars, ownerVars
  <2>2. test = "Test000" => step > 3
    <3>1. ASSUME test = "Test000" PROVE step # 1 /\ step # 2 /\ step # 3
      BY <2>1, <3>1, ScriptOfTest000
    <3> QED
      BY <3>1
  <2> QED
    BY <2>1, <2>2
<1>8. CASE OwnerStep /\ UNCHANGED testVars
  <2>1. UNCHANGED <<programVars, wpc, stop_flag, signature>> /\ opc # "idle"
    BY <1>8 DEF OwnerStep, ONotifyStop, OEventLock, OEventEval, OEventBlock, OEventUnlock, OReturn,
       OGoto, ownerFrame, testVars, consumeCall
  <2> QED
    BY <2>1 DEF programVars
<1> QED
    BY <1>1, <1>2, <1>3, <1>4, <1>5, <1>6, <1>7, <1>8 DEF TestNext, Main

LEMMA OnlyThreadsStep ==
    ASSUME TypeOK, ProgramInv, [TestNext]_allVars
    PROVE  OnlyThreads'
<1> USE DEF ProgramInv, OnlyThreads
<1>1. CASE UNCHANGED <<test, producerVars>>
    BY <1>1 DEF producerVars
<1>2. ConsumerThread \/ SpuriousInTest \/ UNCHANGED allVars => UNCHANGED <<test, producerVars>>
    BY DEF ConsumerThread, ConsumerStep, ConsumeCount, ConsumeRaise, ConsumeNotify, SpuriousInTest,
       Spurious, allVars, testVars, vars, poolVars, programVars
<1>3. ASSUME NEW i \in Ids, Thread(i) PROVE OnlyThreads'
  <2>1. test' = test /\ ThreadSeq[i] \in Producers
    BY <1>3, ThreadsAndKeys DEF Thread, ThreadEnqueue, InsideEnqueue, ThreadCount, testVars, programVars
  <2>2. \A p \in Producers \ {ThreadSeq[i]} : ppc'[p] = ppc[p] /\ sent'[p] = sent[p]
    BY <1>3, <2>1 DEF TypeOK, Thread, ThreadEnqueue, InsideEnqueue, ThreadCount, Enqueue, ProducerStep,
       PGoto, PConstruct, PLink, PLock, PRetry, PBlock, PUnlock, PNotify, vars, producerVars
  <2> QED
    BY <2>1, <2>2
<1>4. CASE MainEnqueue
  <2>1. test = "Test000" => FALSE
    BY <1>4, ScriptOfTest000 DEF MainEnqueue, StepInv
  <2>2. test' = test
    BY <1>4 DEF MainEnqueue, Loop
  <2> QED
    BY <2>1, <2>2
<1>5. Main => UNCHANGED <<test, producerVars>> \/ MainEnqueue
    BY DEF Main, MainSubscribe, MainStart, MainWait, MainStop, MainFinish, OwnerStep, Loop, Continue,
       ownerFrame, testVars, programVars, vars, poolVars
<1> QED
    BY <1>1, <1>2, <1>3, <1>4, <1>5 DEF TestNext

LEMMA ProgramInvStep ==
    ASSUME PoolInv, ProgramInv, [TestNext]_allVars
    PROVE  ProgramInv'
BY ListenersStep, StepStep, OnlyThreadsStep DEF PoolInv, IInv, ProgramInv

LEMMA InitTest == TestInit => PoolInv /\ ProgramInv
<1> SUFFICES ASSUME TestInit PROVE PoolInv /\ ProgramInv
    OBVIOUS
<1>1. PoolInv
    BY InitIInv, InitRouting, InitOrder DEF TestInit, PoolInv
<1>2. ProgramInv
    BY ThreadsAndKeys, TestsAssumption DEF TestInit, Init, ProgramInv, OwnListeners, StepInv, OnlyThreads
<1> QED
    BY <1>1, <1>2

LEMMA TestInvariance == TestSpec => [](PoolInv /\ ProgramInv)
<1>1. PoolInv /\ ProgramInv /\ [TestNext]_allVars => (PoolInv /\ ProgramInv)'
    BY PoolInvStep, ProgramInvStep DEF ProgramInv, StepInv
<1> QED
    BY <1>1, InitTest, PTL DEF TestSpec

\* The assertion of Consume holds: a listener is given its own queue's messages only.
THEOREM OwnId == TestSpec => []ListenerGetsOwnId
<1>1. PoolInv /\ ProgramInv => ListenerGetsOwnId
    BY DEF PoolInv, RoutingInv, ProgramInv, OwnListeners, ListenerGetsOwnId
<1> QED
    BY <1>1, TestInvariance, PTL

-----------------------------------------------------------------------------
(* The count of Test000.                                                   *)

\* The calls of Enqueue whose message a listener has counted.
CountedBy(p, n) ==
    \/ \E e \in log : IsCall(e.msg, p, n) /\ e.fate \in Listeners
    \/ cpc = "consume" /\ apc # "call" /\ InHand(p, n)
CountedCalls == {c \in Producers \X (1..MaxEnqueues) : CountedBy(c[1], c[2])}

\* result_counter_ is their number, and stop_event is raised at the final count.
CountInv ==
    /\ result_counter \in Nat /\ (apc # "call" => cpc = "consume")
    /\ test = "Test000" =>
          /\ stop_flag \/ apc = "raise" => result_counter >= Final
          /\ IsFiniteSet(CountedCalls) /\ Cardinality(CountedCalls) = result_counter

\* A step that finishes no message counts none; nor does Consume's return.
LEMMA CountedFrame ==
    ASSUME UNCHANGED <<log, node, cpc, apc>>
    PROVE  CountedCalls' = CountedCalls
BY DEF CountedCalls, CountedBy, IsCall, InHand

LEMMA CountedByConsumer ==
    ASSUME IInv, CountInv, ConsumerStep, cpc = "consume" => apc = "return", apc' = "call"
    PROVE  CountedCalls' = CountedCalls
<1>0. \A p, n : CountedBy(p, n) <=> \/ \E e \in log : IsCall(e.msg, p, n) /\ e.fate \in Listeners
                                    \/ cpc = "consume" /\ apc # "call" /\ IsCall(node, p, n)
    BY DEF CountedBy, InHand
<1>1. CASE CConsume
  <2>1. /\ log' = log \cup {[msg |-> node, fate |-> listener]} /\ listener \in Listeners
        /\ cpc = "consume" /\ apc = "return"
    BY <1>1 DEF CConsume, CGoto, Finished, IInv, TypeOK, NodeInv
  <2> SUFFICES ASSUME NEW p \in Producers, NEW n \in 1..MaxEnqueues
               PROVE  CountedBy(p, n)' <=> CountedBy(p, n)
    BY DEF CountedCalls
  <2>2. CountedBy(p, n)' <=> \E e \in log' : IsCall(e.msg, p, n) /\ e.fate \in Listeners
    BY DEF CountedBy
  <2>3. \A e : e \in log' <=> e \in log \/ e = [msg |-> node, fate |-> listener]
    BY <2>1
  <2>4. CountedBy(p, n)' => CountedBy(p, n)
    BY <1>0, <2>1, <2>2, <2>3
  <2>5. ASSUME CountedBy(p, n) PROVE CountedBy(p, n)'
    <3>1. CASE IsCall(node, p, n)
      <4>1. [msg |-> node, fate |-> listener] \in log'
        BY <2>3
      <4> QED
        BY <2>1, <2>2, <3>1, <4>1
    <3>2. CASE \E e \in log : IsCall(e.msg, p, n) /\ e.fate \in Listeners
      BY <2>2, <2>3, <3>2
    <3> QED
      BY <1>0, <2>5, <3>1, <3>2
  <2> QED
    BY <2>4, <2>5
<1>2. CASE ~CConsume
  <2>1. cpc # "consume" /\ apc = "call"
    BY <1>2 DEF ConsumerStep, CountInv, CGoto, CStart, CLoop, CPop, CFree, CLock, CEval, CEvalStop,
       CBlock, CUnlock, CCheck, CLookup, CNotifyCapacity, CDecrease, CSetFlag, CNotifyFinished
  <2>2. /\ log \subseteq log'
        /\ \A e \in log' : e \in log \/ e.fate \notin Listeners
    <3>1. CASE UNCHANGED log \/ Finished("stopped") \/ Finished("unknown")
      BY <3>1, FatesAssumption DEF Finished
    <3>2. CASE CStart \/ CLoop \/ CPop \/ CFree \/ CLock \/ CEval \/ CEvalStop \/ CBlock
      BY <3>1, <3>2 DEF CStart, CLoop, CPop, CFree, CLock, CEval, CEvalStop, CBlock, logVars
    <3>3. CASE CUnlock \/ CNotifyCapacity \/ CDecrease \/ CSetFlag \/ CNotifyFinished
      BY <3>1, <3>3 DEF CUnlock, CNotifyCapacity, CDecrease, CSetFlag, CNotifyFinished, logVars
    <3>4. CASE CCheck \/ CLookup
      BY <3>1, <3>4 DEF CCheck, CLookup, logVars
    <3> QED
      BY <1>2, <3>2, <3>3, <3>4 DEF ConsumerStep
  <2> QED
    BY <2>1, <2>2 DEF CountedCalls, CountedBy
<1> QED
    BY <1>1, <1>2

\* Consume counts a call that has not been counted.
LEMMA ConsumeCountsOneMore ==
    ASSUME NeverFull, PoolInv, IsFiniteSet(CountedCalls), ConsumeCount, UNCHANGED poolVars
    PROVE  /\ IsFiniteSet(CountedCalls)'
           /\ Cardinality(CountedCalls)' = Cardinality(CountedCalls) + 1
<1> DEFINE c == <<node.from, node.n>>
<1>1. node \in Message /\ node # NoMsg /\ c \in Producers \X (1..MaxEnqueues)
    BY DEF ConsumeCount, PoolInv, IInv, TypeOK, NodeInv, Message
<1>2. ~\E e \in log : IsCall(e.msg, node.from, node.n)
  <2>1. overflowed = {}
    BY DEF PoolInv, CallInv
  <2> QED
    BY <1>1, <2>1, TraitsAssumption DEF PoolInv, OrderInv, Before, IsCall
<1>3. /\ UNCHANGED <<log, node, cpc>>
      /\ cpc = "consume" /\ apc = "call" /\ apc' # "call"
    BY DEF ConsumeCount, poolVars, consumerVars, logVars
<1>4. \A d \in Producers \X (1..MaxEnqueues) :
         /\ IsCall(node, d[1], d[2]) <=> d = c
         /\ CountedBy(d[1], d[2])' <=> CountedBy(d[1], d[2]) \/ d = c
    BY <1>1, <1>3 DEF CountedBy, InHand, IsCall
<1>5. c \notin CountedCalls /\ CountedCalls' = CountedCalls \cup {c}
  <2>1. c \notin CountedCalls
    BY <1>2, <1>3 DEF CountedCalls, CountedBy
  <2> HIDE DEF c
  <2> QED
    BY <1>1, <1>4, <2>1 DEF CountedCalls
<1> HIDE DEF c
<1> QED
    BY <1>5, FS_AddElement

LEMMA CountStep ==
    ASSUME NeverFull, PoolInv, ProgramInv, CountInv, [TestNext]_allVars
    PROVE  CountInv'
<1> USE DEF CountInv, PoolInv
<1>1. test' = test /\ Final' = Final
  <2>1. test' = test
    BY DEF TestNext, ConsumerThread, Main, MainEnqueue, MainSubscribe, MainStart, MainWait, MainStop,
       MainFinish, Loop, Continue, Thread, ThreadEnqueue, InsideEnqueue, ThreadCount, SpuriousInTest,
       programVars, testVars, allVars
  <2> QED
    BY <2>1 DEF Final
<1>2. CASE UNCHANGED <<log, node, cpc, consumeCall>>
    BY <1>1, <1>2, CountedFrame DEF consumeCall
<1>3. CASE ConsumeCount /\ UNCHANGED poolVars
  <2>1. /\ result_counter' = result_counter + 1 /\ stop_flag' = stop_flag
        /\ cpc' = "consume" /\ apc = "call"
        /\ apc' = "raise" => result_counter' >= Final
    BY <1>1, <1>3 DEF ConsumeCount, NeedFinish, poolVars, consumerVars
  <2>2. Final \in Nat
    BY ThreadsAndKeys, TraitsAssumption DEF Final
  <2> QED
    BY <1>1, <1>3, <2>1, <2>2, ConsumeCountsOneMore
<1>4. CASE (ConsumeRaise \/ ConsumeNotify) /\ UNCHANGED poolVars
  <2>1. /\ UNCHANGED <<result_counter, log, node, cpc>> /\ apc # "call" /\ apc' \notin {"call", "raise"}
        /\ stop_flag' = stop_flag \/ apc = "raise"
    BY <1>4 DEF ConsumeRaise, ConsumeNotify, poolVars, consumerVars, logVars
  <2>2. CountedCalls' = CountedCalls
    BY <2>1 DEF CountedCalls, CountedBy, IsCall, InHand
  <2> QED
    BY <1>1, <2>1, <2>2
<1>5. CASE /\ cpc = "consume" => apc = "return"
           /\ ConsumerStep /\ apc' = "call" /\ UNCHANGED <<result_counter, stop_flag>>
    BY <1>1, <1>5, CountedByConsumer
<1>6. ConsumerThread => \/ ConsumeCount /\ UNCHANGED poolVars
                        \/ (ConsumeRaise \/ ConsumeNotify) /\ UNCHANGED poolVars
                        \/ /\ cpc = "consume" => apc = "return"
                           /\ ConsumerStep /\ apc' = "call" /\ UNCHANGED <<result_counter, stop_flag>>
    BY DEF ConsumerThread
<1>7. (\E i \in Ids : Thread(i)) \/ SpuriousInTest \/ UNCHANGED allVars
        => UNCHANGED <<log, node, cpc, consumeCall>>
    BY DEF Thread, ThreadEnqueue, InsideEnqueue, ThreadCount, ProducerStep, producerFrame,
       SpuriousInTest, Spurious, allVars, testVars, vars, consumerVars, logVars
<1>8. Main => UNCHANGED <<log, node, cpc, consumeCall>>
    BY DEF Main, MainEnqueue, MainSubscribe, MainStart, MainWait, MainStop, MainFinish, OwnerStep,
       ownerFrame, producerFrame, testVars, vars, poolVars, consumerVars, logVars
<1> QED
    BY <1>2, <1>3, <1>4, <1>5, <1>6, <1>7, <1>8 DEF TestNext

LEMMA InitCount == TestInit => CountInv
<1> SUFFICES ASSUME TestInit PROVE CountInv
    OBVIOUS
<1>1. CountedCalls = {}
    BY DEF TestInit, Init, CountedCalls, CountedBy
<1>2. test = "Test000" => result_counter = 0
    BY DEF TestInit, FirstCount
<1>3. result_counter \in Nat
    BY ThreadsAndKeys, TraitsAssumption DEF TestInit, FirstCount
<1> QED
    BY <1>1, <1>2, <1>3, FS_EmptySet DEF TestInit, CountInv

\* Every call that Test000 makes.
TestCalls == {ThreadSeq[i] : i \in Ids} \X (1..MaxEnqueues)

LEMMA TestCallsNumber ==
    test = "Test000" => IsFiniteSet(TestCalls) /\ Cardinality(TestCalls) = Final
<1>1. IsFiniteSet(Ids) /\ Cardinality(Ids) = Len(KeySeq)
    BY ThreadsAndKeys, FS_Interval DEF Ids
<1>2. /\ IsFiniteSet({ThreadSeq[i] : i \in Ids})
      /\ Cardinality({ThreadSeq[i] : i \in Ids}) = Len(KeySeq)
    BY <1>1, TestsAssumption, InjectiveImage
<1>3. IsFiniteSet(1..MaxEnqueues) /\ Cardinality(1..MaxEnqueues) = MaxEnqueues
    BY TraitsAssumption, FS_Interval
<1>4. /\ IsFiniteSet(TestCalls)
      /\ Cardinality(TestCalls)
           = Cardinality({ThreadSeq[i] : i \in Ids}) * Cardinality(1..MaxEnqueues)
    BY <1>2, <1>3, FS_Product DEF TestCalls
<1> QED
    BY <1>2, <1>3, <1>4 DEF Final

\* What has been counted are calls of the threads of the test.
LEMMA CountedAreTestCalls ==
    ASSUME NeverFull, PoolInv, ProgramInv, test = "Test000"
    PROVE  CountedCalls \subseteq TestCalls
<1> SUFFICES ASSUME NEW p \in Producers, NEW n \in 1..MaxEnqueues, CountedBy(p, n)
             PROVE  p \in {ThreadSeq[i] : i \in Ids}
    BY DEF CountedCalls, TestCalls
<1>1. Sent(p, n)
    BY DEF CountedBy, InHand, IsCall, PoolInv, OrderInv
<1>2. n \in Nat \ {0} /\ overflowed = {}
    BY TraitsAssumption DEF PoolInv, CallInv
<1> QED
    BY <1>1, <1>2 DEF Sent, ProgramInv, OnlyThreads

\* When stop_event has been raised, the count is complete, and no call is missing.
LEMMA EventMeansAll ==
    ASSUME NeverFull, PoolInv, ProgramInv, CountInv
    PROVE  StopEventMeansAllConsumed
<1> SUFFICES ASSUME test = "Test000", step > 3, NEW i \in Ids, NEW n \in 1..MaxEnqueues
             PROVE  Consumed(i, n)
    BY DEF StopEventMeansAllConsumed
<1>1. Cardinality(CountedCalls) >= Cardinality(TestCalls) /\ IsFiniteSet(TestCalls)
    BY TestCallsNumber DEF CountInv, ProgramInv, StepInv
<1>2. CountedCalls \in SUBSET TestCalls
    BY CountedAreTestCalls
<1>3. Cardinality(CountedCalls) <= Cardinality(TestCalls)
    BY <1>1, <1>2, FS_Subset
<1>4. Cardinality(CountedCalls) \in Nat /\ Cardinality(TestCalls) \in Nat
    BY <1>1, FS_CardinalityType DEF CountInv
<1>5. CountedCalls = TestCalls
    BY <1>1, <1>2, <1>3, <1>4, FS_Subset
<1>6. <<ThreadSeq[i], n>> \in CountedCalls
    BY <1>5 DEF TestCalls
<1> QED
    BY <1>6 DEF CountedCalls, CountedBy, Consumed

LEMMA CountInvariance ==
    ASSUME NeverFull
    PROVE  TestSpec => []CountInv
<1>1. PoolInv /\ ProgramInv /\ CountInv /\ [TestNext]_allVars => CountInv'
    BY CountStep
<1> QED
    BY <1>1, InitCount, TestInvariance, PTL DEF TestSpec

\* With the locked list, or a lock-free queue that has a node for every call (the tests
\* have 65500 nodes, and make 4004), Test000 stops its pool only after a listener has been
\* given every message.
THEOREM StopEventIsTheEnd ==
    ASSUME NeverFull
    PROVE  TestSpec => []StopEventMeansAllConsumed
<1>1. PoolInv /\ ProgramInv /\ CountInv => StopEventMeansAllConsumed
    BY EventMeansAll
<1> QED
    BY <1>1, TestInvariance, CountInvariance, PTL

\* With such a queue no test is over, and no pool deleted, while the consumer thread or a
\* thread of the test still needs it for more than one step.
THEOREM NothingOutlives ==
    ASSUME NeverFull
    PROVE  TestSpec => []OnlyLastStepsOutlive
<1>1. PoolInv /\ ProgramInv /\ CountInv => OnlyLastStepsOutlive
  <2> SUFFICES ASSUME PoolInv, ProgramInv, CountInv, ~alive \/ Ended
               PROVE  /\ cpc \in {"notifyFinished", "done"}
                      /\ test = "Test000" => \A i \in Ids :
                            \/ ppc[ThreadSeq[i]] = "idle"   /\ sent[ThreadSeq[i]] = MaxEnqueues
                            \/ ppc[ThreadSeq[i]] = "notify" /\ sent[ThreadSeq[i]] = MaxEnqueues - 1
    BY DEF OnlyLastStepsOutlive
  <2>1. opc = "gone"
    BY DEF Ended, PoolInv, IInv, StopInv
  <2>2. cpc \in {"notifyFinished", "done"}
    BY <2>1 DEF PoolInv, IInv, StopInv, ProgramInv, StepInv
  <2>3. ASSUME test = "Test000", NEW i \in Ids
        PROVE  \/ ppc[ThreadSeq[i]] = "idle"   /\ sent[ThreadSeq[i]] = MaxEnqueues
               \/ ppc[ThreadSeq[i]] = "notify" /\ sent[ThreadSeq[i]] = MaxEnqueues - 1
    <3>1. ThreadSeq[i] \in Producers /\ MaxEnqueues \in 1..MaxEnqueues /\ MaxEnqueues \in Nat
      BY ThreadsAndKeys, TestsAssumption, TraitsAssumption
    <3>2. Consumed(i, MaxEnqueues)
      BY <2>1, <2>3, <3>1, EventMeansAll DEF StopEventMeansAllConsumed, ProgramInv, StepInv
    <3>3. Sent(ThreadSeq[i], MaxEnqueues)
      BY <3>2 DEF Consumed, InHand, IsCall, PoolInv, OrderInv
    <3>4. sent[ThreadSeq[i]] \in 0..MaxEnqueues
      BY <3>1 DEF PoolInv, IInv, TypeOK
    <3>5. ppc[ThreadSeq[i]] # "idle" => sent[ThreadSeq[i]] < MaxEnqueues
      BY <3>1 DEF PoolInv, IInv, ProducerInv
    <3>6. overflowed = {}
      BY DEF PoolInv, CallInv
    <3> QED
      BY <3>1, <3>3, <3>4, <3>5, <3>6 DEF Sent
  <2> QED
    BY <2>2, <2>3
<1> QED
    BY <1>1, TestInvariance, CountInvariance, PTL
=============================================================================
