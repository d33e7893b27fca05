--------------------------- MODULE QueuePoolProofs ---------------------------
(***************************************************************************)
(* Proofs about QueuePool.tla: that IInv is inductive, and the properties  *)
(* of QueuePoolProperties.tla that follow from it, for any set of          *)
(* producers, keys and listeners, any capacity and either choice of traits.*)
(***************************************************************************)
EXTENDS QueuePoolProperties, SequenceTheorems, FiniteSetTheorems, TLAPS

-----------------------------------------------------------------------------
(* The steps.  What is proved of them does not need the restraint of Call, *)
(* which the test programs do not show: they delete a pool while a thread  *)
(* is on its way out of Enqueue.                                           *)

AnyCall ==
    \/ (\E p \in Producers, k \in Keys : Enqueue(p, k)) /\ UNCHANGED producerFrame
    \/ (\E k \in Keys, l \in Listeners : Subscribe(k, l)) /\ UNCHANGED ownerFrame
    \/ (\E d \in BOOLEAN : StopProcessing(d)) /\ UNCHANGED ownerFrame

AnyNext ==
    ConsumerStep \/ OwnerStep \/ (\E p \in Producers : ProducerStep(p)) \/ AnyCall \/ Spurious

LEMMA NextIsAny == [Next]_vars => [AnyNext]_vars
BY DEF Next, Call, AnyNext, AnyCall

LEMMA LinkingIsFinite ==
    /\ IsFiniteSet(Linking) /\ Cardinality(Linking) \in Nat
    /\ IsFiniteSet(Linking)' /\ Cardinality(Linking)' \in Nat
BY ThreadsAssumption, FS_Subset, FS_CardinalityType DEF Linking

-----------------------------------------------------------------------------
(* Types.                                                                  *)

\* A pop that succeeds returns a message and leaves a queue of messages.
LEMMA DequeueHitType ==
    ASSUME queue \in Seq(Message), DequeueHit
    PROVE  node' \in Message /\ queue' \in Seq(Message)
BY HeadTailProperties DEF DequeueHit

\* A lookup returns a listener or the empty pointer.
LEMMA GetFromMapType ==
    ASSUME map \in [Keys -> Entries], NEW k \in Keys, GetFromMap(k)
    PROVE  /\ listener' \in Listeners \cup {Null}
           /\ map' \in [Keys -> Entries]
BY DEF GetFromMap, Found, LookedUp, Emplace, Assign, Entries

LEMMA TypeConsumer ==
    TypeOK /\ CounterInv /\ NodeInv /\ ConsumerStep => TypeOK'
<1> SUFFICES ASSUME TypeOK, CounterInv, NodeInv, ConsumerStep PROVE TypeOK'
    OBVIOUS
<1> USE NoMsgAssumption DEF TypeOK, Entries, ConsumerPC, CGoto, producerVars, ownerVars, waitVars,
        consumeVars, enqueueVars, eventVars, finishVars, logVars
<1>1. CASE CStart
    BY <1>1 DEF ConsumerStep, CStart, CounterInv, Counted
<1>2. CASE CLoop
    BY <1>2 DEF ConsumerStep, CLoop
<1>3. CASE CPop
    BY <1>3, DequeueHitType DEF ConsumerStep, CPop, DequeueMiss
<1>4. CASE CFree
    BY <1>4 DEF ConsumerStep, CFree
<1>5. CASE CLock
    BY <1>5 DEF ConsumerStep, CLock, Consume!Lock, Consume!Relock
<1>6. CASE CEval
    BY <1>6, DequeueHitType DEF ConsumerStep, CEval, DequeueMiss
<1>7. CASE CEvalStop
    BY <1>7 DEF ConsumerStep, CEvalStop
<1>8. CASE CBlock
    BY <1>8 DEF ConsumerStep, CBlock, Consume!Block
<1>9. CASE CUnlock
    BY <1>9 DEF ConsumerStep, CUnlock, Consume!Unlock
<1>10. CASE CCheck
    BY <1>10 DEF ConsumerStep, CCheck, Finished, Fate
<1>11. CASE CLookup
    <2>1. node \in Message /\ node.key \in Keys
        BY <1>11 DEF CLookup, NodeInv, Message
    <2>2. /\ listener' \in Listeners \cup {Null}
          /\ map' \in [Keys -> Entries]
        BY <1>11, <2>1, GetFromMapType DEF CLookup
    <2> QED
        BY <1>11, <2>1, <2>2 DEF ConsumerStep, CLookup, Finished, Fate
<1>12. CASE CConsume
    BY <1>12 DEF ConsumerStep, CConsume, Finished, Fate, NodeInv
<1>13. CASE CNotifyCapacity
    BY <1>13 DEF ConsumerStep, CNotifyCapacity, Produce!NotifyOne
<1>14. CASE CDecrease
    BY <1>14 DEF ConsumerStep, CDecrease, CounterInv, Counted
<1>15. CASE CSetFlag
    BY <1>15 DEF ConsumerStep, CSetFlag
<1>16. CASE CNotifyFinished
    BY <1>16 DEF ConsumerStep, CNotifyFinished, Finish!NotifyAll, NotifyOwnerMissed
<1> QED
    BY <1>1, <1>2, <1>3, <1>4, <1>5, <1>6, <1>7, <1>8, <1>9, <1>10, <1>11, <1>12, <1>13, <1>14, <1>15, <1>16 DEF ConsumerStep

LEMMA TypeProducer ==
    ASSUME TypeOK, ProducerInv, NEW p \in Producers, ProducerStep(p)
    PROVE  TypeOK'
<1> USE DEF TypeOK, ProducerPC, PGoto, ProducerStep, producerFrame, mapVars, finishVars,
        consumerVars, ownerVars, consumeVars, enqueueVars, eventVars, logVars
<1>1. CASE PConstruct(p)
  <2>1. sent[p] + 1 \in 1..MaxEnqueues
    BY <1>1, TraitsAssumption DEF PConstruct, ProducerInv
  <2>2. overflowed' \subseteq Producers \X (1..MaxEnqueues)
    BY <1>1, <2>1 DEF PConstruct
  <2> QED
    BY <1>1, <2>2 DEF PConstruct
<1>2. CASE PLink(p)
  <2>1. msg[p] \in Message
    BY <1>2 DEF PLink, ProducerInv
  <2>2. queue' \in Seq(Message)
    BY <1>2, <2>1, AppendProperties DEF PLink
  <2>3. /\ ppc' \in [Producers -> ProducerPC]
        /\ UNCHANGED <<msg, sent, overflowed, consumeVars, enqueueVars, missed>>
    BY <1>2 DEF PLink
  <2> QED
    BY <2>2, <2>3
<1>3. CASE PLock(p)
    BY <1>3 DEF PLock, Produce!Lock, Produce!Relock
<1>4. CASE PRetry(p)
    BY <1>4 DEF PRetry
<1>5. CASE PBlock(p)
    BY <1>5 DEF PBlock, Produce!Block
<1>6. CASE PUnlock(p)
    BY <1>6 DEF PUnlock, Produce!Unlock
<1>7. CASE PNotify(p)
  <2>1. sent' \in [Producers -> 0..MaxEnqueues]
    <3>1. sent[p] \in 0..MaxEnqueues /\ sent[p] < MaxEnqueues
      BY <1>7 DEF PNotify, ProducerInv
    <3>2. sent[p] + 1 \in 0..MaxEnqueues
      BY <3>1, TraitsAssumption
    <3> QED
      BY <1>7, <3>2 DEF PNotify
  <2>2. consume_waiters' \subseteq {Consumer} /\ consume_mutex' = consume_mutex
    BY <1>7 DEF PNotify, Consume!NotifyOne
  <2>3. missed' \subseteq missed \cup {Consumer}
    BY <1>7 DEF PNotify, NotifyConsumerMissed
  <2>4. ppc' \in [Producers -> ProducerPC] /\ msg' \in [Producers -> Message \cup {NoMsg}]
    BY <1>7 DEF PNotify
  <2> QED
    BY <1>7, <2>1, <2>2, <2>3, <2>4 DEF PNotify
<1> QED
    BY <1>1, <1>2, <1>3, <1>4, <1>5, <1>6, <1>7

LEMMA TypeOwner ==
    ASSUME TypeOK, OwnerStep
    PROVE  TypeOK'
<1> USE DEF TypeOK, OwnerPC, OGoto, OwnerStep, ownerFrame, mapVars, finishVars,
        consumerVars, producerVars, waitVars, consumeVars, enqueueVars, eventVars, logVars
<1>1. CASE ONotifyStop
    BY <1>1 DEF ONotifyStop, Consume!NotifyAll, NotifyConsumerMissed
<1>2. CASE OEventLock
    BY <1>2 DEF OEventLock, Finish!Lock, Finish!Relock
<1>3. CASE OEventEval
    BY <1>3 DEF OEventEval
<1>4. CASE OEventBlock
    BY <1>4 DEF OEventBlock, Finish!Block
<1>5. CASE OEventUnlock
    BY <1>5 DEF OEventUnlock, Finish!Unlock
<1>6. CASE OReturn
    BY <1>6 DEF OReturn
<1> QED
    BY <1>1, <1>2, <1>3, <1>4, <1>5, <1>6

LEMMA TypeCall ==
    ASSUME TypeOK, AnyCall
    PROVE  TypeOK'
<1> USE DEF TypeOK, OwnerPC, ProducerPC, producerFrame, ownerFrame, mapVars, finishVars,
        consumerVars, producerVars, ownerVars, waitVars, consumeVars, enqueueVars,
        eventVars, logVars
<1>1. ASSUME NEW p \in Producers, NEW k \in Keys, Enqueue(p, k), UNCHANGED producerFrame
      PROVE  TypeOK'
  <2>1. msg'[p] \in Message /\ msg' \in [Producers -> Message \cup {NoMsg}]
    BY <1>1, TraitsAssumption DEF Enqueue, Message
  <2> QED
    BY <1>1, <2>1 DEF Enqueue, PGoto
<1>2. ASSUME NEW k \in Keys, NEW l \in Listeners, Subscribe(k, l), UNCHANGED ownerFrame
      PROVE  TypeOK'
    BY <1>2 DEF Subscribe, AddToMap, Assign, Emplace, Entries
<1>3. ASSUME NEW d \in BOOLEAN, StopProcessing(d), UNCHANGED ownerFrame
      PROVE  TypeOK'
    BY <1>3 DEF StopProcessing, OGoto
<1> QED
    BY <1>1, <1>2, <1>3 DEF AnyCall

LEMMA TypeSpurious ==
    ASSUME TypeOK, Spurious
    PROVE  TypeOK'
BY DEF TypeOK, Spurious, Consume!SpuriousWakeup, Produce!SpuriousWakeup,
       Finish!SpuriousWakeup, mapVars, finishVars, consumerVars, producerVars, ownerVars,
       consumeVars, enqueueVars, eventVars, logVars
\* Every step of the pool keeps the types.
LEMMA TypeStep ==
    ASSUME IInv, [AnyNext]_vars
    PROVE  TypeOK'
<1>1. CASE ConsumerStep
    BY <1>1, TypeConsumer DEF IInv
<1>2. CASE OwnerStep
    BY <1>2, TypeOwner DEF IInv
<1>3. ASSUME NEW p \in Producers, ProducerStep(p) PROVE TypeOK'
    BY <1>3, TypeProducer DEF IInv
<1>4. CASE AnyCall
    BY <1>4, TypeCall DEF IInv
<1>5. CASE Spurious
    BY <1>5, TypeSpurious DEF IInv
<1>6. CASE UNCHANGED vars
    BY <1>6 DEF IInv, TypeOK, Entries, vars, mapVars, finishVars, consumerVars, producerVars,
       ownerVars, waitVars, consumeVars, enqueueVars, eventVars, logVars
<1> QED
    BY <1>1, <1>2, <1>3, <1>4, <1>5, <1>6 DEF AnyNext

-----------------------------------------------------------------------------
(* The consumer's counter, its node and the producers' messages.           *)

LEMMA CounterStep ==
    ASSUME IInv, [AnyNext]_vars
    PROVE  CounterInv'
<1> USE DEF IInv, TypeOK, Entries, CounterInv, Counted
<1>1. CASE ConsumerStep
  <2> USE <1>1 DEF ConsumerStep, CGoto, ownerVars, finishVars
  <2>1. CASE CStart
    BY <2>1 DEF CStart
  <2>2. CASE CDecrease
    BY <2>2 DEF CDecrease
  <2>3. CASE CSetFlag
    BY <2>3 DEF CSetFlag
  <2>4. CASE CNotifyFinished
    BY <2>4 DEF CNotifyFinished
  <2>5. CASE CLoop \/ CPop \/ CFree \/ CLock \/ CEval \/ CEvalStop
    BY <2>5 DEF CLoop, CPop, CFree, CLock, CEval, CEvalStop
  <2>6. CASE CBlock \/ CUnlock \/ CCheck \/ CLookup \/ CConsume \/ CNotifyCapacity
    BY <2>6 DEF CBlock, CUnlock, CCheck, CLookup, CConsume, CNotifyCapacity
  <2> QED
    BY <2>1, <2>2, <2>3, <2>4, <2>5, <2>6
<1>2. CASE OwnerStep
    BY <1>2 DEF OwnerStep, ownerFrame, finishVars, consumerVars
<1>3. ASSUME NEW p \in Producers, ProducerStep(p) PROVE CounterInv'
    BY <1>3 DEF ProducerStep, producerFrame, finishVars, consumerVars, ownerVars
<1>4. CASE AnyCall
    BY <1>4 DEF AnyCall, producerFrame, ownerFrame, finishVars, consumerVars, ownerVars
<1>5. CASE Spurious
    BY <1>5 DEF Spurious, finishVars, consumerVars, ownerVars
<1>6. CASE UNCHANGED vars
    BY <1>6 DEF vars, finishVars, consumerVars, ownerVars
<1> QED
    BY <1>1, <1>2, <1>3, <1>4, <1>5, <1>6 DEF AnyNext

LEMMA NodeStep ==
    ASSUME IInv, [AnyNext]_vars
    PROVE  NodeInv'
<1> USE NoMsgAssumption DEF IInv, TypeOK, Entries, NodeInv
<1>1. CASE ConsumerStep
  <2> USE <1>1 DEF ConsumerStep, CGoto, ownerVars
  <2>1. CASE CStart \/ CLoop \/ CLock \/ CBlock \/ CNotifyCapacity
    BY <2>1 DEF CStart, CLoop, CLock, CBlock, CNotifyCapacity
  <2>2. CASE CPop
    BY <2>2, DequeueHitType DEF CPop
  <2>3. CASE CFree
    BY <2>3 DEF CFree
  <2>4. CASE CEval
    BY <2>4, DequeueHitType DEF CEval
  <2>5. CASE CEvalStop \/ CUnlock
    BY <2>5 DEF CEvalStop, CUnlock
  <2>6. CASE CCheck
    BY <2>6 DEF CCheck
  <2>7. CASE CLookup
    BY <2>7 DEF CLookup
  <2>8. CASE CConsume
    BY <2>8 DEF CConsume
  <2>9. CASE CDecrease \/ CSetFlag \/ CNotifyFinished
    BY <2>9 DEF CDecrease, CSetFlag, CNotifyFinished
  <2> QED
    BY <2>1, <2>2, <2>3, <2>4, <2>5, <2>6, <2>7, <2>8, <2>9
<1>2. CASE OwnerStep
    BY <1>2 DEF OwnerStep, ONotifyStop, OEventLock, OEventEval, OEventBlock, OEventUnlock,
       OReturn, ownerFrame, consumerVars
<1>3. ASSUME NEW p \in Producers, ProducerStep(p) PROVE NodeInv'
    BY <1>3 DEF ProducerStep, producerFrame, consumerVars, ownerVars
<1>4. CASE AnyCall
    BY <1>4 DEF AnyCall, Subscribe, StopProcessing, producerFrame, ownerFrame, consumerVars,
       ownerVars
<1>5. CASE Spurious
    BY <1>5 DEF Spurious, consumerVars, ownerVars
<1>6. CASE UNCHANGED vars
    BY <1>6 DEF vars, consumerVars, ownerVars
<1> QED
    BY <1>1, <1>2, <1>3, <1>4, <1>5, <1>6 DEF AnyNext

LEMMA ProducerStepInv ==
    ASSUME IInv, [AnyNext]_vars
    PROVE  ProducerInv'
<1> USE NoMsgAssumption, TraitsAssumption DEF IInv, TypeOK, Entries, ProducerInv
<1>1. CASE ConsumerStep
    BY <1>1 DEF ConsumerStep, producerVars
<1>2. CASE OwnerStep
    BY <1>2 DEF OwnerStep, ownerFrame, producerVars
<1>3. ASSUME NEW p \in Producers, ProducerStep(p) PROVE ProducerInv'
  <2>1. CASE PNotify(p)
    BY <2>1 DEF PNotify, PGoto
  <2>2. CASE ~PNotify(p)
    BY <1>3, <2>2 DEF ProducerStep, PGoto, PConstruct, PLink, PLock, PRetry, PBlock, PUnlock
  <2> QED
    BY <2>1, <2>2
<1>4. ASSUME NEW p \in Producers, NEW k \in Keys, Enqueue(p, k) PROVE ProducerInv'
  <2>1. msg'[p] \in Message /\ sent' = sent
    BY <1>4 DEF Enqueue, Message
  <2> QED
    BY <1>4, <2>1 DEF Enqueue, PGoto
<1>5. CASE AnyCall /\ UNCHANGED ownerFrame
    BY <1>5 DEF ownerFrame, producerVars
<1>6. CASE Spurious
    BY <1>6 DEF Spurious, producerVars
<1>7. CASE UNCHANGED vars
    BY <1>7 DEF vars, producerVars
<1> QED
    BY <1>1, <1>2, <1>3, <1>4, <1>5, <1>6, <1>7 DEF AnyNext, AnyCall

-----------------------------------------------------------------------------
(* Sleeping and stopping.                                                  *)

LEMMA WaitStep ==
    ASSUME IInv, [AnyNext]_vars
    PROVE  WaitInv'
<1> USE ThreadsAssumption DEF IInv, TypeOK, Entries, WaitInv, Asleep
<1>1. CASE ConsumerStep
  <2> USE <1>1 DEF ConsumerStep, CGoto, ownerVars, waitVars, consumeVars, enqueueVars, eventVars
  <2>1. CASE CStart \/ CLoop \/ CPop \/ CFree \/ CEval \/ CEvalStop \/ CCheck
    BY <2>1 DEF CStart, CLoop, CPop, CFree, CEval, CEvalStop, CCheck
  <2>2. CASE CLookup \/ CConsume \/ CNotifyCapacity \/ CDecrease \/ CSetFlag
    BY <2>2 DEF CLookup, CConsume, CNotifyCapacity, CDecrease, CSetFlag
  <2>3. CASE CLock
    BY <2>3 DEF CLock, Consume!Lock, Consume!Relock
  <2>4. CASE CBlock
    BY <2>4 DEF CBlock, Consume!Block
  <2>5. CASE CUnlock
    BY <2>5 DEF CUnlock, Consume!Unlock
  <2>6. CASE CNotifyFinished
    BY <2>6 DEF CNotifyFinished, Finish!NotifyAll
  <2> QED
    BY <2>1, <2>2, <2>3, <2>4, <2>5, <2>6
<1>2. CASE OwnerStep
  <2> USE <1>2 DEF OwnerStep, OGoto, ownerFrame, consumerVars, waitVars, consumeVars, enqueueVars, eventVars
  <2>1. CASE ONotifyStop
    BY <2>1 DEF ONotifyStop, Consume!NotifyAll
  <2>2. CASE OEventLock
    BY <2>2 DEF OEventLock, Finish!Lock, Finish!Relock
  <2>3. CASE OEventEval \/ OReturn
    BY <2>3 DEF OEventEval, OReturn
  <2>4. CASE OEventBlock
    BY <2>4 DEF OEventBlock, Finish!Block
  <2>5. CASE OEventUnlock
    BY <2>5 DEF OEventUnlock, Finish!Unlock
  <2> QED
    BY <2>1, <2>2, <2>3, <2>4, <2>5
<1>3. ASSUME NEW p \in Producers, ProducerStep(p) PROVE WaitInv'
  <2> USE <1>3 DEF ProducerStep, producerFrame, consumerVars, ownerVars, consumeVars, eventVars
  <2>1. CASE PNotify(p)
    BY <2>1 DEF PNotify, Consume!NotifyOne
  <2>2. CASE ~PNotify(p)
    BY <2>2 DEF PConstruct, PLink, PLock, PRetry, PBlock, PUnlock
  <2> QED
    BY <2>1, <2>2
<1>4. CASE AnyCall
    BY <1>4 DEF AnyCall, Enqueue, Subscribe, StopProcessing, OGoto, producerFrame, ownerFrame,
       consumerVars, ownerVars, waitVars, consumeVars, eventVars
<1>5. CASE Spurious
    BY <1>5 DEF Spurious, consumerVars, ownerVars, consumeVars, enqueueVars, eventVars,
       Consume!SpuriousWakeup, Finish!SpuriousWakeup
<1>6. CASE UNCHANGED vars
    BY <1>6 DEF vars, consumerVars, ownerVars, waitVars, consumeVars, eventVars
<1> QED
    BY <1>1, <1>2, <1>3, <1>4, <1>5, <1>6 DEF AnyNext

LEMMA StopStep ==
    ASSUME IInv, [AnyNext]_vars
    PROVE  StopInv'
<1> USE DEF IInv, TypeOK, Entries, StopInv
<1>1. CASE ConsumerStep
  <2> USE <1>1 DEF ConsumerStep, CGoto, ownerVars, finishVars
  <2>1. CASE CStart \/ CLoop \/ CPop \/ CFree \/ CLock \/ CEval \/ CEvalStop \/ CBlock
    BY <2>1 DEF CStart, CLoop, CPop, CFree, CLock, CEval, CEvalStop, CBlock
  <2>2. CASE CUnlock \/ CCheck \/ CLookup \/ CConsume \/ CNotifyCapacity
    BY <2>2 DEF CUnlock, CCheck, CLookup, CConsume, CNotifyCapacity
  <2>3. CASE CDecrease \/ CSetFlag \/ CNotifyFinished
    BY <2>3 DEF CDecrease, CSetFlag, CNotifyFinished
  <2> QED
    BY <2>1, <2>2, <2>3
<1>2. CASE OwnerStep
  <2> USE <1>2 DEF OwnerStep, OGoto, ownerFrame, consumerVars, finishVars
  <2>1. CASE ONotifyStop
    BY <2>1 DEF ONotifyStop
  <2>2. CASE OEventLock \/ OEventEval \/ OEventBlock \/ OEventUnlock
    BY <2>2 DEF OEventLock, OEventEval, OEventBlock, OEventUnlock
  <2>3. CASE OReturn
    BY <2>3 DEF OReturn
  <2> QED
    BY <2>1, <2>2, <2>3
<1>3. ASSUME NEW p \in Producers, ProducerStep(p) PROVE StopInv'
    BY <1>3 DEF ProducerStep, producerFrame, consumerVars, ownerVars, finishVars
<1>4. CASE AnyCall
    BY <1>4 DEF AnyCall, Subscribe, StopProcessing, OGoto, producerFrame, ownerFrame,
       consumerVars, ownerVars, finishVars
<1>5. CASE Spurious
    BY <1>5 DEF Spurious, consumerVars, ownerVars, finishVars
<1>6. CASE UNCHANGED vars
    BY <1>6 DEF vars, consumerVars, ownerVars, finishVars
<1> QED
    BY <1>1, <1>2, <1>3, <1>4, <1>5, <1>6 DEF AnyNext

LEMMA StopWakesStep ==
    ASSUME IInv, [AnyNext]_vars
    PROVE  StopWakesConsumer'
<1> USE ThreadsAssumption DEF IInv, TypeOK, Entries, WaitInv, StopWakesConsumer, Asleep
<1>1. CASE ConsumerStep
  <2> USE <1>1 DEF ConsumerStep, CGoto, ownerVars, waitVars, consumeVars
  <2>1. CASE CStart \/ CLoop \/ CPop \/ CFree \/ CEvalStop \/ CCheck \/ CLookup
    BY <2>1 DEF CStart, CLoop, CPop, CFree, CEvalStop, CCheck, CLookup
  <2>2. CASE CConsume \/ CNotifyCapacity \/ CDecrease \/ CSetFlag \/ CNotifyFinished
    BY <2>2 DEF CConsume, CNotifyCapacity, CDecrease, CSetFlag, CNotifyFinished, NotifyOwnerMissed
  <2>3. CASE CLock
    BY <2>3 DEF CLock, Consume!Lock, Consume!Relock
  <2>4. CASE CEval
    BY <2>4 DEF CEval
  <2>5. CASE CBlock
    BY <2>5 DEF CBlock, Consume!Block
  <2>6. CASE CUnlock
    BY <2>6 DEF CUnlock, Consume!Unlock
  <2> QED
    BY <2>1, <2>2, <2>3, <2>4, <2>5, <2>6
<1>2. CASE OwnerStep
  <2> USE <1>2 DEF OwnerStep, OGoto, ownerFrame, consumerVars, waitVars, consumeVars
  <2>1. CASE ONotifyStop
    BY <2>1 DEF ONotifyStop, Consume!NotifyAll, NotifyConsumerMissed
  <2>2. CASE OEventLock \/ OEventBlock \/ OEventUnlock \/ OReturn
    BY <2>2 DEF OEventLock, OEventBlock, OEventUnlock, OReturn
  <2>3. CASE OEventEval
    BY <2>3 DEF OEventEval
  <2> QED
    BY <2>1, <2>2, <2>3
<1>3. ASSUME NEW p \in Producers, ProducerStep(p) PROVE StopWakesConsumer'
  <2> USE <1>3 DEF ProducerStep, producerFrame, consumerVars, ownerVars, consumeVars
  <2>1. CASE PNotify(p)
    BY <2>1 DEF PNotify, Consume!NotifyOne, NotifyConsumerMissed
  <2>2. CASE ~PNotify(p)
    BY <2>2 DEF PConstruct, PLink, PLock, PRetry, PBlock, PUnlock
  <2> QED
    BY <2>1, <2>2
<1>4. CASE AnyCall
    BY <1>4 DEF AnyCall, Enqueue, Subscribe, StopProcessing, OGoto, producerFrame, ownerFrame,
       consumerVars, ownerVars, waitVars, consumeVars
<1>5. CASE Spurious
    BY <1>5 DEF Spurious, consumerVars, ownerVars, consumeVars, Consume!SpuriousWakeup
<1>6. CASE UNCHANGED vars
    BY <1>6 DEF vars, consumerVars, ownerVars, waitVars, consumeVars
<1> QED
    BY <1>1, <1>2, <1>3, <1>4, <1>5, <1>6 DEF AnyNext

LEMMA FinishWakesStep ==
    ASSUME IInv, [AnyNext]_vars
    PROVE  FinishWakesOwner'
<1> USE ThreadsAssumption DEF IInv, TypeOK, Entries, WaitInv, FinishWakesOwner
<1>1. CASE ConsumerStep
  <2> USE <1>1 DEF ConsumerStep, CGoto, ownerVars, waitVars, eventVars, finishVars
  <2>1. CASE CStart \/ CLoop \/ CPop \/ CFree \/ CLock \/ CEvalStop \/ CBlock \/ CUnlock
    BY <2>1 DEF CStart, CLoop, CPop, CFree, CLock, CEvalStop, CBlock, CUnlock
  <2>2. CASE CCheck \/ CLookup \/ CConsume \/ CNotifyCapacity \/ CDecrease \/ CSetFlag
    BY <2>2 DEF CCheck, CLookup, CConsume, CNotifyCapacity, CDecrease, CSetFlag
  <2>3. CASE CEval
    BY <2>3 DEF CEval
  <2>4. CASE CNotifyFinished
    BY <2>4 DEF CNotifyFinished, Finish!NotifyAll, NotifyOwnerMissed
  <2> QED
    BY <2>1, <2>2, <2>3, <2>4
<1>2. CASE OwnerStep
  <2> USE <1>2 DEF OwnerStep, OGoto, ownerFrame, consumerVars, finishVars, waitVars, eventVars
  <2>1. CASE ONotifyStop
    BY <2>1 DEF ONotifyStop, NotifyConsumerMissed
  <2>2. CASE OEventLock
    BY <2>2 DEF OEventLock, Finish!Lock, Finish!Relock
  <2>3. CASE OEventEval
    BY <2>3 DEF OEventEval
  <2>4. CASE OEventBlock
    BY <2>4 DEF OEventBlock, Finish!Block
  <2>5. CASE OEventUnlock
    BY <2>5 DEF OEventUnlock, Finish!Unlock
  <2>6. CASE OReturn
    BY <2>6 DEF OReturn
  <2> QED
    BY <2>1, <2>2, <2>3, <2>4, <2>5, <2>6
<1>3. ASSUME NEW p \in Producers, ProducerStep(p) PROVE FinishWakesOwner'
  <2> USE <1>3 DEF ProducerStep, producerFrame, consumerVars, finishVars, ownerVars, eventVars
  <2>1. CASE PNotify(p)
    BY <2>1 DEF PNotify, NotifyConsumerMissed
  <2>2. CASE ~PNotify(p)
    BY <2>2 DEF PConstruct, PLink, PLock, PRetry, PBlock, PUnlock
  <2> QED
    BY <2>1, <2>2
<1>4. CASE AnyCall
    BY <1>4 DEF AnyCall, Enqueue, Subscribe, StopProcessing, OGoto, producerFrame, ownerFrame,
       consumerVars, finishVars, ownerVars, waitVars, eventVars
<1>5. CASE Spurious
    BY <1>5 DEF Spurious, consumerVars, finishVars, ownerVars, eventVars, Finish!SpuriousWakeup
<1>6. CASE UNCHANGED vars
    BY <1>6 DEF vars, consumerVars, finishVars, ownerVars, waitVars, eventVars
<1> QED
    BY <1>1, <1>2, <1>3, <1>4, <1>5, <1>6 DEF AnyNext

\* While the consumer's decision to sleep stands, a producer with a value in the queue
\* stays on its way to notify_one, and arrives there before it leaves Enqueue.
LEMMA SleepStep ==
    ASSUME IInv, [AnyNext]_vars
    PROVE  SleepHasCause'
<1> USE ThreadsAssumption DEF IInv, TypeOK, Entries, WaitInv, SleepHasCause, Asleep, InOverflowWait
<1>1. CASE ConsumerStep
  <2> USE <1>1 DEF ConsumerStep, CGoto, producerVars, waitVars, consumeVars
  <2>1. CASE CStart \/ CLoop \/ CPop \/ CFree \/ CEvalStop \/ CCheck \/ CLookup
    BY <2>1 DEF CStart, CLoop, CPop, CFree, CEvalStop, CCheck, CLookup
  <2>2. CASE CConsume \/ CNotifyCapacity \/ CDecrease \/ CSetFlag \/ CNotifyFinished
    BY <2>2 DEF CConsume, CNotifyCapacity, CDecrease, CSetFlag, CNotifyFinished
  <2>3. CASE CLock
    BY <2>3 DEF CLock, Consume!Lock, Consume!Relock
  <2>4. CASE CEval
    BY <2>4 DEF CEval, DequeueMiss
  <2>5. CASE CBlock
    BY <2>5 DEF CBlock, Consume!Block
  <2>6. CASE CUnlock
    BY <2>6 DEF CUnlock, Consume!Unlock
  <2> QED
    BY <2>1, <2>2, <2>3, <2>4, <2>5, <2>6
<1>2. CASE OwnerStep
  <2> USE <1>2 DEF OwnerStep, ownerFrame, consumerVars, producerVars, waitVars, consumeVars
  <2>1. CASE ONotifyStop
    BY <2>1 DEF ONotifyStop, Consume!NotifyAll, NotifyConsumerMissed
  <2>2. CASE OEventLock \/ OEventEval \/ OEventBlock \/ OEventUnlock \/ OReturn
    BY <2>2 DEF OEventLock, OEventEval, OEventBlock, OEventUnlock, OReturn
  <2> QED
    BY <2>1, <2>2
<1>3. ASSUME NEW p \in Producers, ProducerStep(p) PROVE SleepHasCause'
  <2> USE <1>3 DEF ProducerStep, PGoto, producerFrame, consumerVars, consumeVars
  <2>1. CASE PConstruct(p)
    BY <2>1 DEF PConstruct
  <2>2. CASE PLink(p)
    BY <2>2 DEF PLink
  <2>3. CASE PLock(p)
    BY <2>3 DEF PLock
  <2>4. CASE PRetry(p)
    BY <2>4 DEF PRetry
  <2>5. CASE PBlock(p)
    BY <2>5 DEF PBlock
  <2>6. CASE PUnlock(p)
    BY <2>6 DEF PUnlock
  <2>7. CASE PNotify(p)
    BY <2>7 DEF PNotify, Consume!NotifyOne, NotifyConsumerMissed
  <2> QED
    BY <2>1, <2>2, <2>3, <2>4, <2>5, <2>6, <2>7
<1>4. CASE AnyCall
  <2>1. ASSUME NEW p \in Producers, NEW k \in Keys, Enqueue(p, k), UNCHANGED producerFrame
        PROVE  SleepHasCause'
    BY <2>1 DEF Enqueue, PGoto, producerFrame, consumerVars, consumeVars
  <2>2. ASSUME UNCHANGED ownerFrame, UNCHANGED <<waitVars, missed>>
        PROVE  SleepHasCause'
    BY <2>2 DEF ownerFrame, consumerVars, producerVars, waitVars, consumeVars
  <2> QED
    BY <1>4, <2>1, <2>2 DEF AnyCall, Subscribe, StopProcessing
<1>5. CASE Spurious
    BY <1>5 DEF Spurious, consumerVars, producerVars, consumeVars, Consume!SpuriousWakeup
<1>6. CASE UNCHANGED vars
    BY <1>6 DEF vars, consumerVars, producerVars, waitVars, consumeVars
<1> QED
    BY <1>1, <1>2, <1>3, <1>4, <1>5, <1>6 DEF AnyNext

-----------------------------------------------------------------------------
(* The theorems.                                                           *)

LEMMA InitIInv == Init => IInv
<1> SUFFICES ASSUME Init PROVE IInv
    OBVIOUS
<1>1. TypeOK
  <2>1. queue \in Seq(Message)
    BY EmptySeq DEF Init
  <2>2. /\ map \in [Keys -> Entries]
        /\ ppc \in [Producers -> ProducerPC]
        /\ msg \in [Producers -> Message \cup {NoMsg}]
        /\ sent \in [Producers -> 0..MaxEnqueues]
    BY TraitsAssumption, ListenersAssumption DEF Entries, Init, ProducerPC
  <2>3. /\ cpc \in ConsumerPC /\ opc \in OwnerPC
        /\ log \subseteq [msg: Message, fate: Fate] /\ repeated \subseteq Message
        /\ subscriptions \subseteq Keys \X Listeners
    BY DEF Init, ConsumerPC, OwnerPC
  <2> QED
    BY <2>1, <2>2, <2>3 DEF Init, TypeOK
<1>2. CounterInv /\ NodeInv /\ ProducerInv /\ WaitInv /\ StopInv
    BY DEF Init, CounterInv, Counted, NodeInv, ProducerInv, WaitInv, Asleep, StopInv
<1>3. SleepHasCause /\ StopWakesConsumer /\ FinishWakesOwner
    BY DEF Init, SleepHasCause, StopWakesConsumer, FinishWakesOwner, Asleep
<1> QED
    BY <1>1, <1>2, <1>3 DEF IInv

LEMMA NextIInv == IInv /\ [AnyNext]_vars => IInv'
BY TypeStep, CounterStep, NodeStep, ProducerStepInv, WaitStep, StopStep, SleepStep,
   StopWakesStep, FinishWakesStep DEF IInv

\* The inductive invariant: on no schedule does the pool leave the types, lose count of
\* its consumer, or put a thread to sleep that nothing is left to wake.
THEOREM Invariance == Spec => []IInv
BY InitIInv, NextIInv, NextIsAny, PTL DEF Spec

\* Every variable keeps its type.
THEOREM TypeCorrect == Spec => []TypeOK
BY Invariance, PTL DEF IInv

\* Dequeue looks up and consumes only nodes that a pop has filled.
THEOREM NodesAreFilled == Spec => []NeverDispatchesEmptyNode
<1>1. IInv => NeverDispatchesEmptyNode
    BY DEF IInv, NodeInv, NeverDispatchesEmptyNode
<1> QED
    BY <1>1, Invariance, PTL

\* A consumer that sleeps on a queue with messages has missed a notify_one, or one is
\* still to come: no other step of Dequeue or Enqueue loses a wakeup.
THEOREM SleepIsCaused == Spec => []SleepHasCause
BY Invariance, PTL DEF IInv

\* A consumer that sleeps through a stop has missed its notify_all, or it is due.
THEOREM StopWakes == Spec => []StopWakesConsumer
BY Invariance, PTL DEF IInv

\* An owner that sleeps though the consumer has finished has missed the event's
\* notify_all, or it is due.
THEOREM FinishWakes == Spec => []FinishWakesOwner
BY Invariance, PTL DEF IInv

\* With a SignConsumerFinished the destructor returns only after the consumer thread
\* has made its last use of the pool.
THEOREM PoolOutlivesConsumer == Spec => []ConsumerNeverOutlivesPool
<1>1. IInv => ConsumerNeverOutlivesPool
    BY DEF IInv, StopInv, ConsumerNeverOutlivesPool
<1> QED
    BY <1>1, Invariance, PTL

\* Once StopProcessing has returned, nothing more is popped, looked up or consumed.
THEOREM StopIsQuiet == Spec => QuietAfterStop
<1>1. IInv /\ [Next]_vars => [StopReturned => UNCHANGED <<node, listener, log, repeated>>]_vars
  <2> SUFFICES ASSUME IInv, Next, StopReturned
               PROVE  UNCHANGED <<node, listener, log, repeated>>
    BY DEF vars, consumerVars, logVars
  <2>1. cpc \in {"notifyFinished", "done"}
    BY DEF IInv, StopInv, StopReturned
  <2>2. CASE ConsumerStep
    BY <2>1, <2>2 DEF ConsumerStep, CGoto, CStart, CLoop, CPop, CFree, CLock, CEval,
       CEvalStop, CBlock, CUnlock, CCheck, CLookup, CConsume, CNotifyCapacity, CDecrease,
       CSetFlag, CNotifyFinished, logVars
  <2>3. CASE OwnerStep \/ Call \/ Spurious \/ \E p \in Producers : ProducerStep(p)
    BY <2>3 DEF OwnerStep, Call, Spurious, ProducerStep, ownerFrame, producerFrame,
       consumerVars, logVars
  <2> QED
    BY <2>2, <2>3 DEF Next
<1> QED
    BY <1>1, Invariance, PTL DEF Spec, QuietAfterStop
=============================================================================
