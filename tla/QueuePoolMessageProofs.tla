------------------------ MODULE QueuePoolMessageProofs ------------------------
(***************************************************************************)
(* Proofs about what becomes of the messages of QueuePool.tla: where they  *)
(* are routed, which of them a stop drops, and what the pool relies on     *)
(* the lock-free queue for.                                                *)
(***************************************************************************)
EXTENDS QueuePoolProofs

-----------------------------------------------------------------------------
(* Routing.                                                                *)

LEMMA InitRouting == Init => RoutingInv
BY ListenersAssumption, FatesAssumption DEF Init, RoutingInv, RoutedToSubscriber

LEMMA RoutingStep ==
    ASSUME IInv, RoutingInv, [AnyNext]_vars
    PROVE  RoutingInv'
<1> USE ListenersAssumption, FatesAssumption DEF IInv, TypeOK, Entries, NodeInv, RoutingInv, RoutedToSubscriber
<1>1. CASE ConsumerStep
  <2> USE <1>1 DEF ConsumerStep, CGoto, logVars
  <2>1. CASE CStart \/ CLoop \/ CPop \/ CFree \/ CLock \/ CEval \/ CEvalStop \/ CBlock
    BY <2>1 DEF CStart, CLoop, CPop, CFree, CLock, CEval, CEvalStop, CBlock
  <2>2. CASE CUnlock \/ CNotifyCapacity \/ CDecrease \/ CSetFlag \/ CNotifyFinished
    BY <2>2 DEF CUnlock, CNotifyCapacity, CDecrease, CSetFlag, CNotifyFinished
  <2>3. CASE CCheck
    BY <2>3 DEF CCheck, Finished
  <2>4. CASE CLookup
    <3>1. node.key \in Keys
      BY <2>4 DEF CLookup, Message
    <3>2. /\ listener' # Null => listener' \in Listeners /\ listener' = map[node.key]
          /\ \A k \in Keys : map'[k] \in Listeners => map'[k] = map[k]
      BY <2>4, <3>1 DEF CLookup, GetFromMap, Found, LookedUp, Emplace, Assign
    <3>3. /\ \A e \in log' : e \in log \/ e.fate = "unknown"
          /\ cpc' = "consume" => node' = node /\ listener' # Null
          /\ subscriptions' = subscriptions
      BY <2>4 DEF CLookup, Finished
    <3>4. RoutedToSubscriber'
      BY <3>3
    <3>5. cpc' = "consume" => <<node.key, listener>>' \in subscriptions'
      BY <3>1, <3>2, <3>3
    <3> QED
      BY <3>2, <3>3, <3>4, <3>5
  <2>5. CASE CConsume
    <3>1. /\ <<node.key, listener>> \in subscriptions
          /\ log' = log \cup {[msg |-> node, fate |-> listener]}
          /\ cpc' # "consume"
          /\ UNCHANGED <<map, subscriptions>>
      BY <2>5 DEF CConsume, Finished
    <3>2. ASSUME NEW e \in log', e \notin log PROVE e.msg = node /\ e.fate = listener
      BY <3>1, <3>2
    <3>3. \A e \in log' : e \in log \/ <<e.msg.key, e.fate>> \in subscriptions
      BY <3>1, <3>2
    <3> QED
      BY <3>1, <3>3
  <2> QED
    BY <2>1, <2>2, <2>3, <2>4, <2>5
<1>2. CASE OwnerStep
  <2>1. UNCHANGED mapVars
    BY <1>2 DEF OwnerStep, ONotifyStop, OEventLock, OEventEval, OEventBlock, OEventUnlock, OReturn
  <2> QED
    BY <1>2, <2>1 DEF OwnerStep, ownerFrame, consumerVars, logVars, mapVars
<1>3. ASSUME NEW p \in Producers, ProducerStep(p) PROVE RoutingInv'
    BY <1>3 DEF ProducerStep, producerFrame, consumerVars, logVars, mapVars
<1>4. CASE AnyCall
  <2>1. ASSUME NEW k \in Keys, NEW l \in Listeners, Subscribe(k, l), UNCHANGED ownerFrame
        PROVE  RoutingInv'
    BY <2>1 DEF Subscribe, AddToMap, Assign, Emplace, ownerFrame, consumerVars, logVars
  <2>2. ASSUME UNCHANGED <<mapVars, consumerVars, logVars>>
        PROVE  RoutingInv'
    BY <2>2 DEF consumerVars, logVars, mapVars
  <2> QED
    BY <1>4, <2>1, <2>2 DEF AnyCall, StopProcessing, producerFrame, ownerFrame
<1>5. CASE Spurious
    BY <1>5 DEF Spurious, consumerVars, logVars, mapVars
<1>6. CASE UNCHANGED vars
    BY <1>6 DEF vars, consumerVars, logVars, mapVars
<1> QED
    BY <1>1, <1>2, <1>3, <1>4, <1>5, <1>6 DEF AnyNext

\* Whatever the traits, a message is consumed only by a listener that was subscribed
\* for its key.
THEOREM Routing == Spec => []RoutedToSubscriber
<1>1. RoutingInv => RoutedToSubscriber
    BY DEF RoutingInv
<1>2. IInv /\ RoutingInv /\ [Next]_vars => RoutingInv'
    BY RoutingStep, NextIsAny
<1> QED
    BY <1>1, <1>2, InitRouting, Invariance, PTL DEF Spec

-----------------------------------------------------------------------------
(* What a stop drops.                                                      *)

LEMMA StopDropStep ==
    ASSUME IInv, StopDropInv, [Next]_vars
    PROVE  StopDropInv'
<1> USE ListenersAssumption, FatesAssumption DEF IInv, TypeOK, Entries, NodeInv, StopDropInv, StopDrops
<1>1. CASE ConsumerStep
  <2> USE <1>1 DEF ConsumerStep, CGoto, logVars, ownerVars
  <2>1. CASE CStart \/ CLoop \/ CPop \/ CFree \/ CLock \/ CEval \/ CEvalStop \/ CBlock
    BY <2>1 DEF CStart, CLoop, CPop, CFree, CLock, CEval, CEvalStop, CBlock
  <2>2. CASE CUnlock \/ CNotifyCapacity \/ CDecrease \/ CSetFlag \/ CNotifyFinished
    BY <2>2 DEF CUnlock, CNotifyCapacity, CDecrease, CSetFlag, CNotifyFinished
  <2>3. CASE CCheck
    BY <2>3 DEF CCheck, Finished
  <2>4. CASE CLookup
    BY <2>4 DEF CLookup, Finished
  <2>5. CASE CConsume
    BY <2>5 DEF CConsume, Finished
  <2> QED
    BY <2>1, <2>2, <2>3, <2>4, <2>5
<1>2. CASE OwnerStep
    BY <1>2 DEF OwnerStep, ONotifyStop, OEventLock, OEventEval, OEventBlock, OEventUnlock,
       OReturn, ownerFrame, consumerVars, logVars
<1>3. ASSUME NEW p \in Producers, ProducerStep(p) PROVE StopDropInv'
    BY <1>3 DEF ProducerStep, producerFrame, consumerVars, ownerVars, logVars
<1>4. CASE Call
    BY <1>4 DEF Call, Subscribe, StopProcessing, producerFrame, ownerFrame, consumerVars,
       ownerVars, logVars
<1>5. CASE Spurious
    BY <1>5 DEF Spurious, consumerVars, ownerVars, logVars
<1>6. CASE UNCHANGED vars
    BY <1>6 DEF vars, consumerVars, ownerVars, logVars
<1> QED
    BY <1>1, <1>2, <1>3, <1>4, <1>5, <1>6 DEF Next

\* However the stop and the pops interleave, at most one message is discarded by it.
THEOREM OneStopDrop == Spec => []AtMostOneStopDrop
<1>1. Init => StopDropInv
    BY DEF Init, StopDropInv, StopDrops
<1>2. IInv /\ StopDropInv /\ [Next]_vars => StopDropInv'
    BY StopDropStep
<1>3. StopDropInv => AtMostOneStopDrop
  <2>1. CASE StopDrops = {}
    BY <2>1, FS_EmptySet DEF AtMostOneStopDrop
  <2>2. ASSUME StopDropInv, StopDrops # {} PROVE AtMostOneStopDrop
    <3>1. PICK e : StopDrops = {e}
      BY <2>2 DEF StopDropInv
    <3>2. Cardinality(StopDrops) = 1
      BY <3>1, FS_Singleton
    <3> QED
      BY <3>2 DEF AtMostOneStopDrop
  <2> QED
    BY <2>1, <2>2
<1> QED
    BY <1>1, <1>2, <1>3, Invariance, PTL DEF Spec

-----------------------------------------------------------------------------
(* With the locked std::map no message of a subscribed key is dropped as   *)
(* unknown.  (With SafeUnorderedMap it may be: see doc_subscribe_ignored.) *)

LEMMA DequeueHitKnown ==
    ASSUME queue \in Seq(Message), \A i \in DOMAIN queue : KnownIsSubscribed(queue[i]),
           DequeueHit
    PROVE  /\ KnownIsSubscribed(node')
           /\ \A i \in DOMAIN queue' : KnownIsSubscribed(queue'[i])
<1>1. /\ Len(queue) \in Nat \ {0} /\ DOMAIN queue = 1..Len(queue)
      /\ node' = queue[1]
    BY EmptySeq, LenProperties DEF DequeueHit
<1>2. /\ DOMAIN queue' = 1..(Len(queue) - 1)
      /\ \A i \in DOMAIN queue' : queue'[i] = queue[i + 1]
    BY <1>1, HeadTailProperties, LenProperties DEF DequeueHit
<1> QED
    BY <1>1, <1>2

LEMMA KnownStep ==
    ASSUME MapTraits = "mutex", IInv, KnownInv, [Next]_vars
    PROVE  KnownInv'
<1> USE NoMsgAssumption, ListenersAssumption, FatesAssumption
    DEF IInv, TypeOK, Entries, NodeInv, KnownInv, KnownIsSubscribed, Subscribed, SubscribedNeverUnknown
<1>1. CASE ConsumerStep
  <2>0. UNCHANGED <<subscriptions, msg>>
    BY <1>1 DEF ConsumerStep, producerVars
  <2> USE <1>1, <2>0 DEF CGoto, logVars, producerVars
  <2>1. CASE CStart \/ CLoop \/ CFree \/ CLock \/ CEvalStop \/ CBlock
    BY <2>1 DEF CStart, CLoop, CFree, CLock, CEvalStop, CBlock
  <2>2. CASE CUnlock \/ CNotifyCapacity \/ CDecrease \/ CSetFlag \/ CNotifyFinished
    BY <2>2 DEF CUnlock, CNotifyCapacity, CDecrease, CSetFlag, CNotifyFinished
  <2>3. CASE CPop \/ CEval
    BY <2>3, DequeueHitKnown DEF CPop, CEval, DequeueMiss
  <2>4. CASE CCheck
    <3>1. UNCHANGED <<map, queue>> /\ node' \in {node, NoMsg}
      BY <2>4 DEF CCheck, Finished
    <3>2. ASSUME NEW e \in log', e \notin log PROVE e.fate # "unknown"
      BY <2>4, <3>2 DEF CCheck, Finished
    <3>3. SubscribedNeverUnknown'
      BY <3>2
    <3> QED
      BY <3>1, <3>3
  <2>5. CASE CLookup
    <3>1. node \in Message /\ node.key \in Keys
      BY <2>5 DEF CLookup, Message
    <3>2. /\ UNCHANGED <<map, queue>>
          /\ listener' = Null => map[node.key] \notin Listeners
      BY <2>5, <3>1 DEF CLookup, GetFromMap, Found, LookedUp
    <3>3. CASE UNCHANGED <<node, log>>
      BY <3>2, <3>3
    <3>4. CASE listener' = Null /\ Finished("unknown")
      <4>1. ~node.known
        BY <3>1, <3>2, <3>4
      <4>2. ASSUME NEW e \in log', e \notin log PROVE ~e.msg.known
        BY <3>4, <4>1, <4>2 DEF Finished
      <4>3. SubscribedNeverUnknown'
        BY <4>2
      <4> QED
        BY <3>2, <3>4, <4>3 DEF Finished
    <3> QED
      BY <2>5, <3>3, <3>4 DEF CLookup
  <2>6. CASE CConsume
    <3>1. UNCHANGED <<map, queue>> /\ node' = NoMsg
      BY <2>6 DEF CConsume, Finished
    <3>2. ASSUME NEW e \in log', e \notin log PROVE e.fate # "unknown"
      BY <2>6, <3>2 DEF CConsume, Finished
    <3>3. SubscribedNeverUnknown'
      BY <3>2
    <3> QED
      BY <3>1, <3>3
  <2> QED
    BY <2>1, <2>2, <2>3, <2>4, <2>5, <2>6 DEF ConsumerStep
<1>2. CASE OwnerStep
  <2>1. UNCHANGED mapVars
    BY <1>2 DEF OwnerStep, ONotifyStop, OEventLock, OEventEval, OEventBlock, OEventUnlock, OReturn
  <2> QED
    BY <1>2, <2>1 DEF OwnerStep, ownerFrame, consumerVars, producerVars, logVars, mapVars
<1>3. ASSUME NEW p \in Producers, ProducerStep(p) PROVE KnownInv'
  <2>1. UNCHANGED <<map, subscriptions, node, log>>
    BY <1>3 DEF ProducerStep, producerFrame, mapVars, consumerVars, logVars
  <2>2. CASE PLink(p)
    <3>1. /\ UNCHANGED msg
          /\ \A i \in DOMAIN queue' : \/ i \in DOMAIN queue /\ queue'[i] = queue[i]
                                      \/ queue'[i] = msg[p]
      BY <2>2, LenProperties, AppendProperties DEF PLink
    <3> QED
      BY <2>1, <3>1
  <2>3. CASE PNotify(p)
    BY <2>1, <2>3 DEF PNotify
  <2>4. CASE ~PLink(p) /\ ~PNotify(p)
    BY <1>3, <2>1, <2>4 DEF ProducerStep, PConstruct, PLock, PRetry, PBlock, PUnlock
  <2> QED
    BY <2>2, <2>3, <2>4
<1>4. CASE Call
  <2>1. ASSUME NEW p \in Producers, NEW k \in Keys, Enqueue(p, k), UNCHANGED producerFrame
        PROVE  KnownInv'
    BY <2>1 DEF Enqueue, producerFrame, mapVars, consumerVars, logVars
  <2>2. ASSUME NEW k \in Keys, NEW l \in Listeners, Subscribe(k, l), UNCHANGED ownerFrame
        PROVE  KnownInv'
    <3>1. /\ map' = [map EXCEPT ![k] = l]
          /\ subscriptions' = subscriptions \cup {<<k, l>>}
          /\ UNCHANGED <<msg, queue, node, log>>
      BY <2>2 DEF Subscribe, AddToMap, Assign, ownerFrame, producerVars, consumerVars, logVars
    <3> QED
      BY <3>1
  <2>3. ASSUME NEW d \in BOOLEAN, StopProcessing(d), UNCHANGED ownerFrame
        PROVE  KnownInv'
    BY <2>3 DEF StopProcessing, ownerFrame, mapVars, producerVars, consumerVars, logVars
  <2> QED
    BY <1>4, <2>1, <2>2, <2>3 DEF Call
<1>5. CASE Spurious
    BY <1>5 DEF Spurious, consumerVars, producerVars, logVars, mapVars
<1>6. CASE UNCHANGED vars
    BY <1>6 DEF vars, consumerVars, producerVars, logVars, mapVars
<1> QED
    BY <1>1, <1>2, <1>3, <1>4, <1>5, <1>6 DEF Next

\* With MapWithMutexTraits a message that was sent after its key had been subscribed is
\* never reported as one of an unknown queue.
THEOREM KnownIsServed ==
    ASSUME MapTraits = "mutex"
    PROVE  Spec => []SubscribedNeverUnknown
<1>1. Init => KnownInv
    BY NoMsgAssumption
    DEF Init, KnownInv, KnownIsSubscribed, Subscribed, SubscribedNeverUnknown
<1>2. IInv /\ KnownInv /\ [Next]_vars => KnownInv'
    BY KnownStep
<1>3. KnownInv => SubscribedNeverUnknown
    BY DEF KnownInv
<1> QED
    BY <1>1, <1>2, <1>3, Invariance, PTL DEF Spec

-----------------------------------------------------------------------------
(* With the lock-free traits, the pool relies on its queue for no more than *)
(* BoundedQueue.tla promises.                                               *)

PoolThreads == Producers \cup {Consumer}

LEMMA StatusOf ==
    /\ QueueStatus(Consumer) = CASE cpc \in {"pop", "eval"} -> "popping"
                                 [] cpc \in {"popFree", "evalFree"} -> "freeing"
                                 [] OTHER -> "idle"
    /\ \A p \in Producers :
          QueueStatus(p) = CASE ppc[p] \in {"construct", "retry"} -> "pushing"
                             [] ppc[p] \in {"link", "retryLink"} -> "holding"
                             [] OTHER -> "idle"
BY ThreadsAssumption DEF QueueStatus

\* BoundedQueue counts with the same definition.
LEMMA SameCardinality == \A S : Bounded!Cardinality(S) = Cardinality(S)
BY DEF Bounded!Cardinality, Cardinality

\* The nodes that BoundedQueue counts are those of the pool's free list.
LEMMA InUseIsNodesInUse ==
    ASSUME IInv
    PROVE  Bounded!InUse = NodesInUse
<1>1. Bounded!Holders = Linking \cup (IF cpc \in {"popFree", "evalFree"} THEN {Consumer} ELSE {})
    BY StatusOf, ThreadsAssumption DEF Bounded!Holders, Linking, IInv, TypeOK
<1>2. Consumer \notin Linking
    BY ThreadsAssumption DEF Linking
<1>3. Cardinality(Linking) \in Nat /\ Len(queue) \in Nat
    BY LinkingIsFinite, LenProperties DEF IInv, TypeOK
<1>4. CASE cpc \in {"popFree", "evalFree"}
  <2>1. Bounded!Holders = Linking \cup {Consumer}
    BY <1>1, <1>4
  <2>2. Cardinality(Bounded!Holders) = Cardinality(Linking) + 1
    BY <1>2, <2>1, LinkingIsFinite, FS_AddElement
  <2> QED
    BY <1>3, <1>4, <2>2, SameCardinality DEF Bounded!InUse, NodesInUse
<1>5. CASE cpc \notin {"popFree", "evalFree"}
  <2>1. Bounded!Holders = Linking
    BY <1>1, <1>5
  <2> QED
    BY <1>3, <1>5, <2>1, SameCardinality DEF Bounded!InUse, NodesInUse
<1> QED
    BY <1>4, <1>5

\* One thread moves from one status to another, the others stay.
LEMMA OneMoves ==
    ASSUME NEW t \in PoolThreads, NEW to, NEW v,
           QueueStatus(t)' = to, QueueValue(t)' = v,
           \A u \in PoolThreads \ {t} : UNCHANGED <<QueueStatus(u), QueueValue(u)>>
    PROVE  Bounded!Become(t, QueueStatus(t), to, v)
BY DEF Bounded!Become, PoolThreads

LEMMA NoneMoves ==
    ASSUME UNCHANGED queue, \A u \in PoolThreads : UNCHANGED <<QueueStatus(u), QueueValue(u)>>
    PROVE  UNCHANGED <<queue, [t \in PoolThreads |-> QueueStatus(t)],
                       [t \in PoolThreads |-> QueueValue(t)], {}>>
OBVIOUS

\* The producers' part is as it was when the consumer moves, and the other way round.
LEMMA ConsumerAlone ==
    ASSUME UNCHANGED <<ppc, msg>>
    PROVE  \A u \in PoolThreads \ {Consumer} : UNCHANGED <<QueueStatus(u), QueueValue(u)>>
BY DEF PoolThreads, QueueStatus, QueueValue

LEMMA ProducerAlone ==
    ASSUME NEW p \in Producers, UNCHANGED <<cpc, node>>,
           \A q \in Producers \ {p} : UNCHANGED <<ppc[q], msg[q]>>
    PROVE  \A u \in PoolThreads \ {p} : UNCHANGED <<QueueStatus(u), QueueValue(u)>>
BY ThreadsAssumption DEF PoolThreads, QueueStatus, QueueValue

-----------------------------------------------------------------------------
(* Each step of the pool is one of the queue, or none.                     *)

boundedVars == <<queue, [t \in PoolThreads |-> QueueStatus(t)],
                 [t \in PoolThreads |-> QueueValue(t)], {}>>

LEMMA ConsumerUses ==
    ASSUME IInv, ConsumerStep
    PROVE  Bounded!Next \/ UNCHANGED boundedVars
<1>0. UNCHANGED <<ppc, msg>> /\ Consumer \in PoolThreads
    BY DEF ConsumerStep, producerVars, PoolThreads
<1>1. \A u \in PoolThreads \ {Consumer} : UNCHANGED <<QueueStatus(u), QueueValue(u)>>
    BY <1>0, ConsumerAlone
<1>2. CASE UNCHANGED <<queue, QueueStatus(Consumer), QueueValue(Consumer)>>
    BY <1>1, <1>2, NoneMoves DEF boundedVars
<1>3. CASE (CLoop /\ cpc' = "pop") \/ CLock
  <2>1. /\ QueueStatus(Consumer) = "idle" /\ QueueStatus(Consumer)' = "popping"
        /\ QueueValue(Consumer)' = NoMsg /\ UNCHANGED queue
    BY <1>3 DEF CLoop, CLock, CGoto, QueueStatus, QueueValue
  <2>2. Bounded!Become(Consumer, "idle", "popping", NoMsg)
    BY <1>0, <1>1, <2>1, OneMoves
  <2>3. Bounded!Pop(Consumer)
    BY <2>1, <2>2 DEF Bounded!Pop
  <2> QED
    BY <1>0, <2>3 DEF Bounded!Next, PoolThreads
<1>4. CASE (CPop \/ CEval) /\ DequeueHit
  <2>1. /\ QueueStatus(Consumer) = "popping" /\ QueueStatus(Consumer)' = "freeing"
        /\ QueueValue(Consumer)' = Head(queue) /\ queue' = Tail(queue) /\ queue # <<>>
    BY <1>4 DEF CPop, CEval, DequeueHit, DequeueMiss, CGoto, QueueStatus, QueueValue
  <2>2. Bounded!Become(Consumer, "popping", "freeing", Head(queue))
    BY <1>0, <1>1, <2>1, OneMoves
  <2>3. Bounded!Unlink(Consumer)
    BY <2>1, <2>2 DEF Bounded!Unlink
  <2> QED
    BY <1>0, <2>3 DEF Bounded!Next, PoolThreads
<1>5. CASE (CPop \/ CEval) /\ DequeueMiss
  <2>1. /\ QueueStatus(Consumer) = "popping" /\ QueueStatus(Consumer)' = "idle"
        /\ QueueValue(Consumer)' = NoMsg /\ queue' = queue /\ queue = <<>>
    BY <1>5 DEF CPop, CEval, DequeueHit, DequeueMiss, CGoto, QueueStatus, QueueValue
  <2>2. Bounded!Become(Consumer, "popping", "idle", NoMsg)
    BY <1>0, <1>1, <2>1, OneMoves
  <2>3. Bounded!Miss(Consumer)
    BY <2>1, <2>2 DEF Bounded!Miss
  <2> QED
    BY <1>0, <2>3 DEF Bounded!Next, PoolThreads
<1>6. CASE CFree
  <2>1. /\ QueueStatus(Consumer) = "freeing" /\ QueueStatus(Consumer)' = "idle"
        /\ QueueValue(Consumer)' = NoMsg /\ queue' = queue
    BY <1>6 DEF CFree, CGoto, QueueStatus, QueueValue
  <2>2. Bounded!Become(Consumer, "freeing", "idle", NoMsg)
    BY <1>0, <1>1, <2>1, OneMoves
  <2>3. Bounded!GiveBack(Consumer)
    BY <2>1, <2>2 DEF Bounded!GiveBack
  <2> QED
    BY <1>0, <2>3 DEF Bounded!Next, PoolThreads
<1>7. CASE \/ CStart \/ (CLoop /\ cpc' # "pop") \/ CEvalStop \/ CBlock \/ CUnlock \/ CCheck
           \/ CLookup \/ CConsume \/ CNotifyCapacity \/ CDecrease \/ CSetFlag \/ CNotifyFinished
  <2>1. /\ queue' = queue /\ cpc \notin {"pop", "eval", "popFree", "evalFree"}
        /\ cpc' \notin {"pop", "eval", "popFree", "evalFree"}
    BY <1>7 DEF CGoto, CStart, CLoop, CEvalStop, CBlock, CUnlock, CCheck, CLookup, CConsume,
       CNotifyCapacity, CDecrease, CSetFlag, CNotifyFinished
  <2> QED
    BY <1>2, <2>1 DEF QueueStatus, QueueValue
<1>8. CPop \/ CEval => DequeueHit \/ DequeueMiss
    BY DEF CPop, CEval
<1> QED
    BY <1>3, <1>4, <1>5, <1>6, <1>7, <1>8 DEF ConsumerStep

LEMMA ProducerUses ==
    ASSUME QueueTraits = "lockfree", IInv, NEW p \in Producers, ProducerStep(p)
    PROVE  Bounded!Next \/ UNCHANGED boundedVars
<1>0. UNCHANGED <<cpc, node>> /\ p \in PoolThreads /\ p # Consumer
    BY ThreadsAssumption DEF ProducerStep, producerFrame, consumerVars, PoolThreads
<1>1. \A q \in Producers \ {p} : UNCHANGED <<ppc[q], msg[q]>>
    BY DEF IInv, TypeOK, ProducerStep, PGoto, PConstruct, PLink, PLock, PRetry, PBlock, PUnlock, PNotify
<1>2. \A u \in PoolThreads \ {p} : UNCHANGED <<QueueStatus(u), QueueValue(u)>>
    BY <1>0, <1>1, ProducerAlone
<1>3. ppc \in [Producers -> ProducerPC] /\ msg \in [Producers -> Message \cup {NoMsg}]
    BY DEF IInv, TypeOK
<1>4. (NodesInUse >= Capacity <=> Exhausted) /\ (NodesInUse < Capacity <=> ~Exhausted)
  <2>1. NodesInUse \in Nat
    BY LinkingIsFinite, LenProperties DEF NodesInUse, IInv, TypeOK
  <2> QED
    BY <2>1, TraitsAssumption DEF Exhausted
<1>5. CASE PLock(p)
  <2>1. /\ QueueStatus(p) = "idle" /\ QueueStatus(p)' = "pushing" /\ QueueValue(p)' = msg[p]
        /\ UNCHANGED queue /\ msg[p] # NoMsg
    BY <1>0, <1>3, <1>5 DEF PLock, PGoto, QueueStatus, QueueValue, IInv, ProducerInv
  <2>2. Bounded!Become(p, "idle", "pushing", msg[p])
    BY <1>0, <1>2, <2>1, OneMoves
  <2>3. Bounded!Push(p, msg[p]) /\ msg[p] \in Message
    BY <1>3, <2>1, <2>2 DEF Bounded!Push
  <2> QED
    BY <1>0, <2>3 DEF Bounded!Next, PoolThreads
<1>6. CASE (PConstruct(p) \/ PRetry(p)) /\ ~Exhausted
  <2>1. /\ QueueStatus(p) = "pushing" /\ QueueStatus(p)' = "holding" /\ QueueValue(p)' = msg[p]
        /\ QueueValue(p) = msg[p] /\ UNCHANGED queue
    BY <1>0, <1>3, <1>6 DEF PConstruct, PRetry, PGoto, QueueStatus, QueueValue
  <2>2. Bounded!Become(p, "pushing", "holding", QueueValue(p))
    BY <1>0, <1>2, <2>1, OneMoves
  <2>3. Bounded!Take(p)
    BY <1>0, <1>4, <1>6, <2>1, <2>2, InUseIsNodesInUse DEF Bounded!Take, PoolThreads
  <2> QED
    BY <1>0, <2>3 DEF Bounded!Next, PoolThreads
<1>7. CASE (PConstruct(p) \/ PRetry(p)) /\ Exhausted
  <2>1. /\ QueueStatus(p) = "pushing" /\ QueueStatus(p)' = "idle" /\ QueueValue(p)' = NoMsg
        /\ UNCHANGED queue
    BY <1>0, <1>3, <1>7 DEF PConstruct, PRetry, PGoto, QueueStatus, QueueValue
  <2>2. Bounded!Become(p, "pushing", "idle", NoMsg)
    BY <1>0, <1>2, <2>1, OneMoves
  <2>3. Bounded!Refuse(p)
    BY <1>4, <1>7, <2>1, <2>2, InUseIsNodesInUse DEF Bounded!Refuse
  <2> QED
    BY <1>0, <2>3 DEF Bounded!Next, PoolThreads
<1>8. CASE PLink(p)
  <2>1. /\ QueueStatus(p) = "holding" /\ QueueStatus(p)' = "idle" /\ QueueValue(p)' = NoMsg
        /\ QueueValue(p) = msg[p] /\ queue' = Append(queue, msg[p])
    BY <1>0, <1>3, <1>8 DEF PLink, PGoto, QueueStatus, QueueValue
  <2>2. Bounded!Become(p, "holding", "idle", NoMsg)
    BY <1>0, <1>2, <2>1, OneMoves
  <2>3. Bounded!Link(p)
    BY <1>0, <2>1, <2>2 DEF Bounded!Link, PoolThreads
  <2> QED
    BY <1>0, <2>3 DEF Bounded!Next, PoolThreads
<1>9. CASE PBlock(p) \/ PUnlock(p) \/ PNotify(p)
  <2>1. /\ queue' = queue /\ ppc[p] \in {"block", "unlock", "notify"}
        /\ ppc'[p] \in {"blocked", "notify", "idle"}
    BY <1>3, <1>9 DEF PBlock, PUnlock, PNotify, PGoto
  <2>2. UNCHANGED <<QueueStatus(p), QueueValue(p)>>
    BY <1>0, <2>1 DEF QueueStatus, QueueValue
  <2> QED
    BY <1>2, <2>1, <2>2, NoneMoves DEF boundedVars
<1> QED
    BY <1>5, <1>6, <1>7, <1>8, <1>9 DEF ProducerStep

LEMMA EnqueueUses ==
    ASSUME IInv, NEW p \in Producers, NEW k \in Keys, Enqueue(p, k), UNCHANGED producerFrame
    PROVE  Bounded!Next
<1>0. UNCHANGED <<cpc, node>> /\ p \in PoolThreads /\ p # Consumer
    BY ThreadsAssumption DEF producerFrame, consumerVars, PoolThreads
<1>1. \A q \in Producers \ {p} : UNCHANGED <<ppc[q], msg[q]>>
    BY DEF IInv, TypeOK, Enqueue, PGoto
<1>2. \A u \in PoolThreads \ {p} : UNCHANGED <<QueueStatus(u), QueueValue(u)>>
    BY <1>0, <1>1, ProducerAlone
<1>3. msg'[p] \in Message
    BY TraitsAssumption DEF Enqueue, Message, IInv, TypeOK
<1>4. /\ QueueStatus(p) = "idle" /\ QueueStatus(p)' = "pushing" /\ QueueValue(p)' = msg'[p]
      /\ UNCHANGED queue
    BY <1>0 DEF Enqueue, PGoto, QueueStatus, QueueValue, IInv, TypeOK
<1>5. Bounded!Become(p, "idle", "pushing", msg'[p])
    BY <1>0, <1>2, <1>4, OneMoves
<1>6. \E v \in Message : Bounded!Push(p, v)
    BY <1>3, <1>4, <1>5 DEF Bounded!Push
<1> QED
    BY <1>0, <1>6 DEF Bounded!Next, PoolThreads

\* What is not the consumer nor a producer does not touch the queue.
LEMMA OthersUse ==
    ASSUME UNCHANGED <<queue, cpc, node, ppc, msg>>
    PROVE  UNCHANGED boundedVars
<1>1. \A u \in PoolThreads : UNCHANGED <<QueueStatus(u), QueueValue(u)>>
    BY DEF QueueStatus, QueueValue
<1> QED
    BY <1>1, NoneMoves DEF boundedVars

\* Whatever the pool does with its lock-free queue a bounded FIFO allows: with the module
\* LockfreeQueue, which is one (Linearizable in LockfreeQueueListProofs), this is what the
\* pool rests on.
THEOREM UsesQueue ==
    ASSUME QueueTraits = "lockfree"
    PROVE  Spec => UsesBoundedQueue
<1>1. Init => Bounded!Init
  <2> SUFFICES ASSUME Init PROVE Bounded!Init
    OBVIOUS
  <2>1. \A t \in PoolThreads : QueueStatus(t) = "idle" /\ QueueValue(t) = NoMsg
    BY DEF Init, PoolThreads, QueueStatus, QueueValue
  <2> QED
    BY <2>1 DEF Init, Bounded!Init, PoolThreads
<1>2. IInv /\ [Next]_vars => Bounded!Next \/ UNCHANGED boundedVars
  <2> SUFFICES ASSUME IInv, [Next]_vars PROVE Bounded!Next \/ UNCHANGED boundedVars
    OBVIOUS
  <2>1. CASE ConsumerStep
    BY <2>1, ConsumerUses
  <2>2. ASSUME NEW p \in Producers, ProducerStep(p)
        PROVE  Bounded!Next \/ UNCHANGED boundedVars
    BY <2>2, ProducerUses
  <2>3. ASSUME NEW p \in Producers, NEW k \in Keys, Enqueue(p, k), UNCHANGED producerFrame
        PROVE  Bounded!Next
    BY <2>3, EnqueueUses
  <2>4. CASE OwnerStep \/ Spurious \/ UNCHANGED vars \/ (Call /\ UNCHANGED ownerFrame)
    BY <2>4, OthersUse DEF OwnerStep, Spurious, vars, ownerFrame, consumerVars, producerVars
  <2> QED
    BY <2>1, <2>2, <2>3, <2>4 DEF Next, Call
<1>3. IInv /\ [Next]_vars => [Bounded!Next]_boundedVars
    BY <1>2
<1> QED
    BY <1>1, <1>3, Invariance, PTL DEF Spec, UsesBoundedQueue, Bounded!Spec, boundedVars, PoolThreads
=============================================================================
