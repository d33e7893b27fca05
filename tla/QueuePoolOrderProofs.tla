------------------------ MODULE QueuePoolOrderProofs ------------------------
(***************************************************************************)
(* Proofs that the pool of QueuePool.tla keeps the messages of a producer  *)
(* in order, with any traits, and that it loses or doubles only those of   *)
(* calls that found the queue full: none where no push fails.              *)
(***************************************************************************)
EXTENDS QueuePoolProofs

-----------------------------------------------------------------------------
(* The node of the consumer, and the calls of the producers.               *)

LEMMA NodeFinishedStep ==
    ASSUME IInv, NodeFinished, [AnyNext]_vars
    PROVE  NodeFinished'
<1> USE DEF NodeFinished
<1>1. CASE ConsumerStep
  <2> USE <1>1 DEF ConsumerStep, CGoto
  <2>1. CASE CStart \/ CLoop \/ CPop \/ CFree \/ CLock \/ CBlock \/ CUnlock
    BY <2>1 DEF CStart, CLoop, CPop, CFree, CLock, CBlock, CUnlock, DequeueMiss
  <2>2. CASE CEval \/ CEvalStop \/ CNotifyCapacity \/ CDecrease \/ CSetFlag \/ CNotifyFinished
    BY <2>2 DEF CEval, CEvalStop, CNotifyCapacity, CDecrease, CSetFlag, CNotifyFinished, DequeueMiss
  <2>3. CASE CCheck \/ CLookup \/ CConsume
    BY <2>3 DEF CCheck, CLookup, CConsume, Finished
  <2> QED
    BY <2>1, <2>2, <2>3
<1>2. CASE UNCHANGED consumerVars
    BY <1>2 DEF consumerVars
<1>3. CASE OwnerStep \/ Spurious \/ UNCHANGED vars \/ AnyCall
    BY <1>2, <1>3 DEF OwnerStep, Spurious, vars, AnyCall, ownerFrame, producerFrame
<1>4. ASSUME NEW p \in Producers, ProducerStep(p) PROVE NodeFinished'
    BY <1>2, <1>4 DEF ProducerStep, producerFrame
<1> QED
    BY <1>1, <1>3, <1>4 DEF AnyNext

LEMMA InjectiveImage ==
    ASSUME NEW S, IsFiniteSet(S), NEW f, DOMAIN f = S,
           \A x, y \in S : f[x] = f[y] => x = y
    PROVE  /\ IsFiniteSet({f[x] : x \in S})
           /\ Cardinality({f[x] : x \in S}) = Cardinality(S)
<1> DEFINE T == {f[x] : x \in S}
           g == [x \in S |-> f[x]]
<1>1. g \in Bijection(S, T)
    BY DEF Bijection, Injection, Surjection, IsInjective
<1>2. ExistsBijection(S, T)
    BY <1>1 DEF ExistsBijection
<1> QED
    BY <1>2, FS_Bijection

\* The calls whose messages hold a node of the queue: linked, yet to be linked, or
\* unlinked and not yet given back.
CallsQueued  == {<<queue[i].from, queue[i].n>> : i \in DOMAIN queue}
CallsPushing == {<<p, sent[p] + 1>> : p \in Linking}
CallsPopping == IF cpc \in {"popFree", "evalFree"} THEN {<<node.from, node.n>>} ELSE {}

\* No two nodes are of the same call.
LEMMA NodesAreCalls ==
    ASSUME NeverFull, IInv, CallInv, OrderInv
    PROVE  LET C == CallsQueued \cup CallsPushing \cup CallsPopping
           IN  IsFiniteSet(C) /\ Cardinality(C) = NodesInUse
<1>1. /\ queue \in Seq(Message) /\ Len(queue) \in Nat /\ DOMAIN queue = 1..Len(queue)
      /\ \A i \in DOMAIN queue : queue[i] \in Message
    BY LenProperties, ElementOfSeq DEF IInv, TypeOK
<1>2. /\ \A m \in Message : m.from \in Producers /\ m.n \in Nat
      /\ \A p \in Producers : sent[p] \in Nat
    BY TraitsAssumption DEF Message, IInv, TypeOK
<1>0. overflowed = {}
    BY DEF CallInv
<1>3. ASSUME NEW i \in DOMAIN queue, NEW j \in DOMAIN queue, queue[i].from = queue[j].from,
             queue[i].n = queue[j].n
      PROVE  i = j
  <2>1. ~Before(queue[i], queue[j]) /\ ~Before(queue[j], queue[i])
    BY <1>0, <1>1, <1>2, <1>3 DEF Before
  <2>2. ~(i < j) /\ ~(j < i)
    BY <2>1 DEF OrderInv
  <2> QED
    BY <1>1, <2>2
<1>4. IsFiniteSet(CallsQueued) /\ Cardinality(CallsQueued) = Len(queue)
  <2> DEFINE f == [i \in 1..Len(queue) |-> <<queue[i].from, queue[i].n>>]
  <2>1. CallsQueued = {f[i] : i \in 1..Len(queue)}
    BY <1>1 DEF CallsQueued
  <2>2. IsFiniteSet(1..Len(queue)) /\ Cardinality(1..Len(queue)) = Len(queue)
    BY <1>1, FS_Interval
  <2>3. \A i, j \in 1..Len(queue) : f[i] = f[j] => i = j
    BY <1>1, <1>3
  <2> HIDE DEF f
  <2>4. DOMAIN f = 1..Len(queue)
    BY DEF f
  <2> QED
    BY <2>1, <2>2, <2>3, <2>4, InjectiveImage
<1>5. IsFiniteSet(CallsPushing) /\ Cardinality(CallsPushing) = Cardinality(Linking)
  <2> DEFINE f == [p \in Linking |-> <<p, sent[p] + 1>>]
  <2>1. CallsPushing = {f[p] : p \in Linking}
    BY DEF CallsPushing
  <2>2. \A p, q \in Linking : f[p] = f[q] => p = q
    OBVIOUS
  <2>3. DOMAIN f = Linking
    OBVIOUS
  <2> HIDE DEF f
  <2> QED
    BY <2>1, <2>2, <2>3, InjectiveImage, LinkingIsFinite
<1>6. CallsQueued \cap CallsPushing = {}
  <2> SUFFICES ASSUME NEW p \in Linking, NEW i \in DOMAIN queue, queue[i].from = p,
                      queue[i].n = sent[p] + 1
               PROVE  FALSE
    BY DEF CallsQueued, CallsPushing
  <2>1. p \in Producers /\ ppc[p] # "notify"
    BY DEF Linking
  <2>2. Sent(p, sent[p] + 1)
    BY DEF OrderInv
  <2> QED
    BY <1>0, <1>2, <2>1, <2>2 DEF Sent
<1>7. ASSUME cpc \in {"popFree", "evalFree"}
      PROVE  <<node.from, node.n>> \notin CallsQueued \cup CallsPushing
  <2>1. node \in Message /\ node # NoMsg
    BY <1>7, NoMsgAssumption DEF IInv, TypeOK, NodeInv
  <2>2. <<node.from, node.n>> \notin CallsQueued
    BY <1>0, <1>1, <1>2, <2>1 DEF OrderInv, Before, CallsQueued
  <2>3. ASSUME NEW p \in Linking, node.from = p, node.n = sent[p] + 1 PROVE FALSE
    <3>1. p \in Producers /\ ppc[p] # "notify"
      BY DEF Linking
    <3>2. Sent(p, sent[p] + 1)
      BY <2>1, <2>3 DEF OrderInv
    <3> QED
      BY <1>0, <1>2, <3>1, <3>2 DEF Sent
  <2> QED
    BY <2>2, <2>3 DEF CallsPushing
<1>8. /\ IsFiniteSet(CallsQueued \cup CallsPushing)
      /\ Cardinality(CallsQueued \cup CallsPushing) = Len(queue) + Cardinality(Linking)
  <2>1. Cardinality(CallsQueued \cap CallsPushing) = 0
    BY <1>6, FS_EmptySet
  <2>2. /\ IsFiniteSet(CallsQueued \cup CallsPushing)
        /\ Cardinality(CallsQueued \cup CallsPushing)
             = Cardinality(CallsQueued) + Cardinality(CallsPushing)
                                        - Cardinality(CallsQueued \cap CallsPushing)
    BY <1>4, <1>5, FS_Union
  <2>3. Cardinality(Linking) \in Nat
    BY LinkingIsFinite
  <2> QED
    BY <1>1, <1>4, <1>5, <2>1, <2>2, <2>3
<1>9. CASE cpc \in {"popFree", "evalFree"}
  <2>1. CallsPopping = {<<node.from, node.n>>}
    BY <1>9 DEF CallsPopping
  <2> QED
    BY <1>1, <1>7, <1>8, <1>9, <2>1, FS_AddElement, LinkingIsFinite DEF NodesInUse
<1>10. CASE cpc \notin {"popFree", "evalFree"}
  <2>1. CallsPopping = {}
    BY <1>10 DEF CallsPopping
  <2>2. CallsQueued \cup CallsPushing \cup CallsPopping = CallsQueued \cup CallsPushing
    BY <2>1
  <2>3. NodesInUse = Len(queue) + Cardinality(Linking)
    BY <1>1, <1>10, LinkingIsFinite DEF NodesInUse
  <2> QED
    BY <1>8, <2>2, <2>3
<1> QED
    BY <1>9, <1>10

\* The push of a call finds a node: the nodes in use are of other calls, and no more.
LEMMA NeverExhausted ==
    ASSUME NeverFull, IInv, CallInv, OrderInv, NEW p \in Producers, ppc[p] = "construct"
    PROVE  ~Exhausted
<1> SUFFICES ASSUME QueueTraits = "lockfree" PROVE ~(NodesInUse >= Capacity)
    BY DEF Exhausted
<1> DEFINE C == CallsQueued \cup CallsPushing \cup CallsPopping
           All == Producers \X (1..MaxEnqueues)
<1>1. IsFiniteSet(C) /\ Cardinality(C) = NodesInUse
    BY NodesAreCalls
<1>2. /\ IsFiniteSet(All) /\ Cardinality(All) = Cardinality(Producers) * MaxEnqueues
      /\ Cardinality(All) \in Nat
  <2>1. IsFiniteSet(1..MaxEnqueues) /\ Cardinality(1..MaxEnqueues) = MaxEnqueues
    BY TraitsAssumption, FS_Interval
  <2>2. IsFiniteSet(Producers)
    BY ThreadsAssumption
  <2>3. IsFiniteSet(All) /\ Cardinality(All) = Cardinality(Producers) * Cardinality(1..MaxEnqueues)
    BY <2>1, <2>2, FS_Product
  <2> QED
    BY <2>1, <2>3, FS_CardinalityType
<1>3. /\ \A i \in DOMAIN queue : queue[i] \in Message
      /\ \A m \in Message : m.from \in Producers /\ m.n \in 1..MaxEnqueues
      /\ \A q \in Producers : sent[q] \in 0..MaxEnqueues
  <2>1. \A i \in DOMAIN queue : queue[i] \in Message
    BY LenProperties, ElementOfSeq DEF IInv, TypeOK
  <2> QED
    BY <2>1 DEF Message, IInv, TypeOK
<1>4. C \subseteq All
  <2>1. CallsQueued \subseteq All
    BY <1>3 DEF CallsQueued
  <2>2. ASSUME NEW q \in Linking PROVE q \in Producers /\ sent[q] + 1 \in 1..MaxEnqueues
    BY <1>3, TraitsAssumption DEF Linking, IInv, ProducerInv
  <2>3. CallsPushing \subseteq All
    BY <2>2 DEF CallsPushing
  <2>4. CallsPopping \subseteq All
    BY <1>3, NoMsgAssumption DEF CallsPopping, IInv, TypeOK, NodeInv
  <2> QED
    BY <2>1, <2>3, <2>4
<1>5. <<p, sent[p] + 1>> \in All \ C
  <2>1. sent[p] + 1 \in 1..MaxEnqueues /\ sent[p] \in Nat
    BY <1>3, TraitsAssumption DEF IInv, ProducerInv
  <2>2. ~Sent(p, sent[p] + 1)
    BY <2>1 DEF Sent, CallInv
  <2>3. <<p, sent[p] + 1>> \notin CallsQueued
    BY <2>2 DEF OrderInv, CallsQueued
  <2>4. <<p, sent[p] + 1>> \notin CallsPushing
    BY DEF CallsPushing, Linking
  <2>5. <<p, sent[p] + 1>> \notin CallsPopping
    BY <2>2 DEF OrderInv, CallsPopping, IInv, NodeInv
  <2> QED
    BY <2>1, <2>3, <2>4, <2>5
<1>6. Cardinality(C) <= Cardinality(All) /\ Cardinality(C) # Cardinality(All)
  <2> HIDE DEF C, All
  <2>1. C \in SUBSET All /\ C # All
    BY <1>4, <1>5
  <2> QED
    BY <1>2, <2>1, FS_Subset
<1>7. Capacity >= Cardinality(All) /\ Capacity \in Nat
    BY <1>2, TraitsAssumption DEF NeverFull
<1>8. Cardinality(C) \in Nat
    BY <1>1, FS_CardinalityType
<1> HIDE DEF C, All
<1> QED
    BY <1>1, <1>2, <1>6, <1>7, <1>8

LEMMA CallStep ==
    ASSUME IInv, CallInv, OrderInv, [AnyNext]_vars
    PROVE  CallInv'
<1> USE TraitsAssumption DEF IInv, TypeOK, CallInv, InOverflowWait
<1>1. CASE UNCHANGED producerVars
    BY <1>1 DEF producerVars
<1>2. CASE ConsumerStep \/ OwnerStep \/ Spurious \/ UNCHANGED vars \/ (AnyCall /\ UNCHANGED ownerFrame)
    BY <1>1, <1>2 DEF ConsumerStep, OwnerStep, Spurious, vars, ownerFrame
<1>3. ASSUME NEW p \in Producers, ProducerStep(p) PROVE CallInv'
  <2> sent[p] \in Nat
    OBVIOUS
  <2>1. CASE PNotify(p)
    BY <2>1 DEF PNotify, PGoto
  <2>2. CASE PConstruct(p)
    <3>1. NeverFull => ~Exhausted
      BY <2>2, NeverExhausted DEF PConstruct, PGoto
    <3>2. /\ UNCHANGED <<msg, sent>> /\ ppc[p] = "construct"
          /\ \/ ppc' = [ppc EXCEPT ![p] = "link"] /\ overflowed' = overflowed
             \/ /\ ppc' = [ppc EXCEPT ![p] = "lock"] /\ ~NeverFull
                /\ overflowed' = overflowed \cup {<<p, sent[p] + 1>>}
      BY <2>2, <3>1 DEF PConstruct, PGoto
    <3> QED
      BY <3>2
  <2>3. CASE PLink(p) \/ PLock(p) \/ PRetry(p) \/ PBlock(p) \/ PUnlock(p)
    <3>1. /\ UNCHANGED <<msg, sent, overflowed>>
          /\ \/ ppc[p] = "link" /\ ppc' = [ppc EXCEPT ![p] = "notify"]
             \/ ppc[p] = "unlock" /\ ppc' = [ppc EXCEPT ![p] = "notify"]
             \/ /\ ppc[p] = "lock" \/ InOverflowWait(p)
                /\ \E to \in {"retry", "retryLink", "block", "blocked", "unlock"} :
                      ppc' = [ppc EXCEPT ![p] = to]
      BY <2>3 DEF PGoto, PLink, PLock, PRetry, PBlock, PUnlock
    <3> QED
      BY <3>1
  <2> QED
    BY <1>3, <2>1, <2>2, <2>3 DEF ProducerStep
<1>4. ASSUME NEW p \in Producers, NEW k \in Keys, Enqueue(p, k) PROVE CallInv'
    BY <1>4 DEF Enqueue, PGoto
<1> QED
    BY <1>2, <1>3, <1>4 DEF AnyNext, AnyCall

\* That a call has found the queue full is never taken back.
LEMMA OverflowedStep ==
    ASSUME [AnyNext]_vars
    PROVE  overflowed \subseteq overflowed'
<1>1. CASE UNCHANGED producerVars
    BY <1>1 DEF producerVars
<1>2. CASE ConsumerStep \/ OwnerStep \/ Spurious \/ UNCHANGED vars \/ (AnyCall /\ UNCHANGED ownerFrame)
    BY <1>1, <1>2 DEF ConsumerStep, OwnerStep, Spurious, vars, ownerFrame
<1>3. ASSUME NEW p \in Producers, ProducerStep(p) PROVE overflowed \subseteq overflowed'
    BY <1>3 DEF ProducerStep, PConstruct, PLink, PLock, PRetry, PBlock, PUnlock, PNotify
<1>4. ASSUME NEW p \in Producers, NEW k \in Keys, Enqueue(p, k) PROVE overflowed \subseteq overflowed'
    BY <1>4 DEF Enqueue
<1> QED
    BY <1>2, <1>3, <1>4 DEF AnyNext, AnyCall

LEMMA BeforeStep ==
    ASSUME [AnyNext]_vars
    PROVE  \A m, o : Before(m, o) => Before(m, o)'
BY OverflowedStep DEF Before

-----------------------------------------------------------------------------
(* The order along the way.                                                *)

\* A pop that succeeds takes the first message; the others move up.
LEMMA DequeueHitShifts ==
    ASSUME queue \in Seq(Message), DequeueHit
    PROVE  /\ 1 \in DOMAIN queue /\ node' = queue[1]
           /\ \A i \in DOMAIN queue' : /\ i \in Nat \ {0} /\ i + 1 \in DOMAIN queue
                                       /\ queue'[i] = queue[i + 1]
           /\ \A i \in DOMAIN queue : i # 1 => i - 1 \in DOMAIN queue' /\ queue'[i - 1] = queue[i]
<1>1. /\ Len(queue) \in Nat \ {0} /\ DOMAIN queue = 1..Len(queue)
      /\ node' = queue[1]
    BY EmptySeq, LenProperties DEF DequeueHit
<1>2. /\ DOMAIN queue' = 1..(Len(queue) - 1)
      /\ \A i \in DOMAIN queue' : queue'[i] = queue[i + 1]
    BY <1>1, HeadTailProperties, LenProperties DEF DequeueHit
<1> QED
    BY <1>1, <1>2

\* A push puts its message behind the others.
LEMMA LinkAppends ==
    ASSUME IInv, NEW p \in Producers, PLink(p)
    PROVE  /\ msg[p] \in Message
           /\ \E n \in Nat : /\ DOMAIN queue = 1..n /\ DOMAIN queue' = 1..(n + 1)
                             /\ queue'[n + 1] = msg[p]
                             /\ \A i \in DOMAIN queue : queue'[i] = queue[i]
<1>1. msg[p] \in Message
    BY DEF PLink, PGoto, IInv, TypeOK, ProducerInv
<1>2. queue \in Seq(Message) /\ queue' = Append(queue, msg[p])
    BY DEF PLink, IInv, TypeOK
<1>3. /\ Len(queue) \in Nat /\ DOMAIN queue = 1..Len(queue)
      /\ queue' \in Seq(Message) /\ Len(queue') = Len(queue) + 1
      /\ queue'[Len(queue) + 1] = msg[p]
      /\ \A i \in 1..Len(queue) : queue'[i] = queue[i]
    BY <1>1, <1>2, LenProperties, AppendProperties
<1>4. DOMAIN queue' = 1..(Len(queue) + 1)
    BY <1>3, LenProperties
<1> QED
    BY <1>1, <1>3, <1>4

\* What has been sent stays so.
LEMMA SentStep ==
    ASSUME IInv, CallInv, [AnyNext]_vars, NEW p \in Producers, NEW n \in 1..MaxEnqueues, Sent(p, n)
    PROVE  Sent(p, n)'
<1> USE TraitsAssumption, OverflowedStep DEF IInv, TypeOK, Sent
<1>1. CASE UNCHANGED producerVars
    BY <1>1 DEF producerVars
<1>2. CASE ConsumerStep \/ OwnerStep \/ Spurious \/ UNCHANGED vars \/ (AnyCall /\ UNCHANGED ownerFrame)
    BY <1>1, <1>2 DEF ConsumerStep, OwnerStep, Spurious, vars, ownerFrame
<1>3. ASSUME NEW q \in Producers, ProducerStep(q) PROVE Sent(p, n)'
  <2>1. CASE PNotify(q)
    BY <2>1 DEF PNotify, PGoto
  <2>2. CASE ~PNotify(q)
    <3>1. sent' = sent /\ (ppc[p] = "notify" => ppc'[p] = "notify")
      BY <1>3, <2>2 DEF ProducerStep, PGoto, PConstruct, PLink, PLock, PRetry, PBlock, PUnlock
    <3> QED
      BY <3>1
  <2> QED
    BY <2>1, <2>2
<1>4. ASSUME NEW q \in Producers, NEW k \in Keys, Enqueue(q, k) PROVE Sent(p, n)'
    BY <1>4 DEF Enqueue, PGoto
<1> QED
    BY <1>2, <1>3, <1>4 DEF AnyNext, AnyCall

\* The order is kept by whatever does not bring a message into the queue.
LEMMA OrderFrame ==
    ASSUME IInv, CallInv, OrderInv, [AnyNext]_vars, UNCHANGED <<queue, node, log>>
    PROVE  OrderInv'
<1>1. \A m \in Message : Sent(m.from, m.n) => Sent(m.from, m.n)'
    BY SentStep DEF Message
<1>2. /\ \A i \in DOMAIN queue : queue[i] \in Message
      /\ node # NoMsg => node \in Message
      /\ \A e \in log : e.msg \in Message
    BY ElementOfSeq, LenProperties DEF IInv, TypeOK
<1>3. \A m, o : Before(m, o) => Before(m, o)'
    BY BeforeStep
<1> QED
    BY <1>1, <1>2, <1>3 DEF OrderInv

\* A pop takes the node ahead of all others, into an empty hand.
LEMMA OrderPop ==
    ASSUME IInv, CallInv, OrderInv, [AnyNext]_vars, DequeueHit, node = NoMsg, UNCHANGED log
    PROVE  OrderInv'
<1>1. queue \in Seq(Message) /\ DOMAIN queue = 1..Len(queue) /\ Len(queue) \in Nat
    BY LenProperties DEF IInv, TypeOK
<1>2. /\ \A i \in DOMAIN queue : queue[i] \in Message
      /\ \A e \in log : e.msg \in Message
    BY <1>1, ElementOfSeq DEF IInv, TypeOK
<1>3. \A m \in Message : Sent(m.from, m.n) => Sent(m.from, m.n)'
    BY SentStep DEF Message
<1>4. /\ 1 \in DOMAIN queue /\ node' = queue[1]
      /\ \A i \in DOMAIN queue' : /\ i \in Nat \ {0} /\ i + 1 \in DOMAIN queue
                                  /\ queue'[i] = queue[i + 1]
    BY <1>1, DequeueHitShifts
<1>5. \A i, j \in DOMAIN queue' : i < j => Before(queue'[i], queue'[j])
  <2> SUFFICES ASSUME NEW i \in DOMAIN queue', NEW j \in DOMAIN queue', i < j
               PROVE  Before(queue'[i], queue'[j])
    OBVIOUS
  <2>1. /\ i + 1 \in DOMAIN queue /\ j + 1 \in DOMAIN queue /\ i + 1 < j + 1
        /\ queue'[i] = queue[i + 1] /\ queue'[j] = queue[j + 1]
    BY <1>1, <1>4
  <2> QED
    BY <2>1 DEF OrderInv
<1>6. \A i \in DOMAIN queue' : Before(node', queue'[i])
    BY <1>1, <1>4 DEF OrderInv
<1>7. \A e \in log : Before(e.msg, node') /\ \A i \in DOMAIN queue' : Before(e.msg, queue'[i])
    BY <1>4 DEF OrderInv
<1>8. /\ \A i \in DOMAIN queue' : Sent(queue[i].from, queue[i].n)'
      /\ Sent(node.from, node.n)'
      /\ \A e \in log : Sent(e.msg.from, e.msg.n)'
    BY <1>2, <1>3, <1>4 DEF OrderInv, Sent
<1>9. overflowed \subseteq overflowed'
    BY OverflowedStep
<1> QED
    BY <1>5, <1>6, <1>7, <1>8, <1>9 DEF OrderInv, Before

\* A message that is finished goes behind those that were finished before it.
LEMMA OrderFinished ==
    ASSUME IInv, CallInv, OrderInv, [AnyNext]_vars, NEW fate, node # NoMsg, Finished(fate),
           UNCHANGED queue
    PROVE  OrderInv'
<1>1. /\ \A i \in DOMAIN queue : queue[i] \in Message
      /\ node \in Message /\ \A e \in log : e.msg \in Message
    BY ElementOfSeq, LenProperties DEF IInv, TypeOK
<1>2. \A m \in Message : Sent(m.from, m.n) => Sent(m.from, m.n)'
    BY SentStep DEF Message
<1>3. \A m, o : Before(m, o) => Before(m, o)'
    BY BeforeStep
<1>4. node' = NoMsg /\ \A e \in log' : e \in log \/ e.msg = node
    BY DEF Finished
<1> QED
    BY <1>1, <1>2, <1>3, <1>4 DEF OrderInv

\* A message that is linked is of its producer's present call: no other is later.
LEMMA OrderLink ==
    ASSUME IInv, CallInv, OrderInv, [AnyNext]_vars, NEW p \in Producers, PLink(p),
           UNCHANGED <<node, log>>
    PROVE  OrderInv'
<1>1. /\ \A i \in DOMAIN queue : queue[i] \in Message
      /\ node # NoMsg => node \in Message
      /\ \A e \in log : e.msg \in Message
    BY ElementOfSeq, LenProperties DEF IInv, TypeOK
<1>2. \A m \in Message : Sent(m.from, m.n) => Sent(m.from, m.n)'
    BY SentStep DEF Message
<1>3. msg[p] \in Message /\ msg[p].from = p /\ msg[p].n = sent[p] + 1 /\ sent[p] \in Nat
  <2>1. msg[p] \in Message /\ ppc[p] # "idle"
    BY LinkAppends DEF PLink, PGoto
  <2>2. sent[p] \in Nat
    BY TraitsAssumption DEF IInv, TypeOK
  <2> QED
    BY <2>1, <2>2 DEF CallInv
<1>4. PICK n \in Nat : /\ DOMAIN queue = 1..n /\ DOMAIN queue' = 1..(n + 1)
                       /\ queue'[n + 1] = msg[p]
                       /\ \A i \in DOMAIN queue : queue'[i] = queue[i]
    BY LinkAppends
<1>5. /\ ppc[p] # "notify" /\ overflowed' = overflowed
      /\ <<p, sent[p] + 1>> \notin overflowed => ppc[p] = "link"
    BY TraitsAssumption DEF PLink, PGoto, CallInv, InOverflowWait
<1>6. \A m \in Message : Sent(m.from, m.n) => Before(m, msg[p])
  <2> SUFFICES ASSUME NEW m \in Message, Sent(m.from, m.n), m.from = p
               PROVE  m.n < sent[p] + 1 \/ (m.n = sent[p] + 1 /\ <<p, m.n>> \in overflowed)
    BY <1>3 DEF Before
  <2>1. m.n \in Nat
    BY TraitsAssumption DEF Message
  <2> QED
    BY <1>3, <1>5, <2>1 DEF Sent
<1>7. Sent(msg[p].from, msg[p].n)'
  <2>1. <<p, sent[p] + 1>> \notin overflowed => ppc'[p] = "notify"
    BY <1>5 DEF PLink, PGoto, IInv, TypeOK
  <2>2. sent' = sent
    BY DEF PLink
  <2> QED
    BY <1>3, <1>5, <2>1, <2>2 DEF Sent, PLink
<1>8. \A i \in DOMAIN queue' : i \in DOMAIN queue \/ i = n + 1
    BY <1>4
<1>9. \A i, j \in DOMAIN queue' : i < j => Before(queue'[i], queue'[j])
    BY <1>1, <1>4, <1>6 DEF OrderInv
<1>10. node # NoMsg => \A i \in DOMAIN queue' : Before(node, queue'[i])
    BY <1>1, <1>4, <1>6, <1>8 DEF OrderInv
<1>11. \A e \in log : \A i \in DOMAIN queue' : Before(e.msg, queue'[i])
    BY <1>1, <1>4, <1>6, <1>8 DEF OrderInv
<1>12. \A i \in DOMAIN queue' : Sent(queue[i].from, queue[i].n)'
    BY <1>1, <1>2, <1>4, <1>7, <1>8, <1>3 DEF OrderInv, Sent, PLink
<1> QED
    BY <1>1, <1>2, <1>5, <1>9, <1>10, <1>11, <1>12 DEF OrderInv, Before

\* What a step does to a message on its way: nothing, a pop, the end of it, a push.
LEMMA MessageMoves ==
    ASSUME IInv, NodeFinished, [AnyNext]_vars
    PROVE  \/ UNCHANGED <<queue, node, log, repeated>>
           \/ DequeueHit /\ node = NoMsg /\ UNCHANGED <<log, repeated, producerVars>>
           \/ /\ node # NoMsg /\ UNCHANGED <<queue, producerVars>>
              /\ \E fate : Finished(fate)
           \/ \E p \in Producers : PLink(p) /\ UNCHANGED <<node, log, repeated>>
<1>1. CASE ConsumerStep
  <2> USE <1>1 DEF ConsumerStep, CGoto, logVars
  <2>1. CASE CStart \/ CLoop \/ CFree \/ CLock \/ CBlock \/ CUnlock
    BY <2>1 DEF CStart, CLoop, CFree, CLock, CBlock, CUnlock
  <2>2. CASE CEvalStop \/ CNotifyCapacity \/ CDecrease \/ CSetFlag \/ CNotifyFinished
    BY <2>2 DEF CEvalStop, CNotifyCapacity, CDecrease, CSetFlag, CNotifyFinished
  <2>3. CASE CPop \/ CEval
    BY <2>3 DEF CPop, CEval, DequeueMiss, NodeFinished
  <2>4. CASE CCheck
    BY <2>4 DEF CCheck
  <2>5. CASE CLookup \/ CConsume
    BY <2>5 DEF CLookup, CConsume, IInv, NodeInv
  <2> QED
    BY <2>1, <2>2, <2>3, <2>4, <2>5
<1>2. CASE OwnerStep \/ Spurious \/ UNCHANGED vars \/ (AnyCall /\ UNCHANGED ownerFrame)
    BY <1>2 DEF OwnerStep, Spurious, vars, ownerFrame, consumerVars, logVars
<1>3. ASSUME NEW p \in Producers, ProducerStep(p) PROVE UNCHANGED <<node, log, repeated>>
    BY <1>3 DEF ProducerStep, producerFrame, consumerVars, logVars
<1>4. ASSUME NEW p \in Producers, ProducerStep(p), ~PLink(p) PROVE UNCHANGED queue
    BY <1>4 DEF ProducerStep, PConstruct, PLock, PRetry, PBlock, PUnlock, PNotify
<1>5. ASSUME NEW p \in Producers, NEW k \in Keys, Enqueue(p, k), UNCHANGED producerFrame
      PROVE  UNCHANGED <<queue, node, log, repeated>>
    BY <1>5 DEF Enqueue, producerFrame, consumerVars, logVars
<1> QED
    BY <1>1, <1>2, <1>3, <1>4, <1>5 DEF AnyNext, AnyCall

LEMMA OrderStep ==
    ASSUME IInv, NodeFinished, CallInv, OrderInv, [AnyNext]_vars
    PROVE  OrderInv'
BY MessageMoves, OrderFrame, OrderPop, OrderFinished, OrderLink

LEMMA InitOrder == Init => NodeFinished /\ CallInv /\ OrderInv
<1> SUFFICES ASSUME Init PROVE NodeFinished /\ CallInv /\ OrderInv
    OBVIOUS
<1>1. DOMAIN queue = {}
    BY EmptySeq DEF Init
<1> QED
    BY <1>1 DEF Init, NodeFinished, CallInv, InOverflowWait, OrderInv

\* The messages of one producer are finished in the order of its calls, with any traits
\* and however the other producers, the overflow wait and a stop interfere.
THEOREM InOrder == Spec => DeliveryOrder
<1> DEFINE Inv == NodeFinished /\ CallInv /\ OrderInv
<1>1. IInv /\ Inv /\ [AnyNext]_vars => Inv'
    BY NodeFinishedStep, CallStep, OrderStep
<1>2. IInv /\ Inv /\ [Next]_vars =>
        [ \A e \in log : node # NoMsg /\ node' = NoMsg /\ e.msg.from = node.from
                           => e.msg.n <= node.n ]_vars
  <2> SUFFICES ASSUME IInv, OrderInv, NEW e \in log, node # NoMsg, e.msg.from = node.from
               PROVE  e.msg.n <= node.n
    OBVIOUS
  <2>1. Before(e.msg, node)
    BY DEF OrderInv
  <2>2. e.msg.n \in Nat /\ node.n \in Nat
    BY TraitsAssumption DEF IInv, TypeOK, Message
  <2> QED
    BY <2>1, <2>2 DEF Before
<1> QED
    BY <1>1, <1>2, InitOrder, Invariance, NextIsAny, PTL DEF Spec, DeliveryOrder

-----------------------------------------------------------------------------
(* Each message in one place.                                              *)

\* A message that has a place before a step that is not a push has one after it.
LEMMA PlaceKept ==
    ASSUME IInv, NodeFinished, [AnyNext]_vars, NEW p, NEW n,
           Queued(p, n) # {} \/ InHand(p, n) \/ Popped(p, n)
    PROVE  Queued(p, n)' # {} \/ InHand(p, n)' \/ Popped(p, n)'
<1>1. queue \in Seq(Message)
    BY DEF IInv, TypeOK
<1>2. CASE UNCHANGED <<queue, node, log, repeated>>
    BY <1>2 DEF Queued, InHand, Popped
<1>3. CASE DequeueHit /\ node = NoMsg /\ UNCHANGED <<log, repeated, producerVars>>
  <2>1. /\ node' = queue[1]
        /\ \A i \in DOMAIN queue : i # 1 => i - 1 \in DOMAIN queue' /\ queue'[i - 1] = queue[i]
    BY <1>1, <1>3, DequeueHitShifts
  <2>2. ~InHand(p, n)
    BY <1>3 DEF InHand, IsCall
  <2>3. CASE Popped(p, n)
    BY <1>3, <2>3 DEF Popped
  <2>4. ASSUME NEW i \in Queued(p, n) PROVE Queued(p, n)' # {} \/ InHand(p, n)'
    BY <2>1 DEF Queued, InHand
  <2> QED
    BY <2>2, <2>3, <2>4
<1>4. ASSUME node # NoMsg, UNCHANGED queue, NEW fate, Finished(fate)
      PROVE  Queued(p, n)' # {} \/ Popped(p, n)'
  <2>1. \A e \in log : e \in log'
    BY <1>4 DEF Finished
  <2>2. [msg |-> node, fate |-> fate] \in log'
    BY <1>4 DEF Finished
  <2> QED
    BY <1>4, <2>1, <2>2 DEF Queued, InHand, Popped
<1>5. ASSUME NEW q \in Producers, PLink(q), UNCHANGED <<node, log>>
      PROVE  Queued(p, n)' # {} \/ InHand(p, n)' \/ Popped(p, n)'
  <2>1. \A i \in DOMAIN queue : i \in DOMAIN queue' /\ queue'[i] = queue[i]
    BY <1>5, LinkAppends
  <2> QED
    BY <1>5, <2>1 DEF Queued, InHand, Popped
<1> QED
    BY <1>2, <1>3, <1>4, <1>5, MessageMoves

\* A call that has not overflowed becomes one that has been sent only by the push that
\* links its message.
LEMMA SentByLink ==
    ASSUME IInv, CallInv, [AnyNext]_vars, NEW p \in Producers, NEW n \in 1..MaxEnqueues,
           ~Sent(p, n), Sent(p, n)', <<p, n>> \notin overflowed'
    PROVE  PLink(p) /\ n = sent[p] + 1
<1> USE TraitsAssumption DEF IInv, TypeOK, Sent
<1>1. ~UNCHANGED producerVars /\ <<p, n>> \notin overflowed
    BY OverflowedStep DEF producerVars
<1>2. PICK q \in Producers : ProducerStep(q) \/ \E k \in Keys : Enqueue(q, k)
    BY <1>1 DEF AnyNext, AnyCall, ConsumerStep, OwnerStep, Spurious, vars, ownerFrame
<1>3. ~\E k \in Keys : Enqueue(q, k)
    BY DEF Enqueue, PGoto
<1>4. ~PNotify(q)
  <2>1. sent[p] \in Nat /\ n \in Nat
    OBVIOUS
  <2>2. ASSUME PNotify(q), q # p PROVE FALSE
    BY <2>2 DEF PNotify, PGoto
  <2>3. ASSUME PNotify(p) PROVE FALSE
    BY <2>1, <2>3 DEF PNotify, PGoto
  <2> QED
    BY <2>2, <2>3
<1>5. sent' = sent /\ n = sent[p] + 1 /\ ppc[p] # "notify" /\ ppc'[p] = "notify"
    BY <1>2, <1>3, <1>4 DEF ProducerStep, PConstruct, PLink, PLock, PRetry, PBlock, PUnlock
<1>6. q = p
    BY <1>2, <1>3, <1>4, <1>5 DEF ProducerStep, PGoto, PConstruct, PLink, PLock, PRetry, PBlock, PUnlock
<1>7. ppc[p] # "unlock"
    BY <1>1, <1>5 DEF CallInv, InOverflowWait
<1>8. PLink(p)
    BY <1>2, <1>3, <1>4, <1>5, <1>6, <1>7
    DEF ProducerStep, PGoto, PConstruct, PLink, PLock, PRetry, PBlock, PUnlock
<1> QED
    BY <1>5, <1>8

LEMMA PlaceStep ==
    ASSUME IInv, NodeFinished, CallInv, PlaceInv, [AnyNext]_vars
    PROVE  PlaceInv'
<1> SUFFICES ASSUME NEW p \in Producers, NEW n \in 1..MaxEnqueues, Sent(p, n)',
                    <<p, n>> \notin overflowed'
             PROVE  Queued(p, n)' # {} \/ InHand(p, n)' \/ Popped(p, n)'
    BY DEF PlaceInv
<1>1. CASE Sent(p, n)
    BY <1>1, PlaceKept, OverflowedStep DEF PlaceInv
<1>2. CASE ~Sent(p, n)
  <2>1. PLink(p) /\ n = sent[p] + 1
    BY <1>2, SentByLink
  <2>2. PICK i \in DOMAIN queue' : queue'[i] = msg[p] /\ msg[p] \in Message
    BY <2>1, LinkAppends
  <2>3. msg[p].from = p /\ msg[p].n = sent[p] + 1
    BY <2>1 DEF CallInv, PLink, PGoto
  <2> QED
    BY <2>1, <2>2, <2>3, NoMsgAssumption DEF Queued, IsCall
<1> QED
    BY <1>1, <1>2

\* A message is finished twice only if its call has overflowed.
LEMMA RepeatedStep ==
    ASSUME IInv, NodeFinished, OrderInv, [AnyNext]_vars, RepeatsOverflowed
    PROVE  RepeatsOverflowed'
<1>1. ASSUME node # NoMsg, NEW e \in log, e.msg = node PROVE <<node.from, node.n>> \in overflowed
  <2>1. Before(node, node)
    BY <1>1 DEF OrderInv
  <2>2. node.n \in Nat
    BY <1>1, TraitsAssumption DEF IInv, TypeOK, Message
  <2> QED
    BY <2>1, <2>2 DEF Before
<1>2. \A m \in repeated' : m \in repeated \/ <<m.from, m.n>> \in overflowed
    BY <1>1, MessageMoves DEF Finished
<1> QED
    BY <1>2, OverflowedStep DEF RepeatsOverflowed

\* Order along the way leaves no call two places that has not overflowed.
LEMMA OnePlace ==
    ASSUME IInv, OrderInv, NEW p \in Producers, NEW n \in 1..MaxEnqueues, <<p, n>> \notin overflowed
    PROVE  /\ \A i, j \in Queued(p, n) : i = j
           /\ Queued(p, n) # {} => ~InHand(p, n) /\ ~Popped(p, n)
           /\ InHand(p, n) => ~Popped(p, n)
<1>1. \A m, o : m.from = p /\ m.n = n /\ o.from = p /\ o.n = n => ~Before(m, o)
    BY TraitsAssumption DEF Before
<1>2. \A i, j \in Queued(p, n) : ~(i < j)
    BY <1>1 DEF OrderInv, Queued, IsCall
<1>3. \A i \in Queued(p, n) : i \in Nat
    BY LenProperties DEF Queued, IInv, TypeOK
<1>4. \A i, j \in Queued(p, n) : i = j
    BY <1>2, <1>3
<1>5. ASSUME NEW i \in Queued(p, n) PROVE ~InHand(p, n) /\ ~Popped(p, n)
    BY <1>1, <1>5 DEF OrderInv, Queued, InHand, Popped, IsCall
<1>6. InHand(p, n) => ~Popped(p, n)
    BY <1>1 DEF OrderInv, InHand, Popped, IsCall
<1> QED
    BY <1>4, <1>5, <1>6

LEMMA InitMessages == Init => MessageInv
<1> SUFFICES ASSUME Init PROVE PlaceInv /\ RepeatsOverflowed
    BY InitOrder DEF MessageInv
<1>1. ASSUME NEW p \in Producers, NEW n \in 1..MaxEnqueues PROVE ~Sent(p, n)
    BY TraitsAssumption DEF Init, Sent
<1> QED
    BY <1>1 DEF PlaceInv, RepeatsOverflowed, Init

LEMMA MessageInvariance == Spec => []MessageInv
<1>1. IInv /\ MessageInv /\ [AnyNext]_vars => MessageInv'
    BY NodeFinishedStep, CallStep, OrderStep, PlaceStep, RepeatedStep DEF MessageInv
<1> QED
    BY <1>1, InitMessages, Invariance, NextIsAny, PTL DEF Spec

LEMMA PlacesCounted ==
    ASSUME IInv, MessageInv
    PROVE  OverflowConfined
<1> SUFFICES ASSUME NEW p \in Producers, NEW n \in 1..MaxEnqueues, <<p, n>> \notin overflowed
             PROVE  InOnePlace(p, n)
    BY DEF OverflowConfined, MessageInv
<1>1. /\ \A i, j \in Queued(p, n) : i = j
      /\ Queued(p, n) # {} => ~InHand(p, n) /\ ~Popped(p, n)
      /\ InHand(p, n) => ~Popped(p, n)
    BY OnePlace DEF MessageInv
<1>2. n <= sent[p] => Queued(p, n) # {} \/ InHand(p, n) \/ Popped(p, n)
    BY DEF MessageInv, PlaceInv, Sent
<1>3. CASE Queued(p, n) = {}
  <2>1. Cardinality(Queued(p, n)) = 0
    BY <1>3, FS_EmptySet
  <2> QED
    BY <1>1, <1>2, <1>3, <2>1 DEF InOnePlace
<1>4. CASE Queued(p, n) # {}
  <2>1. PICK i : Queued(p, n) = {i}
    BY <1>1, <1>4
  <2>2. Cardinality(Queued(p, n)) = 1
    BY <2>1, FS_Singleton
  <2> QED
    BY <1>1, <1>4, <2>2 DEF InOnePlace
<1> QED
    BY <1>3, <1>4

\* With any traits and however small the queue, every message of a call whose first push
\* found room is, once the call has returned, in the queue, in the consumer's hand or
\* finished, in one of them and once: what the overflow wait loses and repeats is its own.
THEOREM OverflowIsConfined == Spec => []OverflowConfined
BY PlacesCounted, MessageInvariance, Invariance, PTL

\* On the locked list, and on a lock-free queue with a node for every call, no call
\* overflows, so that this holds of every message.
THEOREM NoneLostNoneDoubled ==
    ASSUME NeverFull
    PROVE  Spec => []ExactlyOnce
<1>1. MessageInv => overflowed = {}
    BY DEF MessageInv, CallInv
<1>2. MessageInv /\ OverflowConfined => ExactlyOnce
    BY <1>1 DEF OverflowConfined, RepeatsOverflowed, ExactlyOnce
<1> QED
    BY <1>2, OverflowIsConfined, MessageInvariance, PTL
=============================================================================
