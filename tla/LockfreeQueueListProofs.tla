----------------------- MODULE LockfreeQueueListProofs ----------------------
(***************************************************************************)
(* Proofs about boost::lockfree::queue (LockfreeQueue.tla): as long as no  *)
(* comparison is fooled by a tag that has gone round (NoLap), ListInv is   *)
(* inductive, no node is lost or doubled, tail_ is at most one node        *)
(* behind, and the queue implements BoundedQueue, for every number of      *)
(* threads, nodes, calls and tags.                                         *)
(*                                                                         *)
(* The proofs carry the two lists as sequences q and f; one lemma for each *)
(* action says what it makes of them (...Lists), and one what it is in     *)
(* BoundedQueue (...Maps).                                                 *)
(*                                                                         *)
(* The end shows that NoLap holds as long as the calls are few (FewCalls). *)
(***************************************************************************)
EXTENDS LockfreeQueueTags, LockfreeQueueProofs, SequenceTheorems, FunctionTheorems,
        FiniteSetTheorems, WellFoundedInduction

LEMMA LeastNatural ==
    ASSUME NEW T, T \subseteq Nat, T # {}
    PROVE  \E x \in T : \A y \in T : x <= y
<1> DEFINE R == OpToRel(<, Nat)
<1>1. IsWellFoundedOn(R, Nat)
    BY NatLessThanWellFounded, Zenon
<1>2. \A x, y \in Nat : x < y => <<x, y>> \in R
    BY DEF OpToRel
<1> HIDE DEF R
<1>3. PICK x \in T : \A y \in T : ~(<<y, x>> \in R)
    BY <1>1, WFMin, Zenon
<1>4. \A y \in T : ~(y < x)
    BY <1>2, <1>3
<1> QED
    BY <1>4

\* A sequence of different nodes is no longer than there are nodes.
LEMMA ShortEnough ==
    ASSUME NEW s \in Seq(Nodes), Distinct(s)
    PROVE  Len(s) \in 0..NodeCount
<1>1. IsFiniteSet(Nodes) /\ Cardinality(Nodes) = NodeCount
    BY FS_Interval, NodesAssumption DEF Nodes, NodeCount
<1>2. IsFiniteSet(1..Len(s)) /\ Cardinality(1..Len(s)) = Len(s) /\ Len(s) \in Nat
    <2>1. Len(s) \in Nat
        BY LenProperties
    <2> QED
        BY <2>1, FS_Interval
<1>3. s \in Injection(1..Len(s), Nodes)
    BY LenProperties DEF Injection, IsInjective, Distinct
<1>4. Len(s) <= NodeCount
    BY <1>1, <1>2, <1>3, FS_Injection DEF ExistsInjection
<1> QED
    BY <1>2, <1>4, NullIsNoNode

LEMMA CardinalityUpTo == \A n \in Nat : Cardinality(0..(n - 1)) = n
<1> SUFFICES ASSUME NEW n \in Nat PROVE Cardinality(0..(n - 1)) = n
    OBVIOUS
<1>1. 0 \in Int /\ n - 1 \in Int /\ (0 > n - 1 <=> n = 0) /\ n - 1 - 0 + 1 = n
    OBVIOUS
<1> QED
    BY <1>1, FS_Interval

\* The nodes that Chain finds.
LEMMA ChainIs ==
    ASSUME NEW s, NEW i, IsChain(s, i)
    PROVE  Chain(i) = s
<1> DEFINE Eq(g) == g = [k \in 0..NodeCount |->
                           IF k = 0 THEN i
                           ELSE IF g[k - 1] = NullHandle THEN NullHandle ELSE next[g[k - 1]].index]
           w == [k \in 0..NodeCount |-> IF k < Len(s) THEN s[k + 1] ELSE NullHandle]
           at == CHOOSE g : Eq(g)
           last == {j \in 0..NodeCount : at[j] # NullHandle}
<1>1. /\ s \in Seq(Nodes) /\ Len(s) \in 0..NodeCount /\ NodeCount \in Nat
      /\ \A k \in 1..Len(s) : s[k] \in Nodes /\ s[k] # NullHandle
    BY ShortEnough, LenProperties, ElementOfSeq, NullIsNoNode DEF IsChain
<1>2. Eq(w)
    <2> SUFFICES ASSUME NEW k \in 0..NodeCount
                 PROVE  w[k] = IF k = 0 THEN i
                               ELSE IF w[k - 1] = NullHandle THEN NullHandle ELSE next[w[k - 1]].index
        OBVIOUS
    <2>1. CASE k = 0
        <3>1. s = <<>> <=> Len(s) = 0
            BY <1>1, EmptySeq
        <3> QED
        BY <1>1, <2>1, <3>1 DEF IsChain
    <2>2. CASE k # 0 /\ k < Len(s)
        BY <1>1, <2>2 DEF IsChain
    <2>3. CASE k # 0 /\ k = Len(s)
        BY <1>1, <2>3 DEF IsChain
    <2>4. CASE k # 0 /\ k > Len(s)
        BY <1>1, <2>4
    <2> QED
        BY <1>1, <2>1, <2>2, <2>3, <2>4
<1>3. Eq(at)
    BY <1>2
<1> HIDE DEF at
<1>4. \A k \in 0..NodeCount : at[k] = w[k]
    <2> DEFINE T == {k \in 0..NodeCount : at[k] # w[k]}
    <2>1. SUFFICES ASSUME T # {} PROVE FALSE
        OBVIOUS
    <2>2. PICK k \in T : \A j \in T : k <= j
        <3>1. T \subseteq Nat
            BY <1>1
        <3> HIDE DEF T
        <3> QED
            BY <2>1, <3>1, LeastNatural
    <2>3. k # 0
        BY <1>1, <1>2, <1>3, <2>2
    <2>4. k - 1 \in 0..NodeCount /\ at[k - 1] = w[k - 1]
        BY <1>1, <2>2, <2>3
    <2>5. at[k] = IF at[k - 1] = NullHandle THEN NullHandle ELSE next[at[k - 1]].index
        BY <1>3, <2>2, <2>3
    <2>6. w[k] = IF w[k - 1] = NullHandle THEN NullHandle ELSE next[w[k - 1]].index
        BY <1>2, <2>2, <2>3
    <2>7. at[k] # w[k]
        BY <2>2
    <2> HIDE DEF w, T
    <2> QED
        BY <2>4, <2>5, <2>6, <2>7
<1>5. last = 0..(Len(s) - 1)
    BY <1>1, <1>4
<1>6. Cardinality(last) = Len(s)
    <2> HIDE DEF last
    <2>1. Len(s) \in Nat
        BY <1>1
    <2> QED
        BY <1>5, <2>1, CardinalityUpTo
<1>7. Chain(i) = [k \in 1..Cardinality(last) |-> at[k - 1]]
    BY DEF Chain, at
<1>8. \A k \in 1..Len(s) : at[k - 1] = s[k]
    BY <1>1, <1>4
<1>9. Chain(i) = [k \in 1..Len(s) |-> s[k]]
    BY <1>6, <1>7, <1>8
<1> QED
    BY <1>1, <1>9, LenProperties

-----------------------------------------------------------------------------
(* Chains as steps change them.                                            *)

LEMMA ChainParts ==
    ASSUME NEW s, NEW i, IsChain(s, i)
    PROVE  /\ s \in Seq(Nodes) /\ Len(s) \in Nat /\ (s = <<>> <=> Len(s) = 0)
           /\ \A k \in 1..Len(s) : s[k] \in Nodes /\ s[k] # NullHandle
           /\ s # <<>> => Len(s) \in 1..Len(s) /\ 1 \in 1..Len(s)
<1>1. s \in Seq(Nodes) /\ Len(s) \in Nat
  BY LenProperties DEF IsChain
<1>2. s = <<>> <=> Len(s) = 0
  BY <1>1, EmptySeq
<1> QED
  BY <1>1, <1>2, ElementOfSeq, NullIsNoNode

LEMMA SameChain ==
    ASSUME NEW s, NEW i, IsChain(s, i),
           \A k \in 1..Len(s) : next'[s[k]].index = next[s[k]].index
    PROVE  IsChain(s, i)'
BY DEF IsChain

LEMMA TailChain ==
    ASSUME NEW s, NEW i, IsChain(s, i), s # <<>>
    PROVE  /\ IsChain(Tail(s), next[i].index) /\ i \in Nodes /\ In(i, s) /\ i = s[1]
           /\ \A j \in Nodes : In(j, Tail(s)) <=> In(j, s) /\ j # i
           /\ Len(Tail(s)) = Len(s) - 1
           /\ \A k \in 1..Len(s) - 1 : Tail(s)[k] = s[k + 1]
<1> DEFINE r == Tail(s)
<1>1. /\ s \in Seq(Nodes) /\ Len(s) \in Nat \ {0} /\ i = s[1] /\ i \in Nodes
      /\ \A k \in 1..Len(s) : s[k] \in Nodes /\ s[k] # NullHandle
  BY ChainParts DEF IsChain
<1>2. /\ r \in Seq(Nodes) /\ Len(r) = Len(s) - 1
      /\ \A k \in 1..Len(s) - 1 : r[k] = s[k + 1]
  BY <1>1, HeadTailProperties
<1>3. r = <<>> <=> Len(r) = 0
  BY <1>2, EmptySeq
<1> HIDE DEF r
<1>4. Distinct(r)
  BY <1>1, <1>2 DEF Distinct, IsChain
<1>5. next[i].index = IF r = <<>> THEN NullHandle ELSE r[1]
  BY <1>1, <1>2, <1>3 DEF IsChain
<1>6. ASSUME NEW k \in 1..Len(r)
      PROVE  next[r[k]].index = IF k = Len(r) THEN NullHandle ELSE r[k + 1]
  <2>1. k + 1 \in 1..Len(s) /\ (k = Len(r) <=> k + 1 = Len(s)) /\ r[k] = s[k + 1]
    BY <1>1, <1>2
  <2>2. next[s[k + 1]].index = IF k + 1 = Len(s) THEN NullHandle ELSE s[(k + 1) + 1]
    BY <2>1 DEF IsChain
  <2>3. k # Len(r) => r[k + 1] = s[(k + 1) + 1]
    BY <1>1, <1>2, <2>1
  <2> QED
    BY <2>1, <2>2, <2>3
<1>7. IsChain(r, next[i].index)
  BY <1>2, <1>4, <1>5, <1>6 DEF IsChain
<1>8. ASSUME NEW j \in Nodes PROVE In(j, r) <=> In(j, s) /\ j # i
  <2>1. In(j, r) => In(j, s) /\ j # i
    BY <1>1, <1>2 DEF In, IsChain, Distinct
  <2>2. ASSUME In(j, s), j # i PROVE In(j, r)
    <3>1. PICK k \in 1..Len(s) : s[k] = j
      BY <2>2 DEF In
    <3>2. k - 1 \in 1..Len(r) /\ r[k - 1] = s[k]
      BY <1>1, <1>2, <2>2, <3>1
    <3> QED
      BY <3>1, <3>2 DEF In
  <2> QED
    BY <2>1, <2>2
<1> QED
  BY <1>1, <1>2, <1>7, <1>8 DEF In, r

\* Of a node that is in no chain yet.
LEMMA ConsChain ==
    ASSUME NEW s, NEW i, IsChain(s, i), NEW n \in Nodes, ~In(n, s), next[n].index = i
    PROVE  /\ IsChain(<<n>> \o s, n)
           /\ \A j \in Nodes : In(j, <<n>> \o s) <=> In(j, s) \/ j = n
<1> DEFINE r == <<n>> \o s
<1>1. /\ s \in Seq(Nodes) /\ Len(s) \in Nat /\ (s = <<>> <=> Len(s) = 0)
      /\ \A k \in 1..Len(s) : s[k] \in Nodes /\ s[k] # NullHandle
  BY ChainParts
<1>2. /\ r \in Seq(Nodes) /\ Len(r) = Len(s) + 1 /\ r[1] = n
      /\ \A k \in 2..Len(r) : r[k] = s[k - 1]
  <2>1. <<n>> \in Seq(Nodes) /\ Len(<<n>>) = 1 /\ <<n>>[1] = n
    OBVIOUS
  <2> QED
    BY <1>1, <2>1, ConcatProperties
<1> HIDE DEF r
<1>3. \A k \in 1..Len(s) : k + 1 \in 2..Len(r) /\ r[k + 1] = s[k]
  BY <1>1, <1>2
<1>4. Distinct(r)
  <2>1. ASSUME NEW j \in 1..Len(r), NEW k \in 1..Len(r), r[j] = r[k] PROVE j = k
    <3>1. j \in 2..Len(r) => j - 1 \in 1..Len(s) /\ r[j] = s[j - 1] /\ s[j - 1] # n
      BY <1>1, <1>2 DEF In
    <3>2. k \in 2..Len(r) => k - 1 \in 1..Len(s) /\ r[k] = s[k - 1] /\ s[k - 1] # n
      BY <1>1, <1>2 DEF In
    <3>3. (j = 1 \/ j \in 2..Len(r)) /\ (k = 1 \/ k \in 2..Len(r))
      BY <1>1, <1>2
    <3>4. CASE j \in 2..Len(r) /\ k \in 2..Len(r)
      <4>1. j - 1 = k - 1
        BY <2>1, <3>1, <3>2, <3>4 DEF IsChain, Distinct
      <4> QED
        BY <4>1, <3>4
    <3> QED
      BY <1>2, <2>1, <3>1, <3>2, <3>3, <3>4
  <2> QED
    BY <2>1 DEF Distinct
<1>5. r # <<>>
  BY <1>1, <1>2, EmptySeq
<1>6. ASSUME NEW k \in 1..Len(r)
      PROVE  next[r[k]].index = IF k = Len(r) THEN NullHandle ELSE r[k + 1]
  <2>1. CASE k = 1
    <3>1. next[n].index = IF s = <<>> THEN NullHandle ELSE s[1]
      BY DEF IsChain
    <3>2. s # <<>> => r[1 + 1] = s[1]
      BY <1>1, <1>3
    <3> QED
      BY <1>1, <1>2, <2>1, <3>1, <3>2
  <2>2. CASE k # 1
    <3>1. k - 1 \in 1..Len(s) /\ (k = Len(r) <=> k - 1 = Len(s)) /\ r[k] = s[k - 1]
      BY <1>1, <1>2, <2>2
    <3>2. next[s[k - 1]].index = IF k - 1 = Len(s) THEN NullHandle ELSE s[(k - 1) + 1]
      BY <3>1 DEF IsChain
    <3>3. ASSUME k # Len(r) PROVE r[k + 1] = s[(k - 1) + 1]
      <4>1. k + 1 \in 2..Len(r) /\ (k + 1) - 1 = k /\ (k - 1) + 1 = k
        BY <1>1, <1>2, <3>3
      <4>2. r[k + 1] = s[(k + 1) - 1]
        BY <1>2, <4>1
      <4> QED
        BY <4>1, <4>2
    <3> QED
      BY <3>1, <3>2, <3>3
  <2> QED
    BY <2>1, <2>2
<1>7. IsChain(r, n)
  BY <1>2, <1>4, <1>5, <1>6 DEF IsChain
<1>8. ASSUME NEW j \in Nodes PROVE In(j, r) <=> In(j, s) \/ j = n
  <2>1. In(j, r) => In(j, s) \/ j = n
    BY <1>1, <1>2 DEF In
  <2>2. ASSUME In(j, s) PROVE In(j, r)
    <3>1. PICK k \in 1..Len(s) : s[k] = j
      BY <2>2 DEF In
    <3>2. k + 1 \in 1..Len(r) /\ r[k + 1] = j
      BY <1>1, <1>2, <1>3, <3>1
    <3> QED
      BY <3>2 DEF In
  <2>3. In(n, r)
    BY <1>1, <1>2 DEF In
  <2> QED
    BY <2>1, <2>2, <2>3
<1> QED
  BY <1>7, <1>8 DEF r

\* Of a node that is linked to the last one.
LEMMA AppendChain ==
    ASSUME NEW s, NEW i, IsChain(s, i), s # <<>>, NEW n \in Nodes, ~In(n, s),
           next'[s[Len(s)]].index = n, next'[n].index = NullHandle,
           \A k \in 1..Len(s) - 1 : next'[s[k]].index = next[s[k]].index
    PROVE  /\ IsChain(Append(s, n), i)' /\ Append(s, n) # <<>>
           /\ Len(Append(s, n)) = Len(s) + 1 /\ Append(s, n)[Len(s) + 1] = n
           /\ \A k \in 1..Len(s) : Append(s, n)[k] = s[k]
           /\ \A j \in Nodes : In(j, Append(s, n)) <=> In(j, s) \/ j = n
<1> DEFINE r == Append(s, n)
<1>1. /\ s \in Seq(Nodes) /\ Len(s) \in Nat \ {0} /\ i = s[1]
      /\ \A k \in 1..Len(s) : s[k] \in Nodes /\ s[k] # NullHandle
  BY ChainParts DEF IsChain
<1>2. /\ r \in Seq(Nodes) /\ Len(r) = Len(s) + 1 /\ r # <<>>
      /\ r[Len(s) + 1] = n /\ \A k \in 1..Len(s) : r[k] = s[k]
  BY <1>1, AppendProperties
<1> HIDE DEF r
<1>3. Distinct(r)
  BY <1>1, <1>2 DEF Distinct, IsChain, In
<1>4. ASSUME NEW k \in 1..Len(r)
      PROVE  next'[r[k]].index = IF k = Len(r) THEN NullHandle ELSE r[k + 1]
  BY <1>1, <1>2 DEF IsChain
<1>5. IsChain(r, i)'
  BY <1>1, <1>2, <1>3, <1>4 DEF IsChain
<1>6. ASSUME NEW j \in Nodes PROVE In(j, r) <=> In(j, s) \/ j = n
  <2>1. In(j, r) => In(j, s) \/ j = n
    BY <1>1, <1>2 DEF In
  <2>2. (In(j, s) => In(j, r)) /\ In(n, r)
    BY <1>1, <1>2 DEF In
  <2> QED
    BY <2>1, <2>2
<1> QED
  BY <1>2, <1>5, <1>6 DEF r

-----------------------------------------------------------------------------
(* What a step leaves alone.                                               *)

LEMMA TagMoves == \A h \in TaggedIndex : NextTag(h) # h.tag
<1> SUFFICES ASSUME NEW h \in TaggedIndex PROVE NextTag(h) # h.tag
  OBVIOUS
<1>1. h.tag \in Nat /\ h.tag < TagModulus /\ TagModulus \in Nat /\ TagModulus > 1
  BY NodesAssumption DEF TaggedIndex
<1>2. CASE h.tag + 1 < TagModulus
  <2>1. (h.tag + 1) % TagModulus = h.tag + 1
    BY <1>1, <1>2
  <2> QED
    BY <1>1, <2>1 DEF NextTag
<1>3. CASE h.tag + 1 = TagModulus
  <2>1. (h.tag + 1) % TagModulus = 0
    BY <1>1, <1>3
  <2> QED
    BY <1>1, <1>3, <2>1 DEF NextTag
<1> QED
  BY <1>1, <1>2, <1>3

\* Only t steps; what the others have read is no fresher than before.
Others(t) ==
    /\ \A u \in Threads : u # t =>
          /\ pc'[u] = pc[u] /\ local'[u] = local[u] /\ (u \in sawEmpty' <=> u \in sawEmpty)
          /\ u \notin stalePool' => u \notin stalePool /\ pool'.tag = pool.tag
          /\ u \notin staleHead' => u \notin staleHead /\ head'.tag = head.tag
          /\ u \notin staleTail' => u \notin staleTail /\ tail'.tag = tail.tag
          /\ u \notin staleNext' =>
                /\ u \notin staleNext
                /\ \A i \in Nodes : i = local[u].tail.index => next'[i].tag = next[i].tag
    /\ tail'.tag = tail.tag => staleTail' \subseteq staleTail
    /\ t \notin stalePool' => t \notin stalePool \/ pc'[t] = "allocNext"
    /\ t \notin staleHead' => t \notin staleHead \/ pc'[t] = "popTail"
    /\ t \notin staleTail' => t \notin staleTail \/ pc'[t] \in {"pushNext", "popNext"}
    /\ t \notin staleNext' => t \notin staleNext \/ pc'[t] = "pushCheck"

\* A step is of one thread.
LEMMA OneMoves ==
    ASSUME Inv, NEW t \in Threads, Step(t) \/ bounded_push(t) \/ pop(t)
    PROVE  /\ \E to \in PC : pc' = [pc EXCEPT ![t] = to]
           /\ local' = local \/ \E l : local' = [local EXCEPT ![t] = l]
           /\ \A u \in Threads : u # t => (u \in sawEmpty' <=> u \in sawEmpty)
<1>1. CASE bounded_push(t) \/ pop(t)
  BY <1>1 DEF bounded_push, pop, Goto, Locals, listVars, queueVars, PC
<1>2. CASE ListStep(t) /\ UNCHANGED <<queueVars, calls>>
  BY <1>2 DEF ListStep, AllocLoad, AllocNext, AllocCas, AllocSee, FreeLoad, FreeLink, FreeCas,
              Goto, Locals, queueVars, PC
<1>3. CASE Construct(t) \/ PushTail(t) \/ PushNext(t) \/ PushCheck(t) \/ Link(t) \/ Swing(t) \/ Help(t)
  BY <1>3 DEF Construct, PushTail, PushNext, PushCheck, Link, Swing, Help, Goto, Locals, queueVars,
              listVars, PC
<1>4. CASE PopHead(t) \/ PopTail(t) \/ PopNext(t) \/ PopEmpty(t) \/ PopCheck(t) \/ Copy(t) \/ Unlink(t)
  BY <1>4 DEF PopHead, PopTail, PopNext, PopEmpty, PopCheck, Copy, Unlink, Goto, Locals, queueVars,
              listVars, PC
<1> QED
  BY <1>1, <1>2, <1>3, <1>4 DEF Step

LEMMA OthersStay ==
    ASSUME Inv, Record, NEW t \in Threads, Step(t) \/ bounded_push(t) \/ pop(t)
    PROVE  Others(t)
<1>1. /\ \A u \in Threads : u # t => pc'[u] = pc[u] /\ local'[u] = local[u]
                                   /\ (u \in sawEmpty' <=> u \in sawEmpty)
  BY OneMoves DEF Inv, TypeOK
<1>2. /\ \A u \in Threads : u # t => 
          /\ u \notin stalePool' => u \notin stalePool /\ pool'.tag = pool.tag
          /\ u \notin staleHead' => u \notin staleHead /\ head'.tag = head.tag
          /\ u \notin staleTail' => u \notin staleTail /\ tail'.tag = tail.tag
  BY <1>1 DEF Record, Stale, Enter
<1>3. \A u \in Threads : u # t /\ u \notin staleNext' =>
        /\ u \notin staleNext
        /\ \A i \in Nodes : i = local[u].tail.index => next'[i].tag = next[i].tag
  BY <1>1 DEF Record, Enter
<1>4. tail'.tag = tail.tag => staleTail' \subseteq staleTail
  BY DEF Record, Stale
<1>5. /\ t \notin stalePool' => t \notin stalePool \/ pc'[t] = "allocNext"
      /\ t \notin staleHead' => t \notin staleHead \/ pc'[t] = "popTail"
      /\ t \notin staleTail' => t \notin staleTail \/ pc'[t] \in {"pushNext", "popNext"}
      /\ t \notin staleNext' => t \notin staleNext \/ pc'[t] = "pushCheck"
  BY DEF Record, Stale, Enter
<1> QED
  BY <1>1, <1>2, <1>3, <1>4, <1>5 DEF Others

\* A step of t that changes no shared word, and no node's holder.
LEMMA LocalStep ==
    ASSUME Inv, NEW q, NEW f, Lists(q, f), NEW t \in Threads, Others(t),
           UNCHANGED <<pool, next, head, tail, data>>,
           \A i \in Nodes : Holds(t, i)' <=> Holds(t, i),
           pc[t] = "swing" => tail.index = q[Len(q)] \/ t \in staleTail,
           Sees(t, q, f)'
    PROVE  Lists(q, f)'
<1>1. IsChain(q, head.index)' /\ IsChain(f, pool.index)'
  BY DEF Lists, IsChain
<1>2. \A i \in Nodes, u \in Threads : Holds(u, i)' <=> Holds(u, i)
  BY DEF Others, Holds
<1>3. Partition(q, f)'
  BY <1>2 DEF Lists, Partition
<1>4. Lag(q)'
  BY DEF Lists, Lag, Others
<1>5. ASSUME NEW u \in Threads, u # t PROVE Sees(u, q, f)'
  <2>1. /\ pc'[u] = pc[u] /\ local'[u] = local[u] /\ (u \in sawEmpty' <=> u \in sawEmpty)
        /\ u \notin stalePool' => u \notin stalePool
        /\ u \notin staleHead' => u \notin staleHead
        /\ u \notin staleTail' => u \notin staleTail
        /\ u \notin staleNext' => u \notin staleNext
        /\ staleTail' \subseteq staleTail
        /\ Sees(u, q, f)
    BY <1>5 DEF Others, Lists
  <2>2. Allocates(u, f)' /\ Frees(u)' /\ Fills(u)'
    BY <2>1 DEF Sees, Allocates, Frees, Fills
  <2>3. Links(u, q)'
    BY <2>1 DEF Sees, Links, LastSeen
  <2>4. Helps(u)'
    BY <2>1 DEF Sees, Helps, ReadTail
  <2>5. Unlinks(u)'
    BY <2>1 DEF Sees, Unlinks, ReadHead
  <2> QED
    BY <2>2, <2>3, <2>4, <2>5 DEF Sees
<1> QED
  BY <1>1, <1>3, <1>4, <1>5 DEF Lists

\* The ends of the queue.
LEMMA Ends ==
    ASSUME NEW q, NEW f, Lists(q, f)
    PROVE  /\ q \in Seq(Nodes) /\ Len(q) \in Nat \ {0} /\ Distinct(q)
           /\ q[Len(q)] \in Nodes /\ next[q[Len(q)]].index = NullHandle
           /\ \A i \in Nodes : i # NullHandle
           /\ head.index = q[1] /\ q[1] \in Nodes /\ In(q[1], q) /\ In(q[Len(q)], q)
           /\ Len(q) > 1 => /\ Len(q) - 1 \in 1..Len(q) /\ 2 \in 1..Len(q)
                            /\ next[q[Len(q) - 1]].index = q[Len(q)] /\ q[Len(q) - 1] \in Nodes
                            /\ q[Len(q) - 1] # q[Len(q)] /\ q[Len(q)] # q[1]
                            /\ next[head.index].index = q[2] /\ q[2] \in Nodes /\ In(q[2], q)
           /\ In(tail.index, q)
           /\ tail.index = q[Len(q)] \/ (Len(q) > 1 /\ tail.index = q[Len(q) - 1])
           /\ next[tail.index].index = NullHandle <=> tail.index = q[Len(q)]
           /\ next[head.index].index = NullHandle <=> Len(q) = 1
<1>1. /\ q # <<>> /\ IsChain(q, head.index) /\ q \in Seq(Nodes) /\ Len(q) \in Nat \ {0}
      /\ Distinct(q)
      /\ \A k \in 1..Len(q) : q[k] \in Nodes /\ q[k] # NullHandle
  BY ChainParts DEF Lists, IsChain
<1>2. Len(q) \in 1..Len(q) /\ 1 \in 1..Len(q)
  BY <1>1
<1>3. head.index = q[1] /\ next[q[Len(q)]].index = NullHandle
  BY <1>1, <1>2 DEF IsChain
<1>4. ASSUME Len(q) > 1
      PROVE  /\ Len(q) - 1 \in 1..Len(q) /\ 2 \in 1..Len(q)
             /\ next[q[Len(q) - 1]].index = q[Len(q)]
             /\ q[Len(q) - 1] # q[Len(q)] /\ q[Len(q)] # q[1]
             /\ next[head.index].index = q[2]
  <2>1. /\ Len(q) - 1 \in 1..Len(q) /\ 2 \in 1..Len(q) /\ Len(q) - 1 # Len(q) /\ Len(q) # 1
        /\ (Len(q) - 1) + 1 = Len(q) /\ 1 + 1 = 2
    BY <1>1, <1>4
  <2>2. next[q[Len(q) - 1]].index = q[(Len(q) - 1) + 1]
    BY <1>1, <2>1 DEF IsChain
  <2>3. next[q[1]].index = q[1 + 1]
    BY <1>1, <1>2, <2>1 DEF IsChain
  <2>4. q[Len(q) - 1] # q[Len(q)] /\ q[Len(q)] # q[1]
    BY <1>1, <1>2, <2>1 DEF Distinct
  <2> QED
    BY <1>3, <2>1, <2>2, <2>3, <2>4
<1>5. tail.index = q[Len(q)] \/ (Len(q) > 1 /\ tail.index = q[Len(q) - 1])
  BY DEF Lists, Lag
<1>6. In(tail.index, q)
  BY <1>2, <1>4, <1>5 DEF In
<1>7. next[tail.index].index = NullHandle <=> tail.index = q[Len(q)]
  BY <1>1, <1>2, <1>3, <1>4, <1>5
<1>8. next[head.index].index = NullHandle <=> Len(q) = 1
  <2>1. Len(q) = 1 => next[head.index].index = NullHandle
    BY <1>3
  <2>2. ASSUME Len(q) # 1 PROVE next[head.index].index # NullHandle
    <3>0. \A n \in Nat \ {0} : n # 1 => n > 1
      OBVIOUS
    <3>1. Len(q) > 1
      BY <1>1, <2>2, <3>0
    <3> QED
      BY <1>1, <1>4, <3>1
  <2> QED
    BY <2>1, <2>2
<1>9. \A i \in Nodes : i # NullHandle
  BY NullIsNoNode
<1> QED
  BY <1>1, <1>2, <1>3, <1>4, <1>5, <1>6, <1>7, <1>8, <1>9 DEF In

\* Nobody holds a node that it does not hold by its program counter.
LEMMA HoldsSame ==
    ASSUME Inv, NEW t \in Threads,
           \/ pc[t] \notin Holding \cup Freeing /\ pc'[t] \notin Holding \cup Freeing
           \/ /\ pc[t] \in Holding \cup Freeing /\ pc'[t] \in Holding \cup Freeing
              /\ local'[t].node = local[t].node
    PROVE  \A i \in Nodes : Holds(t, i)' <=> Holds(t, i)
BY DEF Holds

-----------------------------------------------------------------------------
(* The steps that change no shared word.                                   *)

LEMMA CallLists ==
    ASSUME Inv, NEW q, NEW f, Lists(q, f), NEW t \in Threads, Others(t), bounded_push(t) \/ pop(t)
    PROVE  Lists(q, f)'
<1>1. /\ UNCHANGED <<pool, next, head, tail, data>> /\ pc[t] = "idle"
      /\ pc'[t] \in {"alloc", "popHead"}
  BY DEF bounded_push, pop, Goto, listVars, queueVars, Inv, TypeOK
<1>2. \A i \in Nodes : Holds(t, i)' <=> Holds(t, i)
  BY <1>1, HoldsSame DEF Holding, Freeing
<1>3. Sees(t, q, f)'
  BY <1>1 DEF Sees, Allocates, Frees, Fills, Links, Helps, Unlinks, ReadTail, ReadHead, Holding
<1> QED
  BY <1>1, <1>2, <1>3, LocalStep

\* A load of pool_.
LEMMA AllocSeeLists ==
    ASSUME Inv, NEW q, NEW f, Lists(q, f), NEW t \in Threads, Others(t),
           NEW from \in {"alloc", "allocCas"}, AllocSee(t, from), UNCHANGED <<pool, next, queueVars>>
    PROVE  Lists(q, f)'
<1>1. /\ UNCHANGED <<pool, next, head, tail, data>> /\ pc[t] = from
      /\ \/ pc'[t] = "idle"
         \/ pc'[t] = "allocNext" /\ pool.index # NullHandle /\ local'[t].old = pool
  <2>1. local[t] \in LocalVariables
    BY Start
  <2> QED
    BY <2>1 DEF AllocSee, Goto, Locals, queueVars, Inv, TypeOK, LocalVariables
<1>2. \A i \in Nodes : Holds(t, i)' <=> Holds(t, i)
  BY <1>1, HoldsSame DEF Holding, Freeing
<1>3. pool.index # NullHandle => In(pool.index, f)
  BY TailChain DEF Lists, IsChain
<1>4. Allocates(t, f)'
  BY <1>1, <1>3 DEF Allocates, In
<1>5. Sees(t, q, f)'
  BY <1>1, <1>4 DEF Sees, Frees, Fills, Links, Helps, Unlinks, ReadTail, ReadHead, Holding
<1> QED
  BY <1>1, <1>2, <1>5, LocalStep

LEMMA AllocNextLists ==
    ASSUME Inv, NEW q, NEW f, Lists(q, f), NEW t \in Threads, Others(t), AllocNext(t),
           UNCHANGED queueVars
    PROVE  Lists(q, f)'
<1>1. /\ UNCHANGED <<pool, next, head, tail, data>> /\ pc[t] = "allocNext"
      /\ pc'[t] = "allocCas" /\ local'[t].old = local[t].old
      /\ local'[t].link = next[local[t].old.index].index
  <2>1. local[t] \in LocalVariables
    BY Start
  <2> QED
    BY <2>1 DEF AllocNext, Goto, Locals, queueVars, Inv, TypeOK, LocalVariables
<1>2. \A i \in Nodes : Holds(t, i)' <=> Holds(t, i)
  BY <1>1, HoldsSame DEF Holding, Freeing
<1>3. Allocates(t, f) /\ (t \notin stalePool' => t \notin stalePool)
  BY <1>1 DEF Lists, Sees, Others
<1>4. Allocates(t, f)'
  BY <1>1, <1>3 DEF Allocates, In
<1>5. Sees(t, q, f)'
  BY <1>1, <1>4 DEF Sees, Frees, Fills, Links, Helps, Unlinks, ReadTail, ReadHead, Holding
<1> QED
  BY <1>1, <1>2, <1>5, LocalStep

\* A load of pool_ by a thread that frees a node.
LEMMA FreeLoadLists ==
    ASSUME Inv, NEW q, NEW f, Lists(q, f), NEW t \in Threads, Others(t),
           FreeLoad(t) \/ (FreeCas(t) /\ pool # local[t].old), UNCHANGED queueVars
    PROVE  Lists(q, f)'
<1>1. /\ UNCHANGED <<pool, next, head, tail, data>> /\ pc[t] \in {"free", "freeCas"}
      /\ pc'[t] = "freeLink" /\ local'[t].node = local[t].node
  <2>1. local[t] \in LocalVariables
    BY Start
  <2> QED
    BY <2>1 DEF FreeLoad, FreeCas, Goto, Locals, queueVars, Inv, TypeOK, LocalVariables
<1>2. \A i \in Nodes : Holds(t, i)' <=> Holds(t, i)
  BY <1>1, HoldsSame DEF Holding, Freeing
<1>3. Sees(t, q, f)'
  BY <1>1 DEF Sees, Allocates, Frees, Fills, Links, Helps, Unlinks, ReadTail, ReadHead, Holding
<1> QED
  BY <1>1, <1>2, <1>3, LocalStep

LEMMA PushTailLists ==
    ASSUME Inv, NEW q, NEW f, Lists(q, f), NEW t \in Threads, Others(t), PushTail(t)
    PROVE  Lists(q, f)'
<1>1. /\ UNCHANGED <<pool, next, head, tail, data>> /\ pc[t] = "pushTail" /\ pc'[t] = "pushNext"
      /\ local'[t].node = local[t].node /\ local'[t].tail = tail /\ local'[t].value = local[t].value
  <2>1. local[t] \in LocalVariables
    BY Start
  <2> QED
    BY <2>1 DEF PushTail, Goto, Locals, queueVars, Inv, TypeOK, LocalVariables
<1>2. \A i \in Nodes : Holds(t, i)' <=> Holds(t, i)
  BY <1>1, HoldsSame DEF Holding, Freeing
<1>3. Fills(t)'
  BY <1>1 DEF Lists, Sees, Fills, Holding
<1>4. Sees(t, q, f)'
  BY <1>1, <1>3 DEF Sees, Allocates, Frees, Links, Helps, Unlinks, ReadTail, ReadHead
<1> QED
  BY <1>1, <1>2, <1>4, LocalStep

LEMMA PushNextLists ==
    ASSUME Inv, NEW q, NEW f, Lists(q, f), NEW t \in Threads, Others(t), PushNext(t)
    PROVE  Lists(q, f)'
<1>1. /\ UNCHANGED <<pool, next, head, tail, data>> /\ pc[t] = "pushNext" /\ pc'[t] = "pushCheck"
      /\ local'[t].node = local[t].node /\ local'[t].tail = local[t].tail
      /\ local'[t].value = local[t].value /\ local'[t].next = next[local[t].tail.index]
  <2>1. local[t] \in LocalVariables
    BY Start
  <2> QED
    BY <2>1 DEF PushNext, Goto, Locals, queueVars, Inv, TypeOK, LocalVariables
<1>2. \A i \in Nodes : Holds(t, i)' <=> Holds(t, i)
  BY <1>1, HoldsSame DEF Holding, Freeing
<1>3. Fills(t)'
  BY <1>1 DEF Lists, Sees, Fills, Holding
<1>4. t \notin staleTail' => tail = local[t].tail
  BY <1>1 DEF Lists, Sees, Helps, ReadTail, Others
<1>5. Helps(t)'
  BY <1>1, <1>4 DEF Helps, ReadTail
<1>6. Links(t, q)'
  BY <1>1, <1>4, Ends DEF Links, LastSeen
<1>7. Sees(t, q, f)'
  BY <1>1, <1>3, <1>5, <1>6 DEF Sees, Allocates, Frees, Unlinks, ReadHead
<1> QED
  BY <1>1, <1>2, <1>7, LocalStep

LEMMA PushCheckLists ==
    ASSUME Inv, NoLap, NEW q, NEW f, Lists(q, f), NEW t \in Threads, Others(t), PushCheck(t)
    PROVE  Lists(q, f)'
<1>1. /\ UNCHANGED <<pool, next, head, tail, data>> /\ pc[t] = "pushCheck" /\ local'[t] = local[t]
      /\ \/ pc'[t] = "pushTail"
         \/ pc'[t] = "link" /\ tail = local[t].tail /\ local[t].next.index = NullHandle
         \/ pc'[t] = "pushHelp"
  BY DEF PushCheck, Goto, listVars, queueVars, Inv, TypeOK
<1>2. \A i \in Nodes : Holds(t, i)' <=> Holds(t, i)
  BY <1>1, HoldsSame DEF Holding, Freeing
<1>3. Fills(t)'
  BY <1>1 DEF Lists, Sees, Fills, Holding
<1>4. /\ t \notin staleTail' => t \notin staleTail
      /\ t \notin staleNext' => t \notin staleNext
      /\ staleTail' \subseteq staleTail
  BY <1>1 DEF Others
<1>5. Helps(t)'
  BY <1>1, <1>4 DEF Lists, Sees, Helps, ReadTail
<1>6. pc'[t] = "link" => t \notin staleTail
  BY <1>1 DEF NoLap
<1>7. Links(t, q)'
  BY <1>1, <1>4, <1>6 DEF Lists, Sees, Links, LastSeen
<1>8. Sees(t, q, f)'
  BY <1>1, <1>3, <1>5, <1>7 DEF Sees, Allocates, Frees, Unlinks, ReadHead
<1> QED
  BY <1>1, <1>2, <1>8, LocalStep

\* The exchange of link that finds another value.
LEMMA LinkAgainLists ==
    ASSUME Inv, NEW q, NEW f, Lists(q, f), NEW t \in Threads, Others(t),
           Link(t), next[local[t].tail.index] # local[t].next
    PROVE  Lists(q, f)'
<1>1. /\ UNCHANGED <<pool, next, head, tail, data>> /\ pc[t] = "link" /\ pc'[t] = "pushTail"
      /\ local'[t] = local[t]
  BY DEF Link, Goto, queueVars, Inv, TypeOK
<1>2. \A i \in Nodes : Holds(t, i)' <=> Holds(t, i)
  BY <1>1, HoldsSame DEF Holding, Freeing
<1>3. Fills(t)'
  BY <1>1 DEF Lists, Sees, Fills, Holding
<1>4. Sees(t, q, f)'
  BY <1>1, <1>3 DEF Sees, Allocates, Frees, Links, Helps, Unlinks, ReadTail, ReadHead
<1> QED
  BY <1>1, <1>2, <1>4, LocalStep

\* A thread whose exchange of tail_ fails: another one has moved it.
LEMMA TailStaysLists ==
    ASSUME Inv, NEW q, NEW f, Lists(q, f), NEW t \in Threads, Others(t),
           Swing(t) \/ Help(t), tail # local[t].tail
    PROVE  Lists(q, f)'
<1>1. /\ UNCHANGED <<pool, next, head, tail, data>>
      /\ \/ pc[t] = "swing" /\ pc'[t] = "idle"
         \/ /\ local'[t] = local[t]
            /\ (pc[t] = "pushHelp" /\ pc'[t] = "pushTail") \/ (pc[t] = "popHelp" /\ pc'[t] = "popHead")
  BY DEF Swing, Help, MoveTail, Goto, listVars, Inv, TypeOK
<1>2. \A i \in Nodes : Holds(t, i)' <=> Holds(t, i)
  BY <1>1, HoldsSame DEF Holding, Freeing
<1>3. Fills(t)'
  BY <1>1 DEF Lists, Sees, Fills, Holding
<1>4. Sees(t, q, f)'
  BY <1>1, <1>3 DEF Sees, Allocates, Frees, Links, Helps, Unlinks, ReadTail, ReadHead
<1>5. pc[t] = "swing" => t \in staleTail
  BY <1>1 DEF Lists, Sees, Helps, ReadTail
<1> QED
  BY <1>1, <1>2, <1>4, <1>5, LocalStep

LEMMA PopHeadLists ==
    ASSUME Inv, NEW q, NEW f, Lists(q, f), NEW t \in Threads, Others(t), PopHead(t)
    PROVE  Lists(q, f)'
<1>1. /\ UNCHANGED <<pool, next, head, tail, data>> /\ pc[t] = "popHead" /\ pc'[t] = "popTail"
      /\ local'[t].head = head
  <2>1. local[t] \in LocalVariables
    BY Start
  <2> QED
    BY <2>1 DEF PopHead, Goto, Locals, queueVars, Inv, TypeOK, LocalVariables
<1>2. \A i \in Nodes : Holds(t, i)' <=> Holds(t, i)
  BY <1>1, HoldsSame DEF Holding, Freeing
<1>3. Sees(t, q, f)'
  BY <1>1 DEF Sees, Allocates, Frees, Fills, Links, Helps, Unlinks, ReadTail, ReadHead, Holding
<1> QED
  BY <1>1, <1>2, <1>3, LocalStep

LEMMA PopTailLists ==
    ASSUME Inv, NEW q, NEW f, Lists(q, f), NEW t \in Threads, Others(t), PopTail(t)
    PROVE  Lists(q, f)'
<1>1. /\ UNCHANGED <<pool, next, head, tail, data>> /\ pc[t] = "popTail" /\ pc'[t] = "popNext"
      /\ local'[t].head = local[t].head /\ local'[t].tail = tail
  <2>1. local[t] \in LocalVariables
    BY Start
  <2> QED
    BY <2>1 DEF PopTail, Goto, Locals, queueVars, Inv, TypeOK, LocalVariables
<1>2. \A i \in Nodes : Holds(t, i)' <=> Holds(t, i)
  BY <1>1, HoldsSame DEF Holding, Freeing
<1>3. t \notin staleHead' => head = local[t].head
  BY <1>1 DEF Lists, Sees, Unlinks, ReadHead, Others
<1>4. Unlinks(t)'
  BY <1>1, <1>3 DEF Unlinks, ReadHead
<1>5. Sees(t, q, f)'
  BY <1>1, <1>4 DEF Sees, Allocates, Frees, Fills, Links, Helps, ReadTail, Holding
<1> QED
  BY <1>1, <1>2, <1>5, LocalStep

LEMMA PopNextLists ==
    ASSUME Inv, NEW q, NEW f, Lists(q, f), NEW t \in Threads, Others(t), PopNext(t)
    PROVE  Lists(q, f)'
<1>1. /\ UNCHANGED <<pool, next, head, tail, data>> /\ pc[t] = "popNext" /\ pc'[t] = "popCheck"
      /\ local'[t].head = local[t].head /\ local'[t].tail = local[t].tail
      /\ local'[t].next = next[local[t].head.index]
      /\ next[head.index].index = NullHandle => t \in sawEmpty'
  <2>1. local[t] \in LocalVariables
    BY Start
  <2> QED
    BY <2>1 DEF PopNext, Goto, Locals, Inv, TypeOK, LocalVariables
<1>2. \A i \in Nodes : Holds(t, i)' <=> Holds(t, i)
  BY <1>1, HoldsSame DEF Holding, Freeing
<1>3. t \notin staleHead' =>
         /\ head = local[t].head
         /\ local[t].tail.index # head.index => tail.index # head.index
  BY <1>1 DEF Lists, Sees, Unlinks, ReadHead, Others
<1>4. Unlinks(t)'
  BY <1>1, <1>3 DEF Unlinks, ReadHead
<1>5. t \notin staleTail' => tail = local[t].tail
  BY <1>1 DEF Lists, Sees, Helps, ReadTail, Others
<1>6. Helps(t)'
  BY <1>1, <1>5 DEF Helps, ReadTail
<1>7. Sees(t, q, f)'
  BY <1>1, <1>4, <1>6 DEF Sees, Allocates, Frees, Fills, Links, Holding
<1> QED
  BY <1>1, <1>2, <1>7, LocalStep

LEMMA PopEmptyLists ==
    ASSUME Inv, NEW q, NEW f, Lists(q, f), NEW t \in Threads, Others(t),
           PopEmpty(t) \/ (Unlink(t) /\ head # local[t].head)
    PROVE  Lists(q, f)'
<1>1. /\ UNCHANGED <<pool, next, head, tail, data>> /\ pc[t] \in {"popCheck", "unlink"}
      /\ pc'[t] \in {"idle", "popHead"}
  BY DEF PopEmpty, Unlink, Goto, Inv, TypeOK
<1>2. \A i \in Nodes : Holds(t, i)' <=> Holds(t, i)
  BY <1>1, HoldsSame DEF Holding, Freeing
<1>3. Sees(t, q, f)'
  BY <1>1 DEF Sees, Allocates, Frees, Fills, Links, Helps, Unlinks, ReadTail, ReadHead, Holding
<1> QED
  BY <1>1, <1>2, <1>3, LocalStep

LEMMA PopCheckLists ==
    ASSUME Inv, NEW q, NEW f, Lists(q, f), NEW t \in Threads, Others(t), PopCheck(t)
    PROVE  Lists(q, f)'
<1>1. /\ UNCHANGED <<pool, next, head, tail, data>> /\ pc[t] = "popCheck" /\ local'[t] = local[t]
      /\ \/ pc'[t] = "popHead"
         \/ pc'[t] = "popHelp" /\ local[t].head.index = local[t].tail.index
         \/ /\ pc'[t] = "copy" /\ local[t].next.index # NullHandle
            /\ local[t].head.index # local[t].tail.index
  BY DEF PopCheck, Goto, listVars, queueVars, Inv, TypeOK
<1>2. \A i \in Nodes : Holds(t, i)' <=> Holds(t, i)
  BY <1>1, HoldsSame DEF Holding, Freeing
<1>3. /\ t \notin staleTail' => t \notin staleTail
      /\ t \notin staleHead' => t \notin staleHead
  BY <1>1 DEF Others
<1>4. Helps(t)'
  BY <1>1, <1>3 DEF Lists, Sees, Helps, ReadTail
<1>5. Unlinks(t)'
  BY <1>1, <1>3 DEF Lists, Sees, Unlinks, ReadHead
<1>6. Sees(t, q, f)'
  BY <1>1, <1>4, <1>5 DEF Sees, Allocates, Frees, Fills, Links, Holding
<1> QED
  BY <1>1, <1>2, <1>6, LocalStep

LEMMA CopyLists ==
    ASSUME Inv, NEW q, NEW f, Lists(q, f), NEW t \in Threads, Others(t), Copy(t)
    PROVE  Lists(q, f)'
<1>1. /\ UNCHANGED <<pool, next, head, tail, data>> /\ pc[t] = "copy" /\ pc'[t] = "unlink"
      /\ local'[t].head = local[t].head /\ local'[t].next = local[t].next
      /\ local'[t].value = data[local[t].next.index]
  <2>1. local[t] \in LocalVariables
    BY Start
  <2> QED
    BY <2>1 DEF Copy, Goto, Locals, queueVars, Inv, TypeOK, LocalVariables
<1>2. \A i \in Nodes : Holds(t, i)' <=> Holds(t, i)
  BY <1>1, HoldsSame DEF Holding, Freeing
<1>3. t \notin staleHead' => t \notin staleHead
  BY <1>1 DEF Others
<1>4. Unlinks(t)'
  BY <1>1, <1>3 DEF Lists, Sees, Unlinks, ReadHead
<1>5. Sees(t, q, f)'
  BY <1>1, <1>4 DEF Sees, Allocates, Frees, Fills, Links, Helps, ReadTail, Holding
<1> QED
  BY <1>1, <1>2, <1>5, LocalStep

-----------------------------------------------------------------------------
(* The steps that change a shared word.                                    *)

\* A step that writes a node which the thread holds: nobody else is concerned.
LEMMA OwnNodeStep ==
    ASSUME Inv, NEW q, NEW f, Lists(q, f), NEW t \in Threads, Others(t), NEW n \in Nodes,
           Holds(t, n), UNCHANGED <<pool, head, tail>>,
           \A i \in Nodes : i # n => next'[i] = next[i] /\ data'[i] = data[i],
           pc[t] # "swing", pc'[t] \in Holding \cup Freeing, local'[t].node = n,
           Sees(t, q, f)'
    PROVE  Lists(q, f)'
<1>1. /\ \A i \in Nodes : In(i, q) \/ In(i, f) => next'[i] = next[i] /\ data'[i] = data[i]
      /\ \A u \in Threads, i \in Nodes : u # t /\ Holds(u, i) => next'[i] = next[i] /\ data'[i] = data[i]
  BY DEF Lists, Partition
<1>2. /\ IsChain(q, head.index) /\ IsChain(f, pool.index)
      /\ \A k \in 1..Len(q) : q[k] \in Nodes /\ In(q[k], q)
      /\ \A k \in 1..Len(f) : f[k] \in Nodes /\ In(f[k], f)
  BY ChainParts DEF Lists, In
<1>3. IsChain(q, head.index)' /\ IsChain(f, pool.index)'
  BY <1>1, <1>2, SameChain
<1>4. \A i \in Nodes : Holds(t, i)' <=> Holds(t, i)
  BY DEF Holds
<1>5. \A i \in Nodes, u \in Threads : Holds(u, i)' <=> Holds(u, i)
  BY <1>4 DEF Others, Holds
<1>6. Partition(q, f)'
  BY <1>5 DEF Lists, Partition
<1>7. Lag(q)'
  BY DEF Lists, Lag, Others
<1>8. /\ tail.index \in Nodes /\ next'[tail.index] = next[tail.index]
      /\ head.index \in Nodes /\ next'[head.index] = next[head.index]
  BY <1>1, Start, Ends
<1>9. ASSUME NEW u \in Threads, u # t PROVE Sees(u, q, f)'
  <2>1. /\ pc'[u] = pc[u] /\ local'[u] = local[u] /\ (u \in sawEmpty' <=> u \in sawEmpty)
        /\ u \notin stalePool' => u \notin stalePool
        /\ u \notin staleHead' => u \notin staleHead
        /\ u \notin staleTail' => u \notin staleTail
        /\ u \notin staleNext' => u \notin staleNext
        /\ staleTail' \subseteq staleTail
        /\ Sees(u, q, f) /\ local[u] \in LocalVariables /\ FollowsNodes(u)
    BY <1>9, Start DEF Others, Lists
  <2>2. Allocates(u, f)'
    <3>1. local[u].old.index \in Indices
      BY <2>1 DEF LocalVariables, TaggedIndex, Indices
    <3>2. pc[u] \in {"allocNext", "allocCas"} => local[u].old.index \in Nodes
      BY <2>1, <3>1 DEF FollowsNodes, Indices
    <3> QED
      BY <1>1, <2>1, <3>2 DEF Sees, Allocates
  <2>3. Frees(u)' /\ Fills(u)'
    <3>1. pc[u] \in Holding \cup Freeing => local[u].node \in Nodes /\ Holds(u, local[u].node)
      BY <2>1 DEF FollowsNodes, LocalVariables, Indices, Holds
    <3>2. pc[u] \in Holding \cup Freeing => /\ next'[local[u].node] = next[local[u].node]
                                            /\ data'[local[u].node] = data[local[u].node]
      BY <1>1, <1>9, <3>1
    <3> QED
      BY <2>1, <3>2 DEF Sees, Frees, Fills, Freeing
  <2>4. Links(u, q)'
    BY <1>8, <2>1 DEF Sees, Links, LastSeen
  <2>5. Helps(u)'
    BY <1>8, <2>1 DEF Sees, Helps, ReadTail
  <2>6. Unlinks(u)'
    <3>1. pc[u] = "unlink" /\ u \notin staleHead => In(local[u].next.index, q) /\ local[u].next.index \in Nodes
      BY <2>1, Ends DEF Sees, Unlinks, ReadHead, FollowsNodes
    <3> QED
      BY <1>1, <1>8, <2>1, <3>1 DEF Sees, Unlinks, ReadHead
  <2> QED
    BY <2>2, <2>3, <2>4, <2>5, <2>6 DEF Sees
<1> QED
  BY <1>2, <1>3, <1>6, <1>7, <1>9 DEF Lists

LEMMA FreeLinkLists ==
    ASSUME Inv, NEW q, NEW f, Lists(q, f), NEW t \in Threads, Others(t), FreeLink(t),
           UNCHANGED queueVars
    PROVE  Lists(q, f)'
<1> DEFINE n == local[t].node
<1>0. n \in Nodes /\ next \in [Nodes -> TaggedIndex]
  BY Start DEF FreeLink, Goto, FollowsNodes, Freeing, LocalVariables, Indices
<1>1. /\ UNCHANGED <<pool, head, tail, data>> /\ pc[t] = "freeLink" /\ pc'[t] = "freeCas"
      /\ local'[t] = local[t] /\ next' = [next EXCEPT ![n].index = local[t].old.index]
  BY DEF FreeLink, Goto, queueVars, Inv, TypeOK
<1>2. Holds(t, n) /\ pc'[t] \in Freeing
  BY <1>1 DEF Holds, Freeing
<1>3. next'[n].index = local[t].old.index
  BY <1>0, <1>1 DEF TaggedIndex
<1>4. Sees(t, q, f)'
  BY <1>1, <1>3 DEF Sees, Allocates, Frees, Fills, Links, Helps, Unlinks, ReadTail, ReadHead, Holding
<1>5. \A i \in Nodes : i # n => next'[i] = next[i] /\ data'[i] = data[i]
  BY <1>0, <1>1
<1> HIDE DEF n
<1>6. local'[t].node = n
  BY <1>1 DEF n
<1> QED
  BY <1>0, <1>1, <1>2, <1>4, <1>5, <1>6, OwnNodeStep

LEMMA ConstructLists ==
    ASSUME Inv, NEW q, NEW f, Lists(q, f), NEW t \in Threads, Others(t), Construct(t)
    PROVE  Lists(q, f)'
<1> DEFINE n == local[t].node
<1>0. /\ n \in Nodes /\ next \in [Nodes -> TaggedIndex] /\ next[n] \in TaggedIndex
      /\ data \in [Nodes -> Values \cup {NoValue}]
  BY Start DEF Construct, Goto, FollowsNodes, Holding, LocalVariables, Indices
<1>1. /\ UNCHANGED <<pool, head, tail>> /\ pc[t] = "construct" /\ pc'[t] = "pushTail"
      /\ local'[t] = local[t] /\ data' = [data EXCEPT ![n] = local[t].value]
      /\ next' = [next EXCEPT ![n] = Tagged(NullHandle, NextTag(next[n]))]
  BY DEF Construct, Goto, Inv, TypeOK
<1>2. Holds(t, n) /\ pc'[t] \in Holding
  BY <1>1 DEF Holds, Holding
<1>3. next'[n].index = NullHandle /\ data'[n] = local[t].value
  BY <1>0, <1>1 DEF Tagged
<1>4. Sees(t, q, f)'
  BY <1>1, <1>3 DEF Sees, Allocates, Frees, Fills, Links, Helps, Unlinks, ReadTail, ReadHead
<1>5. \A i \in Nodes : i # n => next'[i] = next[i] /\ data'[i] = data[i]
  BY <1>0, <1>1
<1> HIDE DEF n
<1>6. local'[t].node = n
  BY <1>1 DEF n
<1> QED
  BY <1>0, <1>1, <1>2, <1>4, <1>5, <1>6, OwnNodeStep

\* The exchange of pool_ that takes a node.
LEMMA TakeLists ==
    ASSUME Inv, NoLap, NEW q, NEW f, Lists(q, f), NEW t \in Threads, Others(t),
           AllocCas(t), pool = local[t].old, UNCHANGED queueVars
    PROVE  Lists(q, Tail(f))' /\ f # <<>>
<1> DEFINE n == pool.index
           g == Tail(f)
<1>0. /\ pc[t] = "allocCas" /\ pc'[t] = "construct" /\ UNCHANGED <<next, head, tail, data>>
      /\ pool' = Tagged(local[t].link, NextTag(pool)) /\ local'[t].node = n
  <2> DEFINE l == [NoLocals EXCEPT !.node = pool.index, !.value = local[t].value]
  <2>1. /\ Goto(t, "allocCas", "construct") /\ local' = [local EXCEPT ![t] = l]
        /\ pool' = Tagged(local[t].link, NextTag(pool)) /\ UNCHANGED <<next, head, tail, data>>
    BY DEF AllocCas, Locals, queueVars
  <2>2. l.node = n
    BY NoLocalsType DEF NoLocals
  <2> HIDE DEF l
  <2> QED
    BY <2>1, <2>2 DEF Goto, Inv, TypeOK
<1>1. n # NullHandle
  BY <1>0, Start DEF FollowsNodes
<1>2. f # <<>> /\ IsChain(f, n)
  BY <1>1 DEF Lists, IsChain
<1>3. t \notin stalePool
  BY <1>0 DEF NoLap
<1>4. local[t].link = next[n].index
  BY <1>0, <1>3 DEF Lists, Sees, Allocates
<1>5. /\ IsChain(g, next[n].index) /\ n \in Nodes /\ In(n, f)
      /\ \A j \in Nodes : In(j, g) <=> In(j, f) /\ j # n
  BY <1>2, TailChain
<1> HIDE DEF n, g
<1>6. IsChain(g, pool.index)' /\ IsChain(q, head.index)'
  BY <1>0, <1>4, <1>5 DEF Lists, IsChain, Tagged
<1>7. /\ \A i \in Nodes, u \in Threads : u # t => (Holds(u, i)' <=> Holds(u, i))
      /\ \A i \in Nodes : Holds(t, i)' <=> i = n
      /\ \A i \in Nodes : ~Holds(t, i)
  BY <1>0 DEF Others, Holds, Holding, Freeing
<1>8. Partition(q, g)'
  BY <1>5, <1>7 DEF Lists, Partition
<1>9. Lag(q)'
  BY <1>0 DEF Lists, Lag, Others
<1>10. pool'.tag # pool.tag
  BY <1>0, Start, TagMoves DEF Tagged
<1>11. ASSUME NEW u \in Threads, u # t PROVE Sees(u, q, g)'
  <2>1. /\ pc'[u] = pc[u] /\ local'[u] = local[u] /\ (u \in sawEmpty' <=> u \in sawEmpty)
        /\ u \in stalePool'
        /\ u \notin staleHead' => u \notin staleHead
        /\ u \notin staleTail' => u \notin staleTail
        /\ u \notin staleNext' => u \notin staleNext
        /\ staleTail' \subseteq staleTail
        /\ Sees(u, q, f)
    BY <1>0, <1>10, <1>11 DEF Others, Lists
  <2>2. Allocates(u, g)' /\ Frees(u)' /\ Fills(u)'
    BY <1>0, <2>1 DEF Sees, Allocates, Frees, Fills
  <2>3. Links(u, q)'
    BY <1>0, <2>1 DEF Sees, Links, LastSeen
  <2>4. Helps(u)'
    BY <1>0, <2>1 DEF Sees, Helps, ReadTail
  <2>5. Unlinks(u)'
    BY <1>0, <2>1 DEF Sees, Unlinks, ReadHead
  <2> QED
    BY <2>2, <2>3, <2>4, <2>5 DEF Sees
<1>12. Sees(t, q, g)'
  BY <1>0 DEF Sees, Allocates, Frees, Fills, Links, Helps, Unlinks, ReadTail, ReadHead
<1>13. Lists(q, g)'
  BY <1>6, <1>8, <1>9, <1>11, <1>12 DEF Lists
<1> QED
  BY <1>2, <1>13 DEF g

\* The exchange of pool_ that gives a node back.
LEMMA GiveBackLists ==
    ASSUME Inv, NEW q, NEW f, Lists(q, f), NEW t \in Threads, Others(t),
           FreeCas(t), pool = local[t].old, UNCHANGED queueVars
    PROVE  \E n \in Nodes : n = local[t].node /\ Lists(q, <<n>> \o f)'
<1>0. /\ pc[t] = "freeCas" /\ pc'[t] = "idle" /\ UNCHANGED <<next, head, tail, data>>
      /\ pool' = Tagged(local[t].node, pool.tag)
  BY DEF FreeCas, Goto, Locals, queueVars, Inv, TypeOK
<1>1. PICK n \in Nodes : n = local[t].node
  BY <1>0, Start DEF FollowsNodes, Freeing, LocalVariables, Indices
<1>2. /\ IsChain(f, pool.index) /\ next[n].index = pool.index
      /\ ~In(n, f) /\ ~In(n, q) /\ Holds(t, n)
  BY <1>0, <1>1 DEF Lists, Sees, Frees, Partition, Holds, Freeing
<1> DEFINE g == <<n>> \o f
<1>3. IsChain(g, n) /\ \A j \in Nodes : In(j, g) <=> In(j, f) \/ j = n
  BY <1>2, ConsChain
<1> HIDE DEF g
<1>4. IsChain(g, pool.index)' /\ IsChain(q, head.index)'
  BY <1>0, <1>1, <1>3 DEF Lists, IsChain, Tagged
<1>5. /\ \A i \in Nodes, u \in Threads : u # t => (Holds(u, i)' <=> Holds(u, i))
      /\ \A i \in Nodes : ~Holds(t, i)' /\ (Holds(t, i) <=> i = n)
  BY <1>0, <1>1 DEF Others, Holds, Holding, Freeing
<1>6. Partition(q, g)'
  BY <1>2, <1>3, <1>5 DEF Lists, Partition
<1>7. Lag(q)'
  BY <1>0 DEF Lists, Lag, Others
<1>8. ASSUME NEW u \in Threads, u # t PROVE Sees(u, q, g)'
  <2>1. /\ pc'[u] = pc[u] /\ local'[u] = local[u] /\ (u \in sawEmpty' <=> u \in sawEmpty)
        /\ u \notin stalePool' => u \notin stalePool
        /\ u \notin staleHead' => u \notin staleHead
        /\ u \notin staleTail' => u \notin staleTail
        /\ u \notin staleNext' => u \notin staleNext
        /\ staleTail' \subseteq staleTail
        /\ Sees(u, q, f) /\ local[u] \in LocalVariables
    BY <1>0, <1>8, Start DEF Others, Lists
  <2>2. Allocates(u, g)'
    <3>1. In(local[u].old.index, f) => In(local[u].old.index, g)
      <4>1. In(local[u].old.index, f) => local[u].old.index \in Nodes
        BY <1>2, ChainParts DEF In
      <4> QED
        BY <1>3, <4>1
    <3> QED
      BY <1>0, <2>1, <3>1 DEF Sees, Allocates, In
  <2>3. Frees(u)' /\ Fills(u)'
    BY <1>0, <2>1 DEF Sees, Frees, Fills
  <2>4. Links(u, q)'
    BY <1>0, <2>1 DEF Sees, Links, LastSeen
  <2>5. Helps(u)'
    BY <1>0, <2>1 DEF Sees, Helps, ReadTail
  <2>6. Unlinks(u)'
    BY <1>0, <2>1 DEF Sees, Unlinks, ReadHead
  <2> QED
    BY <2>2, <2>3, <2>4, <2>5, <2>6 DEF Sees
<1>9. Sees(t, q, g)'
  BY <1>0 DEF Sees, Allocates, Frees, Fills, Links, Helps, Unlinks, ReadTail, ReadHead, Holding
<1>10. Lists(q, g)'
  BY <1>4, <1>6, <1>7, <1>8, <1>9 DEF Lists
<1> QED
  BY <1>1, <1>10 DEF g

\* The exchange of the last node's next: what it has found.
LEMMA LinkFinds ==
    ASSUME Inv, NoLap, NEW q, NEW f, Lists(q, f), NEW t \in Threads,
           Link(t), next[local[t].tail.index] = local[t].next
    PROVE  /\ pc[t] = "link" /\ LastSeen(t, q) /\ t \notin staleTail
           /\ local[t].tail.index = q[Len(q)] /\ local[t].node \in Nodes
           /\ Holds(t, local[t].node) /\ ~In(local[t].node, q) /\ ~In(local[t].node, f)
           /\ next[local[t].node].index = NullHandle /\ data[local[t].node] = local[t].value
<1>1. pc[t] = "link"
  BY DEF Link
<1>2. t \notin staleNext
  BY <1>1 DEF NoLap
<1>3. LastSeen(t, q) /\ t \notin staleTail
  BY <1>1, <1>2 DEF Lists, Sees, Links
<1>4. local[t].node \in Nodes
  BY <1>1, Start DEF FollowsNodes, Holding, LocalVariables, Indices
<1>5. Holds(t, local[t].node)
  BY <1>1 DEF Holds, Holding
<1>6. next[local[t].node].index = NullHandle /\ data[local[t].node] = local[t].value
  BY <1>1 DEF Lists, Sees, Fills, Holding
<1> QED
  BY <1>1, <1>3, <1>4, <1>5, <1>6 DEF Lists, Partition, LastSeen

LEMMA LinkLists ==
    ASSUME Inv, NoLap, NEW q, NEW f, Lists(q, f), NEW t \in Threads, Others(t),
           Link(t), next[local[t].tail.index] = local[t].next
    PROVE  \E n \in Nodes : n = local[t].node /\ Lists(Append(q, n), f)'
<1>1. PICK n \in Nodes : n = local[t].node
  BY LinkFinds
<1>2. PICK z \in Nodes : z = q[Len(q)]
  BY Ends
<1> DEFINE r == Append(q, n)
<1>3. /\ pc[t] = "link" /\ pc'[t] = "swing" /\ local'[t] = local[t]
      /\ UNCHANGED <<pool, head, tail, data>>
      /\ next' = [next EXCEPT ![z] = Tagged(n, NextTag(local[t].next))]
  BY <1>1, <1>2, LinkFinds DEF Link, Goto, queueVars, Inv, TypeOK
<1>4. /\ LastSeen(t, q) /\ t \notin staleTail /\ tail.index = z /\ next[z] = local[t].next
      /\ Holds(t, n) /\ ~In(n, q) /\ ~In(n, f) /\ next[n].index = NullHandle
      /\ next[z].index = NullHandle /\ In(z, q) /\ z # NullHandle /\ n # z
  BY <1>1, <1>2, LinkFinds, Ends DEF LastSeen
<1>5. /\ \A i \in Nodes : i # z => next'[i] = next[i]
      /\ next'[z].index = n /\ next'[z].tag # next[z].tag
  BY <1>3, <1>4, Start, TagMoves DEF Tagged
<1>6. /\ IsChain(q, head.index) /\ q # <<>> /\ Distinct(q) /\ Len(q) \in Nat \ {0}
      /\ IsChain(f, pool.index) /\ \A i \in Nodes : ~(In(i, q) /\ In(i, f))
  BY Ends DEF Lists, Partition
<1>7. \A k \in 1..Len(q) - 1 : next'[q[k]].index = next[q[k]].index
  <2> SUFFICES ASSUME NEW k \in 1..Len(q) - 1 PROVE next'[q[k]].index = next[q[k]].index
    OBVIOUS
  <2>1. k \in 1..Len(q) /\ Len(q) \in 1..Len(q) /\ k # Len(q)
    BY <1>6
  <2>2. q[k] \in Nodes /\ q[k] # z
    BY <1>2, <1>6, <2>1, ChainParts DEF Distinct
  <2> QED
    BY <1>5, <2>2
<1>8. /\ IsChain(r, head.index)' /\ r # <<>> /\ Len(r) = Len(q) + 1 /\ r[Len(q) + 1] = n
      /\ \A k \in 1..Len(q) : r[k] = q[k]
      /\ \A j \in Nodes : In(j, r) <=> In(j, q) \/ j = n
  <2> DEFINE h == head.index
  <2>1. IsChain(q, h)
    BY <1>6
  <2>2. next'[q[Len(q)]].index = n /\ next'[n].index = NullHandle
    BY <1>2, <1>4, <1>5
  <2> HIDE DEF h
  <2>3. PICK i : i = h
    OBVIOUS
  <2>4. /\ IsChain(r, i)' /\ r # <<>> /\ Len(r) = Len(q) + 1 /\ r[Len(q) + 1] = n
        /\ \A k \in 1..Len(q) : r[k] = q[k]
        /\ \A j \in Nodes : In(j, r) <=> In(j, q) \/ j = n
    BY <1>4, <1>6, <1>7, <2>1, <2>2, <2>3, AppendChain
  <2>5. IsChain(r, head.index)'
    BY <1>3, <2>3, <2>4 DEF h, IsChain
  <2> QED
    BY <2>4, <2>5
<1>9. IsChain(f, pool.index)'
  <2>1. \A k \in 1..Len(f) : f[k] \in Nodes /\ f[k] # z
    BY <1>4, <1>6, ChainParts DEF In
  <2> QED
    BY <1>3, <1>5, <1>6, <2>1, SameChain DEF IsChain
<1> HIDE DEF r
<1>10. /\ \A i \in Nodes, u \in Threads : u # t => (Holds(u, i)' <=> Holds(u, i))
       /\ \A i \in Nodes : ~Holds(t, i)' /\ (Holds(t, i) <=> i = n)
  BY <1>1, <1>3 DEF Others, Holds, Holding, Freeing
<1>11. Partition(r, f)'
  BY <1>4, <1>8, <1>10 DEF Lists, Partition
<1>12. Len(r) > 1 /\ r[Len(r)] = n /\ r[Len(r) - 1] = z
  BY <1>2, <1>6, <1>8
<1>13. t \notin staleTail'
  BY <1>3, <1>4 DEF Others
<1>14. Lag(r)'
  BY <1>1, <1>3, <1>4, <1>12, <1>13 DEF Lag
<1>15. ASSUME NEW u \in Threads, u # t PROVE Sees(u, r, f)'
  <2>1. /\ pc'[u] = pc[u] /\ local'[u] = local[u] /\ (u \in sawEmpty' <=> u \in sawEmpty)
        /\ u \notin stalePool' => u \notin stalePool
        /\ u \notin staleHead' => u \notin staleHead
        /\ u \notin staleTail' => u \notin staleTail
        /\ u \notin staleNext' => u \notin staleNext /\ local[u].tail.index # z
        /\ staleTail' \subseteq staleTail
        /\ Sees(u, q, f) /\ local[u] \in LocalVariables /\ FollowsNodes(u)
    BY <1>3, <1>5, <1>15, Start DEF Others, Lists
  <2>2. Allocates(u, f)'
    <3>1. In(local[u].old.index, f) => local[u].old.index \in Nodes /\ local[u].old.index # z
      BY <1>4, <1>6, ChainParts DEF In
    <3> QED
      BY <1>3, <1>5, <2>1, <3>1 DEF Sees, Allocates
  <2>3. Frees(u)' /\ Fills(u)'
    <3>1. pc[u] \in Holding \cup Freeing => local[u].node \in Nodes /\ Holds(u, local[u].node)
      BY <2>1 DEF FollowsNodes, LocalVariables, Indices, Holds
    <3>2. pc[u] \in Holding \cup Freeing => next'[local[u].node] = next[local[u].node]
      BY <1>4, <1>5, <3>1 DEF Lists, Partition
    <3> QED
      BY <1>3, <2>1, <3>2 DEF Sees, Frees, Fills, Freeing
  <2>4. Links(u, r)'
    <3>1. pc[u] = "swing" /\ u \notin staleTail => FALSE
      BY <1>2, <1>4, <2>1, Ends DEF Sees, Links
    <3>2. LastSeen(u, q) => u \in staleNext'
      BY <1>4, <2>1 DEF LastSeen
    <3> QED
      BY <2>1, <3>1, <3>2 DEF Sees, Links
  <2>5. Helps(u)'
    BY <1>3, <1>4, <2>1 DEF Sees, Helps, ReadTail
  <2>6. Unlinks(u)'
    <3>1. head.index \in Nodes /\ (head.index # z => next'[head.index] = next[head.index])
      BY <1>5, Start
    <3> QED
      BY <1>3, <1>4, <2>1, <3>1 DEF Sees, Unlinks, ReadHead, FollowsNodes
  <2> QED
    BY <2>2, <2>3, <2>4, <2>5, <2>6 DEF Sees
<1>16. Sees(t, r, f)'
  <2>1. Links(t, r)'
    BY <1>1, <1>3, <1>4, <1>12 DEF Links
  <2>2. Helps(t)'
    BY <1>3, <1>4 DEF Helps, ReadTail, LastSeen
  <2> QED
    BY <1>3, <2>1, <2>2 DEF Sees, Allocates, Frees, Fills, Unlinks, ReadHead, Holding
<1>17. Lists(r, f)'
  BY <1>8, <1>9, <1>11, <1>14, <1>15, <1>16 DEF Lists
<1> QED
  BY <1>1, <1>17 DEF r

\* The exchange of tail_: what it has found.
LEMMA TailFinds ==
    ASSUME Inv, NoLap, NEW q, NEW f, Lists(q, f), NEW t \in Threads,
           Swing(t) \/ Help(t), tail = local[t].tail
    PROVE  /\ t \notin staleTail /\ Len(q) > 1 /\ tail.index = q[Len(q) - 1]
           /\ tail' = Tagged(q[Len(q)], NextTag(tail)) /\ UNCHANGED <<pool, next, head, data>>
<1>0. PICK n : n = IF pc[t] = "swing" THEN local[t].node ELSE local[t].next.index
  OBVIOUS
<1>1. /\ UNCHANGED <<pool, next, head, data>> /\ tail' = Tagged(n, NextTag(tail))
      /\ pc[t] \in {"swing", "pushHelp", "popHelp"}
  BY <1>0 DEF Swing, Help, MoveTail, Goto, listVars, Inv, TypeOK
<1>2. t \notin staleTail
  BY <1>1 DEF NoLap
<1>3. CASE pc[t] = "swing"
  BY <1>0, <1>1, <1>2, <1>3 DEF Lists, Sees, Links
<1>4. CASE pc[t] # "swing"
  <2>1. next[tail.index].index = n /\ n # NullHandle
    BY <1>0, <1>1, <1>2, <1>4, Start DEF Lists, Sees, Helps, ReadTail, FollowsNodes
  <2> QED
    BY <1>1, <1>2, <2>1, Ends
<1> QED
  BY <1>3, <1>4

\* The same, by the thread that has linked the last node or by another.
LEMMA TailMovesLists ==
    ASSUME Inv, NoLap, NEW q, NEW f, Lists(q, f), NEW t \in Threads, Others(t),
           Swing(t) \/ Help(t), tail = local[t].tail
    PROVE  Lists(q, f)'
<1>1. /\ UNCHANGED <<pool, next, head, data>>
      /\ \/ pc[t] = "swing" /\ pc'[t] = "idle"
         \/ /\ local'[t] = local[t]
            /\ (pc[t] = "pushHelp" /\ pc'[t] = "pushTail") \/ (pc[t] = "popHelp" /\ pc'[t] = "popHead")
  BY DEF Swing, Help, Goto, listVars, Inv, TypeOK
<1>2. /\ Len(q) > 1 /\ tail.index = q[Len(q) - 1] /\ t \notin staleTail
      /\ tail' = Tagged(q[Len(q)], NextTag(tail))
  BY TailFinds
<1>4. tail'.index = q[Len(q)] /\ tail'.tag # tail.tag
  BY <1>2, Start, TagMoves DEF Tagged
<1>5. IsChain(q, head.index)' /\ IsChain(f, pool.index)'
  BY <1>1 DEF Lists, IsChain
<1>6. \A i \in Nodes, u \in Threads : Holds(u, i)' <=> Holds(u, i)
  BY <1>1 DEF Others, Holds, Holding, Freeing
<1>7. Partition(q, f)'
  BY <1>6 DEF Lists, Partition
<1>8. Lag(q)'
  BY <1>4 DEF Lag
<1>9. ASSUME NEW u \in Threads, u # t PROVE Sees(u, q, f)'
  <2>1. /\ pc'[u] = pc[u] /\ local'[u] = local[u] /\ (u \in sawEmpty' <=> u \in sawEmpty)
        /\ u \notin stalePool' => u \notin stalePool
        /\ u \notin staleHead' => u \notin staleHead
        /\ u \in staleTail'
        /\ u \notin staleNext' => u \notin staleNext
        /\ Sees(u, q, f)
    BY <1>4, <1>9 DEF Others, Lists
  <2>2. Allocates(u, f)' /\ Frees(u)' /\ Fills(u)'
    BY <1>1, <2>1 DEF Sees, Allocates, Frees, Fills
  <2>3. Links(u, q)'
    <3>1. pc[u] = "link" => u \in staleNext
      BY <1>2, <2>1, Ends DEF Sees, Links, LastSeen
    <3> QED
      BY <2>1, <3>1 DEF Links
  <2>4. Helps(u)'
    BY <2>1 DEF Sees, Helps, ReadTail
  <2>5. Unlinks(u)'
    <3>1. tail'.index # head.index
      BY <1>2, <1>4, Ends
    <3> QED
      BY <1>1, <2>1, <3>1 DEF Sees, Unlinks, ReadHead
  <2> QED
    BY <2>2, <2>3, <2>4, <2>5 DEF Sees
<1>10. Fills(t)'
  BY <1>1 DEF Lists, Sees, Fills, Holding
<1>11. Sees(t, q, f)'
  BY <1>1, <1>10 DEF Sees, Allocates, Frees, Links, Helps, Unlinks, ReadTail, ReadHead
<1> QED
  BY <1>5, <1>7, <1>8, <1>9, <1>11 DEF Lists

\* The exchange of head_: what it takes.
LEMMA UnlinkFinds ==
    ASSUME Inv, NoLap, NEW q, NEW f, Lists(q, f), NEW t \in Threads,
           Unlink(t), head = local[t].head
    PROVE  /\ pc[t] = "unlink" /\ t \notin staleHead /\ tail.index # head.index
           /\ Len(q) > 1 /\ local[t].next.index = q[2]
           /\ next[head.index].index = q[2] /\ local[t].value = data[q[2]]
<1>1. pc[t] = "unlink"
  BY DEF Unlink
<1>2. t \notin staleHead
  BY <1>1 DEF NoLap
<1>3. local[t].next.index # NullHandle
  BY <1>1, Start DEF FollowsNodes
<1>4. /\ tail.index # head.index /\ next[head.index].index = local[t].next.index
      /\ local[t].value = data[local[t].next.index]
  BY <1>1, <1>2, <1>3 DEF Lists, Sees, Unlinks, ReadHead
<1>5. Len(q) > 1
  BY <1>3, <1>4, Ends
<1> QED
  BY <1>1, <1>2, <1>4, <1>5, Ends

LEMMA UnlinkLists ==
    ASSUME Inv, NoLap, NEW q, NEW f, Lists(q, f), NEW t \in Threads, Others(t),
           Unlink(t), head = local[t].head
    PROVE  Lists(Tail(q), f)'
<1> DEFINE r == Tail(q)
<1>1. PICK n \in Nodes : n = head.index
  BY Start
<1>2. /\ pc[t] = "unlink" /\ pc'[t] = "free" /\ local'[t].node = n
      /\ UNCHANGED <<pool, next, tail, data>>
      /\ head' = Tagged(local[t].next.index, NextTag(head))
  <2> DEFINE l == [NoLocals EXCEPT !.node = local[t].head.index, !.value = local[t].value]
  <2>1. /\ Goto(t, "unlink", "free") /\ local' = [local EXCEPT ![t] = l]
        /\ head' = Tagged(local[t].next.index, NextTag(head)) /\ UNCHANGED <<pool, next, tail, data>>
    BY DEF Unlink, Locals
  <2>2. l.node = n
    BY <1>1, NoLocalsType DEF NoLocals
  <2> HIDE DEF l
  <2> QED
    BY <2>1, <2>2 DEF Goto, Inv, TypeOK
<1>3. /\ IsChain(q, n) /\ q # <<>> /\ Len(q) \in Nat /\ Len(q) > 1 /\ n = q[1]
      /\ tail.index # n /\ next[n].index = local[t].next.index
      /\ IsChain(f, pool.index)
  BY <1>1, UnlinkFinds, Ends DEF Lists
<1>4. /\ IsChain(r, next[n].index)
      /\ \A j \in Nodes : In(j, r) <=> In(j, q) /\ j # n
      /\ In(n, q) /\ Len(r) = Len(q) - 1
      /\ \A k \in 1..Len(q) - 1 : r[k] = q[k + 1]
  BY <1>3, TailChain
<1> HIDE DEF r
<1>5. r # <<>> /\ r[Len(r)] = q[Len(q)] /\ (Len(q) > 2 => Len(r) > 1 /\ r[Len(r) - 1] = q[Len(q) - 1])
  <2>1. Len(r) # 0 /\ Len(q) - 1 \in 1..Len(q) - 1 /\ (Len(q) - 1) + 1 = Len(q)
    BY <1>3, <1>4
  <2>2. ASSUME Len(q) > 2 PROVE Len(r) > 1 /\ r[Len(r) - 1] = q[Len(q) - 1]
    <3>1. (Len(q) - 1) - 1 \in 1..Len(q) - 1 /\ ((Len(q) - 1) - 1) + 1 = Len(q) - 1 /\ Len(q) - 1 > 1
      BY <1>3, <2>2
    <3> QED
      BY <1>4, <3>1
  <2> QED
    BY <1>4, <2>1, <2>2, ChainParts
<1>6. IsChain(r, head.index)' /\ IsChain(f, pool.index)'
  BY <1>2, <1>3, <1>4 DEF IsChain, Tagged
<1>7. /\ \A i \in Nodes, u \in Threads : u # t => (Holds(u, i)' <=> Holds(u, i))
      /\ \A i \in Nodes : ~Holds(t, i) /\ (Holds(t, i)' <=> i = n)
  BY <1>2 DEF Others, Holds, Holding, Freeing
<1>8. Partition(r, f)'
  BY <1>4, <1>7 DEF Lists, Partition
<1>9. tail.index = q[Len(q) - 1] => Len(q) > 2
  <2>1. Len(q) = 2 => q[Len(q) - 1] = n
    BY <1>3
  <2> QED
    BY <1>3, <2>1
<1>10. Lag(r)'
  <2>1. CASE tail.index = q[Len(q)]
    BY <1>2, <1>5, <2>1 DEF Lag
  <2>2. CASE tail.index # q[Len(q)]
    <3>1. PICK u \in Threads : pc[u] = "swing" /\ local[u].node = q[Len(q)] /\ u \notin staleTail
      BY <2>2 DEF Lists, Lag
    <3>2. tail.index = q[Len(q) - 1] /\ u # t
      BY <1>2, <2>2, <3>1, Ends
    <3>3. pc'[u] = "swing" /\ local'[u].node = q[Len(q)] /\ u \notin staleTail'
      BY <1>2, <3>1, <3>2 DEF Others
    <3> QED
      BY <1>2, <1>5, <1>9, <3>2, <3>3 DEF Lag
  <2> QED
    BY <2>1, <2>2
<1>11. head'.tag # head.tag
  BY <1>2, Start, TagMoves DEF Tagged
<1>12. ASSUME NEW u \in Threads, u # t PROVE Sees(u, r, f)'
  <2>1. /\ pc'[u] = pc[u] /\ local'[u] = local[u]
        /\ u \notin stalePool' => u \notin stalePool
        /\ u \in staleHead'
        /\ u \notin staleTail' => u \notin staleTail
        /\ u \notin staleNext' => u \notin staleNext
        /\ staleTail' \subseteq staleTail
        /\ Sees(u, q, f)
    BY <1>2, <1>11, <1>12 DEF Others, Lists
  <2>2. Allocates(u, f)' /\ Frees(u)' /\ Fills(u)'
    BY <1>2, <2>1 DEF Sees, Allocates, Frees, Fills
  <2>3. Links(u, r)'
    <3>1. pc[u] = "swing" /\ u \notin staleTail =>
             Len(r) > 1 /\ local[u].node = r[Len(r)] /\ tail.index = r[Len(r) - 1]
      BY <1>5, <1>9, <2>1 DEF Sees, Links
    <3> QED
      BY <1>2, <1>5, <2>1, <3>1 DEF Sees, Links, LastSeen
  <2>4. Helps(u)'
    BY <1>2, <2>1 DEF Sees, Helps, ReadTail
  <2>5. Unlinks(u)'
    BY <2>1 DEF Unlinks, ReadHead
  <2> QED
    BY <2>2, <2>3, <2>4, <2>5 DEF Sees
<1>13. Sees(t, r, f)'
  BY <1>2 DEF Sees, Allocates, Frees, Fills, Links, Helps, Unlinks, ReadTail, ReadHead, Holding
<1>14. Lists(r, f)'
  BY <1>5, <1>6, <1>8, <1>10, <1>12, <1>13 DEF Lists
<1> QED
  BY <1>14 DEF r

-----------------------------------------------------------------------------
(* The invariant.                                                          *)

TagInv == Inv /\ \E q, f : Lists(q, f)

\* The nodes but the last in the free list, the last in the queue.
LEMMA InitLists == TaggedInit => \E q, f : Lists(q, f)
<1> SUFFICES ASSUME TaggedInit PROVE \E q, f : Lists(q, f)
  OBVIOUS
<1> DEFINE z == NodeCount - 1
           q == <<z>>
           f == [k \in 1..z |-> z - k]
<1>1. /\ NodeCount \in Nat /\ z \in Nat \ {0} /\ Nodes = 0..z /\ z - 1 = NodeCount - 2
      /\ \A k \in 1..z : z - k \in Nodes /\ z - k # z
  BY NodesAssumption DEF NodeCount, Nodes
<1>2. /\ head.index = z /\ tail.index = z /\ pool.index = z - 1 /\ next[z].index = NullHandle
      /\ \A i \in Nodes : next[i].index = IF i \in {0, z} THEN NullHandle ELSE i - 1
      /\ \A t \in Threads : pc[t] = "idle"
  BY <1>1 DEF TaggedInit, Init, InitList, Tagged
<1>3. q \in Seq(Nodes) /\ Len(q) = 1 /\ q[1] = z /\ q # <<>>
  BY <1>1
<1>4. f \in Seq(Nodes) /\ Len(f) = z /\ f # <<>> /\ \A k \in 1..z : f[k] = z - k
  <2>1. f \in [1..z -> Nodes]
    BY <1>1
  <2>2. f \in Seq(Nodes)
    BY <1>1, <2>1, SeqDef
  <2>3. DOMAIN f = 1..Len(f) /\ Len(f) \in Nat
    BY <2>2, LenProperties
  <2>4. Len(f) = z
    BY <1>1, <2>3
  <2> HIDE DEF f
  <2>5. f # <<>>
    BY <1>1, <2>2, <2>4, EmptySeq
  <2> QED
    BY <2>2, <2>4, <2>5 DEF f
<1> HIDE DEF q, f
<1>5. IsChain(q, head.index)
  BY <1>2, <1>3 DEF IsChain, Distinct
<1>6. IsChain(f, pool.index)
  <2>1. Distinct(f)
    BY <1>1, <1>4 DEF Distinct
  <2>2. pool.index = f[1]
    BY <1>1, <1>2, <1>4
  <2>3. ASSUME NEW k \in 1..Len(f)
        PROVE  next[f[k]].index = IF k = Len(f) THEN NullHandle ELSE f[k + 1]
    <3>1. k \in 1..z /\ z - k \in Nodes /\ z - k # z /\ (z - k = 0 <=> k = z) /\ (z - k) - 1 = z - (k + 1)
      BY <1>1, <1>4
    <3>2. next[f[k]].index = IF k = z THEN NullHandle ELSE z - (k + 1)
      BY <1>2, <1>4, <3>1
    <3>3. k # z => k + 1 \in 1..z
      BY <1>1, <3>1
    <3> QED
      BY <1>4, <3>2, <3>3
  <2> QED
    BY <1>4, <2>1, <2>2, <2>3 DEF IsChain
<1>7. \A i \in Nodes : (In(i, q) <=> i = z) /\ (In(i, f) <=> i # z)
  <2> SUFFICES ASSUME NEW i \in Nodes PROVE (In(i, q) <=> i = z) /\ (In(i, f) <=> i # z)
    OBVIOUS
  <2>1. In(i, q) <=> i = z
    BY <1>3 DEF In
  <2>2. In(i, f) => i # z
    BY <1>1, <1>4 DEF In
  <2>3. ASSUME i # z PROVE In(i, f)
    <3>1. z - i \in 1..z /\ z - (z - i) = i
      BY <1>1, <2>3
    <3> QED
      BY <1>4, <3>1 DEF In
  <2> QED
    BY <2>1, <2>2, <2>3
<1>8. \A t \in Threads, i \in Nodes : ~Holds(t, i)
  BY <1>2 DEF Holds, Holding, Freeing
<1>9. Partition(q, f)
  BY <1>7, <1>8 DEF Partition
<1>10. Lag(q)
  BY <1>2, <1>3 DEF Lag
<1>11. \A t \in Threads : Sees(t, q, f)
  BY <1>2 DEF Sees, Allocates, Frees, Fills, Links, Helps, Unlinks, ReadTail, ReadHead, Holding
<1> QED
  BY <1>3, <1>5, <1>6, <1>9, <1>10, <1>11 DEF Lists

\* What a step makes of the two lists.
LEMMA ListsStep ==
    ASSUME Inv, NoLap, NEW q, NEW f, Lists(q, f), NEW t \in Threads, Record,
           Step(t) \/ bounded_push(t) \/ pop(t)
    PROVE  \E q2, f2 : Lists(q2, f2)'
<1>1. Others(t)
  BY OthersStay
<1>2. CASE bounded_push(t) \/ pop(t)
  BY <1>1, <1>2, CallLists
<1>3. CASE ListStep(t) /\ UNCHANGED <<queueVars, calls>>
  <2>1. CASE AllocLoad(t)
    BY <1>1, <1>3, <2>1, AllocSeeLists DEF AllocLoad
  <2>2. CASE AllocNext(t)
    BY <1>1, <1>3, <2>2, AllocNextLists
  <2>3. CASE AllocCas(t) /\ pool = local[t].old
    BY <1>1, <1>3, <2>3, TakeLists
  <2>4. CASE AllocCas(t) /\ pool # local[t].old
    <3>1. AllocSee(t, "allocCas") /\ UNCHANGED <<pool, next, queueVars>>
      BY <1>3, <2>4 DEF AllocCas
    <3> QED
      BY <1>1, <3>1, AllocSeeLists
  <2>5. CASE FreeLoad(t) \/ (FreeCas(t) /\ pool # local[t].old)
    BY <1>1, <1>3, <2>5, FreeLoadLists
  <2>6. CASE FreeLink(t)
    BY <1>1, <1>3, <2>6, FreeLinkLists
  <2>7. CASE FreeCas(t) /\ pool = local[t].old
    BY <1>1, <1>3, <2>7, GiveBackLists
  <2> QED
    BY <1>3, <2>1, <2>2, <2>3, <2>4, <2>5, <2>6, <2>7 DEF ListStep
<1>4. CASE Construct(t) \/ PushTail(t) \/ PushNext(t) \/ PushCheck(t)
  BY <1>1, <1>4, ConstructLists, PushTailLists, PushNextLists, PushCheckLists
<1>5. CASE Link(t) /\ next[local[t].tail.index] = local[t].next
  BY <1>1, <1>5, LinkLists
<1>6. CASE Link(t) /\ next[local[t].tail.index] # local[t].next
  BY <1>1, <1>6, LinkAgainLists
<1>7. CASE Swing(t) \/ Help(t)
  BY <1>1, <1>7, TailMovesLists, TailStaysLists
<1>8. CASE PopHead(t) \/ PopTail(t) \/ PopNext(t) \/ PopEmpty(t) \/ PopCheck(t) \/ Copy(t)
  BY <1>1, <1>8, PopHeadLists, PopTailLists, PopNextLists, PopEmptyLists, PopCheckLists, CopyLists
<1>9. CASE Unlink(t) /\ head = local[t].head
  BY <1>1, <1>9, UnlinkLists
<1>10. CASE Unlink(t) /\ head # local[t].head
  BY <1>1, <1>10, PopEmptyLists
<1> QED
  BY <1>2, <1>3, <1>4, <1>5, <1>6, <1>7, <1>8, <1>9, <1>10 DEF Step

LEMMA ListsStutter ==
    ASSUME NEW q, NEW f, Lists(q, f), UNCHANGED taggedVars
    PROVE  Lists(q, f)'
<1>1. /\ UNCHANGED <<pool, next, local, pc, head, tail, data, sawEmpty>>
      /\ UNCHANGED <<stalePool, staleHead, staleTail, staleNext>>
  BY DEF taggedVars, vars, listVars, queueVars, staleVars
<1>2. IsChain(q, head.index)' /\ IsChain(f, pool.index)' /\ Partition(q, f)' /\ Lag(q)'
  BY <1>1 DEF Lists, IsChain, Partition, Lag, Holds
<1>3. ASSUME NEW t \in Threads PROVE Sees(t, q, f)'
  <2>1. Sees(t, q, f)
    BY DEF Lists
  <2>2. Allocates(t, f)' /\ Frees(t)' /\ Fills(t)' /\ Links(t, q)'
    BY <1>1, <2>1 DEF Sees, Allocates, Frees, Fills, Links, LastSeen
  <2>3. Helps(t)' /\ Unlinks(t)'
    BY <1>1, <2>1 DEF Sees, Helps, ReadTail, Unlinks, ReadHead
  <2> QED
    BY <2>2, <2>3 DEF Sees
<1> QED
  BY <1>2, <1>3 DEF Lists

LEMMA TagInvInit == TaggedInit => TagInv
BY InitInv, InitLists DEF TagInv, TaggedInit

LEMMA TagInvStep == TagInv /\ NoLap /\ [TaggedNext]_taggedVars => TagInv'
<1> SUFFICES ASSUME TagInv, NoLap, [TaggedNext]_taggedVars PROVE TagInv'
  OBVIOUS
<1>1. Inv'
  BY InvStep DEF TagInv, TaggedNext, taggedVars
<1>2. PICK q, f : Lists(q, f)
  BY DEF TagInv
<1>3. \E q2, f2 : Lists(q2, f2)'
  <2>1. CASE TaggedNext
    <3>1. PICK t \in Threads : Step(t) \/ bounded_push(t) \/ pop(t)
      BY <2>1 DEF TaggedNext, Next
    <3> QED
      BY <1>2, <2>1, <3>1, ListsStep DEF TagInv, TaggedNext
  <2>2. CASE UNCHANGED taggedVars
    BY <1>2, <2>2, ListsStutter
  <2> QED
    BY <2>1, <2>2
<1> QED
  BY <1>1, <1>3 DEF TagInv

-----------------------------------------------------------------------------
(* What the run checks, of the two lists.                                  *)

\* The two lists are the ones that are reached from head_ and from pool_.
LEMMA Reached ==
    ASSUME NEW q, NEW f, Lists(q, f)
    PROVE  Linked = q /\ Free = f
BY ChainIs DEF Lists, Linked, Free

LEMMA TagInvListInv == TagInv => ListInv
<1> SUFFICES ASSUME TagInv PROVE ListInv
  OBVIOUS
<1>1. PICK q, f : Lists(q, f)
  BY DEF TagInv
<1>2. Linked = q /\ Free = f
  BY <1>1, Reached
<1> QED
  BY <1>1, <1>2 DEF ListInv

\* How often a node occurs in a chain.
LEMMA Occurrences ==
    ASSUME NEW s, NEW j, IsChain(s, j), NEW i \in Nodes
    PROVE  Cardinality({k \in DOMAIN s : s[k] = i}) = IF In(i, s) THEN 1 ELSE 0
<1> DEFINE T == {k \in DOMAIN s : s[k] = i}
<1> SUFFICES Cardinality(T) = IF In(i, s) THEN 1 ELSE 0
  OBVIOUS
<1>1. DOMAIN s = 1..Len(s) /\ Distinct(s)
  BY LenProperties DEF IsChain
<1>2. CASE In(i, s)
  <2>1. PICK k \in 1..Len(s) : s[k] = i
    BY <1>2 DEF In
  <2>2. T = {k}
    BY <1>1, <2>1 DEF Distinct
  <2> HIDE DEF T
  <2> QED
    BY <1>2, <2>2, FS_Singleton
<1>3. CASE ~In(i, s)
  <2>1. T = {}
    BY <1>1, <1>3 DEF In
  <2> HIDE DEF T
  <2> QED
    BY <1>3, <2>1, FS_EmptySet
<1> QED
  BY <1>2, <1>3

LEMMA Accounted == ListInv => NodesAccounted
<1> SUFFICES ASSUME ListInv, NEW i \in Nodes
             PROVE  Cardinality({k \in DOMAIN Linked : Linked[k] = i})
                    + Cardinality({k \in DOMAIN Free : Free[k] = i}) + Cardinality(Held(i)) = 1
  BY DEF NodesAccounted
<1>1. IsChain(Linked, head.index) /\ IsChain(Free, pool.index) /\ Partition(Linked, Free)
  BY DEF ListInv, Lists
<1>2. /\ Cardinality({k \in DOMAIN Linked : Linked[k] = i}) = IF In(i, Linked) THEN 1 ELSE 0
      /\ Cardinality({k \in DOMAIN Free : Free[k] = i}) = IF In(i, Free) THEN 1 ELSE 0
  BY <1>1, Occurrences
<1>3. Held(i) = {t \in Threads : Holds(t, i)}
  BY DEF Held, Holds
<1>4. CASE \E t \in Threads : Holds(t, i)
  <2>1. PICK t \in Threads : Holds(t, i)
    BY <1>4
  <2>2. Held(i) = {t}
    BY <1>1, <1>3, <2>1 DEF Partition
  <2>3. Cardinality(Held(i)) = 1
    BY <2>2, FS_Singleton
  <2>4. ~In(i, Linked) /\ ~In(i, Free)
    BY <1>1, <2>1 DEF Partition
  <2> QED
    BY <1>2, <2>3, <2>4
<1>5. CASE ~\E t \in Threads : Holds(t, i)
  <2>1. Held(i) = {}
    BY <1>3, <1>5
  <2>2. Cardinality(Held(i)) = 0
    BY <2>1, FS_EmptySet
  <2>3. (In(i, Linked) \/ In(i, Free)) /\ ~(In(i, Linked) /\ In(i, Free))
    BY <1>1, <1>5 DEF Partition
  <2> QED
    BY <1>2, <2>2, <2>3
<1> QED
  BY <1>4, <1>5

\* As long as no comparison is fooled by a tag that has gone round, the two lists, the
\* tail and the readings of every thread are as ListInv says.
THEOREM ListsKept == TaggedSpec /\ []NoLap => []ListInv
<1>1. TagInv /\ NoLap /\ [TaggedNext]_taggedVars => TagInv'
  BY TagInvStep
<1> QED
  BY <1>1, TagInvInit, TagInvListInv, PTL DEF TaggedSpec

\* No interleaving of pushes and pops loses a node or gives it to two threads.
THEOREM NodesKept == TaggedSpec /\ []NoLap => []NodesAccounted
BY ListsKept, Accounted, PTL

\* tail_ is never more than one node behind, and then its linker has yet to move it.
THEOREM TailFollows == TaggedSpec /\ []NoLap => []TailLagsByOne
<1>1. ListInv => TailLagsByOne
  BY DEF ListInv, Lists, Lag, TailLagsByOne
<1> QED
  BY <1>1, ListsKept, PTL

-----------------------------------------------------------------------------
(* The queue implements BoundedQueue.                                      *)

\* As many different nodes as the chain is long.
LEMMA ChainCount ==
    ASSUME NEW s, NEW i, IsChain(s, i)
    PROVE  LET R == {j \in Nodes : In(j, s)} IN IsFiniteSet(R) /\ Cardinality(R) = Len(s)
<1> DEFINE R == {j \in Nodes : In(j, s)}
<1>1. s \in [1..Len(s) -> R] /\ Len(s) \in Nat /\ Distinct(s)
  BY ChainParts, LenProperties DEF In, IsChain
<1>2. s \in Bijection(1..Len(s), R)
  BY <1>1 DEF Bijection, Injection, Surjection, IsInjective, Distinct, In
<1>3. ExistsBijection(1..Len(s), R)
  BY <1>2 DEF ExistsBijection
<1>4. IsFiniteSet(1..Len(s)) /\ Cardinality(1..Len(s)) = Len(s)
  BY <1>1, FS_Interval
<1> HIDE DEF R
<1>5. IsFiniteSet(R) /\ Cardinality(R) = Len(s)
  BY <1>3, <1>4, FS_Bijection
<1> QED
  BY <1>5 DEF R

\* The nodes in use are those that are not free; the dummy is not counted.
LEMMA UseCount ==
    ASSUME Inv, NEW q, NEW f, Lists(q, f)
    PROVE  Bounded!InUse = Capacity - Len(f) /\ Len(f) \in Nat
<1> DEFINE Q == {i \in Nodes : In(i, q)}
           F == {i \in Nodes : In(i, f)}
           H == {i \in Nodes : \E t \in Threads : Holds(t, i)}
           A == Bounded!Holders
           g == [t \in A |-> local[t].node]
<1>1. A = {t \in Threads : pc[t] \in Holding \cup Freeing}
  BY DEF Bounded!Holders, Status, Holding, Freeing
<1>2. \A t \in A : local[t].node \in Nodes /\ Holds(t, local[t].node)
  BY <1>1, Start DEF FollowsNodes, LocalVariables, Indices, Holds
<1>3. g \in Bijection(A, H)
  <2>1. g \in [A -> H]
    BY <1>1, <1>2
  <2>2. \A t, u \in A : g[t] = g[u] => t = u
    BY <1>1, <1>2 DEF Lists, Partition
  <2>3. \A i \in H : \E t \in A : g[t] = i
    BY <1>1 DEF Holds
  <2> QED
    BY <2>1, <2>2, <2>3 DEF Bijection, Injection, Surjection, IsInjective
<1>4. /\ IsFiniteSet(Q) /\ Cardinality(Q) = Len(q)
      /\ IsFiniteSet(F) /\ Cardinality(F) = Len(f) /\ Len(f) \in Nat /\ Len(q) \in Nat
  BY ChainCount, ChainParts DEF Lists
<1>5. IsFiniteSet(Nodes) /\ Cardinality(Nodes) = NodeCount /\ NodeCount \in Nat
  BY FS_Interval, NodesAssumption DEF Nodes, NodeCount
<1>6. /\ Nodes = (Q \cup F) \cup H /\ Q \cap F = {} /\ (Q \cup F) \cap H = {} /\ H \in SUBSET Nodes
  BY DEF Lists, Partition
<1> HIDE DEF Q, F, H, A, g
<1>7. IsFiniteSet(H) /\ Cardinality(H) \in Nat
  BY <1>5, <1>6, FS_Subset, FS_CardinalityType
<1>8. IsFiniteSet(Q \cup F) /\ Cardinality(Q \cup F) = Len(q) + Len(f)
  <2>1. Cardinality(Q \cup F) = Cardinality(Q) + Cardinality(F) - Cardinality(Q \cap F)
    BY <1>4, FS_Union
  <2>2. IsFiniteSet(Q \cup F)
    BY <1>4, FS_Union
  <2>3. Cardinality(Q \cap F) = 0
    BY <1>6, FS_EmptySet
  <2> QED
    BY <1>4, <2>1, <2>2, <2>3
<1>9. Cardinality(Nodes) = Cardinality(Q \cup F) + Cardinality(H)
  <2>1. Cardinality((Q \cup F) \cup H)
            = Cardinality(Q \cup F) + Cardinality(H) - Cardinality((Q \cup F) \cap H)
    BY <1>7, <1>8, FS_Union
  <2>2. Cardinality((Q \cup F) \cap H) = 0
    BY <1>6, FS_EmptySet
  <2>3. Cardinality(Q \cup F) \in Nat
    BY <1>8, FS_CardinalityType
  <2> QED
    BY <1>6, <1>7, <2>1, <2>2, <2>3
<1>10. Cardinality(A) = Cardinality(H)
  <2>1. ExistsBijection(A, H)
    BY <1>3 DEF ExistsBijection
  <2>2. ExistsBijection(H, A)
    BY <2>1, Fun_ExistsBijSymmetric
  <2> QED
    BY <1>7, <2>2, FS_Bijection
<1>11. Linked = q
  BY Reached
<1>12. Len(Items) = Len(q) - 1
  <2>1. Len(q) - 1 \in Nat
    BY Ends
  <2> QED
    BY <1>11, <2>1 DEF Items
<1>13. Bounded!InUse = Len(Items) + Cardinality(A)
  BY DEF Bounded!InUse, Bounded!Cardinality, Cardinality, A
<1> QED
  BY <1>4, <1>5, <1>7, <1>8, <1>9, <1>10, <1>12, <1>13, NodesAssumption DEF NodeCount

LEMMA Listed ==
    ASSUME NEW S, NEW m \in Nat, NEW s \in [1..m -> S]
    PROVE  s \in Seq(S) /\ Len(s) = m
<1>1. s \in Seq(S)
  BY SeqDef
<1> QED
  BY <1>1, LenProperties

\* The items are the data of the nodes behind the dummy.
LEMMA ItemsAre ==
    ASSUME NEW q, NEW f
    PROVE  /\ Lists(q, f) => Items = [k \in 1..(Len(q) - 1) |-> data[q[k + 1]]]
           /\ Lists(q, f)' => Items' = [k \in 1..(Len(q) - 1) |-> data'[q[k + 1]]]
<1>1. Lists(q, f) => Linked = q
  BY Reached
<1>2. (Lists(q, f) => Linked = q)'
  BY <1>1, PTL
<1> QED
  BY <1>1, <1>2 DEF Items

LEMMA SameItems ==
    ASSUME NEW q, NEW f, NEW g, Lists(q, f), Lists(q, g)',
           \A i \in Nodes : In(i, q) => data'[i] = data[i]
    PROVE  Items' = Items
<1>1. \A k \in 1..(Len(q) - 1) : q[k + 1] \in Nodes /\ In(q[k + 1], q)
  <2>1. Len(q) \in Nat /\ \A k \in 1..Len(q) : q[k] \in Nodes
    BY ChainParts DEF Lists
  <2>2. \A k \in 1..(Len(q) - 1) : k + 1 \in 1..Len(q)
    BY <2>1
  <2> QED
    BY <2>1, <2>2 DEF In
<1> QED
  BY <1>1, ItemsAre

mapped == <<Items, [t \in Threads |-> Status(t)], [t \in Threads |-> ValueOf(t)], sawEmpty>>

\* A step of a thread is one of its part of BoundedQueue.
LEMMA Becomes ==
    ASSUME NEW t \in Threads, Others(t)
    PROVE  Bounded!Become(t, Status(t), Status(t)', ValueOf(t)')
<1>1. \A u \in Threads : u # t => Status(u)' = Status(u) /\ ValueOf(u)' = ValueOf(u)
  BY DEF Others, Status, ValueOf
<1> QED
  BY <1>1 DEF Bounded!Become

\* A step that is none of them.
LEMMA Quiet ==
    ASSUME NEW q, NEW f, NEW g, Lists(q, f), Lists(q, g)', NEW t \in Threads, Others(t),
           \A i \in Nodes : In(i, q) => data'[i] = data[i],
           sawEmpty' = sawEmpty, Status(t)' = Status(t), ValueOf(t)' = ValueOf(t)
    PROVE  UNCHANGED mapped
<1>1. \A u \in Threads : Status(u)' = Status(u) /\ ValueOf(u)' = ValueOf(u)
  BY DEF Others, Status, ValueOf
<1>2. Items' = Items
  BY SameItems
<1> QED
  BY <1>1, <1>2 DEF mapped

LEMMA CallMaps ==
    ASSUME Inv, NEW q, NEW f, Lists(q, f), NEW t \in Threads, Others(t), bounded_push(t) \/ pop(t)
    PROVE  Bounded!Next
<1>1. Items' = Items
  BY CallLists, SameItems DEF bounded_push, pop, queueVars
<1>2. CASE bounded_push(t)
  <2>1. /\ pc[t] = "idle" /\ pc'[t] = "alloc" /\ sawEmpty' = sawEmpty
        /\ local'[t].value = <<t, calls'[t]>> /\ calls'[t] \in 1..MaxCalls
    <3> DEFINE l == [NoLocals EXCEPT !.value = <<t, calls'[t]>>]
    <3>1. calls'[t] = calls[t] + 1 /\ calls[t] \in 0..MaxCalls /\ calls[t] < MaxCalls
      BY <1>2, Start DEF bounded_push
    <3>2. calls'[t] \in 1..MaxCalls
      BY <3>1, CallsAssumption
    <3>3. /\ Goto(t, "idle", "alloc") /\ sawEmpty' = sawEmpty /\ local' = [local EXCEPT ![t] = l]
      BY <1>2 DEF bounded_push, queueVars, Locals
    <3>4. l.value = <<t, calls'[t]>>
      BY DEF NoLocals
    <3> HIDE DEF l
    <3> QED
      BY <3>2, <3>3, <3>4 DEF Goto, Inv, TypeOK
  <2>2. /\ Status(t) = "idle" /\ Status(t)' = "pushing" /\ ValueOf(t)' = <<t, calls'[t]>>
        /\ <<t, calls'[t]>> \in Values
    BY <2>1 DEF Status, ValueOf, Holding, Freeing, Values
  <2>3. Bounded!Push(t, <<t, calls'[t]>>)
    BY <1>1, <2>1, <2>2, Becomes DEF Bounded!Push
  <2> QED
    BY <2>2, <2>3 DEF Bounded!Next
<1>3. CASE pop(t)
  <2>1. pc[t] = "idle" /\ pc'[t] = "popHead" /\ sawEmpty' = sawEmpty
    BY <1>3 DEF pop, Goto, queueVars, Inv, TypeOK
  <2>2. Status(t) = "idle" /\ Status(t)' = "popping" /\ ValueOf(t)' = NoValue
    BY <2>1 DEF Status, ValueOf, Holding, Freeing
  <2>3. Bounded!Pop(t)
    BY <1>1, <2>1, <2>2, Becomes DEF Bounded!Pop
  <2> QED
    BY <2>3 DEF Bounded!Next
<1> QED
  BY <1>2, <1>3

\* A load of pool_ that finds no node is a refusal.
LEMMA AllocSeeMaps ==
    ASSUME Inv, NEW q, NEW f, Lists(q, f), NEW t \in Threads, Others(t),
           NEW from \in {"alloc", "allocCas"}, AllocSee(t, from), UNCHANGED <<pool, next, queueVars>>
    PROVE  Bounded!Next \/ UNCHANGED mapped
<1>1. Lists(q, f)' /\ sawEmpty' = sawEmpty /\ data' = data
  BY AllocSeeLists DEF queueVars
<1>2. CASE pool.index = NullHandle
  <2>1. pc[t] = from /\ pc'[t] = "idle"
    BY <1>2 DEF AllocSee, Goto, Inv, TypeOK
  <2>2. Status(t) = "pushing" /\ Status(t)' = "idle" /\ ValueOf(t)' = NoValue
    BY <2>1 DEF Status, ValueOf, Holding, Freeing
  <2>3. Len(f) = 0
    BY <1>2, ChainParts DEF Lists, IsChain
  <2>4. Bounded!InUse >= Capacity
    BY <2>3, UseCount, NodesAssumption
  <2>5. Bounded!Refuse(t)
    BY <1>1, <2>2, <2>4, Becomes, SameItems DEF Bounded!Refuse
  <2> QED
    BY <2>5 DEF Bounded!Next
<1>3. CASE pool.index # NullHandle
  <2>1. pc[t] = from /\ pc'[t] = "allocNext" /\ local'[t].value = local[t].value
    <3> DEFINE l == [local[t] EXCEPT !.old = pool]
    <3>1. Goto(t, from, "allocNext") /\ local' = [local EXCEPT ![t] = l]
      BY <1>3 DEF AllocSee, Locals
    <3>2. l.value = local[t].value
      BY Start DEF LocalVariables
    <3> HIDE DEF l
    <3> QED
      BY <3>1, <3>2 DEF Goto, Inv, TypeOK
  <2>2. Status(t)' = Status(t) /\ ValueOf(t)' = ValueOf(t)
    BY <2>1 DEF Status, ValueOf, Holding, Freeing
  <2> QED
    BY <1>1, <2>2, Quiet
<1> QED
  BY <1>2, <1>3

\* The exchange of pool_ that takes a node.
LEMMA TakeMaps ==
    ASSUME Inv, NoLap, NEW q, NEW f, Lists(q, f), NEW t \in Threads, Others(t),
           AllocCas(t), pool = local[t].old, UNCHANGED queueVars
    PROVE  Bounded!Next
<1>1. Lists(q, Tail(f))' /\ f # <<>> /\ sawEmpty' = sawEmpty /\ data' = data
  BY TakeLists DEF queueVars
<1>2. pc[t] = "allocCas" /\ pc'[t] = "construct" /\ local'[t].value = local[t].value
  <2> DEFINE l == [NoLocals EXCEPT !.node = pool.index, !.value = local[t].value]
  <2>1. Goto(t, "allocCas", "construct") /\ local' = [local EXCEPT ![t] = l]
    BY DEF AllocCas, Locals
  <2>2. l.value = local[t].value
    BY DEF NoLocals
  <2> HIDE DEF l
  <2> QED
    BY <2>1, <2>2 DEF Goto, Inv, TypeOK
<1>3. /\ Status(t) = "pushing" /\ ValueOf(t) = local[t].value
      /\ Status(t)' = "holding" /\ ValueOf(t)' = local[t].value
  BY <1>2 DEF Status, ValueOf, Holding, Freeing
<1>4. Bounded!InUse < Capacity
  <2>1. Len(f) # 0
    BY <1>1, ChainParts DEF Lists
  <2> QED
    BY <2>1, UseCount, NodesAssumption
<1>5. Items' = Items
  BY <1>1, SameItems
<1>6. Bounded!Take(t)
  BY <1>1, <1>3, <1>4, <1>5, Becomes DEF Bounded!Take
<1> QED
  BY <1>6 DEF Bounded!Next

LEMMA GiveBackMaps ==
    ASSUME Inv, NEW q, NEW f, Lists(q, f), NEW t \in Threads, Others(t),
           FreeCas(t), pool = local[t].old, UNCHANGED queueVars
    PROVE  Bounded!Next
<1>1. \E g : Lists(q, g)'
  BY GiveBackLists
<1>2. /\ pc[t] = "freeCas" /\ pc'[t] = "idle" /\ sawEmpty' = sawEmpty /\ data' = data
  BY DEF FreeCas, Goto, queueVars, Inv, TypeOK
<1>3. Status(t) = "freeing" /\ Status(t)' = "idle" /\ ValueOf(t)' = NoValue
  BY <1>2 DEF Status, ValueOf, Holding, Freeing
<1>4. Items' = Items
  BY <1>1, <1>2, SameItems
<1>5. Bounded!GiveBack(t)
  BY <1>2, <1>3, <1>4, Becomes DEF Bounded!GiveBack
<1> QED
  BY <1>5 DEF Bounded!Next

\* The rest of the free list does nothing that the queue would show.
LEMMA ListStepMaps ==
    ASSUME Inv, NoLap, NEW q, NEW f, Lists(q, f), NEW t \in Threads, Others(t),
           ListStep(t), UNCHANGED queueVars
    PROVE  Bounded!Next \/ UNCHANGED mapped
<1>1. sawEmpty' = sawEmpty /\ data' = data
  BY DEF queueVars
<1>2. CASE AllocLoad(t)
  <2>1. AllocSee(t, "alloc") /\ UNCHANGED <<pool, next, queueVars>>
    BY <1>2 DEF AllocLoad
  <2> QED
    BY <2>1, AllocSeeMaps
<1>3. CASE AllocNext(t)
  <2>1. pc[t] = "allocNext" /\ pc'[t] = "allocCas" /\ local'[t].value = local[t].value
    <3> DEFINE l == [local[t] EXCEPT !.link = next[local[t].old.index].index]
    <3>1. Goto(t, "allocNext", "allocCas") /\ local' = [local EXCEPT ![t] = l]
      BY <1>3 DEF AllocNext, Locals
    <3>2. l.value = local[t].value
      BY Start DEF LocalVariables
    <3> HIDE DEF l
    <3> QED
      BY <3>1, <3>2 DEF Goto, Inv, TypeOK
  <2>2. Status(t)' = Status(t) /\ ValueOf(t)' = ValueOf(t)
    BY <2>1 DEF Status, ValueOf, Holding, Freeing
  <2> QED
    BY <1>1, <1>3, <2>2, Quiet, AllocNextLists
<1>4. CASE AllocCas(t) /\ pool = local[t].old
  BY <1>4, TakeMaps
<1>5. CASE AllocCas(t) /\ pool # local[t].old
  <2>1. AllocSee(t, "allocCas") /\ UNCHANGED <<pool, next, queueVars>>
    BY <1>5 DEF AllocCas
  <2> QED
    BY <2>1, AllocSeeMaps
<1>6. CASE FreeLoad(t) \/ (FreeCas(t) /\ pool # local[t].old)
  <2>1. pc[t] \in Freeing /\ pc'[t] \in Freeing /\ local'[t].value = local[t].value
    <3> DEFINE l == [local[t] EXCEPT !.old = pool]
    <3>1. /\ \E from \in Freeing : Goto(t, from, "freeLink")
          /\ local' = [local EXCEPT ![t] = l]
      BY <1>6 DEF FreeLoad, FreeCas, Locals, Freeing
    <3>2. l.value = local[t].value
      BY Start DEF LocalVariables
    <3> HIDE DEF l
    <3> QED
      BY <3>1, <3>2 DEF Goto, Inv, TypeOK, Freeing
  <2>2. Status(t)' = Status(t) /\ ValueOf(t)' = ValueOf(t)
    BY <2>1 DEF Status, ValueOf, Holding, Freeing
  <2> QED
    BY <1>1, <1>6, <2>2, Quiet, FreeLoadLists
<1>7. CASE FreeLink(t)
  <2>1. pc[t] = "freeLink" /\ pc'[t] = "freeCas" /\ local'[t] = local[t]
    BY <1>7 DEF FreeLink, Goto, Inv, TypeOK
  <2>2. Status(t)' = Status(t) /\ ValueOf(t)' = ValueOf(t)
    BY <2>1 DEF Status, ValueOf, Holding, Freeing
  <2> QED
    BY <1>1, <1>7, <2>2, Quiet, FreeLinkLists
<1>8. CASE FreeCas(t) /\ pool = local[t].old
  BY <1>8, GiveBackMaps
<1> QED
  BY <1>2, <1>3, <1>4, <1>5, <1>6, <1>7, <1>8 DEF ListStep

\* The exchange of the last node's next puts the value at the end.
LEMMA LinkMaps ==
    ASSUME Inv, NoLap, NEW q, NEW f, Lists(q, f), NEW t \in Threads, Others(t),
           Link(t), next[local[t].tail.index] = local[t].next
    PROVE  Bounded!Next
<1>1. PICK n \in Nodes : n = local[t].node /\ Lists(Append(q, n), f)'
  BY LinkLists
<1> DEFINE r == Append(q, n)
<1>2. /\ pc[t] = "link" /\ pc'[t] = "swing" /\ data[n] = local[t].value
      /\ data' = data /\ sawEmpty' = sawEmpty
  BY <1>1, LinkFinds DEF Link, Goto, queueVars, Inv, TypeOK
<1>3. /\ Status(t) = "holding" /\ ValueOf(t) = local[t].value
      /\ Status(t)' = "idle" /\ ValueOf(t)' = NoValue
  BY <1>2 DEF Status, ValueOf, Holding, Freeing
<1>4. /\ q \in Seq(Nodes) /\ Len(q) \in Nat \ {0} /\ Len(r) = Len(q) + 1
      /\ r[Len(q) + 1] = n /\ \A k \in 1..Len(q) : r[k] = q[k]
  BY Ends, AppendProperties
<1> HIDE DEF r
<1>5. /\ Items = [k \in 1..(Len(q) - 1) |-> data[q[k + 1]]]
      /\ Items' = [k \in 1..(Len(r) - 1) |-> data[r[k + 1]]]
  BY <1>1, <1>2, ItemsAre DEF r
<1>6. Items' = Append(Items, local[t].value)
  <2> DEFINE m == Len(q) - 1
             a == Items
             b == Items'
  <2>1. m \in Nat /\ Len(r) - 1 = m + 1 /\ (m + 1) + 1 = Len(q) + 1
    BY <1>4
  <2>2. \A k \in 1..m : k + 1 \in 1..Len(q) /\ r[k + 1] = q[k + 1]
    BY <1>4
  <2>3. a = [k \in 1..m |-> data[q[k + 1]]] /\ b = [k \in 1..(m + 1) |-> data[r[k + 1]]]
    BY <1>5, <2>1
  <2> HIDE DEF m, a, b
  <2>4. /\ data \in [Nodes -> Values \cup {NoValue}]
        /\ \A k \in 1..m : q[k + 1] \in Nodes
    BY <1>4, <2>2, Start, LenProperties
  <2>5. \A k \in 1..(m + 1) : r[k + 1] \in Nodes
    BY <1>1, <1>4, <2>1, <2>2, <2>4
  <2>6. /\ a \in [1..m -> Values \cup {NoValue}]
        /\ b \in [1..(m + 1) -> Values \cup {NoValue}]
    BY <2>3, <2>4, <2>5
  <2>7. /\ a \in Seq(Values \cup {NoValue}) /\ Len(a) = m
        /\ b \in Seq(Values \cup {NoValue}) /\ Len(b) = m + 1
    <3>1. m + 1 \in Nat
      BY <2>1
    <3> QED
      BY <2>1, <2>6, <3>1, Listed
  <2>8. /\ \A k \in 1..m : b[k] = a[k]
        /\ b[m + 1] = local[t].value /\ local[t].value \in Values \cup {NoValue}
    BY <1>2, <1>4, <2>1, <2>2, <2>3, Start DEF LocalVariables
  <2>9. b = Append(a, local[t].value)
    BY <2>1, <2>7, <2>8, AppendProperties, SeqEqual
  <2> QED
    BY <2>9 DEF a, b
<1>7. Bounded!Link(t)
  BY <1>2, <1>3, <1>6, Becomes DEF Bounded!Link
<1> QED
  BY <1>7 DEF Bounded!Next

\* The exchange of head_ takes the first value.
LEMMA UnlinkMaps ==
    ASSUME Inv, NoLap, NEW q, NEW f, Lists(q, f), NEW t \in Threads, Others(t),
           Unlink(t), head = local[t].head
    PROVE  Bounded!Next
<1> DEFINE r == Tail(q)
<1>1. /\ pc[t] = "unlink" /\ Len(q) > 1 /\ local[t].value = data[q[2]] /\ Lists(r, f)'
  BY UnlinkFinds, UnlinkLists
<1>2. /\ pc'[t] = "free" /\ local'[t].value = local[t].value /\ data' = data
      /\ sawEmpty' = sawEmpty \ {t}
  <2> DEFINE l == [NoLocals EXCEPT !.node = local[t].head.index, !.value = local[t].value]
  <2>1. /\ Goto(t, "unlink", "free") /\ local' = [local EXCEPT ![t] = l] /\ data' = data
        /\ sawEmpty' = sawEmpty \ {t}
    BY DEF Unlink, Locals
  <2>2. l.value = local[t].value
    BY DEF NoLocals
  <2> HIDE DEF l
  <2> QED
    BY <2>1, <2>2 DEF Goto, Inv, TypeOK
<1>3. Status(t) = "popping" /\ Status(t)' = "freeing" /\ ValueOf(t)' = local[t].value
  BY <1>1, <1>2 DEF Status, ValueOf, Holding, Freeing
<1>4. /\ q \in Seq(Nodes) /\ q # <<>> /\ Len(q) \in Nat /\ Len(r) = Len(q) - 1
      /\ \A k \in 1..(Len(q) - 1) : r[k] = q[k + 1]
  <2>1. q \in Seq(Nodes) /\ q # <<>> /\ Len(q) \in Nat
    BY Ends DEF Lists
  <2> QED
    BY <2>1, HeadTailProperties
<1> HIDE DEF r
<1>5. /\ Items = [k \in 1..(Len(q) - 1) |-> data[q[k + 1]]]
      /\ Items' = [k \in 1..(Len(r) - 1) |-> data[r[k + 1]]]
  BY <1>1, <1>2, ItemsAre DEF r
<1>6. Items # <<>> /\ Head(Items) = local[t].value /\ Items' = Tail(Items)
  <2> DEFINE m == Len(q) - 1
             a == Items
             b == Items'
             V == Values \cup {NoValue}
  <2>1. m \in Nat \ {0} /\ m - 1 \in Nat /\ Len(r) - 1 = m - 1
    BY <1>1, <1>4
  <2>2. /\ \A k \in 1..m : k + 1 \in 1..Len(q)
        /\ \A k \in 1..(m - 1) : k + 1 \in 1..m /\ r[k + 1] = q[(k + 1) + 1]
    BY <1>4, <2>1
  <2>3. data \in [Nodes -> V] /\ \A k \in 1..m : q[k + 1] \in Nodes
    BY <1>4, <2>2, Start, LenProperties
  <2>4. a = [k \in 1..m |-> data[q[k + 1]]] /\ b = [k \in 1..(m - 1) |-> data[r[k + 1]]]
    BY <1>5, <2>1
  <2>5. a \in [1..m -> V] /\ b \in [1..(m - 1) -> V]
    BY <2>2, <2>3, <2>4
  <2> HIDE DEF m, a, b, V
  <2>6. a \in Seq(V) /\ Len(a) = m /\ b \in Seq(V) /\ Len(b) = m - 1
    BY <2>1, <2>5, Listed
  <2>7. a # <<>>
    BY <2>1, <2>6, EmptySeq
  <2>8. Head(a) = local[t].value
    <3>1. 1 \in 1..m /\ 1 + 1 = 2
      BY <2>1
    <3>2. a[1] = data[q[2]]
      BY <2>4, <3>1
    <3> QED
      BY <1>1, <2>6, <2>7, <3>2
  <2>9. \A k \in 1..(m - 1) : b[k] = a[k + 1]
    BY <2>2, <2>4
  <2>10. b = Tail(a)
    <3>1. /\ Tail(a) \in Seq(V) /\ Len(Tail(a)) = m - 1
          /\ \A k \in 1..(m - 1) : Tail(a)[k] = a[k + 1]
      BY <2>6, <2>7, HeadTailProperties
    <3> QED
      BY <2>6, <2>9, <3>1, SeqEqual
  <2> QED
    BY <2>7, <2>8, <2>10 DEF a, b
<1>7. Bounded!Unlink(t)
  BY <1>2, <1>3, <1>6, Becomes DEF Bounded!Unlink
<1> QED
  BY <1>7 DEF Bounded!Next

\* The dummy is the last node when there are no items.
LEMMA NoItems ==
    ASSUME Inv, NEW q, NEW f, Lists(q, f)
    PROVE  Items = <<>> <=> next[head.index].index = NullHandle
<1> DEFINE m == Len(q) - 1
           a == Items
           V == Values \cup {NoValue}
<1>1. /\ q \in Seq(Nodes) /\ Len(q) \in Nat \ {0}
      /\ next[head.index].index = NullHandle <=> Len(q) = 1
  BY Ends
<1>2. m \in Nat /\ (m = 0 <=> Len(q) = 1) /\ \A k \in 1..m : k + 1 \in 1..Len(q)
  BY <1>1
<1>3. a = [k \in 1..m |-> data[q[k + 1]]]
  BY ItemsAre
<1>4. a \in [1..m -> V]
  <2>1. \A k \in 1..Len(q) : q[k] \in Nodes
    BY <1>1, LenProperties
  <2>2. \A k \in 1..m : q[k + 1] \in Nodes
    BY <1>2, <2>1
  <2>3. \A i \in Nodes : data[i] \in V
    BY DEF Inv, TypeOK
  <2> HIDE DEF m, V
  <2> QED
    BY <1>3, <2>2, <2>3
<1> HIDE DEF m, a, V
<1>5. a \in Seq(V) /\ Len(a) = m
  BY <1>2, <1>4, Listed
<1>6. a = <<>> <=> Len(a) = 0
  BY <1>5, EmptySeq
<1> QED
  BY <1>1, <1>2, <1>5, <1>6 DEF a

LEMMA PopNextMaps ==
    ASSUME Inv, NEW q, NEW f, Lists(q, f), NEW t \in Threads, Others(t), PopNext(t)
    PROVE  Bounded!Next
<1>1. Lists(q, f)'
  BY PopNextLists
<1>2. /\ pc[t] = "popNext" /\ pc'[t] = "popCheck" /\ data' = data
      /\ sawEmpty' = IF next[head.index].index = NullHandle THEN sawEmpty \cup {t}
                                                            ELSE sawEmpty \ {t}
  BY DEF PopNext, Goto, Inv, TypeOK
<1>3. /\ Status(t) = "popping" /\ Status(t)' = "popping"
      /\ ValueOf(t) = NoValue /\ ValueOf(t)' = NoValue
  BY <1>2 DEF Status, ValueOf, Holding, Freeing
<1>4. \A u \in Threads : Status(u)' = Status(u) /\ ValueOf(u)' = ValueOf(u)
  BY <1>3 DEF Others, Status, ValueOf
<1>5. Items' = Items
  BY <1>1, <1>2, SameItems
<1>6. Bounded!Look(t)
  BY <1>2, <1>3, <1>4, <1>5, NoItems DEF Bounded!Look
<1> QED
  BY <1>6 DEF Bounded!Next

\* A pop that returns false has seen the queue empty.
LEMMA PopEmptyMaps ==
    ASSUME Inv, NoLap, NEW q, NEW f, Lists(q, f), NEW t \in Threads, Others(t), PopEmpty(t)
    PROVE  Bounded!Next
<1>1. Lists(q, f)'
  BY PopEmptyLists
<1>2. /\ pc[t] = "popCheck" /\ pc'[t] = "idle" /\ data' = data /\ sawEmpty' = sawEmpty \ {t}
      /\ head = local[t].head /\ local[t].next.index = NullHandle
  BY DEF PopEmpty, FoundNothing, Goto, Inv, TypeOK
<1>3. Status(t) = "popping" /\ Status(t)' = "idle" /\ ValueOf(t)' = NoValue
  BY <1>2 DEF Status, ValueOf, Holding, Freeing
<1>4. t \in sawEmpty
  BY <1>2 DEF NoLap, Lists, Sees, Unlinks, ReadHead
<1>5. Items' = Items
  BY <1>1, <1>2, SameItems
<1>6. Bounded!Miss(t)
  BY <1>2, <1>3, <1>4, <1>5, Becomes DEF Bounded!Miss
<1> QED
  BY <1>6 DEF Bounded!Next

\* The constructor writes to a node that is not in the queue.
LEMMA ConstructMaps ==
    ASSUME Inv, NEW q, NEW f, Lists(q, f), NEW t \in Threads, Others(t), Construct(t)
    PROVE  UNCHANGED mapped
<1>1. /\ pc[t] = "construct" /\ pc'[t] = "pushTail" /\ local' = local /\ sawEmpty' = sawEmpty
      /\ data' = [data EXCEPT ![local[t].node] = local[t].value]
  BY DEF Construct, Goto, Inv, TypeOK
<1>2. Holds(t, local[t].node) /\ local[t].node \in Nodes
  BY <1>1, Start DEF Holds, Holding, FollowsNodes, LocalVariables, Indices
<1>3. \A i \in Nodes : In(i, q) => data'[i] = data[i]
  BY <1>1, <1>2, Start DEF Lists, Partition
<1>4. Status(t)' = Status(t) /\ ValueOf(t)' = ValueOf(t)
  BY <1>1 DEF Status, ValueOf, Holding, Freeing
<1> QED
  BY <1>1, <1>3, <1>4, ConstructLists, Quiet

\* Every other step leaves the queue, and what the thread is doing to it, as it was.
LEMMA RestMaps ==
    ASSUME Inv, NEW q, NEW f, Lists(q, f), Lists(q, f)', NEW t \in Threads, Others(t),
           \/ PushTail(t) \/ PushNext(t) \/ PushCheck(t) \/ Swing(t) \/ Help(t)
           \/ Link(t) /\ next[local[t].tail.index] # local[t].next
           \/ PopHead(t) \/ PopTail(t) \/ PopCheck(t) \/ Copy(t)
           \/ Unlink(t) /\ head # local[t].head
    PROVE  UNCHANGED mapped
<1> DEFINE fills == {"pushTail", "pushNext", "pushCheck", "link", "pushHelp"}
           pops == {"popHead", "popTail", "popNext", "popCheck", "popHelp", "copy", "unlink"}
<1>1. data' = data
  BY DEF PushTail, PushNext, PushCheck, Swing, Help, Link, PopHead, PopTail, PopCheck, Copy, Unlink,
         queueVars
<1>2. CASE PushTail(t) \/ PushNext(t)
  <2> DEFINE l == IF PushTail(t) THEN [local[t] EXCEPT !.tail = tail]
                  ELSE [local[t] EXCEPT !.next = next[local[t].tail.index]]
  <2>1. /\ \E from, to \in fills : Goto(t, from, to)
        /\ local' = [local EXCEPT ![t] = l] /\ sawEmpty' = sawEmpty
    BY <1>2 DEF PushTail, PushNext, Locals, queueVars
  <2>2. l.value = local[t].value
    BY Start DEF LocalVariables
  <2> HIDE DEF l
  <2>3. pc[t] \in fills /\ pc'[t] \in fills /\ local'[t].value = local[t].value
    BY <2>1, <2>2 DEF Goto, Inv, TypeOK
  <2>4. Status(t)' = Status(t) /\ ValueOf(t)' = ValueOf(t)
    BY <2>3 DEF Status, ValueOf, Holding, Freeing
  <2> QED
    BY <1>1, <2>1, <2>4, Quiet
<1>3. CASE \/ PushCheck(t)
           \/ Link(t) /\ next[local[t].tail.index] # local[t].next
           \/ Help(t) /\ pc[t] = "pushHelp"
  <2>1. /\ pc[t] \in fills /\ pc'[t] \in fills /\ local'[t] = local[t] /\ sawEmpty' = sawEmpty
    BY <1>3 DEF PushCheck, Link, Help, Goto, listVars, queueVars, Inv, TypeOK
  <2>2. Status(t)' = Status(t) /\ ValueOf(t)' = ValueOf(t)
    BY <2>1 DEF Status, ValueOf, Holding, Freeing
  <2> QED
    BY <1>1, <2>1, <2>2, Quiet
<1>4. CASE Swing(t)
  <2>1. pc[t] = "swing" /\ pc'[t] = "idle" /\ sawEmpty' = sawEmpty
    BY <1>4 DEF Swing, Goto, Inv, TypeOK
  <2>2. Status(t)' = Status(t) /\ ValueOf(t)' = ValueOf(t)
    BY <2>1 DEF Status, ValueOf, Holding, Freeing
  <2> QED
    BY <1>1, <2>1, <2>2, Quiet
<1>5. CASE \/ PopHead(t) \/ PopTail(t) \/ PopCheck(t) \/ Copy(t)
           \/ Unlink(t) /\ head # local[t].head
           \/ Help(t) /\ pc[t] = "popHelp"
  <2>1. /\ pc[t] \in pops /\ pc'[t] \in pops /\ sawEmpty' = sawEmpty
    BY <1>5 DEF PopHead, PopTail, PopCheck, Copy, Unlink, Help, Goto, listVars, queueVars, Inv, TypeOK
  <2>2. Status(t)' = Status(t) /\ ValueOf(t)' = ValueOf(t)
    BY <2>1 DEF Status, ValueOf, Holding, Freeing
  <2> QED
    BY <1>1, <2>1, <2>2, Quiet
<1>6. Help(t) => pc[t] \in {"pushHelp", "popHelp"}
  BY DEF Help, Goto
<1> QED
  BY <1>2, <1>3, <1>4, <1>5, <1>6

LEMMA StepMaps ==
    ASSUME Inv, NoLap, NEW q, NEW f, Lists(q, f), NEW t \in Threads, Record,
           Step(t) \/ bounded_push(t) \/ pop(t)
    PROVE  Bounded!Next \/ UNCHANGED mapped
<1>1. Others(t)
  BY OthersStay
<1>2. CASE bounded_push(t) \/ pop(t)
  BY <1>1, <1>2, CallMaps
<1>3. CASE ListStep(t) /\ UNCHANGED <<queueVars, calls>>
  BY <1>1, <1>3, ListStepMaps
<1>4. CASE Construct(t)
  BY <1>1, <1>4, ConstructMaps
<1>5. CASE Link(t) /\ next[local[t].tail.index] = local[t].next
  BY <1>1, <1>5, LinkMaps
<1>6. CASE PopNext(t) \/ PopEmpty(t)
  BY <1>1, <1>6, PopNextMaps, PopEmptyMaps
<1>7. CASE Unlink(t) /\ head = local[t].head
  BY <1>1, <1>7, UnlinkMaps
<1>8. CASE \/ PushTail(t) \/ PushNext(t) \/ PushCheck(t) \/ Swing(t) \/ Help(t)
           \/ Link(t) /\ next[local[t].tail.index] # local[t].next
           \/ PopHead(t) \/ PopTail(t) \/ PopCheck(t) \/ Copy(t)
           \/ Unlink(t) /\ head # local[t].head
  <2>1. Lists(q, f)'
    BY <1>1, <1>8, PushTailLists, PushNextLists, PushCheckLists, LinkAgainLists, TailMovesLists,
       TailStaysLists, PopHeadLists, PopTailLists, PopCheckLists, CopyLists, PopEmptyLists
  <2> QED
    BY <1>1, <1>8, <2>1, RestMaps
<1> QED
  BY <1>2, <1>3, <1>4, <1>5, <1>6, <1>7, <1>8 DEF Step

LEMMA NextMaps == TagInv /\ NoLap /\ [TaggedNext]_taggedVars => [Bounded!Next]_mapped
<1> SUFFICES ASSUME TagInv, NoLap, [TaggedNext]_taggedVars PROVE Bounded!Next \/ UNCHANGED mapped
  OBVIOUS
<1>1. PICK q, f : Lists(q, f)
  BY DEF TagInv
<1>2. CASE TaggedNext
  <2>1. PICK t \in Threads : Step(t) \/ bounded_push(t) \/ pop(t)
    BY <1>2 DEF TaggedNext, Next
  <2> QED
    BY <1>1, <1>2, <2>1, StepMaps DEF TagInv, TaggedNext
<1>3. CASE UNCHANGED taggedVars
  <2>1. Lists(q, f)' /\ data' = data /\ UNCHANGED <<pc, local, sawEmpty>>
    BY <1>1, <1>3, ListsStutter DEF taggedVars, vars, listVars, queueVars
  <2>2. Items' = Items
    BY <1>1, <2>1, SameItems
  <2>3. \A t \in Threads : Status(t)' = Status(t) /\ ValueOf(t)' = ValueOf(t)
    BY <2>1 DEF Status, ValueOf
  <2> QED
    BY <2>1, <2>2, <2>3 DEF mapped
<1> QED
  BY <1>2, <1>3

LEMMA InitMaps == TaggedInit => Bounded!Init
<1> SUFFICES ASSUME TaggedInit PROVE Bounded!Init
  OBVIOUS
<1>1. PICK q, f : Lists(q, f)
  BY InitLists
<1>2. Inv
  BY InitInv DEF TaggedInit
<1>3. /\ head.index \in Nodes /\ next[head.index].index = NullHandle
      /\ \A t \in Threads : pc[t] = "idle" /\ sawEmpty = {}
  BY NullIsNoNode DEF TaggedInit, Init, InitList, Tagged
<1>4. Items = <<>>
  BY <1>1, <1>2, <1>3, NoItems
<1>5. \A t \in Threads : Status(t) = "idle" /\ ValueOf(t) = NoValue
  BY <1>3 DEF Status, ValueOf, Holding, Freeing
<1>6. sawEmpty = {}
  BY DEF TaggedInit, Init
<1> QED
  BY <1>4, <1>5, <1>6 DEF Bounded!Init

\* Every interleaving of the accesses to the nodes, head_, tail_ and pool_ is one of the
\* atomic operations of a FIFO with Capacity nodes.
THEOREM Linearizable == TaggedSpec /\ []NoLap => ImplementsBoundedQueue
<1>1. TagInv /\ NoLap /\ [TaggedNext]_taggedVars => TagInv'
  BY TagInvStep
<1>2. TagInv /\ NoLap /\ [TaggedNext]_taggedVars
        => [Bounded!Next]_<<Items, [t \in Threads |-> Status(t)], [t \in Threads |-> ValueOf(t)],
                            sawEmpty>>
  BY NextMaps DEF mapped
<1> QED
  BY <1>1, <1>2, TagInvInit, InitMaps, PTL DEF TaggedSpec, ImplementsBoundedQueue, Bounded!Spec

-----------------------------------------------------------------------------
(* How long the tags last.                                                 *)

\* A reading that is older than the word has another tag.
LEMMA OlderNoLap ==
    ASSUME Inv, \A t \in Threads : Older(t)
    PROVE  NoLap
<1> SUFFICES ASSUME NEW t \in Threads
             PROVE  /\ pc[t] = "allocCas" /\ pool = local[t].old => t \notin stalePool
                    /\ pc[t] \in {"popCheck", "unlink"} /\ head = local[t].head => t \notin staleHead
                    /\ pc[t] \in {"pushCheck", "swing", "pushHelp", "popHelp"} /\ tail = local[t].tail
                          => t \notin staleTail
                    /\ pc[t] = "link" /\ next[local[t].tail.index] = local[t].next => t \notin staleNext
  BY DEF NoLap
<1>1. /\ pool.tag \in Nat /\ head.tag \in Nat /\ tail.tag \in Nat /\ local[t].next.tag \in Nat
      /\ Older(t)
  BY Start, NextTagType DEF LocalVariables
<1> QED
  BY <1>1 DEF Older, NotAfter, Popping

\* A set of calls.
LEMMA CallSet ==
    ASSUME FewCalls, NEW S, S \subseteq Threads \X (1..MaxCalls)
    PROVE  /\ IsFiniteSet(S) /\ Cardinality(S) \in Nat /\ Cardinality(S) <= AllCalls
           /\ AllCalls \in Nat
<1>1. IsFiniteSet(1..MaxCalls) /\ Cardinality(1..MaxCalls) = MaxCalls
  BY FS_Interval, CallsAssumption
<1>2. /\ IsFiniteSet(Threads \X (1..MaxCalls))
      /\ Cardinality(Threads \X (1..MaxCalls)) = AllCalls
  BY <1>1, FS_Product DEF FewCalls, AllCalls
<1> QED
  BY <1>2, FS_Subset, FS_CardinalityType

\* What a step of t makes of the calls: it is a new call, or comes no nearer to a place of the
\* call that it has left.
Places == {Taking, Popping, Pushing, Taking \cup {"construct"}}

Flows(t) ==
    /\ \A u \in Threads : u # t => pc'[u] = pc[u]
    /\ \/ /\ calls' = calls /\ pc[t] # "idle"
          /\ \A P \in Places : pc'[t] \in P => pc[t] \in P
       \/ calls' = [calls EXCEPT ![t] = @ + 1] /\ pc[t] = "idle"

LEMMA StepFlows ==
    ASSUME Inv, NEW t \in Threads, Step(t) \/ bounded_push(t) \/ pop(t)
    PROVE  Flows(t)
<1> USE DEF Places, Taking, Popping, Pushing, Holding
<1>1. /\ pc \in [Threads -> PC]
      /\ \A u \in Threads : u # t => pc'[u] = pc[u]
  BY OneMoves DEF Inv, TypeOK
<1>2. CASE bounded_push(t) \/ pop(t)
  BY <1>1, <1>2 DEF bounded_push, pop, Goto, Flows
<1>3. CASE ListStep(t) /\ UNCHANGED <<queueVars, calls>>
  BY <1>1, <1>3 DEF ListStep, AllocLoad, AllocNext, AllocCas, AllocSee, FreeLoad, FreeLink, FreeCas,
              Goto, Flows
<1>4. CASE Construct(t) \/ PushTail(t) \/ PushNext(t) \/ PushCheck(t) \/ Link(t) \/ Swing(t) \/ Help(t)
  BY <1>1, <1>4 DEF Construct, PushTail, PushNext, PushCheck, Link, Swing, Help, Goto, Flows
<1>5. CASE PopHead(t) \/ PopTail(t) \/ PopNext(t) \/ PopEmpty(t) \/ PopCheck(t) \/ Copy(t) \/ Unlink(t)
  BY <1>1, <1>5 DEF PopHead, PopTail, PopNext, PopEmpty, PopCheck, Copy, Unlink, Goto, Flows
<1> QED
  BY <1>2, <1>3, <1>4, <1>5 DEF Step

LEMMA AheadKept ==
    ASSUME FewCalls, Inv, NEW t \in Threads, Flows(t), NEW P \in Places
    PROVE  /\ Ahead(P)' \subseteq Ahead(P)
           /\ Cardinality(Ahead(P)) \in Nat /\ Cardinality(Ahead(P)') \in Nat
           /\ Cardinality(Ahead(P)') <= Cardinality(Ahead(P))
           /\ Cardinality(Ahead(P)) <= AllCalls /\ AllCalls \in Nat
<1>1. calls \in [Threads -> 0..MaxCalls] /\ MaxCalls \in Nat
  BY CallsAssumption DEF Inv, TypeOK
<1>2. ASSUME NEW u \in Threads, NEW n \in 1..MaxCalls,
             n > calls'[u] \/ (n = calls'[u] /\ pc'[u] \in P)
      PROVE  n > calls[u] \/ (n = calls[u] /\ pc[u] \in P)
  <2>1. calls[u] \in Nat /\ n \in Nat
    BY <1>1
  <2>2. CASE u # t
    <3>1. calls'[u] = calls[u] /\ pc'[u] = pc[u]
      BY <1>1, <2>2 DEF Flows
    <3> QED
      BY <1>2, <3>1
  <2>3. CASE u = t /\ calls' = calls
    <3>1. calls[t] \in Nat /\ ~(calls' = [calls EXCEPT ![t] = @ + 1])
      BY <1>1, <2>3
    <3>2. pc'[t] \in P => pc[t] \in P
      BY <2>3, <3>1, Zenon DEF Flows
    <3> QED
      BY <1>2, <2>3, <3>2
  <2>4. CASE u = t /\ calls' # calls
    <3>1. calls'[t] = calls[t] + 1
      BY <1>1, <2>4 DEF Flows
    <3> QED
      BY <1>2, <2>1, <2>4, <3>1
  <2> QED
    BY <2>2, <2>3, <2>4
<1>3. Ahead(P)' \subseteq Ahead(P)
  BY <1>2 DEF Ahead
<1>4. Ahead(P) \subseteq Threads \X (1..MaxCalls) /\ Ahead(P)' \subseteq Threads \X (1..MaxCalls)
  BY DEF Ahead
<1>5. /\ IsFiniteSet(Ahead(P)) /\ Cardinality(Ahead(P)) \in Nat /\ Cardinality(Ahead(P)) <= AllCalls
      /\ Cardinality(Ahead(P)') \in Nat /\ AllCalls \in Nat
  BY <1>4, CallSet
<1>6. Cardinality(Ahead(P)') <= Cardinality(Ahead(P))
  BY <1>3, <1>5, FS_Subset
<1> QED
  BY <1>3, <1>5, <1>6

\* A call that leaves the places P has had its turn.
LEMMA AheadSpent ==
    ASSUME FewCalls, Inv, NEW t \in Threads, Flows(t), NEW P \in Places,
           calls[t] > 0, calls' = calls, pc[t] \in P, pc'[t] \notin P
    PROVE  Cardinality(Ahead(P)') + 1 <= Cardinality(Ahead(P))
<1> DEFINE c == <<t, calls[t]>>
<1>1. calls[t] \in 1..MaxCalls
  BY CallsAssumption DEF Inv, TypeOK
<1>2. c \in Ahead(P) /\ c \notin Ahead(P)'
  BY <1>1 DEF Ahead
<1> HIDE DEF c
<1>3. Ahead(P)' \subseteq Ahead(P) \ {c}
  BY <1>2, AheadKept
<1>4. IsFiniteSet(Ahead(P)) /\ Cardinality(Ahead(P)) \in Nat
  <2>1. Ahead(P) \subseteq Threads \X (1..MaxCalls)
    BY DEF Ahead
  <2> QED
    BY <2>1, CallSet
<1>5. IsFiniteSet(Ahead(P) \ {c}) /\ Cardinality(Ahead(P) \ {c}) = Cardinality(Ahead(P)) - 1
  BY <1>2, <1>4, FS_RemoveElement
<1>6. Cardinality(Ahead(P)') <= Cardinality(Ahead(P) \ {c})
  BY <1>3, <1>5, FS_Subset
<1>7. Cardinality(Ahead(P)') \in Nat
  BY AheadKept
<1> QED
  BY <1>4, <1>5, <1>6, <1>7

\* A tag that does not wrap.
LEMMA NoRound ==
    ASSUME NEW h \in TaggedIndex, h.tag + 1 < TagModulus
    PROVE  NextTag(h) = h.tag + 1
<1>1. h.tag \in Nat /\ TagModulus \in Nat
  BY NodesAssumption DEF TaggedIndex
<1> QED
  BY <1>1 DEF NextTag

\* What a step makes of the tags.
LEMMA TagSteps ==
    ASSUME Inv, NEW t \in Threads, Step(t) \/ bounded_push(t) \/ pop(t)
    PROVE  /\ \/ pool'.tag = pool.tag
              \/ pc[t] = "allocCas" /\ pc'[t] = "construct" /\ pool'.tag = NextTag(pool)
           /\ \/ head'.tag = head.tag
              \/ pc[t] = "unlink" /\ pc'[t] = "free" /\ head'.tag = NextTag(head)
           /\ \A i \in Nodes :
                 \/ next'[i].tag = next[i].tag
                 \/ /\ next'[i].tag = NextTag(next[i])
                    /\ \/ pc[t] = "construct" /\ pc'[t] = "pushTail"
                       \/ pc[t] = "link" /\ pc'[t] = "swing"
<1>1. pc \in [Threads -> PC] /\ next \in [Nodes -> TaggedIndex]
  BY DEF Inv, TypeOK
<1>2. CASE bounded_push(t) \/ pop(t)
  BY <1>2 DEF bounded_push, pop, listVars, queueVars
<1>3. CASE ListStep(t) /\ UNCHANGED <<queueVars, calls>>
  <2>1. UNCHANGED next \/ FreeLink(t)
    BY <1>3 DEF ListStep, AllocLoad, AllocNext, AllocCas, FreeLoad, FreeCas
  <2>2. \A i \in Nodes : next'[i].tag = next[i].tag
    BY <1>1, <2>1 DEF FreeLink, TaggedIndex
  <2>3. \/ pool'.tag = pool.tag
        \/ pc[t] = "allocCas" /\ pc'[t] = "construct" /\ pool'.tag = NextTag(pool)
    BY <1>1, <1>3 DEF ListStep, AllocLoad, AllocNext, AllocCas, FreeLoad, FreeLink, FreeCas, Goto, Tagged
  <2> QED
    BY <1>3, <2>2, <2>3 DEF queueVars
<1>4. CASE Construct(t)
  <2>1. \A i \in Nodes : next'[i] = next[i] \/ next'[i].tag = NextTag(next[i])
    BY <1>1, <1>4 DEF Construct, Tagged
  <2> QED
    BY <1>1, <1>4, <2>1 DEF Construct, Goto
<1>5. CASE Link(t)
  <2>1. \/ next' = next
        \/ /\ pc[t] = "link" /\ pc'[t] = "swing"
           /\ \A i \in Nodes : next'[i] = next[i] \/ next'[i].tag = NextTag(next[i])
    BY <1>1, <1>5 DEF Link, Goto, Tagged
  <2> QED
    BY <1>5, <2>1 DEF Link, queueVars
<1>6. CASE PushTail(t) \/ PushNext(t) \/ PushCheck(t) \/ Swing(t) \/ Help(t)
  BY <1>6 DEF PushTail, PushNext, PushCheck, Swing, Help, queueVars, listVars
<1>7. CASE PopHead(t) \/ PopTail(t) \/ PopNext(t) \/ PopEmpty(t) \/ PopCheck(t) \/ Copy(t)
  BY <1>7 DEF PopHead, PopTail, PopNext, PopEmpty, PopCheck, Copy, queueVars, listVars
<1>8. CASE Unlink(t)
  BY <1>1, <1>8 DEF Unlink, Goto, Tagged
<1> QED
  BY <1>2, <1>3, <1>4, <1>5, <1>6, <1>7, <1>8 DEF Step

LEMMA TailSteps ==
    ASSUME Inv, NoLap, NEW q, NEW f, Lists(q, f), NEW t \in Threads,
           Step(t) \/ bounded_push(t) \/ pop(t)
    PROVE  \/ tail'.tag = tail.tag /\ Behind' = Behind
           \/ /\ tail'.tag = tail.tag /\ Behind = 0 /\ Behind' \in {0, 1}
              /\ pc[t] = "link" /\ pc'[t] = "swing"
           \/ tail'.tag = NextTag(tail) /\ Behind = 1 /\ Behind' = 0
<1> USE DEF Behind
<1>1. /\ pc \in [Threads -> PC] /\ next \in [Nodes -> TaggedIndex] /\ tail.index \in Nodes
      /\ In(tail.index, q)
  BY Start, Ends DEF Inv, TypeOK
<1>2. CASE Construct(t) \/ (FreeLink(t) /\ UNCHANGED queueVars)
  <2>1. /\ Holds(t, local[t].node) /\ local[t].node \in Nodes
    BY <1>2, Start DEF Construct, FreeLink, Goto, Holds, Holding, Freeing, FollowsNodes,
       LocalVariables, Indices
  <2>2. local[t].node # tail.index
    BY <1>1, <2>1 DEF Lists, Partition
  <2>3. tail' = tail /\ next'[tail.index] = next[tail.index]
    BY <1>1, <1>2, <2>2 DEF Construct, FreeLink, queueVars
  <2> QED
    BY <2>3
<1>3. CASE Link(t) /\ next[local[t].tail.index] = local[t].next
  <2>1. LastSeen(t, q)
    BY <1>3, LinkFinds
  <2>2. next[tail.index].index = NullHandle
    BY <2>1, Ends DEF LastSeen
  <2>3. tail' = tail /\ pc[t] = "link" /\ pc'[t] = "swing"
    BY <1>1, <1>3 DEF Link, Goto, queueVars
  <2> QED
    BY <2>2, <2>3
<1>4. CASE (Swing(t) \/ Help(t)) /\ tail = local[t].tail
  <2>1. Len(q) > 1 /\ tail.index = q[Len(q) - 1] /\ next' = next
        /\ tail'.tag = NextTag(tail) /\ tail'.index = q[Len(q)]
    BY <1>4, TailFinds DEF Tagged
  <2>2. next[tail.index].index # NullHandle /\ next[tail'.index].index = NullHandle
    BY <2>1, Ends
  <2> QED
    BY <2>1, <2>2
<1>5. CASE \/ bounded_push(t) \/ pop(t)
           \/ ListStep(t) /\ ~FreeLink(t) /\ UNCHANGED <<queueVars, calls>>
           \/ PushTail(t) \/ PushNext(t) \/ PushCheck(t)
           \/ Link(t) /\ next[local[t].tail.index] # local[t].next
           \/ (Swing(t) \/ Help(t)) /\ tail # local[t].tail
           \/ PopHead(t) \/ PopTail(t) \/ PopNext(t) \/ PopEmpty(t) \/ PopCheck(t) \/ Copy(t) \/ Unlink(t)
  <2>1. UNCHANGED <<tail, next>>
    BY <1>5 DEF bounded_push, pop, ListStep, AllocLoad, AllocNext, AllocCas, FreeLoad, FreeCas,
       PushTail, PushNext, PushCheck, Link, Swing, Help, MoveTail, PopHead, PopTail, PopNext,
       PopEmpty, PopCheck, Copy, Unlink, listVars, queueVars
  <2> QED
    BY <2>1
<1> QED
  BY <1>2, <1>3, <1>4, <1>5 DEF Step

\* The next step of the budget of a word: its tag moves on for a call that has had its turn.
LEMMA BudgetStep ==
    ASSUME FewCalls, Inv, NoLap, BudgetInv, NEW q, NEW f, Lists(q, f), NEW t \in Threads,
           Step(t) \/ bounded_push(t) \/ pop(t)
    PROVE  /\ Budgeted'
           /\ pool.tag <= pool'.tag /\ head.tag <= head'.tag /\ tail.tag <= tail'.tag
           /\ \A i \in Nodes : next[i].tag <= next'[i].tag
<1> DEFINE A(P) == Cardinality(Ahead(P))
           making == Taking \cup {"construct"}
<1>1. /\ pool \in TaggedIndex /\ head \in TaggedIndex /\ tail \in TaggedIndex
      /\ next \in [Nodes -> TaggedIndex]
      /\ pool.tag \in Nat /\ head.tag \in Nat /\ tail.tag \in Nat
      /\ \A i \in Nodes : next[i].tag \in Nat /\ next[i] \in TaggedIndex
      /\ pc[t] # "idle" => calls[t] > 0
      /\ TagModulus \in Nat
  BY NodesAssumption DEF Inv, TypeOK, TaggedIndex, BudgetInv
<1>2. Flows(t)
  BY StepFlows
<1>3. \A P \in Places :
         /\ A(P) \in Nat /\ A(P)' \in Nat /\ A(P)' <= A(P) /\ A(P) <= AllCalls /\ AllCalls \in Nat
         /\ pc[t] # "idle" /\ pc[t] \in P /\ pc'[t] \notin P => A(P)' + 1 <= A(P)
  <2> SUFFICES ASSUME NEW P \in Places
               PROVE  /\ A(P) \in Nat /\ A(P)' \in Nat /\ A(P)' <= A(P) /\ A(P) <= AllCalls
                      /\ AllCalls \in Nat
                      /\ pc[t] # "idle" /\ pc[t] \in P /\ pc'[t] \notin P => A(P)' + 1 <= A(P)
    OBVIOUS
  <2>1. pc[t] # "idle" => calls' = calls /\ calls[t] > 0
    BY <1>1, <1>2 DEF Flows
  <2> QED
    BY <1>2, <2>1, AheadKept, AheadSpent
<1>4. /\ Taking \in Places /\ Popping \in Places /\ Pushing \in Places /\ making \in Places
      /\ 2 * AllCalls < TagModulus
  BY DEF Places, FewCalls
<1> HIDE DEF A
<1>5. pool'.tag + A(Taking)' <= AllCalls + 1 /\ pool.tag <= pool'.tag
  <2>0. pool.tag + A(Taking) <= AllCalls + 1
    BY DEF BudgetInv, Budgeted, A
  <2>1. CASE pool'.tag = pool.tag
    BY <1>1, <1>3, <1>4, <2>0, <2>1
  <2>2. CASE pc[t] = "allocCas" /\ pc'[t] = "construct" /\ pool'.tag = NextTag(pool)
    <3>1. A(Taking)' + 1 <= A(Taking)
      BY <1>3, <1>4, <2>2 DEF Taking
    <3>2. pool.tag + 1 < TagModulus
      BY <1>1, <1>3, <1>4, <2>0, <3>1
    <3>3. pool'.tag = pool.tag + 1
      BY <1>1, <2>2, <3>2, NoRound
    <3> QED
      BY <1>1, <1>3, <1>4, <2>0, <3>1, <3>3
  <2> QED
    BY <2>1, <2>2, TagSteps
<1>6. head'.tag + A(Popping)' <= AllCalls /\ head.tag <= head'.tag
  <2>0. head.tag + A(Popping) <= AllCalls
    BY DEF BudgetInv, Budgeted, A
  <2>1. CASE head'.tag = head.tag
    BY <1>1, <1>3, <1>4, <2>0, <2>1
  <2>2. CASE pc[t] = "unlink" /\ pc'[t] = "free" /\ head'.tag = NextTag(head)
    <3>1. A(Popping)' + 1 <= A(Popping)
      BY <1>3, <1>4, <2>2 DEF Popping
    <3>2. head.tag + 1 < TagModulus
      BY <1>1, <1>3, <1>4, <2>0, <3>1
    <3>3. head'.tag = head.tag + 1
      BY <1>1, <2>2, <3>2, NoRound
    <3> QED
      BY <1>1, <1>3, <1>4, <2>0, <3>1, <3>3
  <2> QED
    BY <2>1, <2>2, TagSteps
<1>7. tail'.tag + Behind' + A(Pushing)' <= AllCalls /\ tail.tag <= tail'.tag
  <2>0. tail.tag + Behind + A(Pushing) <= AllCalls /\ Behind \in {0, 1}
    BY DEF BudgetInv, Budgeted, Behind, A
  <2>1. CASE tail'.tag = tail.tag /\ Behind' = Behind
    BY <1>1, <1>3, <1>4, <2>0, <2>1
  <2>2. CASE /\ tail'.tag = tail.tag /\ Behind = 0 /\ Behind' \in {0, 1}
             /\ pc[t] = "link" /\ pc'[t] = "swing"
    <3>1. A(Pushing)' + 1 <= A(Pushing)
      BY <1>3, <1>4, <2>2 DEF Pushing, Taking, Holding
    <3> QED
      BY <1>1, <1>3, <1>4, <2>0, <2>2, <3>1
  <2>3. CASE tail'.tag = NextTag(tail) /\ Behind = 1 /\ Behind' = 0
    <3>1. tail.tag + 1 < TagModulus
      BY <1>1, <1>3, <1>4, <2>0, <2>3
    <3>2. tail'.tag = tail.tag + 1
      BY <1>1, <2>3, <3>1, NoRound
    <3> QED
      BY <1>1, <1>3, <1>4, <2>0, <2>3, <3>2
  <2> QED
    BY <2>1, <2>2, <2>3, TailSteps
<1>8. ASSUME NEW i \in Nodes
      PROVE  next'[i].tag + A(making)' + A(Pushing)' <= 2 * AllCalls /\ next[i].tag <= next'[i].tag
  <2>0. next[i].tag + A(making) + A(Pushing) <= 2 * AllCalls
    BY DEF BudgetInv, Budgeted, A
  <2>1. CASE next'[i].tag = next[i].tag
    BY <1>1, <1>3, <1>4, <2>0, <2>1
  <2>2. CASE /\ next'[i].tag = NextTag(next[i])
             /\ \/ pc[t] = "construct" /\ pc'[t] = "pushTail"
                \/ pc[t] = "link" /\ pc'[t] = "swing"
    <3>1. A(making)' + A(Pushing)' + 1 <= A(making) + A(Pushing)
      <4>1. CASE pc[t] = "construct" /\ pc'[t] = "pushTail"
        <5>1. A(making)' + 1 <= A(making)
          BY <1>3, <1>4, <4>1 DEF Taking
        <5> QED
          BY <1>3, <1>4, <5>1
      <4>2. CASE pc[t] = "link" /\ pc'[t] = "swing"
        <5>1. A(Pushing)' + 1 <= A(Pushing)
          BY <1>3, <1>4, <4>2 DEF Pushing, Taking, Holding
        <5> QED
          BY <1>3, <1>4, <5>1
      <4> QED
        BY <2>2, <4>1, <4>2
    <3>2. next[i].tag + 1 < TagModulus
      BY <1>1, <1>3, <1>4, <2>0, <3>1
    <3>3. next'[i].tag = next[i].tag + 1
      BY <1>1, <2>2, <3>2, NoRound
    <3> QED
      BY <1>1, <1>3, <1>4, <2>0, <3>1, <3>3
  <2> QED
    BY <2>1, <2>2, TagSteps
<1> QED
  BY <1>5, <1>6, <1>7, <1>8 DEF Budgeted, Behind, A

\* What t has read: just now, or before and since then it has been in the same call.
Reading == Popping \ {"popHead"}
Tailing == {"pushNext", "pushCheck", "link", "swing", "pushHelp", "popNext", "popCheck", "popHelp"}

Reads(t) ==
    /\ pc'[t] \in {"allocNext", "allocCas"} =>
          \/ pc'[t] = "allocNext" /\ pc[t] # "allocNext" /\ local'[t].old = pool'
          \/ pc[t] \in {"allocNext", "allocCas"} /\ local'[t].old = local[t].old
    /\ pc'[t] \in Reading =>
          \/ pc'[t] = "popTail" /\ pc[t] # "popTail" /\ local'[t].head = head'
          \/ pc[t] \in Reading /\ local'[t].head = local[t].head
    /\ pc'[t] \in Tailing =>
          \/ pc'[t] \in {"pushNext", "popNext"} /\ pc[t] # pc'[t] /\ local'[t].tail = tail'
          \/ pc[t] \in Tailing /\ local'[t].tail = local[t].tail
    /\ pc'[t] \in {"pushCheck", "link"} =>
          \/ /\ pc'[t] = "pushCheck" /\ pc[t] # "pushCheck"
             /\ local'[t].next = next'[local'[t].tail.index]
          \/ /\ pc[t] \in {"pushCheck", "link"} /\ local'[t].next = local[t].next
             /\ local'[t].tail = local[t].tail

LEMMA StepReads ==
    ASSUME Inv, NEW t \in Threads, Step(t) \/ bounded_push(t) \/ pop(t)
    PROVE  Reads(t)
<1> USE DEF Reads, Reading, Tailing, Popping
<1>1. pc \in [Threads -> PC] /\ local \in [Threads -> LocalVariables] /\ local[t] \in LocalVariables
  BY DEF Inv, TypeOK
<1>2. CASE bounded_push(t) \/ pop(t)
  BY <1>1, <1>2 DEF bounded_push, pop, Goto
<1>3. CASE AllocLoad(t) \/ AllocNext(t) \/ AllocCas(t)
  BY <1>1, <1>3 DEF AllocLoad, AllocNext, AllocCas, AllocSee, Goto, Locals, LocalVariables
<1>4. CASE FreeLoad(t) \/ FreeLink(t) \/ FreeCas(t)
  BY <1>1, <1>4 DEF FreeLoad, FreeLink, FreeCas, Goto
<1>5. CASE Construct(t) \/ PushCheck(t) \/ Link(t) \/ Swing(t) \/ Help(t)
  BY <1>1, <1>5 DEF Construct, PushCheck, Link, Swing, Help, Goto, queueVars, listVars
<1>6. CASE PushTail(t)
  BY <1>1, <1>6 DEF PushTail, Goto, Locals, queueVars, LocalVariables
<1>7. CASE PushNext(t)
  BY <1>1, <1>7 DEF PushNext, Goto, Locals, queueVars, LocalVariables
<1>8. CASE PopHead(t)
  BY <1>1, <1>8 DEF PopHead, Goto, Locals, queueVars, LocalVariables
<1>9. CASE PopTail(t)
  BY <1>1, <1>9 DEF PopTail, Goto, Locals, queueVars, LocalVariables
<1>10. CASE PopNext(t)
  BY <1>1, <1>10 DEF PopNext, Goto, Locals, LocalVariables
<1>11. CASE PopEmpty(t) \/ PopCheck(t) \/ Unlink(t)
  BY <1>1, <1>11 DEF PopEmpty, PopCheck, Unlink, Goto, listVars, queueVars
<1>12. CASE Copy(t)
  BY <1>1, <1>12 DEF Copy, Goto, Locals, queueVars, LocalVariables
<1> QED
  BY <1>2, <1>3, <1>4, <1>5, <1>6, <1>7, <1>8, <1>9, <1>10, <1>11, <1>12 DEF Step, ListStep

\* A reading goes stale only by a change of the tag.
LEMMA StaleBy ==
    ASSUME Record, NEW u \in Threads
    PROVE  /\ u \in stalePool' => /\ u \in stalePool \/ pool'.tag # pool.tag
                                  /\ ~(pc'[u] # pc[u] /\ pc'[u] = "allocNext")
           /\ u \in staleHead' => /\ u \in staleHead \/ head'.tag # head.tag
                                  /\ ~(pc'[u] # pc[u] /\ pc'[u] = "popTail")
           /\ u \in staleTail' => /\ u \in staleTail \/ tail'.tag # tail.tag
                                  /\ ~(pc'[u] # pc[u] /\ pc'[u] \in {"pushNext", "popNext"})
           /\ u \in staleNext' =>
                 /\ \/ u \in staleNext
                    \/ \E i \in Nodes : i = local[u].tail.index /\ next'[i].tag # next[i].tag
                 /\ ~(pc'[u] # pc[u] /\ pc'[u] = "pushCheck")
BY DEF Record, Stale, Enter

LEMMA OlderStep ==
    ASSUME FewCalls, Inv, Inv', NoLap, BudgetInv, NEW q, NEW f, Lists(q, f), NEW t \in Threads,
           Record, Step(t) \/ bounded_push(t) \/ pop(t), NEW u \in Threads
    PROVE  Older(u)'
<1>1. /\ Older(u)
      /\ Reads(u) \/ (pc'[u] = pc[u] /\ local'[u] = local[u])
      /\ local[u] \in LocalVariables /\ FollowsNodes(u)
      /\ pool.tag <= pool'.tag /\ head.tag <= head'.tag /\ tail.tag <= tail'.tag
      /\ \A i \in Nodes : next[i].tag <= next'[i].tag
  BY StepReads, OneMoves, BudgetStep, Start DEF BudgetInv, Inv, TypeOK
<1>2. /\ pool.tag \in Nat /\ pool'.tag \in Nat /\ head.tag \in Nat /\ head'.tag \in Nat
      /\ tail.tag \in Nat /\ tail'.tag \in Nat
      /\ \A i \in Nodes : next[i].tag \in Nat /\ next'[i].tag \in Nat
      /\ local[u].old.tag \in Nat /\ local[u].head.tag \in Nat /\ local[u].tail.tag \in Nat
      /\ local[u].next.tag \in Nat
  BY <1>1 DEF Inv, TypeOK, TaggedIndex, LocalVariables
<1>3. pc'[u] \in {"allocNext", "allocCas"}
         => NotAfter(local'[u].old, pool', u \in stalePool')
  BY <1>1, <1>2, StaleBy DEF Reads, Older, NotAfter
<1>4. pc'[u] \in Reading => NotAfter(local'[u].head, head', u \in staleHead')
  BY <1>1, <1>2, StaleBy DEF Reads, Older, NotAfter, Reading
<1>5. pc'[u] \in Tailing => NotAfter(local'[u].tail, tail', u \in staleTail')
  BY <1>1, <1>2, StaleBy DEF Reads, Older, NotAfter, Tailing
<1>6. pc'[u] \in {"pushCheck", "link"}
         => NotAfter(local'[u].next, next'[local'[u].tail.index], u \in staleNext')
  <2> SUFFICES ASSUME pc'[u] \in {"pushCheck", "link"}
               PROVE  NotAfter(local'[u].next, next'[local'[u].tail.index], u \in staleNext')
    OBVIOUS
  <2>1. local'[u].tail.index \in Nodes
    BY Start DEF Inv, NullNeverFollowed, TypeOK, FollowsNodes, LocalVariables, TaggedIndex
  <2>2. CASE /\ pc'[u] = "pushCheck" /\ pc[u] # "pushCheck"
             /\ local'[u].next = next'[local'[u].tail.index]
    BY <1>2, <2>1, <2>2, StaleBy DEF NotAfter
  <2>3. CASE /\ pc[u] \in {"pushCheck", "link"} /\ local'[u].next = local[u].next
             /\ local'[u].tail = local[u].tail
    <3>1. NotAfter(local[u].next, next[local[u].tail.index], u \in staleNext)
      BY <1>1, <2>3 DEF Older
    <3> QED
      BY <1>1, <1>2, <2>1, <2>3, <3>1, StaleBy DEF NotAfter
  <2> QED
    BY <1>1, <2>2, <2>3 DEF Reads
<1> QED
  BY <1>3, <1>4, <1>5, <1>6 DEF Older, Reading, Tailing

LEMMA BudgetInvStep ==
    ASSUME FewCalls
    PROVE  TagInv /\ BudgetInv /\ [TaggedNext]_taggedVars => BudgetInv'
<1> SUFFICES ASSUME TagInv, BudgetInv, [TaggedNext]_taggedVars PROVE BudgetInv'
  OBVIOUS
<1>1. Inv /\ NoLap
  BY OlderNoLap DEF TagInv, BudgetInv
<1>2. Inv'
  BY <1>1, InvStep DEF TaggedNext, taggedVars
<1>3. CASE TaggedNext
  <2>1. PICK t \in Threads : Step(t) \/ bounded_push(t) \/ pop(t)
    BY <1>3 DEF TaggedNext, Next
  <2>2. PICK q, f : Lists(q, f)
    BY DEF TagInv
  <2>3. Record
    BY <1>3 DEF TaggedNext
  <2>4. Budgeted' /\ \A u \in Threads : Older(u)'
    BY <1>1, <1>2, <2>1, <2>2, <2>3, BudgetStep, OlderStep
  <2>5. ASSUME NEW u \in Threads, pc'[u] # "idle" PROVE calls'[u] > 0
    <3>1. Flows(t)
      BY <1>1, <2>1, StepFlows
    <3>2. calls \in [Threads -> 0..MaxCalls] /\ calls[u] \in Nat
      BY <1>1, CallsAssumption DEF Inv, TypeOK
    <3>3. pc[u] # "idle" => calls[u] > 0
      BY DEF BudgetInv
    <3> QED
      BY <2>5, <3>1, <3>2, <3>3 DEF Flows
  <2> QED
    BY <2>4, <2>5 DEF BudgetInv
<1>4. CASE UNCHANGED taggedVars
  <2>1. UNCHANGED <<pool, next, local, pc, head, tail, calls, stalePool, staleHead, staleTail, staleNext>>
    BY <1>4 DEF taggedVars, vars, listVars, queueVars, staleVars
  <2>2. Budgeted'
    BY <2>1 DEF BudgetInv, Budgeted, Ahead, Behind
  <2>3. \A u \in Threads : Older(u)'
    BY <2>1 DEF BudgetInv, Older
  <2> QED
    BY <2>1, <2>2, <2>3 DEF BudgetInv
<1> QED
  BY <1>3, <1>4

LEMMA BudgetInvInit ==
    ASSUME FewCalls
    PROVE  TaggedInit => BudgetInv
<1> SUFFICES ASSUME TaggedInit PROVE BudgetInv
  OBVIOUS
<1>1. /\ pool.tag = 1 /\ head.tag = 0 /\ tail.tag = 0
      /\ \A i \in Nodes : next[i].tag = 0
      /\ next[tail.index].index = NullHandle
      /\ \A t \in Threads : pc[t] = "idle"
  BY NullIsNoNode DEF TaggedInit, Init, InitList, Tagged
<1>2. \A P \in Places :
         Cardinality(Ahead(P)) \in Nat /\ Cardinality(Ahead(P)) <= AllCalls /\ AllCalls \in Nat
  <2>1. \A P \in Places : Ahead(P) \subseteq Threads \X (1..MaxCalls)
    BY DEF Ahead
  <2> QED
    BY <2>1, CallSet
<1>3. \A t \in Threads : Older(t)
  BY <1>1 DEF Older, Popping
<1>4. Budgeted
  BY <1>1, <1>2 DEF Budgeted, Behind, Places
<1> QED
  BY <1>1, <1>3, <1>4 DEF BudgetInv

\* A queue that is called fewer times than half the number of tags (2^15 times) never meets a
\* tag that has gone round: no exchange or second load succeeds on an old value.
THEOREM TagsLast ==
    ASSUME FewCalls
    PROVE  TaggedSpec => []NoLap
<1>1. TaggedInit => TagInv /\ BudgetInv
  BY TagInvInit, BudgetInvInit
<1>2. TagInv /\ BudgetInv /\ [TaggedNext]_taggedVars => (TagInv /\ BudgetInv)'
  <2>1. TagInv /\ BudgetInv => NoLap
    BY OlderNoLap DEF TagInv, BudgetInv
  <2> QED
    BY <2>1, TagInvStep, BudgetInvStep
<1>3. TagInv /\ BudgetInv => NoLap
  BY OlderNoLap DEF TagInv, BudgetInv
<1> QED
  BY <1>1, <1>2, <1>3, PTL DEF TaggedSpec

\* So such a queue is linearizable, without further assumption.
THEOREM LinearizableForFewCalls ==
    ASSUME FewCalls
    PROVE  TaggedSpec => ImplementsBoundedQueue
BY TagsLast, Linearizable, PTL
=============================================================================
