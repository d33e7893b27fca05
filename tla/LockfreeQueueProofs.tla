------------------------- MODULE LockfreeQueueProofs ------------------------
(***************************************************************************)
(* Proofs about the queue of LockfreeQueue.tla, for any threads, any       *)
(* capacity and any width of the tags: that it keeps its types, and that   *)
(* no access of it to a node goes through a null handle.                   *)
(***************************************************************************)
EXTENDS LockfreeQueueProperties, TLAPS

Inv == TypeOK /\ NullNeverFollowed

-----------------------------------------------------------------------------
(* Tagged indices.                                                         *)

LEMMA NullIsNoNode ==
    /\ NodeCount \in Nat /\ NullHandle \notin Nodes
    /\ NodeCount - 1 \in Nodes /\ NodeCount - 2 \in Nodes /\ NodeCount - 1 # 0
    /\ \A i \in Nodes \ {0} : i - 1 \in Nodes
BY NodesAssumption DEF NodeCount, NullHandle, Nodes

LEMMA NextTagType ==
    ASSUME NEW h \in TaggedIndex
    PROVE  NextTag(h) \in 0..(TagModulus - 1) /\ h.tag \in 0..(TagModulus - 1) /\ h.index \in Indices
<1>1. h.tag \in Nat /\ TagModulus \in Nat \ {0}
    BY NodesAssumption DEF TaggedIndex
<1>2. \A a \in Nat, b \in Nat \ {0} : a % b \in 0..(b - 1)
    OBVIOUS
<1> QED
    BY <1>1, <1>2 DEF TaggedIndex, NextTag, Indices

LEMMA TaggedType ==
    ASSUME NEW i \in Indices, NEW n \in 0..(TagModulus - 1)
    PROVE  /\ Tagged(i, n) \in TaggedIndex
           /\ Tagged(i, n).index = i /\ Tagged(i, n).tag = n
BY DEF Tagged, TaggedIndex, Indices

LEMMA NoLocalsType ==
    /\ NoHandle \in TaggedIndex /\ NoLocals \in LocalVariables
    /\ \A i \in Indices, v \in Values \cup {NoValue} :
          [NoLocals EXCEPT !.node = i, !.value = v] \in LocalVariables
<1>1. 0 \in 0..(TagModulus - 1) /\ NullHandle \in Indices
    BY NodesAssumption DEF Indices
<1>2. NoHandle \in TaggedIndex
    BY <1>1, TaggedType DEF NoHandle
<1> QED
    BY <1>1, <1>2 DEF NoLocals, LocalVariables

\* A step of a thread leaves the others' locals alone; it has to answer for its own.
LEMMA OneThread ==
    ASSUME Inv, NEW t \in Threads, NEW from, NEW to \in PC, Goto(t, from, to),
           NEW l \in LocalVariables, local' = [local EXCEPT ![t] = l]
    PROVE  /\ pc' \in [Threads -> PC] /\ local' \in [Threads -> LocalVariables]
           /\ pc[t] = from /\ pc'[t] = to /\ local'[t] = l
           /\ \A u \in Threads \ {t} : FollowsNodes(u)'
BY DEF Inv, TypeOK, NullNeverFollowed, FollowsNodes, Goto

\* A step that leaves the locals alone.
LEMMA OneGoes ==
    ASSUME Inv, NEW t \in Threads, NEW from, NEW to \in PC, Goto(t, from, to), local' = local
    PROVE  /\ pc' \in [Threads -> PC] /\ local' \in [Threads -> LocalVariables]
           /\ pc[t] = from /\ pc'[t] = to /\ local'[t] = local[t] /\ local[t] \in LocalVariables
           /\ \A u \in Threads \ {t} : FollowsNodes(u)'
BY DEF Inv, TypeOK, NullNeverFollowed, FollowsNodes, Goto

\* The list of nodes, head_ and tail_ as a step leaves them.
LEMMA Assembled ==
    ASSUME Inv, NEW t \in Threads,
           pool' \in TaggedIndex, next' \in [Nodes -> TaggedIndex],
           head' \in TaggedIndex, head'.index # NullHandle,
           tail' \in TaggedIndex, tail'.index # NullHandle,
           data' \in [Nodes -> Values \cup {NoValue}],
           calls' \in [Threads -> 0..MaxCalls], sawEmpty' \subseteq Threads,
           pc' \in [Threads -> PC], local' \in [Threads -> LocalVariables],
           \A u \in Threads \ {t} : FollowsNodes(u)', FollowsNodes(t)'
    PROVE  Inv'
BY DEF Inv, TypeOK, NullNeverFollowed

-----------------------------------------------------------------------------
(* The free list.                                                          *)

LEMMA AllocSeeStep ==
    ASSUME Inv, NEW t \in Threads, NEW from, AllocSee(t, from)
    PROVE  /\ pc' \in [Threads -> PC] /\ local' \in [Threads -> LocalVariables]
           /\ \A u \in Threads : FollowsNodes(u)'
<1>1. pool \in TaggedIndex /\ local[t] \in LocalVariables /\ "idle" \in PC /\ "allocNext" \in PC
    BY DEF Inv, TypeOK, PC
<1>2. CASE pool.index = NullHandle
  <2>1. Goto(t, from, "idle") /\ local' = [local EXCEPT ![t] = NoLocals]
    BY <1>2 DEF AllocSee, Locals
  <2>2. NoLocals \in LocalVariables
    BY NoLocalsType
  <2>3. /\ pc' \in [Threads -> PC] /\ local' \in [Threads -> LocalVariables] /\ pc'[t] = "idle"
        /\ \A u \in Threads \ {t} : FollowsNodes(u)'
    BY <1>1, <2>1, <2>2, OneThread
  <2>4. FollowsNodes(t)'
    BY <2>3 DEF FollowsNodes, Holding, Freeing
  <2> QED
    BY <2>3, <2>4
<1>3. CASE pool.index # NullHandle
  <2> DEFINE l == [local[t] EXCEPT !.old = pool]
  <2>1. Goto(t, from, "allocNext") /\ local' = [local EXCEPT ![t] = l]
    BY <1>3 DEF AllocSee, Locals
  <2>2. l \in LocalVariables /\ l.old = pool
    BY <1>1 DEF LocalVariables
  <2> HIDE DEF l
  <2>3. /\ pc' \in [Threads -> PC] /\ local' \in [Threads -> LocalVariables]
        /\ pc'[t] = "allocNext" /\ local'[t] = l
        /\ \A u \in Threads \ {t} : FollowsNodes(u)'
    BY <1>1, <2>1, <2>2, OneThread
  <2>4. FollowsNodes(t)'
    BY <1>3, <2>2, <2>3 DEF FollowsNodes, Holding, Freeing
  <2> QED
    BY <2>3, <2>4
<1> QED
    BY <1>2, <1>3

LEMMA ListStepInv ==
    ASSUME Inv, NEW t \in Threads, ListStep(t), UNCHANGED <<queueVars, calls>>
    PROVE  Inv'
<1>0. /\ pool \in TaggedIndex /\ next \in [Nodes -> TaggedIndex] /\ local[t] \in LocalVariables
      /\ head' \in TaggedIndex /\ head'.index # NullHandle
      /\ tail' \in TaggedIndex /\ tail'.index # NullHandle
      /\ data' \in [Nodes -> Values \cup {NoValue}]
      /\ calls' \in [Threads -> 0..MaxCalls] /\ sawEmpty' \subseteq Threads
      /\ FollowsNodes(t)
    BY DEF Inv, TypeOK, NullNeverFollowed, queueVars
<1>1. CASE AllocLoad(t)
  <2>1. UNCHANGED <<pool, next>>
    BY <1>1 DEF AllocLoad
  <2> QED
    BY <1>0, <1>1, <2>1, AllocSeeStep, Assembled DEF AllocLoad
<1>2. CASE AllocNext(t)
  <2> DEFINE l == [local[t] EXCEPT !.link = next[local[t].old.index].index]
  <2>1. Goto(t, "allocNext", "allocCas") /\ local' = [local EXCEPT ![t] = l] /\ UNCHANGED <<pool, next>>
    BY <1>2 DEF AllocNext, Locals
  <2>2. local[t].old.index \in Nodes
    BY <1>0, <2>1 DEF FollowsNodes, Goto, LocalVariables, TaggedIndex
  <2>3. l \in LocalVariables /\ l.old = local[t].old
    BY <1>0, <2>2 DEF LocalVariables, TaggedIndex, Indices
  <2> HIDE DEF l
  <2>4. /\ pc' \in [Threads -> PC] /\ local' \in [Threads -> LocalVariables]
        /\ pc'[t] = "allocCas" /\ local'[t] = l /\ \A u \in Threads \ {t} : FollowsNodes(u)'
    BY <2>1, <2>3, OneThread DEF PC
  <2>5. FollowsNodes(t)'
    BY <1>0, <2>1, <2>3, <2>4 DEF Goto, FollowsNodes, Holding, Freeing
  <2> QED
    BY <1>0, <2>1, <2>4, <2>5, Assembled
<1>3. CASE AllocCas(t) /\ pool = local[t].old
  <2> DEFINE l == [NoLocals EXCEPT !.node = pool.index, !.value = local[t].value]
  <2>1. /\ Goto(t, "allocCas", "construct") /\ local' = [local EXCEPT ![t] = l] /\ UNCHANGED next
        /\ pool' = Tagged(local[t].link, NextTag(pool))
    BY <1>3 DEF AllocCas, Locals
  <2>2. l \in LocalVariables /\ l.node = pool.index
    BY <1>0, NoLocalsType, NextTagType DEF LocalVariables, NoLocals
  <2>3. pool' \in TaggedIndex
    BY <1>0, <2>1, NextTagType, TaggedType DEF LocalVariables
  <2> HIDE DEF l
  <2>4. /\ pc' \in [Threads -> PC] /\ local' \in [Threads -> LocalVariables]
        /\ pc'[t] = "construct" /\ local'[t] = l /\ \A u \in Threads \ {t} : FollowsNodes(u)'
    BY <2>1, <2>2, OneThread DEF PC
  <2>5. pool.index # NullHandle
    BY <1>0, <1>3, <2>1 DEF FollowsNodes, Goto
  <2>6. FollowsNodes(t)'
    BY <2>2, <2>4, <2>5 DEF FollowsNodes, Holding, Freeing
  <2> QED
    BY <1>0, <2>1, <2>3, <2>4, <2>6, Assembled
<1>4. CASE AllocCas(t) /\ pool # local[t].old
  <2>1. UNCHANGED <<pool, next>> /\ AllocSee(t, "allocCas")
    BY <1>4 DEF AllocCas
  <2> QED
    BY <1>0, <2>1, AllocSeeStep, Assembled
<1>5. CASE FreeLoad(t)
  <2> DEFINE l == [local[t] EXCEPT !.old = pool]
  <2>1. Goto(t, "free", "freeLink") /\ local' = [local EXCEPT ![t] = l] /\ UNCHANGED <<pool, next>>
    BY <1>5 DEF FreeLoad, Locals
  <2>2. l \in LocalVariables /\ l.node = local[t].node
    BY <1>0 DEF LocalVariables
  <2> HIDE DEF l
  <2>3. /\ pc' \in [Threads -> PC] /\ local' \in [Threads -> LocalVariables] /\ pc[t] = "free"
        /\ pc'[t] = "freeLink" /\ local'[t] = l /\ \A u \in Threads \ {t} : FollowsNodes(u)'
    BY <2>1, <2>2, OneThread DEF PC
  <2>4. FollowsNodes(t)'
    BY <1>0, <2>2, <2>3 DEF FollowsNodes, Holding, Freeing
  <2> QED
    BY <1>0, <2>1, <2>3, <2>4, Assembled
<1>6. CASE FreeLink(t)
  <2>1. /\ Goto(t, "freeLink", "freeCas") /\ local' = local /\ pool' = pool
        /\ next' = [next EXCEPT ![local[t].node].index = local[t].old.index]
    BY <1>6 DEF FreeLink
  <2>2. next' \in [Nodes -> TaggedIndex]
    BY <1>0, <2>1 DEF LocalVariables, TaggedIndex
  <2>3. /\ pc' \in [Threads -> PC] /\ local' \in [Threads -> LocalVariables] /\ pc[t] = "freeLink"
        /\ pc'[t] = "freeCas" /\ local'[t] = local[t] /\ \A u \in Threads \ {t} : FollowsNodes(u)'
    BY <2>1, OneGoes DEF PC
  <2>4. FollowsNodes(t)'
    BY <1>0, <2>3 DEF FollowsNodes, Holding, Freeing
  <2> QED
    BY <1>0, <2>1, <2>2, <2>3, <2>4, Assembled
<1>7. CASE FreeCas(t) /\ pool = local[t].old
  <2>1. /\ Goto(t, "freeCas", "idle") /\ local' = [local EXCEPT ![t] = NoLocals] /\ next' = next
        /\ pool' = Tagged(local[t].node, pool.tag)
    BY <1>7 DEF FreeCas, Locals
  <2>2. pool' \in TaggedIndex
    BY <1>0, <2>1, NextTagType, TaggedType DEF LocalVariables
  <2>3. /\ pc' \in [Threads -> PC] /\ local' \in [Threads -> LocalVariables]
        /\ pc'[t] = "idle" /\ \A u \in Threads \ {t} : FollowsNodes(u)'
    BY <2>1, NoLocalsType, OneThread DEF PC
  <2>4. FollowsNodes(t)'
    BY <2>3 DEF FollowsNodes, Holding, Freeing
  <2> QED
    BY <1>0, <2>1, <2>2, <2>3, <2>4, Assembled
<1>8. CASE FreeCas(t) /\ pool # local[t].old
  <2> DEFINE l == [local[t] EXCEPT !.old = pool]
  <2>1. Goto(t, "freeCas", "freeLink") /\ local' = [local EXCEPT ![t] = l] /\ UNCHANGED <<pool, next>>
    BY <1>8 DEF FreeCas, Locals
  <2>2. l \in LocalVariables /\ l.node = local[t].node
    BY <1>0 DEF LocalVariables
  <2> HIDE DEF l
  <2>3. /\ pc' \in [Threads -> PC] /\ local' \in [Threads -> LocalVariables] /\ pc[t] = "freeCas"
        /\ pc'[t] = "freeLink" /\ local'[t] = l /\ \A u \in Threads \ {t} : FollowsNodes(u)'
    BY <2>1, <2>2, OneThread DEF PC
  <2>4. FollowsNodes(t)'
    BY <1>0, <2>2, <2>3 DEF FollowsNodes, Holding, Freeing
  <2> QED
    BY <1>0, <2>1, <2>3, <2>4, Assembled
<1> QED
    BY <1>1, <1>2, <1>3, <1>4, <1>5, <1>6, <1>7, <1>8 DEF ListStep

-----------------------------------------------------------------------------
(* The queue.                                                              *)

\* A step that only reads, into the locals l: what it has to show.
LEMMA ReadStep ==
    ASSUME Inv, NEW t \in Threads, NEW from, NEW to \in PC, NEW l \in LocalVariables,
           Goto(t, from, to), Locals(t, l), UNCHANGED <<pool, next, head, tail, data, calls>>,
           sawEmpty' \subseteq Threads,
           pc'[t] = to /\ local'[t] = l => FollowsNodes(t)'
    PROVE  Inv'
<1>1. /\ pc' \in [Threads -> PC] /\ local' \in [Threads -> LocalVariables]
      /\ pc'[t] = to /\ local'[t] = l /\ \A u \in Threads \ {t} : FollowsNodes(u)'
    BY OneThread DEF Locals
<1>2. /\ pool' \in TaggedIndex /\ next' \in [Nodes -> TaggedIndex]
      /\ head' \in TaggedIndex /\ head'.index # NullHandle
      /\ tail' \in TaggedIndex /\ tail'.index # NullHandle
      /\ data' \in [Nodes -> Values \cup {NoValue}] /\ calls' \in [Threads -> 0..MaxCalls]
    BY DEF Inv, TypeOK, NullNeverFollowed
<1> QED
    BY <1>1, <1>2, Assembled

\* What each proof below starts from.
LEMMA Start ==
    ASSUME Inv, NEW t \in Threads
    PROVE  /\ pool \in TaggedIndex /\ next \in [Nodes -> TaggedIndex]
           /\ head \in TaggedIndex /\ head.index \in Nodes
           /\ tail \in TaggedIndex /\ tail.index \in Nodes
           /\ data \in [Nodes -> Values \cup {NoValue}] /\ calls \in [Threads -> 0..MaxCalls]
           /\ sawEmpty \subseteq Threads
           /\ local[t] \in LocalVariables /\ FollowsNodes(t)
BY DEF Inv, TypeOK, NullNeverFollowed, TaggedIndex

LEMMA CallInvStep ==
    ASSUME Inv, NEW t \in Threads, bounded_push(t) \/ pop(t)
    PROVE  Inv'
<1>1. /\ pool' \in TaggedIndex /\ next' \in [Nodes -> TaggedIndex]
      /\ head' \in TaggedIndex /\ head'.index # NullHandle
      /\ tail' \in TaggedIndex /\ tail'.index # NullHandle
      /\ data' \in [Nodes -> Values \cup {NoValue}] /\ sawEmpty' \subseteq Threads
    BY DEF Inv, TypeOK, NullNeverFollowed, bounded_push, pop, listVars, queueVars
<1>2. calls[t] + 1 \in 1..MaxCalls /\ calls' \in [Threads -> 0..MaxCalls] /\ calls'[t] = calls[t] + 1
  <2>1. calls[t] \in 0..MaxCalls /\ calls[t] < MaxCalls /\ calls' = [calls EXCEPT ![t] = @ + 1]
    BY Start DEF bounded_push, pop
  <2>2. calls[t] + 1 \in 1..MaxCalls /\ calls[t] + 1 \in 0..MaxCalls
    BY <2>1, CallsAssumption
  <2> QED
    BY <2>1, <2>2, Start
<1>3. CASE bounded_push(t)
  <2> DEFINE l == [NoLocals EXCEPT !.value = <<t, calls'[t]>>]
  <2>1. Goto(t, "idle", "alloc") /\ local' = [local EXCEPT ![t] = l]
    BY <1>3 DEF bounded_push, Locals
  <2>2. <<t, calls'[t]>> \in Values
    BY <1>2 DEF Values
  <2>3. l \in LocalVariables
    BY <2>2, NoLocalsType DEF LocalVariables
  <2> HIDE DEF l
  <2>4. /\ pc' \in [Threads -> PC] /\ local' \in [Threads -> LocalVariables]
        /\ pc'[t] = "alloc" /\ \A u \in Threads \ {t} : FollowsNodes(u)'
    BY <2>1, <2>3, OneThread DEF PC
  <2>5. FollowsNodes(t)'
    BY <2>4 DEF FollowsNodes, Holding, Freeing
  <2> QED
    BY <1>1, <1>2, <2>4, <2>5, Assembled
<1>4. CASE pop(t)
  <2>1. Goto(t, "idle", "popHead") /\ local' = local
    BY <1>4 DEF pop, listVars
  <2>2. /\ pc' \in [Threads -> PC] /\ local' \in [Threads -> LocalVariables]
        /\ pc'[t] = "popHead" /\ \A u \in Threads \ {t} : FollowsNodes(u)'
    BY <2>1, OneGoes DEF PC
  <2>3. FollowsNodes(t)'
    BY <2>2 DEF FollowsNodes, Holding, Freeing
  <2> QED
    BY <1>1, <1>2, <2>2, <2>3, Assembled
<1> QED
    BY <1>3, <1>4

LEMMA MoveTailStep ==
    ASSUME Inv, NEW t \in Threads, NEW i \in Nodes, MoveTail(t, i)
    PROVE  tail' \in TaggedIndex /\ tail'.index # NullHandle
<1>1. NextTag(tail) \in 0..(TagModulus - 1) /\ i \in Indices /\ i # NullHandle
    BY Start, NextTagType, NullIsNoNode DEF Indices
<1>2. Tagged(i, NextTag(tail)) \in TaggedIndex /\ Tagged(i, NextTag(tail)).index = i
    BY <1>1, TaggedType
<1> QED
    BY <1>1, <1>2, Start, NullIsNoNode DEF MoveTail

LEMMA PushInv ==
    ASSUME Inv, NEW t \in Threads,
           Construct(t) \/ PushTail(t) \/ PushNext(t) \/ PushCheck(t) \/ Link(t) \/ Swing(t)
    PROVE  Inv'
<1> USE Start, NullIsNoNode
<1>1. CASE Construct(t)
  <2>1. /\ Goto(t, "construct", "pushTail") /\ UNCHANGED <<pool, local, head, tail, sawEmpty, calls>>
        /\ data' = [data EXCEPT ![local[t].node] = local[t].value]
        /\ next' = [next EXCEPT ![local[t].node] = Tagged(NullHandle, NextTag(next[local[t].node]))]
    BY <1>1 DEF Construct
  <2>2. local[t].node \in Nodes /\ local[t].value \in Values \cup {NoValue}
    BY <2>1 DEF FollowsNodes, Holding, Goto, LocalVariables, Indices
  <2>3. Tagged(NullHandle, NextTag(next[local[t].node])) \in TaggedIndex
    BY <2>2, NextTagType, TaggedType DEF Indices
  <2>4. data' \in [Nodes -> Values \cup {NoValue}] /\ next' \in [Nodes -> TaggedIndex]
    BY <2>1, <2>2, <2>3
  <2>5. /\ pc' \in [Threads -> PC] /\ local' \in [Threads -> LocalVariables] /\ pc[t] = "construct"
        /\ pc'[t] = "pushTail" /\ local'[t] = local[t] /\ \A u \in Threads \ {t} : FollowsNodes(u)'
    BY <2>1, OneGoes DEF PC
  <2>6. FollowsNodes(t)'
    BY <2>5 DEF FollowsNodes, Holding, Freeing
  <2> QED
    BY <2>1, <2>4, <2>5, <2>6, Assembled
<1>2. CASE PushTail(t)
  <2> DEFINE l == [local[t] EXCEPT !.tail = tail]
  <2>1. /\ Goto(t, "pushTail", "pushNext") /\ Locals(t, l) /\ pc[t] = "pushTail"
        /\ UNCHANGED <<pool, next, head, tail, data, calls, sawEmpty>>
    BY <1>2 DEF PushTail, queueVars, Goto
  <2>2. l \in LocalVariables /\ l.node = local[t].node /\ l.tail = tail
    BY DEF LocalVariables
  <2> HIDE DEF l
  <2>3. pc'[t] = "pushNext" /\ local'[t] = l => FollowsNodes(t)'
    BY <2>1, <2>2 DEF FollowsNodes, Holding, Freeing
  <2> QED
    BY <2>1, <2>2, <2>3, ReadStep DEF PC
<1>3. CASE PushNext(t)
  <2> DEFINE l == [local[t] EXCEPT !.next = next[local[t].tail.index]]
  <2>1. /\ Goto(t, "pushNext", "pushCheck") /\ Locals(t, l) /\ pc[t] = "pushNext"
        /\ UNCHANGED <<pool, next, head, tail, data, calls, sawEmpty>>
    BY <1>3 DEF PushNext, queueVars, Goto
  <2>2. local[t].tail.index \in Nodes
    BY <2>1 DEF FollowsNodes, LocalVariables, TaggedIndex
  <2>3. l \in LocalVariables /\ l.node = local[t].node /\ l.tail = local[t].tail
    BY <2>2 DEF LocalVariables
  <2> HIDE DEF l
  <2>4. pc'[t] = "pushCheck" /\ local'[t] = l => FollowsNodes(t)'
    BY <2>1, <2>3 DEF FollowsNodes, Holding, Freeing
  <2> QED
    BY <2>1, <2>3, <2>4, ReadStep DEF PC
<1>4. CASE PushCheck(t)
  <2>1. PICK to \in {"pushTail", "link", "pushHelp"} :
           /\ Goto(t, "pushCheck", to)
           /\ to = "pushHelp" => local[t].next.index # NullHandle
    BY <1>4 DEF PushCheck
  <2>2. pc[t] = "pushCheck" /\ UNCHANGED <<pool, next, local, head, tail, data, calls, sawEmpty>>
    BY <1>4, <2>1 DEF PushCheck, queueVars, listVars, Goto
  <2>3. /\ pc' \in [Threads -> PC] /\ local' \in [Threads -> LocalVariables]
        /\ pc'[t] = to /\ local'[t] = local[t] /\ \A u \in Threads \ {t} : FollowsNodes(u)'
    BY <2>1, <2>2, OneGoes DEF PC
  <2>4. FollowsNodes(t)'
    BY <2>1, <2>2, <2>3 DEF FollowsNodes, Holding, Freeing
  <2> QED
    BY <2>2, <2>3, <2>4, Assembled
<1>5. CASE Link(t)
  <2>1. /\ pc[t] = "link" /\ UNCHANGED <<pool, local, head, tail, data, calls, sawEmpty>>
        /\ Goto(t, "link", "swing") \/ Goto(t, "link", "pushTail")
        /\ \/ next' = next
           \/ next' = [next EXCEPT ![local[t].tail.index] = Tagged(local[t].node, NextTag(local[t].next))]
    BY <1>5 DEF Link, queueVars
  <2>2. Tagged(local[t].node, NextTag(local[t].next)) \in TaggedIndex
    BY NextTagType, TaggedType DEF LocalVariables
  <2>3. next' \in [Nodes -> TaggedIndex]
    BY <2>1, <2>2
  <2>4. /\ pc' \in [Threads -> PC] /\ local' \in [Threads -> LocalVariables]
        /\ pc'[t] \in {"swing", "pushTail"} /\ local'[t] = local[t]
        /\ \A u \in Threads \ {t} : FollowsNodes(u)'
    BY <2>1, OneGoes DEF PC
  <2>5. FollowsNodes(t)'
    BY <2>1, <2>4 DEF FollowsNodes, Holding, Freeing
  <2> QED
    BY <2>1, <2>3, <2>4, <2>5, Assembled
<1>6. CASE Swing(t)
  <2>1. /\ Goto(t, "swing", "idle") /\ MoveTail(t, local[t].node) /\ local[t].node \in Nodes
        /\ local' = [local EXCEPT ![t] = NoLocals]
        /\ UNCHANGED <<pool, next, head, data, calls, sawEmpty>>
    BY <1>6 DEF Swing, Locals, FollowsNodes, Goto, LocalVariables, Indices
  <2>2. /\ pc' \in [Threads -> PC] /\ local' \in [Threads -> LocalVariables]
        /\ pc'[t] = "idle" /\ \A u \in Threads \ {t} : FollowsNodes(u)'
    BY <2>1, NoLocalsType, OneThread DEF PC
  <2>3. FollowsNodes(t)'
    BY <2>2 DEF FollowsNodes, Holding, Freeing
  <2> QED
    BY <2>1, <2>2, <2>3, MoveTailStep, Assembled
<1> QED
    BY <1>1, <1>2, <1>3, <1>4, <1>5, <1>6

LEMMA HelpInv ==
    ASSUME Inv, NEW t \in Threads, Help(t)
    PROVE  Inv'
<1> USE Start, NullIsNoNode
<1>1. /\ Goto(t, "pushHelp", "pushTail") \/ Goto(t, "popHelp", "popHead")
      /\ UNCHANGED <<pool, next, local, head, data, calls, sawEmpty>>
      /\ MoveTail(t, local[t].next.index)
    BY DEF Help, listVars
<1>2. local[t].next.index \in Nodes
    BY <1>1 DEF FollowsNodes, Goto, LocalVariables, TaggedIndex
<1>3. /\ pc' \in [Threads -> PC] /\ local' \in [Threads -> LocalVariables] /\ local'[t] = local[t]
      /\ (pc[t] = "pushHelp" /\ pc'[t] = "pushTail") \/ pc'[t] = "popHead"
      /\ \A u \in Threads \ {t} : FollowsNodes(u)'
    BY <1>1, OneGoes DEF PC
<1>4. FollowsNodes(t)'
    BY <1>3 DEF FollowsNodes, Holding, Freeing
<1> QED
    BY <1>1, <1>2, <1>3, <1>4, MoveTailStep, Assembled

LEMMA PopInv ==
    ASSUME Inv, NEW t \in Threads,
           PopHead(t) \/ PopTail(t) \/ PopNext(t) \/ PopEmpty(t) \/ PopCheck(t) \/ Copy(t) \/ Unlink(t)
    PROVE  Inv'
<1> USE Start, NullIsNoNode
<1>1. CASE PopHead(t)
  <2> DEFINE l == [local[t] EXCEPT !.head = head]
  <2>1. /\ Goto(t, "popHead", "popTail") /\ Locals(t, l)
        /\ UNCHANGED <<pool, next, head, tail, data, calls, sawEmpty>>
    BY <1>1 DEF PopHead, queueVars
  <2>2. l \in LocalVariables /\ l.head = head
    BY DEF LocalVariables
  <2> HIDE DEF l
  <2>3. pc'[t] = "popTail" /\ local'[t] = l => FollowsNodes(t)'
    BY <2>2 DEF FollowsNodes, Holding, Freeing
  <2> QED
    BY <2>1, <2>2, <2>3, ReadStep DEF PC
<1>2. CASE PopTail(t)
  <2> DEFINE l == [local[t] EXCEPT !.tail = tail]
  <2>1. /\ Goto(t, "popTail", "popNext") /\ Locals(t, l) /\ pc[t] = "popTail"
        /\ UNCHANGED <<pool, next, head, tail, data, calls, sawEmpty>>
    BY <1>2 DEF PopTail, queueVars, Goto
  <2>2. l \in LocalVariables /\ l.head = local[t].head
    BY DEF LocalVariables
  <2> HIDE DEF l
  <2>3. pc'[t] = "popNext" /\ local'[t] = l => FollowsNodes(t)'
    BY <2>1, <2>2 DEF FollowsNodes, Holding, Freeing
  <2> QED
    BY <2>1, <2>2, <2>3, ReadStep DEF PC
<1>3. CASE PopNext(t)
  <2> DEFINE l == [local[t] EXCEPT !.next = next[local[t].head.index]]
  <2>1. /\ Goto(t, "popNext", "popCheck") /\ Locals(t, l) /\ pc[t] = "popNext"
        /\ UNCHANGED <<pool, next, head, tail, data, calls>> /\ sawEmpty' \subseteq Threads
    BY <1>3 DEF PopNext, Goto
  <2>2. local[t].head.index \in Nodes
    BY <2>1 DEF FollowsNodes, LocalVariables, TaggedIndex
  <2>3. l \in LocalVariables /\ l.head = local[t].head
    BY <2>2 DEF LocalVariables
  <2> HIDE DEF l
  <2>4. pc'[t] = "popCheck" /\ local'[t] = l => FollowsNodes(t)'
    BY <2>1, <2>3 DEF FollowsNodes, Holding, Freeing
  <2> QED
    BY <2>1, <2>3, <2>4, ReadStep DEF PC
<1>4. CASE PopEmpty(t)
  <2>1. /\ Goto(t, "popCheck", "idle") /\ Locals(t, NoLocals)
        /\ UNCHANGED <<pool, next, head, tail, data, calls>> /\ sawEmpty' \subseteq Threads
    BY <1>4 DEF PopEmpty
  <2>2. pc'[t] = "idle" => FollowsNodes(t)'
    BY DEF FollowsNodes, Holding, Freeing
  <2> QED
    BY <2>1, <2>2, NoLocalsType, ReadStep DEF PC
<1>5. CASE PopCheck(t)
  <2>1. PICK to \in {"popHead", "popHelp", "copy"} :
           /\ Goto(t, "popCheck", to)
           /\ to # "popHead" => local[t].next.index # NullHandle
    BY <1>5 DEF PopCheck
  <2>2. pc[t] = "popCheck" /\ UNCHANGED <<pool, next, local, head, tail, data, calls, sawEmpty>>
    BY <1>5, <2>1 DEF PopCheck, queueVars, listVars, Goto
  <2>3. /\ pc' \in [Threads -> PC] /\ local' \in [Threads -> LocalVariables]
        /\ pc'[t] = to /\ local'[t] = local[t] /\ \A u \in Threads \ {t} : FollowsNodes(u)'
    BY <2>1, <2>2, OneGoes DEF PC
  <2>4. FollowsNodes(t)'
    BY <2>1, <2>2, <2>3 DEF FollowsNodes, Holding, Freeing
  <2> QED
    BY <2>2, <2>3, <2>4, Assembled
<1>6. CASE Copy(t)
  <2> DEFINE l == [local[t] EXCEPT !.value = data[local[t].next.index]]
  <2>1. /\ Goto(t, "copy", "unlink") /\ Locals(t, l) /\ pc[t] = "copy"
        /\ UNCHANGED <<pool, next, head, tail, data, calls, sawEmpty>>
    BY <1>6 DEF Copy, queueVars, Goto
  <2>2. local[t].next.index \in Nodes
    BY <2>1 DEF FollowsNodes, LocalVariables, TaggedIndex
  <2>3. l \in LocalVariables /\ l.head = local[t].head /\ l.next = local[t].next
    BY <2>2 DEF LocalVariables
  <2> HIDE DEF l
  <2>4. pc'[t] = "unlink" /\ local'[t] = l => FollowsNodes(t)'
    BY <2>1, <2>3 DEF FollowsNodes, Holding, Freeing
  <2> QED
    BY <2>1, <2>3, <2>4, ReadStep DEF PC
<1>7. CASE Unlink(t) /\ head = local[t].head
  <2> DEFINE l == [NoLocals EXCEPT !.node = local[t].head.index, !.value = local[t].value]
  <2>1. /\ Goto(t, "unlink", "free") /\ local' = [local EXCEPT ![t] = l] /\ pc[t] = "unlink"
        /\ head' = Tagged(local[t].next.index, NextTag(local[t].head))
        /\ UNCHANGED <<pool, next, tail, data, calls>> /\ sawEmpty' \subseteq Threads
    BY <1>7 DEF Unlink, Locals
  <2>2. local[t].next.index \in Nodes /\ local[t].head.index \in Nodes
    BY <2>1 DEF FollowsNodes, LocalVariables, TaggedIndex
  <2>3. head' \in TaggedIndex /\ head'.index = local[t].next.index
    <3>1. local[t].next.index \in Indices /\ NextTag(local[t].head) \in 0..(TagModulus - 1)
      BY <2>2, NextTagType DEF LocalVariables, Indices
    <3> QED
      BY <2>1, <3>1, TaggedType
  <2>4. l \in LocalVariables /\ l.node = local[t].head.index
    <3>1. local[t].head.index \in Indices /\ local[t].value \in Values \cup {NoValue}
      BY <2>2 DEF LocalVariables, Indices
    <3>2. l \in LocalVariables
      BY <3>1, NoLocalsType DEF LocalVariables
    <3> QED
      BY <3>2 DEF NoLocals
  <2> HIDE DEF l
  <2>5. /\ pc' \in [Threads -> PC] /\ local' \in [Threads -> LocalVariables]
        /\ pc'[t] = "free" /\ local'[t] = l /\ \A u \in Threads \ {t} : FollowsNodes(u)'
    <3>1. "free" \in PC
      BY DEF PC
    <3> QED
      BY <2>1, <2>4, <3>1, OneThread
  <2>6. FollowsNodes(t)'
    BY <2>2, <2>4, <2>5 DEF FollowsNodes, Holding, Freeing
  <2>7. head'.index # NullHandle /\ tail'.index # NullHandle /\ tail' \in TaggedIndex
    BY <2>1, <2>2, <2>3
  <2> QED
    BY <2>1, <2>3, <2>5, <2>6, <2>7, Assembled
<1>8. CASE Unlink(t) /\ head # local[t].head
  <2>1. /\ Goto(t, "unlink", "popHead") /\ Locals(t, NoLocals)
        /\ UNCHANGED <<pool, next, head, tail, data, calls, sawEmpty>>
    BY <1>8 DEF Unlink
  <2>2. pc'[t] = "popHead" => FollowsNodes(t)'
    BY DEF FollowsNodes, Holding, Freeing
  <2> QED
    BY <2>1, <2>2, NoLocalsType, ReadStep DEF PC
<1> QED
    BY <1>1, <1>2, <1>3, <1>4, <1>5, <1>6, <1>7, <1>8

-----------------------------------------------------------------------------
(* The theorems.                                                           *)

LEMMA InitInv == Init => Inv
<1> SUFFICES ASSUME Init PROVE Inv
    OBVIOUS
<1>1. /\ 0 \in 0..(TagModulus - 1) /\ 1 \in 0..(TagModulus - 1)
      /\ NullHandle \in Indices /\ \A i \in Nodes : i \in Indices
    BY NodesAssumption DEF Indices
<1>2. pool \in TaggedIndex /\ head \in TaggedIndex /\ head.index # NullHandle /\ tail = head
    BY <1>1, NullIsNoNode, TaggedType DEF Init, InitList
<1>3. next \in [Nodes -> TaggedIndex]
    BY <1>1, NullIsNoNode, TaggedType DEF Init, InitList
<1>4. data \in [Nodes -> Values \cup {NoValue}] /\ calls \in [Threads -> 0..MaxCalls] /\ sawEmpty = {}
    BY CallsAssumption DEF Init
<1>5. /\ pc = [t \in Threads |-> "idle"] /\ pc \in [Threads -> PC]
      /\ local \in [Threads -> LocalVariables]
    BY NoLocalsType DEF Init, InitList, PC
<1>6. \A t \in Threads : FollowsNodes(t)
    BY <1>5 DEF FollowsNodes, Holding, Freeing
<1> QED
    BY <1>2, <1>3, <1>4, <1>5, <1>6 DEF Inv, TypeOK, NullNeverFollowed

LEMMA InvStep == Inv /\ [Next]_vars => Inv'
<1>1. ASSUME Inv, NEW t \in Threads, Step(t) PROVE Inv'
    BY <1>1, ListStepInv, PushInv, HelpInv, PopInv DEF Step
<1>2. ASSUME Inv, NEW t \in Threads, bounded_push(t) \/ pop(t) PROVE Inv'
    BY <1>2, CallInvStep
<1>3. ASSUME Inv, UNCHANGED vars PROVE Inv'
    BY <1>3 DEF vars, listVars, queueVars, Inv, TypeOK, NullNeverFollowed, FollowsNodes
<1> QED
    BY <1>1, <1>2, <1>3 DEF Next

\* Every variable keeps its type, whatever the width of the tags.
THEOREM TypeCorrect == Spec => []TypeOK
<1>1. Inv => TypeOK
    BY DEF Inv
<1> QED
    BY <1>1, InitInv, InvStep, PTL DEF Spec

\* No access of a push or a pop to a node goes through a null handle.  It does not depend
\* on the tags: a thread that a full round of them has overtaken still follows a node.
THEOREM HandlesAreOfNodes == Spec => []NullNeverFollowed
<1>1. Inv => NullNeverFollowed
    BY DEF Inv
<1> QED
    BY <1>1, InitInv, InvStep, PTL DEF Spec
=============================================================================
