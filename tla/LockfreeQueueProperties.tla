----------------------- MODULE LockfreeQueueProperties ----------------------
(***************************************************************************)
(* What the queue of LockfreeQueue.tla promises.                           *)
(***************************************************************************)
EXTENDS LockfreeQueue

PC == {"idle", "alloc", "allocNext", "allocCas", "construct", "pushTail", "pushNext",
       "pushCheck", "link", "swing", "pushHelp", "popHead", "popTail", "popNext", "popCheck",
       "popHelp", "copy", "unlink", "free", "freeLink", "freeCas"}

Indices == Nodes \cup {NullHandle}
LocalVariables == [node: Indices, old: TaggedIndex, link: Indices, head: TaggedIndex,
                   tail: TaggedIndex, next: TaggedIndex, value: Values \cup {NoValue}]

\* Every variable has its type.
TypeOK ==
    /\ pool \in TaggedIndex /\ head \in TaggedIndex /\ tail \in TaggedIndex
    /\ next \in [Nodes -> TaggedIndex] /\ data \in [Nodes -> Values \cup {NoValue}]
    /\ pc \in [Threads -> PC] /\ local \in [Threads -> LocalVariables]
    /\ calls \in [Threads -> 0..MaxCalls]
    /\ sawEmpty \subseteq Threads

Linked == Chain(head.index)
Free   == Chain(pool.index)
Holding == {"construct", "pushTail", "pushNext", "pushCheck", "link", "pushHelp"}
Freeing == {"free", "freeLink", "freeCas"}
Held(i) == {t \in Threads : pc[t] \in Holding \cup Freeing /\ local[t].node = i}

\* What the thread follows at its next access to a node, or at a later one.
FollowsNodes(t) ==
    /\ pc[t] \in {"allocNext", "allocCas"} => local[t].old.index # NullHandle
    /\ pc[t] \in Holding \cup Freeing \cup {"swing"} => local[t].node # NullHandle
    /\ pc[t] \in {"pushNext", "pushCheck", "link", "pushHelp"} => local[t].tail.index # NullHandle
    /\ pc[t] \in {"popTail", "popNext", "popCheck", "popHelp", "copy", "unlink"}
          => local[t].head.index # NullHandle
    /\ pc[t] \in {"pushHelp", "popHelp", "copy", "unlink"} => local[t].next.index # NullHandle

\* A handle that a thread follows, its own or one it has read, is that of a node, however
\* the nodes have been freed and taken again since it was read.
NullNeverFollowed ==
    /\ head.index # NullHandle /\ tail.index # NullHandle
    /\ \A t \in Threads : FollowsNodes(t)

\* Every node is in exactly one place, once: in the queue, in the free list, or in the
\* hands of one thread.  No interleaving of pushes and pops loses a node for good or
\* hands it to two threads.
NodesAccounted ==
    \A i \in Nodes : Cardinality({k \in DOMAIN Linked : Linked[k] = i})
                     + Cardinality({k \in DOMAIN Free : Free[k] = i}) + Cardinality(Held(i)) = 1

\* tail_ is the last node or the one before it, and it is behind only while the thread
\* that linked the last one has its own exchange of tail_ still to do.
TailLagsByOne ==
    LET n == Len(Linked) IN
    \/ tail.index = Linked[n]
    \/ /\ n > 1 /\ tail.index = Linked[n - 1]
       /\ \E t \in Threads : pc[t] = "swing" /\ local[t].node = Linked[n]

-----------------------------------------------------------------------------
(* The queue implements BoundedQueue.  A push takes effect at the exchange *)
(* of the last next, a pop at the exchange of head_, a refusal when the    *)
(* free list is seen empty.                                                *)

Items == [k \in 1..(Len(Linked) - 1) |-> data[Linked[k + 1]]]

Status(t) == CASE pc[t] \in {"alloc", "allocNext", "allocCas"} -> "pushing"
               [] pc[t] \in Holding -> "holding"
               [] pc[t] \in {"idle", "swing"} -> "idle"
               [] pc[t] \in Freeing -> "freeing"
               [] OTHER -> "popping"
ValueOf(t) == IF Status(t) \in {"pushing", "holding", "freeing"} THEN local[t].value ELSE NoValue

Bounded == INSTANCE BoundedQueue WITH
    items <- Items,
    status <- [t \in Threads |-> Status(t)],
    value <- [t \in Threads |-> ValueOf(t)]

\* Every interleaving of the accesses of concurrent pushes and pops is one of atomic
\* operations on a FIFO: nothing is lost, doubled, reordered or torn, a push is refused
\* only when all nodes are taken, a pop finds nothing only when the queue was empty.
ImplementsBoundedQueue == Bounded!Spec

\* Lock-freedom: a call returns although the other threads may have stopped for ever
\* anywhere in theirs, unless these keep making calls that overtake it.
LockFree == \A t \in Threads : WF_vars(Step(t)) => (pc[t] # "idle" ~> pc[t] = "idle")
=============================================================================
