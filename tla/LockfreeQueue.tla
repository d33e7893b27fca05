---------------------------- MODULE LockfreeQueue ---------------------------
(***************************************************************************)
(* boost::lockfree::queue with a compile-time capacity (queue.hpp), the    *)
(* queue of FixedSizeLockfreeQueueTraits: a linked list of nodes that      *)
(* starts with a dummy, between the tagged indices head_ and tail_.  Any   *)
(* thread may call bounded_push and pop.                                   *)
(***************************************************************************)
EXTENDS FreeList

CONSTANT MaxCalls       \* bound: calls per thread

ASSUME CallsAssumption == MaxCalls \in Nat

VARIABLES head, tail,   \* head_, tail_
          data,         \* the data member of each node
          calls,        \* the calls of each thread so far
          sawEmpty      \* history: the pops that read an empty link from the dummy

listVars  == <<pool, next, local>>
queueVars == <<head, tail, data, sawEmpty>>
vars == <<listVars, pc, queueVars, calls>>

\* The value of a push: who pushes it, in which of its calls.
Values == Threads \X (1..MaxCalls)

-----------------------------------------------------------------------------
(* do_push<true>                                                           *)

bounded_push(t) ==
    /\ calls[t] < MaxCalls /\ Goto(t, "idle", "alloc")
    /\ calls' = [calls EXCEPT ![t] = @ + 1]
    /\ Locals(t, [NoLocals EXCEPT !.value = <<t, calls'[t]>>])
    /\ UNCHANGED <<pool, next, queueVars>>

\* The constructor of node: the tag of next moves on from the node's last life.
Construct(t) ==
    LET n == local[t].node IN
    /\ Goto(t, "construct", "pushTail")
    /\ data' = [data EXCEPT ![n] = local[t].value]
    /\ next' = [next EXCEPT ![n] = Tagged(NullHandle, NextTag(next[n]))]
    /\ UNCHANGED <<pool, local, head, tail, sawEmpty, calls>>

PushTail(t) ==
    /\ Goto(t, "pushTail", "pushNext") /\ Locals(t, [local[t] EXCEPT !.tail = tail])
    /\ UNCHANGED <<pool, next, queueVars, calls>>

PushNext(t) ==
    /\ Goto(t, "pushNext", "pushCheck")
    /\ Locals(t, [local[t] EXCEPT !.next = next[local[t].tail.index]])
    /\ UNCHANGED <<pool, next, queueVars, calls>>

\* [mutant] tail_ is not read again.
PushCheckOnce(t) ==
    /\ Goto(t, "pushCheck", IF local[t].next.index = NullHandle THEN "link" ELSE "pushHelp")
    /\ UNCHANGED <<listVars, queueVars, calls>>

PushCheck(t) ==
    /\ \/ tail # local[t].tail /\ Goto(t, "pushCheck", "pushTail")
       \/ /\ tail = local[t].tail /\ local[t].next.index = NullHandle
          /\ Goto(t, "pushCheck", "link")
       \/ /\ tail = local[t].tail /\ local[t].next.index # NullHandle
          /\ Goto(t, "pushCheck", "pushHelp")
    /\ UNCHANGED <<listVars, queueVars, calls>>

\* The exchange of the last node's next, after which the value is in the queue.
Link(t) ==
    LET last == local[t].tail.index IN
    /\ \/ /\ pc[t] = "link" /\ next[last] = local[t].next /\ Goto(t, "link", "swing")
          /\ next' = [next EXCEPT ![last] = Tagged(local[t].node, NextTag(local[t].next))]
       \/ pc[t] = "link" /\ next[last] # local[t].next /\ Goto(t, "link", "pushTail")
          /\ UNCHANGED next
    /\ UNCHANGED <<pool, local, queueVars, calls>>

\* compare_exchange_strong of tail_ from the value that was read to node i.
MoveTail(t, i) ==
    tail' = IF tail = local[t].tail THEN Tagged(i, NextTag(tail)) ELSE tail

\* Whether or not it moves tail_, the push has succeeded.
Swing(t) ==
    /\ Goto(t, "swing", "idle") /\ MoveTail(t, local[t].node) /\ Locals(t, NoLocals)
    /\ UNCHANGED <<pool, next, head, data, sawEmpty, calls>>

\* [mutant] Wait for the thread that has linked to move tail_ itself.
NoHelp(t) ==
    /\ Goto(t, "pushHelp", "pushTail") \/ Goto(t, "popHelp", "popHead")
    /\ UNCHANGED <<listVars, queueVars, calls>>

\* tail_ lags behind a node that is linked: move it, whoever linked it.
Help(t) ==
    /\ Goto(t, "pushHelp", "pushTail") \/ Goto(t, "popHelp", "popHead")
    /\ MoveTail(t, local[t].next.index)
    /\ UNCHANGED <<listVars, head, data, sawEmpty, calls>>

-----------------------------------------------------------------------------
(* pop                                                                     *)

pop(t) ==
    /\ calls[t] < MaxCalls /\ Goto(t, "idle", "popHead")
    /\ calls' = [calls EXCEPT ![t] = @ + 1]
    /\ UNCHANGED <<listVars, queueVars>>

PopHead(t) ==
    /\ Goto(t, "popHead", "popTail") /\ Locals(t, [local[t] EXCEPT !.head = head])
    /\ UNCHANGED <<pool, next, queueVars, calls>>

PopTail(t) ==
    /\ Goto(t, "popTail", "popNext") /\ Locals(t, [local[t] EXCEPT !.tail = tail])
    /\ UNCHANGED <<pool, next, queueVars, calls>>

PopNext(t) ==
    /\ Goto(t, "popNext", "popCheck")
    /\ Locals(t, [local[t] EXCEPT !.next = next[local[t].head.index]])
    /\ sawEmpty' = IF next[head.index].index = NullHandle THEN sawEmpty \cup {t}
                                                         ELSE sawEmpty \ {t}
    /\ UNCHANGED <<pool, next, head, tail, data, calls>>

\* The dummy is the last node, as far as this thread has seen.
FoundNothing(t) == local[t].next.index = NullHandle /\ local[t].head.index = local[t].tail.index

\* [mutant] head_ is not read again before the queue is called empty.
PopEmptyUnchecked(t) ==
    /\ pc[t] = "popCheck" /\ FoundNothing(t)
    /\ Goto(t, "popCheck", "idle") /\ Locals(t, NoLocals) /\ sawEmpty' = sawEmpty \ {t}
    /\ UNCHANGED <<pool, next, head, tail, data, calls>>

\* Return false.
PopEmpty(t) ==
    /\ pc[t] = "popCheck" /\ head = local[t].head /\ FoundNothing(t)
    /\ Goto(t, "popCheck", "idle") /\ Locals(t, NoLocals) /\ sawEmpty' = sawEmpty \ {t}
    /\ UNCHANGED <<pool, next, head, tail, data, calls>>

\* Again, if head_ has moved, or if next is null although tail_ is another node; else
\* move tail_ if it lags, or take the value.
PopCheck(t) ==
    /\ \/ /\ head # local[t].head \/ (local[t].next.index = NullHandle /\ ~FoundNothing(t))
          /\ Goto(t, "popCheck", "popHead")
       \/ /\ head = local[t].head /\ local[t].next.index # NullHandle
          /\ Goto(t, "popCheck",
                  IF local[t].head.index = local[t].tail.index THEN "popHelp" ELSE "copy")
    /\ UNCHANGED <<listVars, queueVars, calls>>

\* copy_payload, before the exchange: after it the node may be in use again.
Copy(t) ==
    /\ Goto(t, "copy", "unlink")
    /\ Locals(t, [local[t] EXCEPT !.value = data[local[t].next.index]])
    /\ UNCHANGED <<pool, next, queueVars, calls>>

\* The exchange of head_; the old dummy is then freed and the node becomes the dummy.
Unlink(t) ==
    LET h == local[t].head IN
    /\ \/ /\ pc[t] = "unlink" /\ head = h /\ Goto(t, "unlink", "free")
          /\ head' = Tagged(local[t].next.index, NextTag(h))
          /\ Locals(t, [NoLocals EXCEPT !.node = h.index, !.value = local[t].value])
          /\ sawEmpty' = sawEmpty \ {t}
       \/ /\ pc[t] = "unlink" /\ head # h /\ Goto(t, "unlink", "popHead")
          /\ Locals(t, NoLocals) /\ UNCHANGED <<head, sawEmpty>>
    /\ UNCHANGED <<pool, next, tail, data, calls>>

-----------------------------------------------------------------------------
\* The dummy is the last node.
Init ==
    /\ InitList
    /\ head = Tagged(NodeCount - 1, 0) /\ tail = head
    /\ data = [i \in Nodes |-> NoValue]
    /\ calls = [t \in Threads |-> 0] /\ sawEmpty = {}

Step(t) ==
    \/ ListStep(t) /\ UNCHANGED <<queueVars, calls>>
    \/ Construct(t) \/ PushTail(t) \/ PushNext(t) \/ PushCheck(t) \/ Link(t) \/ Swing(t)
    \/ Help(t)
    \/ PopHead(t) \/ PopTail(t) \/ PopNext(t) \/ PopEmpty(t) \/ PopCheck(t) \/ Copy(t)
    \/ Unlink(t)

Next == \E t \in Threads : Step(t) \/ bounded_push(t) \/ pop(t)

Spec == Init /\ [][Next]_vars
=============================================================================
