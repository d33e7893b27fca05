------------------------------ MODULE FreeList ------------------------------
(***************************************************************************)
(* The nodes of boost's fixed size queue (detail/freelist.hpp): a stack of *)
(* free nodes in an array, addressed by tagged indices.  A tag counts the  *)
(* changes of its index, modulo 2^16 in the code, so that a compare and    *)
(* exchange with an old value fails although the index has come back.      *)
(*                                                                         *)
(* The link of a free node lies in the memory of node.next, whose tag the  *)
(* free list leaves alone.  Each access to shared memory is an action;     *)
(* compare_exchange_weak is a locked cmpxchg in every configuration of     *)
(* QueuePool.vcxproj, which does not fail spuriously.                      *)
(***************************************************************************)
EXTENDS Naturals, Sequences, FiniteSets

CONSTANTS Threads,
          Capacity,      \* TotalCapacity; the queue has one node more, the dummy
          TagModulus,    \* 2^16 in the code
          NoValue

ASSUME NodesAssumption == Capacity \in Nat \ {0} /\ TagModulus \in Nat \ {0, 1}

NodeCount  == Capacity + 1
Nodes      == 0..(NodeCount - 1)
NullHandle == NodeCount
TaggedIndex == [index: Nodes \cup {NullHandle}, tag: 0..(TagModulus - 1)]

\* [mutants] The tag never changes; it is not reduced to its 16 bits; it has one bit.
SameTag(h) == h.tag
UnwrappedTag(h) == h.tag + 1
OneBitTag(h) == (h.tag + 1) % 2

NextTag(h) == (h.tag + 1) % TagModulus
Tagged(i, t) == [index |-> i, tag |-> t]

VARIABLES pool,     \* pool_: the first free node
          next,     \* the next member of each node
          pc,       \* where each thread is in bounded_push or pop
          local     \* its local variables

NoHandle == Tagged(NullHandle, 0)
NoLocals == [node |-> NullHandle, old |-> NoHandle, link |-> NullHandle,
             head |-> NoHandle, tail |-> NoHandle, next |-> NoHandle, value |-> NoValue]

Goto(t, from, to) == pc[t] = from /\ pc' = [pc EXCEPT ![t] = to]
Locals(t, l) == local' = [local EXCEPT ![t] = l]

-----------------------------------------------------------------------------
(* allocate_impl                                                           *)

\* A load of pool_, by itself or in a failed exchange: if the list is empty,
\* construct returns NULL and do_push false.
AllocSee(t, from) ==
    \/ /\ pool.index = NullHandle
       /\ Goto(t, from, "idle") /\ Locals(t, NoLocals)
    \/ /\ pool.index # NullHandle
       /\ Goto(t, from, "allocNext") /\ Locals(t, [local[t] EXCEPT !.old = pool])

AllocLoad(t) == AllocSee(t, "alloc") /\ UNCHANGED <<pool, next>>

AllocNext(t) ==
    /\ Goto(t, "allocNext", "allocCas")
    /\ Locals(t, [local[t] EXCEPT !.link = next[local[t].old.index].index])
    /\ UNCHANGED <<pool, next>>

\* [mutant] The list is looked at before the loop, and not again in it.
AllocCasOnce(t) ==
    /\ \/ /\ pool = local[t].old
          /\ Goto(t, "allocCas", "construct")
          /\ pool' = Tagged(local[t].link, NextTag(pool))
          /\ Locals(t, [NoLocals EXCEPT !.node = pool.index, !.value = local[t].value])
       \/ /\ pool # local[t].old
          /\ Goto(t, "allocCas", "allocNext") /\ Locals(t, [local[t] EXCEPT !.old = pool])
          /\ UNCHANGED pool
    /\ UNCHANGED next

AllocCas(t) ==
    /\ \/ /\ pool = local[t].old
          /\ Goto(t, "allocCas", "construct")
          /\ pool' = Tagged(local[t].link, NextTag(pool))
          /\ Locals(t, [NoLocals EXCEPT !.node = pool.index, !.value = local[t].value])
       \/ pool # local[t].old /\ AllocSee(t, "allocCas") /\ UNCHANGED pool
    /\ UNCHANGED next

-----------------------------------------------------------------------------
(* deallocate_impl; the tag of pool_ stays.                                *)

FreeLoad(t) ==
    /\ Goto(t, "free", "freeLink") /\ Locals(t, [local[t] EXCEPT !.old = pool])
    /\ UNCHANGED <<pool, next>>

FreeLink(t) ==
    /\ Goto(t, "freeLink", "freeCas")
    /\ next' = [next EXCEPT ![local[t].node].index = local[t].old.index]
    /\ UNCHANGED <<pool, local>>

FreeCas(t) ==
    /\ \/ /\ pool = local[t].old
          /\ Goto(t, "freeCas", "idle")
          /\ pool' = Tagged(local[t].node, pool.tag)
          /\ Locals(t, NoLocals)
       \/ /\ pool # local[t].old
          /\ Goto(t, "freeCas", "freeLink") /\ Locals(t, [local[t] EXCEPT !.old = pool])
          /\ UNCHANGED pool
    /\ UNCHANGED next

ListStep(t) ==
    AllocLoad(t) \/ AllocNext(t) \/ AllocCas(t) \/ FreeLoad(t) \/ FreeLink(t) \/ FreeCas(t)

-----------------------------------------------------------------------------
\* The nodes that are reached from node i (without end if the links form a ring).
Chain(i) ==
    LET at[k \in 0..NodeCount] ==
          IF k = 0 THEN i
          ELSE IF at[k - 1] = NullHandle THEN NullHandle ELSE next[at[k - 1]].index
    IN  [k \in 1..Cardinality({j \in 0..NodeCount : at[j] # NullHandle}) |-> at[k - 1]]

\* initialize: node 0 is freed first; then the queue takes the last one as its dummy.
InitList ==
    /\ pool = Tagged(NodeCount - 2, 1)
    /\ next = [i \in Nodes |-> Tagged(IF i \in {0, NodeCount - 1} THEN NullHandle ELSE i - 1, 0)]
    /\ pc = [t \in Threads |-> "idle"] /\ local = [t \in Threads |-> NoLocals]
=============================================================================
