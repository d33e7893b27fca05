-------------------------- MODULE LockfreeQueueTags -------------------------
(***************************************************************************)
(* What the tags are for.  A thread reads a tagged index, and later        *)
(* compares it, by exchange or by a second load, with what it has become.  *)
(* History variables record whose reading is older than the last change of *)
(* the tag; as long as no comparison succeeds with such a reading, which   *)
(* takes a full round of tags within one call, the queue keeps its nodes   *)
(* in order.                                                               *)
(***************************************************************************)
EXTENDS LockfreeQueueProperties

VARIABLES stalePool, staleHead, staleTail,   \* the threads whose old, head, tail is older
          staleNext                          \* ... whose next (of the node in their tail) is

staleVars  == <<stalePool, staleHead, staleTail, staleNext>>
taggedVars == <<vars, staleVars>>

\* The threads whose step is the reading after which they are in one of the places S.
Enter(S) == {t \in Threads : pc'[t] # pc[t] /\ pc'[t] \in S}

Stale(set, word, word2) == IF word2.tag = word.tag THEN set ELSE Threads

Record ==
    /\ stalePool' = Stale(stalePool, pool, pool') \ Enter({"allocNext"})
    /\ staleHead' = Stale(staleHead, head, head') \ Enter({"popTail"})
    /\ staleTail' = Stale(staleTail, tail, tail') \ Enter({"pushNext", "popNext"})
    /\ staleNext' = (staleNext \cup {t \in Threads :
                        \E i \in Nodes : i = local[t].tail.index /\ next'[i].tag # next[i].tag})
                    \ Enter({"pushCheck"})

TaggedInit == Init /\ stalePool = {} /\ staleHead = {} /\ staleTail = {} /\ staleNext = {}
TaggedNext == Next /\ Record
TaggedSpec == TaggedInit /\ [][TaggedNext]_taggedVars

\* A comparison that succeeds does so because the tag has not changed since the reading.
NoLap ==
    \A t \in Threads :
       /\ pc[t] = "allocCas" /\ pool = local[t].old => t \notin stalePool
       /\ pc[t] \in {"popCheck", "unlink"} /\ head = local[t].head => t \notin staleHead
       /\ pc[t] \in {"pushCheck", "swing", "pushHelp", "popHelp"} /\ tail = local[t].tail
             => t \notin staleTail
       /\ pc[t] = "link" /\ next[local[t].tail.index] = local[t].next => t \notin staleNext

-----------------------------------------------------------------------------
(* The inductive invariant, of the nodes q of the queue and f of the free  *)
(* list.                                                                   *)

In(i, s) == \E k \in 1..Len(s) : s[k] = i
Distinct(s) == \A j \in 1..Len(s), k \in 1..Len(s) : s[j] = s[k] => j = k

\* The nodes that are reached from i are those of s.
IsChain(s, i) ==
    /\ s \in Seq(Nodes) /\ Distinct(s)
    /\ i = IF s = <<>> THEN NullHandle ELSE s[1]
    /\ \A k \in 1..Len(s) : next[s[k]].index = IF k = Len(s) THEN NullHandle ELSE s[k + 1]

Holds(t, i) == pc[t] \in Holding \cup Freeing /\ local[t].node = i

\* Each node is in one place.
Partition(q, f) ==
    /\ \A i \in Nodes : In(i, q) \/ In(i, f) \/ \E t \in Threads : Holds(t, i)
    /\ \A i \in Nodes : ~(In(i, q) /\ In(i, f))
    /\ \A i \in Nodes, t \in Threads : Holds(t, i) => ~In(i, q) /\ ~In(i, f)
    /\ \A i \in Nodes, t \in Threads, u \in Threads : Holds(t, i) /\ Holds(u, i) => t = u

\* tail_ is the last node, or the one before it whose linker has yet to move tail_.
Lag(q) ==
    \/ tail.index = q[Len(q)]
    \/ /\ Len(q) > 1 /\ tail.index = q[Len(q) - 1]
       /\ \E t \in Threads : pc[t] = "swing" /\ local[t].node = q[Len(q)] /\ t \notin staleTail

\* What a thread may rely on in each part of its call.
Allocates(t, f) ==
    pc[t] \in {"allocNext", "allocCas"} /\ t \notin stalePool =>
       /\ In(local[t].old.index, f)
       /\ pc[t] = "allocCas" => local[t].link = next[local[t].old.index].index

Frees(t) == pc[t] = "freeCas" => next[local[t].node].index = local[t].old.index

Fills(t) == pc[t] \in Holding \ {"construct"} =>
               data[local[t].node] = local[t].value /\ next[local[t].node].index = NullHandle

ReadTail(t) ==
    /\ pc[t] \in {"pushNext", "pushCheck", "link", "swing", "pushHelp",
                  "popNext", "popCheck", "popHelp"}
    /\ t \notin staleTail

ReadHead(t) ==
    /\ pc[t] \in {"popTail", "popNext", "popCheck", "popHelp", "copy", "unlink"}
    /\ t \notin staleHead

\* The last node, of which link makes an exchange.
LastSeen(t, q) ==
    tail.index = q[Len(q)] /\ tail = local[t].tail /\ next[tail.index] = local[t].next

Links(t, q) ==
    /\ pc[t] = "pushCheck" /\ t \notin staleTail /\ t \notin staleNext
          /\ local[t].next.index = NullHandle => LastSeen(t, q)
    /\ pc[t] = "link" /\ t \notin staleNext => LastSeen(t, q) /\ t \notin staleTail
    /\ pc[t] = "swing" /\ t \notin staleTail =>
          Len(q) > 1 /\ local[t].node = q[Len(q)] /\ tail.index = q[Len(q) - 1]

Helps(t) ==
    /\ ReadTail(t) => tail = local[t].tail
    /\ /\ ReadTail(t) /\ pc[t] \in {"pushCheck", "pushHelp", "popCheck", "popHelp"}
       /\ local[t].next.index # NullHandle
       /\ pc[t] \in {"popCheck", "popHelp"} => local[t].head.index = local[t].tail.index
       => next[tail.index].index = local[t].next.index
    /\ pc[t] = "popHelp" => local[t].head.index = local[t].tail.index

Unlinks(t) ==
    ReadHead(t) =>
       /\ head = local[t].head
       /\ \/ pc[t] \in {"popNext", "popCheck"} /\ local[t].tail.index # head.index
          \/ pc[t] \in {"copy", "unlink"}
          => tail.index # head.index
       /\ pc[t] \in {"popCheck", "copy", "unlink"} /\ local[t].next.index # NullHandle
             => next[head.index].index = local[t].next.index
       /\ pc[t] = "popCheck" /\ local[t].next.index = NullHandle => t \in sawEmpty
       /\ pc[t] = "unlink" => local[t].value = data[local[t].next.index]

Sees(t, q, f) ==
    Allocates(t, f) /\ Frees(t) /\ Fills(t) /\ Links(t, q) /\ Helps(t) /\ Unlinks(t)

Lists(q, f) ==
    /\ q # <<>> /\ IsChain(q, head.index) /\ IsChain(f, pool.index)
    /\ Partition(q, f) /\ Lag(q)
    /\ \A t \in Threads : Sees(t, q, f)

ListInv == Lists(Linked, Free)

-----------------------------------------------------------------------------
(* How long NoLap holds: no word's tag comes round while the calls that    *)
(* could still change it are fewer than the tags that are left.            *)

Taking  == {"alloc", "allocNext", "allocCas"}
Popping == {"popHead", "popTail", "popNext", "popCheck", "popHelp", "copy", "unlink"}
Pushing == Taking \cup Holding

\* The calls, by thread and number, that are yet to be made or in one of the places P.
Ahead(P) == {c \in Threads \X (1..MaxCalls) :
                c[2] > calls[c[1]] \/ (c[2] = calls[c[1]] /\ pc[c[1]] \in P)}

AllCalls == Cardinality(Threads) * MaxCalls

\* A push changes a link twice, in its constructor and when it is linked to.
FewCalls == IsFiniteSet(Threads) /\ 2 * AllCalls < TagModulus

\* The link that tail_ has yet to follow.
Behind == IF next[tail.index].index = NullHandle THEN 0 ELSE 1

\* Each call takes one node, makes it, links it and unlinks it at most once; each link that
\* is made moves tail_ once.
Budgeted ==
    /\ pool.tag + Cardinality(Ahead(Taking)) <= AllCalls + 1
    /\ head.tag + Cardinality(Ahead(Popping)) <= AllCalls
    /\ tail.tag + Behind + Cardinality(Ahead(Pushing)) <= AllCalls
    /\ \A i \in Nodes : next[i].tag + Cardinality(Ahead(Taking \cup {"construct"}))
                           + Cardinality(Ahead(Pushing)) <= 2 * AllCalls

\* A reading has no later tag than the word, and an earlier one if it is stale.
NotAfter(read, word, isStale) == read.tag <= word.tag /\ (isStale => read.tag < word.tag)

Older(t) ==
    /\ pc[t] \in {"allocNext", "allocCas"} => NotAfter(local[t].old, pool, t \in stalePool)
    /\ pc[t] \in Popping \ {"popHead"} => NotAfter(local[t].head, head, t \in staleHead)
    /\ pc[t] \in {"pushNext", "pushCheck", "link", "swing", "pushHelp",
                  "popNext", "popCheck", "popHelp"}
          => NotAfter(local[t].tail, tail, t \in staleTail)
    /\ pc[t] \in {"pushCheck", "link"}
          => NotAfter(local[t].next, next[local[t].tail.index], t \in staleNext)

BudgetInv ==
    /\ \A t \in Threads : pc[t] # "idle" => calls[t] > 0
    /\ Budgeted
    /\ \A t \in Threads : Older(t)
=============================================================================
