------------------------- MODULE SafeMapProperties --------------------------
(***************************************************************************)
(* What SafeUnorderedMap promises, and the inductive invariant from which  *)
(* it follows.                                                             *)
(***************************************************************************)
EXTENDS SafeUnorderedMap

Pcs == {"idle", "setLock", "setEmplace", "setUnlock", "findLock", "find", "findUnlock",
        "createLock", "create", "createUnlock", "relock", "read", "release"}
Setting  == {"setLock", "setEmplace", "setUnlock"}
Writing  == {"setEmplace", "setUnlock", "create", "createUnlock"}
Reading  == {"find", "findUnlock", "read", "release"}
\* From the step at which the call takes effect.
Done     == {"setUnlock", "createUnlock", "relock", "read", "release"}
\* The lookup has taken effect and has not read yet.
Unread   == {"createUnlock", "relock", "read"}

Request == [op: {"AddToMap"}, key: Keys, listener: Listeners]
             \cup [op: {"GetFromMap"}, key: Keys, listener: {Null}]

TypeOK ==
    /\ data \in [Buckets -> [Keys -> Listeners \cup {Absent, Null}]]
    /\ writer \in [Buckets -> Threads \cup {Nobody}]
    /\ readers \in [Buckets -> SUBSET Threads]
    /\ pc \in [Threads -> Pcs]
    /\ request \in [Threads -> Request \cup {NoRequest}]
    /\ result \in [Threads -> Listeners \cup {Null}]

-----------------------------------------------------------------------------
\* While a thread is between taking and giving up the lock for a write, no other thread
\* is between taking and giving up a lock of the same bucket, whatever its keys.
WritersAlone ==
    \A t, u \in Threads :
        t # u /\ pc[t] \in Writing /\ pc[u] \in Writing \cup Reading => Bucket(t) # Bucket(u)

\* Each call takes effect at one moment between its begin and its return, on one map, as
\* AtomicMap says for SafeMapTraits: a lookup that misses, although it gives up its lock
\* twice, answers what the first insertion of the key has stored, its own or another's.
StatusAt(at) == IF at = "idle" THEN "idle" ELSE IF at \in Done THEN "done" ELSE "called"
Status == [t \in Threads |-> StatusAt(pc[t])]
Answer == [t \in Threads |-> IF pc[t] \in Unread THEN Entry(t) ELSE result[t]]
Atomic == INSTANCE AtomicMap WITH
    MapTraits <- "safe", map <- Map, status <- Status, answer <- Answer
ImplementsAtomicMap == Atomic!Spec

\* No entry changes or disappears: the iterator a lookup keeps while it holds no lock stays
\* valid, and a second Subscribe, or one after a lookup, does nothing.
EntriesKeep ==
    [][\A k \in Keys : Map[k] # Absent => Map'[k] = Map[k]]_vars

\* Every call returns, unless new calls keep coming: std::shared_mutex does not say that a
\* writer gets its turn among readers.  In particular no two calls wait for each other.
CallsReturn ==
    \A t \in Threads :
        []<>(pc[t] = "idle") \/ []<><<\E u \in Threads : Call(u)>>_vars

-----------------------------------------------------------------------------
(* The inductive invariant.                                                *)

\* A thread inside a call knows its request, and which of the two functions it is in.
RequestInv ==
    \A t \in Threads : pc[t] # "idle" =>
        /\ request[t] \in Request
        /\ request[t].op = IF pc[t] \in Setting THEN "AddToMap" ELSE "GetFromMap"

\* Who holds which lock follows from where the threads are.
LockInv ==
    \A b \in Buckets :
        /\ \A t \in Threads :
              /\ writer[b] = t <=> pc[t] \in Writing /\ Bucket(t) = b
              /\ t \in readers[b] <=> pc[t] \in Reading /\ Bucket(t) = b
        /\ writer[b] # Nobody => readers[b] = {}

\* The entry a call has found, or has seen to, is there.
FoundInv == \A t \in Threads : pc[t] \in Done => Entry(t) # Absent

IInv == TypeOK /\ RequestInv /\ LockInv /\ FoundInv
=============================================================================
