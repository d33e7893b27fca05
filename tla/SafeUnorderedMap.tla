-------------------------- MODULE SafeUnorderedMap --------------------------
(***************************************************************************)
(* SafeUnorderedMap.h: buckets chosen by hash, each a std::map with a      *)
(* std::shared_mutex.  Set writes under the exclusive lock.  GetAndCreate  *)
(* looks under the shared lock; on a miss it gives that lock up, inserts   *)
(* an empty value under the exclusive one, gives that up too, and takes    *)
(* the shared lock again to read through the iterator it holds.  The       *)
(* Reference it returns keeps the shared lock until GetFromMap has copied  *)
(* the value.                                                              *)
(***************************************************************************)
EXTENDS Naturals

CONSTANTS Threads, Keys, Listeners, Absent, Null,
          NumberOfBuckets, Hash,
          Nobody,          \* the owner of a shared_mutex that is not held exclusively
          NoRequest        \* the request of a thread that has not called yet

ASSUME MapAssumption ==
    /\ NumberOfBuckets \in Nat \ {0}
    /\ Hash \in [Keys -> Nat]
    /\ Absent \notin Listeners /\ Null \notin Listeners /\ Absent # Null
    /\ Nobody \notin Threads

VARIABLES
    data,       \* per bucket: its std::map, Absent where there is no entry
    writer,     \* per bucket: who holds its mutex exclusively, or Nobody
    readers,    \* per bucket: who holds it shared
    pc,         \* per thread
    request,    \* per thread: its latest call
    result      \* per thread: what its latest GetFromMap returned

Buckets == 0..(NumberOfBuckets - 1)

\* HashMap::Get
BucketOf(k) == Hash[k] % NumberOfBuckets

\* The map the buckets make up.
Map == [k \in Keys |-> data[BucketOf(k)][k]]

Key(t) == request[t].key
Bucket(t) == BucketOf(Key(t))

lockVars == <<writer, readers>>
callVars == <<request, result>>
vars == <<data, lockVars, pc, callVars>>

-----------------------------------------------------------------------------
(* std::shared_mutex: many readers or one writer, and no promise who is     *)
(* next.                                                                   *)

LockShared(b, t) ==
    /\ writer[b] = Nobody
    /\ readers' = [readers EXCEPT ![b] = @ \cup {t}]
    /\ UNCHANGED writer
UnlockShared(b, t) ==
    /\ readers' = [readers EXCEPT ![b] = @ \ {t}]
    /\ UNCHANGED writer
LockExclusive(b, t) ==
    /\ writer[b] = Nobody /\ readers[b] = {}
    /\ writer' = [writer EXCEPT ![b] = t]
    /\ UNCHANGED readers
UnlockExclusive(b, t) ==
    /\ writer' = [writer EXCEPT ![b] = Nobody]
    /\ UNCHANGED readers

-----------------------------------------------------------------------------
Goto(t, from, to) == pc[t] = from /\ pc' = [pc EXCEPT ![t] = to]

Entry(t) == data[Bucket(t)][Key(t)]
Store(t, v) == data' = [data EXCEPT ![Bucket(t)][Key(t)] = v]

\* std::map::emplace: an entry that is there stays as it is.
Emplace(t, v) == IF Entry(t) = Absent THEN Store(t, v) ELSE UNCHANGED data

\* The call from one of the traits' two functions.
AddToMap(t, k, l) ==
    /\ Goto(t, "idle", "setLock")
    /\ request' = [request EXCEPT ![t] = [op |-> "AddToMap", key |-> k, listener |-> l]]
    /\ UNCHANGED <<data, lockVars, result>>
GetFromMap(t, k) ==
    /\ Goto(t, "idle", "findLock")
    /\ request' = [request EXCEPT ![t] = [op |-> "GetFromMap", key |-> k, listener |-> Null]]
    /\ UNCHANGED <<data, lockVars, result>>

(* Set.                                                                    *)

\* [mutants] The lock taken for a write is the shared one; the entry is assigned.
SetLockShared(t) ==
    /\ Goto(t, "setLock", "setEmplace") /\ LockShared(Bucket(t), t)
    /\ UNCHANGED <<data, callVars>>
SetAssign(t) ==
    /\ Goto(t, "setEmplace", "setUnlock") /\ Store(t, request[t].listener)
    /\ UNCHANGED <<lockVars, callVars>>

SetLock(t) ==
    /\ Goto(t, "setLock", "setEmplace") /\ LockExclusive(Bucket(t), t)
    /\ UNCHANGED <<data, callVars>>
SetEmplace(t) ==
    /\ Goto(t, "setEmplace", "setUnlock") /\ Emplace(t, request[t].listener)
    /\ UNCHANGED <<lockVars, callVars>>
SetUnlock(t) ==
    /\ Goto(t, "setUnlock", "idle") /\ UnlockExclusive(Bucket(t), t)
    /\ UNCHANGED <<data, callVars>>

(* GetAndCreate.                                                           *)

\* [mutants] The shared lock is kept while the exclusive one is asked for; the empty
\* value is assigned; the shared lock is not taken again.
FindKeepLock(t) ==
    /\ Goto(t, "findUnlock", "createLock")
    /\ UNCHANGED <<data, lockVars, callVars>>
CreateAssign(t) ==
    /\ Goto(t, "create", "createUnlock") /\ Store(t, Null)
    /\ UNCHANGED <<lockVars, callVars>>
NoRelock(t) ==
    /\ Goto(t, "relock", "read")
    /\ UNCHANGED <<data, lockVars, callVars>>

FindLock(t) ==
    /\ Goto(t, "findLock", "find") /\ LockShared(Bucket(t), t)
    /\ UNCHANGED <<data, callVars>>
Find(t) ==
    /\ \/ Goto(t, "find", "read") /\ Entry(t) # Absent
       \/ Goto(t, "find", "findUnlock") /\ Entry(t) = Absent
    /\ UNCHANGED <<data, lockVars, callVars>>
FindUnlock(t) ==
    /\ Goto(t, "findUnlock", "createLock") /\ UnlockShared(Bucket(t), t)
    /\ UNCHANGED <<data, callVars>>
CreateLock(t) ==
    /\ Goto(t, "createLock", "create") /\ LockExclusive(Bucket(t), t)
    /\ UNCHANGED <<data, callVars>>
Create(t) ==
    /\ Goto(t, "create", "createUnlock") /\ Emplace(t, Null)
    /\ UNCHANGED <<lockVars, callVars>>
CreateUnlock(t) ==
    /\ Goto(t, "createUnlock", "relock") /\ UnlockExclusive(Bucket(t), t)
    /\ UNCHANGED <<data, callVars>>
Relock(t) ==
    /\ Goto(t, "relock", "read") /\ LockShared(Bucket(t), t)
    /\ UNCHANGED <<data, callVars>>

\* The copy GetFromMap makes through the Reference, and the Reference's end.
Read(t) ==
    /\ Goto(t, "read", "release")
    /\ result' = [result EXCEPT ![t] = Entry(t)]
    /\ UNCHANGED <<data, lockVars, request>>
Release(t) ==
    /\ Goto(t, "release", "idle") /\ UnlockShared(Bucket(t), t)
    /\ UNCHANGED <<data, callVars>>

-----------------------------------------------------------------------------
Call(t) ==
    \E k \in Keys : GetFromMap(t, k) \/ \E l \in Listeners : AddToMap(t, k, l)

Step(t) ==
    \/ SetLock(t) \/ SetEmplace(t) \/ SetUnlock(t)
    \/ FindLock(t) \/ Find(t) \/ FindUnlock(t)
    \/ CreateLock(t) \/ Create(t) \/ CreateUnlock(t)
    \/ Relock(t) \/ Read(t) \/ Release(t)

Init ==
    /\ data = [b \in Buckets |-> [k \in Keys |-> Absent]]
    /\ writer = [b \in Buckets |-> Nobody]
    /\ readers = [b \in Buckets |-> {}]
    /\ pc = [t \in Threads |-> "idle"]
    /\ request = [t \in Threads |-> NoRequest]
    /\ result = [t \in Threads |-> Null]

Next == \E t \in Threads : Call(t) \/ Step(t)

Spec == Init /\ [][Next]_vars

\* A thread inside a call is scheduled; nobody has to call.
FairSpec == Spec /\ \A t \in Threads : WF_vars(Step(t))
=============================================================================
