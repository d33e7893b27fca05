--------------------------- MODULE SafeMapProofs ----------------------------
(***************************************************************************)
(* Proofs for SafeUnorderedMap, for any threads, keys, listeners, hash and *)
(* number of buckets: the inductive invariant, exclusion, permanence of    *)
(* entries, and that the map implements AtomicMap.                         *)
(***************************************************************************)
EXTENDS SafeMapProperties, TLAPS

\* Every key has a bucket.
LEMMA BucketType == \A k \in Keys : BucketOf(k) \in Buckets
BY MapAssumption DEF BucketOf, Buckets

\* Inside a call, a thread has a request with a key, and its entry is that of the map.
LEMMA InCall ==
    ASSUME TypeOK, RequestInv, NEW t \in Threads, pc[t] # "idle"
    PROVE  /\ request[t] \in Request
           /\ Key(t) \in Keys /\ Bucket(t) \in Buckets
           /\ Entry(t) = Map[Key(t)]
           /\ Entry(t) \in Listeners \cup {Absent, Null}
<1>1. request[t] \in Request
  BY DEF RequestInv
<1>2. Key(t) \in Keys
  BY <1>1 DEF Request, Key
<1>3. Bucket(t) \in Buckets
  BY <1>2, BucketType DEF Bucket
<1>4. Entry(t) = Map[Key(t)]
  BY <1>2 DEF Entry, Map, Bucket
<1> QED
  BY <1>1, <1>2, <1>3, <1>4 DEF TypeOK, Entry

LEMMA InitIInv == Init => IInv
<1> SUFFICES ASSUME Init PROVE IInv
  OBVIOUS
<1> USE DEF Init
<1>1. TypeOK
  BY MapAssumption DEF TypeOK, Pcs
<1>2. RequestInv /\ FoundInv
  BY DEF RequestInv, FoundInv, Done
<1>3. LockInv
  BY MapAssumption DEF LockInv, Writing, Reading
<1> QED
  BY <1>1, <1>2, <1>3 DEF IInv

-----------------------------------------------------------------------------
(* What the steps have in common.                                          *)

\* A step moves one thread, leaves the others' calls alone, and writes at most by emplace.
LEMMA StepShape ==
    ASSUME TypeOK, RequestInv, NEW t \in Threads, Call(t) \/ Step(t)
    PROVE  /\ pc' \in [Threads -> Pcs] /\ pc' = [pc EXCEPT ![t] = pc'[t]]
           /\ \A u \in Threads \ {t} : request'[u] = request[u] /\ result'[u] = result[u]
           /\ \/ UNCHANGED data
              \/ /\ pc[t] # "idle" /\ UNCHANGED request
                 /\ \E v \in Listeners \cup {Null} : Emplace(t, v)
<1> USE DEF TypeOK, Goto, lockVars, callVars
<1>1. CASE Call(t)
  BY <1>1 DEF Call, AddToMap, GetFromMap, Pcs
<1>2. CASE SetLock(t) \/ SetUnlock(t) \/ FindLock(t) \/ Find(t) \/ FindUnlock(t)
  BY <1>2 DEF SetLock, SetUnlock, FindLock, Find, FindUnlock, Pcs
<1>3. CASE CreateLock(t) \/ CreateUnlock(t) \/ Relock(t) \/ Read(t) \/ Release(t)
  BY <1>3 DEF CreateLock, CreateUnlock, Relock, Read, Release, Pcs
<1>4. CASE SetEmplace(t)
  <2>1. request[t].listener \in Listeners
    BY <1>4 DEF SetEmplace, RequestInv, Setting, Request
  <2> QED
    BY <1>4, <2>1 DEF SetEmplace, Pcs
<1>5. CASE Create(t)
  BY <1>5 DEF Create, Pcs
<1> QED
  BY <1>1, <1>2, <1>3, <1>4, <1>5 DEF Step

\* Emplacing is assigning to the map where it has no entry.
LEMMA EmplaceMap ==
    ASSUME TypeOK, RequestInv, NEW t \in Threads, pc[t] # "idle",
           NEW v \in Listeners \cup {Null}, Emplace(t, v)
    PROVE  /\ data' \in [Buckets -> [Keys -> Listeners \cup {Absent, Null}]]
           /\ Map' = IF Map[Key(t)] = Absent THEN [Map EXCEPT ![Key(t)] = v] ELSE Map
<1>1. Key(t) \in Keys /\ Bucket(t) \in Buckets /\ Entry(t) = Map[Key(t)]
  BY InCall
<1>2. CASE Entry(t) # Absent
  BY <1>1, <1>2 DEF Emplace, Map, TypeOK
<1>3. CASE Entry(t) = Absent
  <2>1. data' = [data EXCEPT ![Bucket(t)][Key(t)] = v]
    BY <1>3 DEF Emplace, Store
  <2>2. data' \in [Buckets -> [Keys -> Listeners \cup {Absent, Null}]]
    BY <1>1, <2>1 DEF TypeOK
  <2>3. ASSUME NEW k \in Keys PROVE Map'[k] = IF k = Key(t) THEN v ELSE Map[k]
    BY <1>1, <2>1, BucketType DEF Map, TypeOK, Bucket
  <2>4. Map' = [Map EXCEPT ![Key(t)] = v]
    BY <2>3 DEF Map
  <2> QED
    BY <1>1, <1>3, <2>2, <2>4
<1> QED
  BY <1>2, <1>3

\* No step changes an entry that is there.
LEMMA StepKeeps ==
    ASSUME TypeOK, RequestInv, NEW t \in Threads, Call(t) \/ Step(t)
    PROVE  /\ data' \in [Buckets -> [Keys -> Listeners \cup {Absent, Null}]]
           /\ \A k \in Keys : Map[k] # Absent => Map'[k] = Map[k]
<1>1. CASE UNCHANGED data
  BY <1>1 DEF TypeOK, Map
<1>2. CASE pc[t] # "idle" /\ \E v \in Listeners \cup {Null} : Emplace(t, v)
  <2>1. PICK v \in Listeners \cup {Null} : Emplace(t, v)
    BY <1>2
  <2>2. /\ data' \in [Buckets -> [Keys -> Listeners \cup {Absent, Null}]]
        /\ Map' = IF Map[Key(t)] = Absent THEN [Map EXCEPT ![Key(t)] = v] ELSE Map
    BY <1>2, <2>1, EmplaceMap
  <2>3. Map = [k \in Keys |-> Map[k]]
    BY DEF Map
  <2> QED
    BY <2>2, <2>3
<1> QED
  BY <1>1, <1>2, StepShape

-----------------------------------------------------------------------------
(* The inductive invariant.                                                *)

LEMMA LockType ==
    ASSUME TypeOK, NEW t \in Threads, NEW b \in Buckets,
           \/ LockShared(b, t) \/ UnlockShared(b, t)
           \/ LockExclusive(b, t) \/ UnlockExclusive(b, t)
    PROVE  /\ writer' \in [Buckets -> Threads \cup {Nobody}]
           /\ readers' \in [Buckets -> SUBSET Threads]
BY DEF TypeOK, LockShared, UnlockShared, LockExclusive, UnlockExclusive

LEMMA TypeStep ==
    ASSUME TypeOK, RequestInv, LockInv, FoundInv,
           NEW t \in Threads, Call(t) \/ Step(t)
    PROVE  TypeOK'
<1> USE DEF TypeOK, Goto
<1>1. data' \in [Buckets -> [Keys -> Listeners \cup {Absent, Null}]] /\ pc' \in [Threads -> Pcs]
  BY StepKeeps, StepShape
<1>2. CASE Call(t)
  BY <1>1, <1>2 DEF Call, AddToMap, GetFromMap, Request, lockVars
<1>3. CASE Step(t)
  <2>1. Bucket(t) \in Buckets /\ Entry(t) \in Listeners \cup {Absent, Null}
    BY <1>3, InCall DEF Step, SetLock, SetEmplace, SetUnlock, FindLock, Find, FindUnlock,
       CreateLock, Create, CreateUnlock, Relock, Read, Release
  <2>2. pc[t] = "read" => Entry(t) # Absent
    BY DEF FoundInv, Done
  <2>3. CASE \/ SetLock(t) \/ SetUnlock(t) \/ FindLock(t) \/ FindUnlock(t)
             \/ CreateLock(t) \/ CreateUnlock(t) \/ Relock(t) \/ Release(t)
    <3>1. UNCHANGED <<request, result>>
      BY <2>3 DEF SetLock, SetUnlock, FindLock, FindUnlock, CreateLock, CreateUnlock,
         Relock, Release, callVars
    <3>2. \/ LockShared(Bucket(t), t) \/ UnlockShared(Bucket(t), t)
          \/ LockExclusive(Bucket(t), t) \/ UnlockExclusive(Bucket(t), t)
      BY <2>3 DEF SetLock, SetUnlock, FindLock, FindUnlock, CreateLock, CreateUnlock,
         Relock, Release
    <3> HIDE DEF TypeOK
    <3>3. /\ writer' \in [Buckets -> Threads \cup {Nobody}]
          /\ readers' \in [Buckets -> SUBSET Threads]
      BY <2>1, <3>2, LockType
    <3> USE DEF TypeOK
    <3> QED
      BY <1>1, <3>1, <3>3
  <2>4. CASE SetEmplace(t) \/ Find(t) \/ Create(t) \/ Read(t)
    BY <1>1, <2>1, <2>2, <2>4 DEF SetEmplace, Find, Create, Read, lockVars, callVars
  <2> QED
    BY <1>3, <2>3, <2>4 DEF Step
<1> QED
  BY <1>2, <1>3

LEMMA RequestStep ==
    ASSUME TypeOK, RequestInv, NEW t \in Threads, Call(t) \/ Step(t)
    PROVE  RequestInv'
<1>1. ASSUME NEW u \in Threads, u # t, pc'[u] # "idle"
      PROVE  /\ request'[u] \in Request
             /\ request'[u].op = IF pc'[u] \in Setting THEN "AddToMap" ELSE "GetFromMap"
  <2>1. pc'[u] = pc[u] /\ request'[u] = request[u]
    BY <1>1, StepShape DEF TypeOK
  <2> QED
    BY <1>1, <2>1 DEF RequestInv
<1>2. CASE Call(t)
  <2>1. /\ request'[t] \in Request
        /\ request'[t].op = IF pc'[t] \in Setting THEN "AddToMap" ELSE "GetFromMap"
    BY <1>2 DEF Call, AddToMap, GetFromMap, Goto, TypeOK, Request, Setting
  <2> QED
    BY <1>1, <2>1 DEF RequestInv
<1>3. CASE Step(t)
  <2>1. UNCHANGED request
    BY <1>3 DEF Step, SetLock, SetEmplace, SetUnlock, FindLock, Find, FindUnlock,
       CreateLock, Create, CreateUnlock, Relock, Read, Release, callVars
  <2>2. /\ pc[t] # "idle"
        /\ pc'[t] # "idle" => (pc'[t] \in Setting <=> pc[t] \in Setting)
    BY <1>3 DEF Step, SetLock, SetEmplace, SetUnlock, FindLock, Find, FindUnlock,
       CreateLock, Create, CreateUnlock, Relock, Read, Release, Goto, TypeOK, Setting
  <2> QED
    BY <1>1, <2>1, <2>2 DEF RequestInv
<1> QED
  BY <1>2, <1>3

\* What a thread holds before and after its step, per step.
LEMMA LockStep ==
    ASSUME TypeOK, RequestInv, LockInv, NEW t \in Threads, Call(t) \/ Step(t)
    PROVE  LockInv'
<1> USE DEF TypeOK
<1>1. \A u \in Threads \ {t} : pc'[u] = pc[u] /\ request'[u] = request[u] /\ Bucket(u)' = Bucket(u)
  BY StepShape DEF Bucket, Key
<1>2. CASE UNCHANGED lockVars /\ pc[t] \notin Writing \cup Reading
                              /\ pc'[t] \notin Writing \cup Reading
  BY <1>1, <1>2 DEF LockInv, lockVars
<1>3. CASE /\ UNCHANGED <<lockVars, request>>
           /\ pc[t] \in Writing <=> pc'[t] \in Writing
           /\ pc[t] \in Reading <=> pc'[t] \in Reading
  BY <1>1, <1>3 DEF LockInv, lockVars, Bucket, Key
<1>4. CASE /\ LockShared(Bucket(t), t) /\ UNCHANGED request /\ pc[t] # "idle"
           /\ pc[t] \notin Writing \cup Reading /\ pc'[t] \in Reading \ Writing
  <2>1. Bucket(t) \in Buckets /\ Bucket(t)' = Bucket(t)
    BY <1>4, InCall DEF Bucket, Key
  <2> QED
    BY <1>1, <1>4, <2>1, MapAssumption DEF LockInv, LockShared
<1>5. CASE /\ LockExclusive(Bucket(t), t) /\ UNCHANGED request /\ pc[t] # "idle"
           /\ pc[t] \notin Writing \cup Reading /\ pc'[t] \in Writing \ Reading
  <2>1. Bucket(t) \in Buckets /\ Bucket(t)' = Bucket(t)
    BY <1>5, InCall DEF Bucket, Key
  <2> QED
    BY <1>1, <1>5, <2>1, MapAssumption DEF LockInv, LockExclusive
<1>6. CASE /\ UnlockShared(Bucket(t), t) /\ UNCHANGED request
           /\ pc[t] \in Reading \ Writing /\ pc'[t] \notin Writing \cup Reading
  <2>1. pc[t] # "idle"
    BY <1>6 DEF Reading
  <2>2. Bucket(t) \in Buckets /\ Bucket(t)' = Bucket(t)
    BY <1>6, <2>1, InCall DEF Bucket, Key
  <2> QED
    BY <1>1, <1>6, <2>2, MapAssumption DEF LockInv, UnlockShared
<1>7. CASE /\ UnlockExclusive(Bucket(t), t) /\ UNCHANGED request
           /\ pc[t] \in Writing \ Reading /\ pc'[t] \notin Writing \cup Reading
  <2>1. pc[t] # "idle"
    BY <1>7 DEF Writing
  <2>2. Bucket(t) \in Buckets /\ Bucket(t)' = Bucket(t)
    BY <1>7, <2>1, InCall DEF Bucket, Key
  <2> QED
    BY <1>1, <1>7, <2>2, MapAssumption DEF LockInv, UnlockExclusive
<1> USE DEF Goto, lockVars, callVars, Writing, Reading
<1>8. CASE Call(t)
  BY <1>2, <1>8 DEF Call, AddToMap, GetFromMap
<1>9. CASE SetEmplace(t) \/ Find(t) \/ Create(t) \/ Read(t)
  BY <1>3, <1>9 DEF SetEmplace, Find, Create, Read
<1>10. CASE FindLock(t) \/ Relock(t)
  BY <1>4, <1>10 DEF FindLock, Relock
<1>11. CASE SetLock(t) \/ CreateLock(t)
  BY <1>5, <1>11 DEF SetLock, CreateLock
<1>12. CASE FindUnlock(t) \/ Release(t)
  BY <1>6, <1>12 DEF FindUnlock, Release
<1>13. CASE SetUnlock(t) \/ CreateUnlock(t)
  BY <1>7, <1>13 DEF SetUnlock, CreateUnlock
<1> QED
  BY <1>8, <1>9, <1>10, <1>11, <1>12, <1>13 DEF Step

LEMMA FoundStep ==
    ASSUME TypeOK, RequestInv, FoundInv, NEW t \in Threads, Call(t) \/ Step(t)
    PROVE  FoundInv'
<1> SUFFICES ASSUME NEW u \in Threads, (pc[u] \in Done)' PROVE (Entry(u) # Absent)'
  BY DEF FoundInv
<1>1. /\ RequestInv' /\ pc'[u] # "idle"
      /\ \A k \in Keys : Map[k] # Absent => Map'[k] = Map[k]
  BY RequestStep, StepKeeps DEF Done
<1>2. request'[u] \in Request /\ Key(u)' \in Keys
  BY <1>1 DEF RequestInv, Key, Request
<1>3. Entry(u)' = Map'[Key(u)']
  BY <1>2 DEF Entry, Map, Bucket
<1>4. CASE pc[u] \in Done /\ request'[u] = request[u]
  <2>1. Entry(u) # Absent /\ Entry(u) = Map[Key(u)] /\ Key(u)' = Key(u)
    BY <1>4, InCall DEF FoundInv, Key, Done
  <2> QED
    BY <1>1, <1>2, <1>3, <2>1
<1>5. CASE pc[u] \notin Done \/ request'[u] # request[u]
  <2>1. u = t
    BY <1>5, StepShape DEF TypeOK
  <2>2. \/ SetEmplace(t) \/ Create(t)
        \/ Find(t) /\ Entry(t) # Absent
    BY <1>5, <2>1 DEF Call, AddToMap, GetFromMap, Step, SetLock, SetEmplace, SetUnlock,
       FindLock, Find, FindUnlock, CreateLock, Create, CreateUnlock, Relock, Read, Release,
       Goto, TypeOK, callVars, Done
  <2>3. pc[t] # "idle" /\ UNCHANGED request
    BY <2>2 DEF SetEmplace, Create, Find, Goto, callVars
  <2>4. Entry(t) = Map[Key(t)] /\ Key(t)' = Key(t) /\ Key(t) \in Keys
    BY <2>3, InCall DEF Key
  <2>5. CASE Find(t) /\ Entry(t) # Absent
    BY <1>1, <1>3, <2>1, <2>4, <2>5
  <2>6. CASE SetEmplace(t) \/ Create(t)
    <3>1. PICK v \in Listeners \cup {Null} : Emplace(t, v)
      <4>1. pc[t] = "setEmplace" => request[t].listener \in Listeners
        BY DEF RequestInv, Setting, Request
      <4> QED
        BY <2>6, <4>1 DEF SetEmplace, Create, Goto
    <3>2. Map' = IF Map[Key(t)] = Absent THEN [Map EXCEPT ![Key(t)] = v] ELSE Map
      BY <2>3, <3>1, EmplaceMap
    <3>3. Map = [k \in Keys |-> Map[k]]
      BY DEF Map
    <3>4. Map'[Key(t)] # Absent
      BY <2>4, <3>2, <3>3, MapAssumption
    <3> QED
      BY <1>3, <2>1, <2>4, <3>4
  <2> QED
    BY <2>2, <2>5, <2>6
<1> QED
  BY <1>4, <1>5

LEMMA NextIInv == IInv /\ [Next]_vars => IInv'
<1> SUFFICES ASSUME IInv, [Next]_vars PROVE IInv'
  OBVIOUS
<1>1. ASSUME NEW t \in Threads, Call(t) \/ Step(t) PROVE IInv'
  <2>1. TypeOK /\ RequestInv /\ LockInv /\ FoundInv
    BY DEF IInv
  <2> QED
    BY <1>1, <2>1, TypeStep, RequestStep, LockStep, FoundStep DEF IInv
<1>2. CASE UNCHANGED vars
  BY <1>2 DEF vars, lockVars, callVars, IInv, TypeOK, RequestInv, LockInv, FoundInv,
     Entry, Bucket, Key
<1> QED
  BY <1>1, <1>2 DEF Next

\* The inductive invariant holds: types, requests, who holds which lock, and that what a
\* call has found is there.
THEOREM Invariance == Spec => []IInv
BY InitIInv, NextIInv, PTL DEF Spec

-----------------------------------------------------------------------------
(* What follows from it.                                                   *)

\* A thread that writes to a bucket has it for itself.
THEOREM Exclusion == Spec => []WritersAlone
<1>1. IInv => WritersAlone
  <2> SUFFICES ASSUME IInv, NEW t \in Threads, NEW u \in Threads, t # u,
                      pc[t] \in Writing, pc[u] \in Writing \cup Reading,
                      Bucket(t) = Bucket(u)
               PROVE  FALSE
    BY DEF WritersAlone
  <2>1. Bucket(t) \in Buckets
    BY InCall DEF IInv, Writing
  <2>2. writer[Bucket(t)] = t /\ readers[Bucket(t)] = {}
    BY <2>1, MapAssumption DEF IInv, LockInv
  <2>3. writer[Bucket(t)] = u \/ u \in readers[Bucket(t)]
    BY <2>1 DEF IInv, LockInv
  <2> QED
    BY <2>2, <2>3
<1> QED
  BY <1>1, Invariance, PTL

\* An entry of the map never changes: neither Set nor GetAndCreate replaces one.
THEOREM Permanence == Spec => EntriesKeep
<1>1. IInv /\ [Next]_vars => [\A k \in Keys : Map[k] # Absent => Map'[k] = Map[k]]_vars
  BY StepKeeps DEF IInv, Next
<1> QED
  BY <1>1, Invariance, PTL DEF Spec, EntriesKeep

-----------------------------------------------------------------------------
(* The refinement.  A Set takes effect where it emplaces, a lookup where it *)
(* finds its entry or, after a miss, where it emplaces an empty one.       *)

\* The step of a thread moves its abstract status and no other's.
LEMMA StatusMove ==
    ASSUME TypeOK, NEW t \in Threads, NEW from \in Pcs, NEW to \in Pcs, Goto(t, from, to)
    PROVE  /\ Status[t] = StatusAt(from)
           /\ Status' = [Status EXCEPT ![t] = StatusAt(to)]
BY DEF TypeOK, Goto, Status

\* A call that has taken effect has its answer, whatever the others do meanwhile.
LEMMA AnswerKept ==
    ASSUME TypeOK, RequestInv, FoundInv, NEW t \in Threads, Call(t) \/ Step(t),
           NEW u \in Threads, u # t
    PROVE  Answer'[u] = Answer[u]
<1>1. pc'[u] = pc[u] /\ request'[u] = request[u] /\ result'[u] = result[u]
  BY StepShape DEF TypeOK
<1>2. ASSUME pc[u] \in Unread PROVE Entry(u)' = Entry(u)
  <2>1. /\ pc[u] # "idle" /\ Key(u)' = Key(u)
        /\ Entry(u) # Absent /\ Entry(u) = Map[Key(u)] /\ Key(u) \in Keys
    BY <1>1, <1>2, InCall DEF Unread, Done, FoundInv, Key
  <2>2. Entry(u)' = Map'[Key(u)]
    BY <2>1 DEF Entry, Map, Bucket
  <2> QED
    BY <2>1, <2>2, StepKeeps
<1> QED
  BY <1>1, <1>2 DEF Answer

\* What the step of a thread does to its own answer is what it does to Answer.
LEMMA AnswerMove ==
    ASSUME TypeOK, RequestInv, FoundInv, NEW t \in Threads, Call(t) \/ Step(t), NEW a,
           Answer'[t] = a
    PROVE  Answer' = [Answer EXCEPT ![t] = a]
<1>1. \A u \in Threads : Answer'[u] = IF u = t THEN a ELSE Answer[u]
  BY AnswerKept
<1> QED
  BY <1>1 DEF Answer

LEMMA InitAtomic == Init => Atomic!Init
<1> SUFFICES ASSUME Init PROVE Atomic!Init
  OBVIOUS
<1>1. Map = [k \in Keys |-> Absent]
  BY BucketType DEF Init, Map
<1>2. Status = [t \in Threads |-> "idle"]
  BY DEF Init, Status, StatusAt
<1>3. Answer = [t \in Threads |-> Null]
  BY DEF Init, Answer, Unread
<1> QED
  BY <1>1, <1>2, <1>3 DEF Atomic!Init, Init

\* Emplacing in a bucket is emplacing in the map.
LEMMA EmplaceAtomic ==
    ASSUME TypeOK, RequestInv, NEW t \in Threads, pc[t] # "idle",
           NEW v \in Listeners \cup {Null}, Emplace(t, v)
    PROVE  Atomic!Emplace(Key(t), v)
BY EmplaceMap DEF Atomic!Emplace, Atomic!Assign

\* Every step of a thread is a step of AtomicMap or changes nothing there.
LEMMA StepAtomic ==
    ASSUME IInv, NEW t \in Threads, Call(t) \/ Step(t)
    PROVE  [Atomic!Next]_(Atomic!vars)
<1>1. TypeOK /\ RequestInv /\ LockInv /\ FoundInv
  BY DEF IInv
<1>2. Answer = [Answer EXCEPT ![t] = Answer[t]] /\ Status = [Status EXCEPT ![t] = Status[t]]
  BY DEF Answer, Status
<1>3. UNCHANGED data => UNCHANGED Map
  BY DEF Map
<1>4. CASE Call(t)
  <2>1. PICK r \in Request, to \in {"setLock", "findLock"} :
           /\ Goto(t, "idle", to) /\ request' = [request EXCEPT ![t] = r]
           /\ UNCHANGED <<data, result>>
    BY <1>4 DEF Call, AddToMap, GetFromMap, Request, lockVars
  <2>2. Status[t] = "idle" /\ Status' = [Status EXCEPT ![t] = "called"]
    BY <1>1, <2>1, StatusMove DEF Pcs, StatusAt, Done
  <2>3. Answer'[t] = Answer[t]
    BY <1>1, <2>1 DEF Goto, TypeOK, Answer, Unread
  <2>4. UNCHANGED Answer
    BY <1>1, <1>2, <2>3, AnswerMove
  <2>5. Atomic!Call(t, r)
    BY <1>3, <2>1, <2>2, <2>4 DEF Atomic!Call, Atomic!Goto
  <2>6. r \in Atomic!Request
    BY DEF Request, Atomic!Request
  <2> QED
    BY <2>5, <2>6 DEF Atomic!Next
\* The steps that only lock, unlock or miss.
<1>5. ASSUME NEW from \in Pcs, NEW to \in Pcs, Goto(t, from, to), UNCHANGED <<data, callVars>>,
             Step(t), StatusAt(from) = StatusAt(to), from \in Unread <=> to \in Unread
      PROVE  UNCHANGED Atomic!vars
  <2>1. UNCHANGED Status
    BY <1>1, <1>2, <1>5, StatusMove
  <2>2. Answer'[t] = Answer[t]
    BY <1>1, <1>5 DEF Goto, TypeOK, Answer, Entry, Bucket, Key, callVars
  <2>3. UNCHANGED Answer
    BY <1>1, <1>2, <1>5, <2>2, AnswerMove
  <2> QED
    BY <1>3, <1>5, <2>1, <2>3 DEF Atomic!vars, callVars
<1>6. CASE SetLock(t) \/ FindLock(t) \/ FindUnlock(t) \/ CreateLock(t) \/ CreateUnlock(t)
             \/ Relock(t)
  BY <1>5, <1>6 DEF SetLock, FindLock, FindUnlock, CreateLock, CreateUnlock, Relock, Step,
     Pcs, StatusAt, Done, Unread
<1>7. CASE Find(t) /\ Goto(t, "find", "findUnlock")
  BY <1>5, <1>7 DEF Find, lockVars, Step, Pcs, StatusAt, Done, Unread
<1>8. CASE SetUnlock(t) \/ Release(t)
  <2>1. PICK from \in {"setUnlock", "release"} : Goto(t, from, "idle")
    BY <1>8 DEF SetUnlock, Release
  <2>2. UNCHANGED <<data, request, result>>
    BY <1>8 DEF SetUnlock, Release, callVars
  <2>3. Status[t] = "done" /\ Status' = [Status EXCEPT ![t] = "idle"]
    BY <1>1, <2>1, StatusMove DEF Pcs, StatusAt, Done
  <2>4. Answer'[t] = Answer[t]
    BY <1>1, <2>1, <2>2 DEF Goto, TypeOK, Answer, Unread
  <2>5. UNCHANGED Answer
    BY <1>1, <1>2, <2>4, AnswerMove
  <2> QED
    BY <1>3, <2>2, <2>3, <2>5 DEF Atomic!Next, Atomic!Return, Atomic!Goto
<1>9. CASE Read(t)
  <2>1. UNCHANGED Status
    BY <1>1, <1>2, <1>9, StatusMove DEF Read, Pcs, StatusAt, Done
  <2>2. Answer'[t] = Answer[t]
    BY <1>1, <1>9 DEF Read, Goto, TypeOK, Answer, Unread
  <2>3. UNCHANGED Answer
    BY <1>1, <1>2, <2>2, AnswerMove
  <2> QED
    BY <1>3, <1>9, <2>1, <2>3 DEF Read, Atomic!vars
<1>10. CASE SetEmplace(t)
  <2>1. /\ request[t].op = "AddToMap" /\ request[t].listener \in Listeners
        /\ pc[t] = "setEmplace"
    BY <1>1, <1>10 DEF SetEmplace, Goto, RequestInv, Setting, Request
  <2>2. Status[t] = "called" /\ Status' = [Status EXCEPT ![t] = "done"]
    BY <1>1, <1>10, StatusMove DEF SetEmplace, Pcs, StatusAt, Done
  <2>3. Answer'[t] = Answer[t]
    BY <1>1, <1>10 DEF SetEmplace, Goto, TypeOK, Answer, Unread, callVars
  <2>4. UNCHANGED Answer
    BY <1>1, <1>2, <2>3, AnswerMove
  <2>5. Atomic!AddToMap(request[t].key, request[t].listener)
    BY <1>1, <1>10, <2>1, EmplaceAtomic DEF SetEmplace, Atomic!AddToMap, Key
  <2>6. Atomic!Add(t)
    BY <1>10, <2>1, <2>2, <2>4, <2>5 DEF SetEmplace, callVars, Atomic!Add, Atomic!Goto
  <2> QED
    BY <2>6 DEF Atomic!Next
\* A lookup that hits, or that inserts.
<1>11. ASSUME NEW from \in {"find", "create"}, NEW to \in {"read", "createUnlock"},
              Goto(t, from, to), UNCHANGED callVars, Atomic!Emplace(Key(t), Null),
              Entry(t)' = Atomic!Found(Key(t))
       PROVE  Atomic!Next
  <2>1. request[t].op = "GetFromMap"
    BY <1>1, <1>11 DEF Goto, RequestInv, Setting
  <2>2. Status[t] = "called" /\ Status' = [Status EXCEPT ![t] = "done"]
    BY <1>1, <1>11, StatusMove DEF Pcs, StatusAt, Done
  <2>3. Answer'[t] = Atomic!Found(Key(t))
    BY <1>1, <1>11 DEF Goto, TypeOK, Answer, Unread
  <2>4. Answer' = [Answer EXCEPT ![t] = Atomic!Found(Key(t))]
    BY <1>1, <2>3, AnswerMove
  <2>5. Atomic!Get(t)
    BY <1>11, <2>1, <2>2, <2>4 DEF callVars, Atomic!Get, Atomic!Goto, Atomic!LookedUp, Key
  <2> QED
    BY <2>5 DEF Atomic!Next
<1>12. CASE Find(t) /\ Goto(t, "find", "read") /\ Entry(t) # Absent
  <2>1. Entry(t) = Map[Key(t)] /\ Entry(t)' = Entry(t) /\ UNCHANGED <<data, callVars>>
    BY <1>1, <1>12, InCall DEF Find, Goto, Entry, Bucket, Key, callVars
  <2>2. Atomic!Emplace(Key(t), Null) /\ Entry(t)' = Atomic!Found(Key(t))
    BY <1>3, <1>12, <2>1 DEF Atomic!Emplace, Atomic!Found
  <2> QED
    BY <1>11, <1>12, <2>1, <2>2
<1>13. CASE Create(t)
  <2>1. pc[t] # "idle" /\ Emplace(t, Null) /\ UNCHANGED callVars
    BY <1>13 DEF Create, Goto
  <2>2. Key(t) \in Keys /\ Key(t)' = Key(t) /\ Entry(t)' = Map'[Key(t)]
    BY <1>1, <2>1, InCall DEF Entry, Map, Bucket, Key, callVars
  <2>3. Map' = IF Map[Key(t)] = Absent THEN [Map EXCEPT ![Key(t)] = Null] ELSE Map
    BY <1>1, <2>1, EmplaceMap
  <2>4. Entry(t)' = Atomic!Found(Key(t))
    BY <2>2, <2>3 DEF Atomic!Found, Map
  <2> QED
    BY <1>1, <1>11, <1>13, <2>1, <2>4, EmplaceAtomic DEF Create
<1> QED
  BY <1>4, <1>6, <1>7, <1>8, <1>9, <1>10, <1>12, <1>13 DEF Step, Find

\* SafeUnorderedMap is an atomic map: each call of Set and GetAndCreate, with all the
\* critical sections it is made of, takes effect at once.
THEOREM Implements == Spec => ImplementsAtomicMap
<1>1. IInv /\ [Next]_vars => [Atomic!Next]_(Atomic!vars)
  <2> SUFFICES ASSUME IInv, [Next]_vars PROVE [Atomic!Next]_(Atomic!vars)
    OBVIOUS
  <2>1. CASE Next
    BY <2>1, StepAtomic DEF Next
  <2>2. CASE UNCHANGED vars
    BY <2>2 DEF vars, lockVars, callVars, Atomic!vars, Map, Status, Answer, Entry, Bucket, Key
  <2> QED
    BY <2>1, <2>2
<1> QED
  BY <1>1, InitAtomic, Invariance, PTL DEF Spec, ImplementsAtomicMap, Atomic!Spec
=============================================================================
