--------------------------- MODULE SignatureProofs --------------------------
(***************************************************************************)
(* Proofs for SignConsumerFinished, for any number of consumers and        *)
(* waiters.                                                                *)
(***************************************************************************)
EXTENDS SignatureProperties, FiniteSetTheorems, TLAPS

LEMMA InitIInv == Init => IInv
<1> SUFFICES ASSUME Init PROVE IInv
  OBVIOUS
<1> USE DEF Init
<1>1. TypeOK
  BY DEF TypeOK, Gone
<1>2. CountInv
  BY FS_EmptySet DEF CountInv, Running
<1>3. RaiseInv /\ CohortInv /\ WaiterInv /\ FlagWakesWaiters
  BY DEF RaiseInv, CohortInv, WaiterInv, FlagWakesWaiters, Gone
<1> QED
  BY <1>1, <1>2, <1>3 DEF IInv

-----------------------------------------------------------------------------
(* The counter.                                                            *)

LEMMA RunningIsFinite == IsFiniteSet(Running) /\ Cardinality(Running) \in Nat
BY ThreadsAssumption, FS_Subset, FS_CardinalityType DEF Running

\* The counter is zero exactly when nobody runs.
LEMMA ZeroIsEmpty == CountInv => (consumers_left = 0 <=> Running = {})
BY RunningIsFinite, FS_EmptySet DEF CountInv

LEMMA IncreaseCounts ==
    ASSUME TypeOK, CountInv, NEW c \in Consumers, Increase(c)
    PROVE  CountInv' /\ Running' = Running \cup {c} /\ c \notin Running
<1>1. Running' = Running \cup {c} /\ c \notin Running
  BY DEF Increase, CGoto, TypeOK, Running
<1>2. Cardinality(Running \cup {c}) = Cardinality(Running) + 1
  BY <1>1, RunningIsFinite, FS_AddElement
<1> QED
  BY <1>1, <1>2 DEF Increase, CountInv

LEMMA DecreaseCounts ==
    ASSUME TypeOK, CountInv, NEW c \in Consumers, Decrease(c)
    PROVE  /\ CountInv' /\ Running' = Running \ {c} /\ c \in Running
           /\ consumers_left' \in Nat
           /\ consumers_left' = 0 <=> Running' = {}
<1>1. Running' = Running \ {c} /\ c \in Running
  BY DEF Decrease, CGoto, TypeOK, Running
<1>2. /\ IsFiniteSet(Running \ {c})
      /\ Cardinality(Running \ {c}) = Cardinality(Running) - 1
  BY <1>1, RunningIsFinite, FS_RemoveElement
<1>3. consumers_left' = Cardinality(Running \ {c})
  BY <1>2 DEF Decrease, CountInv
<1>4. Cardinality(Running \ {c}) \in Nat /\ (Cardinality(Running \ {c}) = 0 <=> Running \ {c} = {})
  BY <1>2, FS_CardinalityType, FS_EmptySet
<1> QED
  BY <1>1, <1>3, <1>4 DEF CountInv

-----------------------------------------------------------------------------
(* The steps of the consumers.                                             *)

LEMMA IncreaseIInv == ASSUME IInv, NEW c \in Consumers, Increase(c) PROVE IInv'
<1> USE DEF IInv, Increase, CGoto, eventVars
<1>1. CountInv' /\ Running' = Running \cup {c}
  BY IncreaseCounts
<1>2. TypeOK'
  BY DEF TypeOK, Gone
<1>3. RaiseInv'
  BY <1>1 DEF RaiseInv
<1>4. CohortInv'
  BY <1>1 DEF CohortInv, TypeOK, Gone
<1>5. WaiterInv' /\ FlagWakesWaiters'
  BY DEF WaiterInv, FlagWakesWaiters, TypeOK
<1> QED
  BY <1>1, <1>2, <1>3, <1>4, <1>5

LEMMA DecreaseIInv == ASSUME IInv, NEW c \in Consumers, Decrease(c) PROVE IInv'
<1> USE DEF IInv, Decrease, CGoto, eventVars
<1>1. /\ CountInv' /\ Running' = Running \ {c}
      /\ consumers_left' \in Nat /\ (consumers_left' = 0 <=> Running' = {})
  BY DecreaseCounts
<1>2. TypeOK'
  BY <1>1 DEF TypeOK, Gone
<1>3. RaiseInv'
  BY DEF RaiseInv, TypeOK
<1>4. CohortInv'
  <2>1. \A d \in Consumers : cpc'[d] = IF d = c THEN "test" ELSE cpc[d]
    BY DEF TypeOK
  <2>2. emptied' <=> emptied \/ Running' = {}
    BY <1>1 DEF TypeOK
  <2>3. ~emptied' => cohort' = {d \in Consumers : cpc'[d] # "start"}
    BY <2>1, <2>2 DEF CohortInv, TypeOK
  <2>4. emptied' => \A d \in cohort' : cpc'[d] \in Gone
    <3>1. \A d \in Consumers : d \notin Running' /\ cpc'[d] # "start" => cpc'[d] \in Gone
      BY <1>2 DEF TypeOK, Running
    <3>2. CASE emptied
      BY <2>1, <3>2 DEF CohortInv, Gone, TypeOK
    <3>3. CASE ~emptied /\ Running' = {}
      BY <2>1, <3>1, <3>3 DEF CohortInv, TypeOK
    <3> QED
      BY <2>2, <3>2, <3>3
  <2>5. notify_flag' \/ (\E d \in Consumers : cpc'[d] = "setFlag") => emptied'
    BY <2>1, <2>2 DEF CohortInv
  <2> QED
    BY <2>2, <2>3, <2>4, <2>5 DEF CohortInv
<1>5. WaiterInv' /\ FlagWakesWaiters'
  BY DEF WaiterInv, FlagWakesWaiters, TypeOK
<1> QED
  BY <1>1, <1>2, <1>3, <1>4, <1>5

LEMMA LeaveIInv == ASSUME IInv, NEW c \in Consumers, Leave(c) PROVE IInv'
<1> USE DEF IInv, CGoto, eventVars, countVars
<1>1. /\ \A d \in Consumers : d # c => cpc'[d] = cpc[d]
      /\ cpc[c] \in Gone /\ cpc'[c] \in Gone
      /\ UNCHANGED <<countVars, wpc, mutex>>
  BY DEF Leave, Test, SetFlag, NotifyAll, CV!NotifyAll, TypeOK, Gone
<1>2. TypeOK'
  BY DEF Leave, Test, SetFlag, NotifyAll, CV!NotifyAll, TypeOK, Gone
<1>3. UNCHANGED Running
  BY <1>1 DEF Running, Gone
<1>4. CountInv'
  BY <1>1, <1>3 DEF CountInv
<1>5. CASE Test(c)
  <2>1. consumers_left = 0 <=> Running = {}
    BY ZeroIsEmpty
  <2>2. cpc'[c] = IF Running = {} THEN "setFlag" ELSE "done"
    BY <1>5, <2>1 DEF Test, TypeOK
  <2>3. RaiseInv'
    BY <1>1, <1>3, <2>2 DEF RaiseInv
  <2>4. CohortInv'
    BY <1>1, <1>3, <1>5, <2>2 DEF CohortInv, Test, Gone, TypeOK
  <2>5. WaiterInv' /\ FlagWakesWaiters'
    BY <1>5 DEF Test, WaiterInv, FlagWakesWaiters, TypeOK
  <2> QED
    BY <1>2, <1>4, <2>3, <2>4, <2>5
<1>6. CASE SetFlag(c)
  <2>1. RaiseInv'
    BY <1>6 DEF RaiseInv, SetFlag
  <2>2. CohortInv'
    BY <1>1, <1>3, <1>6 DEF CohortInv, SetFlag, Gone, TypeOK
  <2>3. WaiterInv' /\ FlagWakesWaiters'
    BY <1>6 DEF SetFlag, WaiterInv, FlagWakesWaiters, TypeOK
  <2> QED
    BY <1>2, <1>4, <2>1, <2>2, <2>3
<1>7. CASE NotifyAll(c)
  <2>1. RaiseInv'
    BY <1>1, <1>3, <1>7 DEF RaiseInv, NotifyAll, TypeOK
  <2>2. CohortInv'
    BY <1>1, <1>3, <1>7 DEF CohortInv, NotifyAll, Gone, TypeOK
  <2>3. WaiterInv' /\ FlagWakesWaiters'
    BY <1>7 DEF NotifyAll, CV!NotifyAll, WaiterInv, FlagWakesWaiters, TypeOK
  <2> QED
    BY <1>2, <1>4, <2>1, <2>2, <2>3
<1> QED
  BY <1>5, <1>6, <1>7 DEF Leave

-----------------------------------------------------------------------------
(* The steps of the waiters.                                               *)

LEMMA WaiterIInv ==
    ASSUME IInv, NEW w \in Waiters, Wait(w) \/ WaitStep(w) \/ SpuriousWakeup(w)
    PROVE  IInv'
<1> USE DEF IInv, WGoto, eventVars, countVars
<1>1. UNCHANGED <<countVars, notify_flag, cpc>>
  BY DEF Wait, WaitStep, Lock, Eval, Block, Unlock, SpuriousWakeup
<1>2. CountInv' /\ RaiseInv' /\ CohortInv'
  BY <1>1 DEF CountInv, RaiseInv, CohortInv, Running
<1>3. TypeOK'
  <2>1. CASE Wait(w) \/ Lock(w) \/ Eval(w)
    BY <2>1, <1>1 DEF Wait, Lock, Eval, CV!Lock, CV!Relock, TypeOK
  <2>2. CASE Block(w) \/ Unlock(w) \/ SpuriousWakeup(w)
    BY <2>2, <1>1 DEF Block, Unlock, SpuriousWakeup, CV!Block, CV!Unlock, CV!SpuriousWakeup, TypeOK
  <2> QED
    BY <2>1, <2>2 DEF WaitStep
<1>4. WaiterInv' /\ FlagWakesWaiters'
  <2> USE DEF WaiterInv, FlagWakesWaiters, TypeOK
  <2>1. CASE Wait(w) \/ Lock(w)
    BY <2>1, <1>1 DEF Wait, Lock, CV!Lock, CV!Relock
  <2>2. CASE Eval(w)
    BY <2>2, <1>1 DEF Eval
  <2>3. CASE Block(w)
    BY <2>3, <1>1 DEF Block, CV!Block
  <2>4. CASE Unlock(w) \/ SpuriousWakeup(w)
    BY <2>4, <1>1 DEF Unlock, SpuriousWakeup, CV!Unlock, CV!SpuriousWakeup
  <2> QED
    BY <2>1, <2>2, <2>3, <2>4 DEF WaitStep
<1> QED
  BY <1>2, <1>3, <1>4

LEMMA NextIInv == IInv /\ [Next]_vars => IInv'
<1> SUFFICES ASSUME IInv, [Next]_vars PROVE IInv'
  OBVIOUS
<1>1. CASE UNCHANGED vars
  BY <1>1 DEF vars, eventVars, countVars, IInv, TypeOK, CountInv, RaiseInv, CohortInv,
     WaiterInv, FlagWakesWaiters, Running
<1> QED
  BY <1>1, IncreaseIInv, DecreaseIInv, LeaveIInv, WaiterIInv DEF Next

-----------------------------------------------------------------------------
\* The inductive invariant holds: the counter counts, and the flag follows it.
THEOREM Invariance == Spec => []IInv
BY InitIInv, NextIInv, PTL DEF Spec

\* A wait that has returned has waited for the whole cohort.
THEOREM WaitCovers == Spec => []WaitCoversCohort
<1>1. IInv => WaitCoversCohort
  BY DEF IInv, WaiterInv, CohortInv, WaitCoversCohort
<1> QED
  BY <1>1, Invariance, PTL

\* One of the consumers that leave together raises the flag.
THEOREM FlagIsRaised == Spec => []LastRaisesFlag
<1>1. IInv => LastRaisesFlag
  BY DEF IInv, RaiseInv, LastRaisesFlag, Running, Gone
<1> QED
  BY <1>1, Invariance, PTL

\* A waiter sleeps under a raised flag only for the reasons FlagWakesWaiters names.
THEOREM FlagWakes == Spec => []FlagWakesWaiters
BY Invariance, PTL DEF IInv
=============================================================================
