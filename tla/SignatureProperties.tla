------------------------ MODULE SignatureProperties -------------------------
(***************************************************************************)
(* What SignConsumerFinished promises, and the inductive invariant.        *)
(***************************************************************************)
EXTENDS SignConsumerFinished

Gone == {"test", "setFlag", "notify", "done"}

TypeOK ==
    /\ consumers_left \in Nat /\ notify_flag \in BOOLEAN /\ emptied \in BOOLEAN
    /\ cpc \in [Consumers -> {"start", "running"} \cup Gone]
    /\ wpc \in [Waiters -> {"idle", "lock", "eval", "block", "blocked", "unlock", "returned"}]
    /\ mutex \in Waiters \cup {NoThread}
    /\ waiters \subseteq Waiters /\ missed \subseteq Waiters /\ cohort \subseteq Consumers

Running == {c \in Consumers : cpc[c] = "running"}

\* A wait that has returned has waited for every consumer that was counted in before the
\* counter first came back to zero.  (Not for those that were counted in later: the flag of
\* an Event is never lowered, so a signature is good for one such round.)
WaitCoversCohort ==
    \A w \in Waiters : wpc[w] = "returned" => \A c \in cohort : cpc[c] \in Gone

\* Of consumers that leave together one raises the flag, whatever the order of their
\* decrements and tests: nobody is running or leaving, somebody has left, so it is up.
LastRaisesFlag ==
    /\ \E c \in Consumers : cpc[c] = "done"
    /\ \A c \in Consumers : cpc[c] \in {"start", "notify", "done"}
    => notify_flag

\* A waiter that sleeps although the flag is up is about to be notified, or was between
\* its look at the flag and its sleep when the notification came.
FlagWakesWaiters ==
    \A w \in Waiters :
        (w \in waiters \/ wpc[w] = "block") /\ notify_flag
          => w \in missed \/ \E c \in Consumers : cpc[c] = "notify"

\* When every consumer has been counted out each wait returns, all waiters included,
\* unless the notification was missed.  (Nor is the mutex fair: waits that begin without
\* end may keep another from it.)
FinishReleasesWaiters ==
    \/ \A w \in Waiters :
           (wpc[w] # "idle" /\ \A c \in Consumers : cpc[c] \in Gone)
             ~> (wpc[w] = "returned" \/ w \in missed)
    \/ []<><<\E w \in Waiters : Wait(w)>>_vars

-----------------------------------------------------------------------------
(* The inductive invariant.                                                *)

CountInv == consumers_left = Cardinality(Running)

\* Once somebody has left and nobody is running, the flag is up or about to be.
RaiseInv ==
    /\ \E c \in Consumers : cpc[c] \in Gone
    /\ Running = {}
    => notify_flag \/ \E c \in Consumers : cpc[c] \in {"test", "setFlag"}

\* Until the counter comes back to zero everybody counted in is of the cohort; then they
\* are gone.  The flag goes up only after that.
CohortInv ==
    /\ ~emptied => cohort = {c \in Consumers : cpc[c] # "start"}
    /\ emptied => \A c \in cohort : cpc[c] \in Gone
    /\ notify_flag \/ (\E c \in Consumers : cpc[c] = "setFlag") => emptied
    /\ (\E c \in Consumers : cpc[c] \in Gone) => emptied \/ Running # {}

WaiterInv ==
    /\ \A w \in Waiters : wpc[w] \in {"unlock", "returned"} => notify_flag
    /\ \A w \in waiters : wpc[w] = "blocked"

IInv ==
    /\ TypeOK /\ CountInv /\ RaiseInv /\ CohortInv /\ WaiterInv
    /\ FlagWakesWaiters
=============================================================================
