------------------------ MODULE SignConsumerFinished ------------------------
(***************************************************************************)
(* SignConsumerFinished of QueuePool.h over the Event of Event.h, as pools *)
(* that share one use it: the consumer thread of each pool counts itself   *)
(* in and out, the one that finds the counter at zero raises the event,    *)
(* and any number of threads wait for it, also more than once.             *)
(* QueuePool has the same code for one pool and one waiter.                *)
(***************************************************************************)
EXTENDS Naturals, FiniteSets

CONSTANTS Consumers,     \* the consumer threads of the pools that share the signature
          Waiters,       \* the threads that call WaitForConsumersFinished
          NoThread

ASSUME ThreadsAssumption ==
    IsFiniteSet(Consumers) /\ Waiters \cap Consumers = {} /\ NoThread \notin Waiters

VARIABLES
    consumers_left, notify_flag,
    cpc,                \* per consumer
    wpc,                \* per waiter
    mutex, waiters,     \* mutx_ and cond_var_ of the event
    cohort,             \* history: the consumers counted in before the counter came back to 0
    emptied,            \* history: the counter has come back to 0
    missed              \* history: waiters whose last sleep was decided before a notify

CV == INSTANCE CondVar

eventVars == <<mutex, waiters>>
countVars == <<consumers_left, cohort, emptied>>
vars == <<countVars, notify_flag, cpc, wpc, eventVars, missed>>

CGoto(c, from, to) == cpc[c] = from /\ cpc' = [cpc EXCEPT ![c] = to]
WGoto(w, from, to) == wpc[w] = from /\ wpc' = [wpc EXCEPT ![w] = to]

-----------------------------------------------------------------------------
(* The consumers.                                                          *)

\* [mutants] Not counted; raised when one other is left; only one waiter is notified.
IncreaseNothing(c) ==
    /\ CGoto(c, "start", "running")
    /\ UNCHANGED <<countVars, notify_flag, wpc, eventVars, missed>>
TestAtMostOne(c) ==
    /\ CGoto(c, "test", IF consumers_left <= 1 THEN "setFlag" ELSE "done")
    /\ UNCHANGED <<countVars, notify_flag, wpc, eventVars, missed>>
TestBeforeDecrement(c) ==
    /\ CGoto(c, "test", IF consumers_left = 1 THEN "setFlag" ELSE "done")
    /\ UNCHANGED <<countVars, notify_flag, wpc, eventVars, missed>>
NotifyOneWaiter(c) ==
    /\ CGoto(c, "notify", "done") /\ CV!NotifyOne
    /\ missed' = missed \cup {w \in Waiters : wpc[w] = "block"}
    /\ UNCHANGED <<countVars, notify_flag, wpc>>

\* IncreaseConsumersLeft, by the thread of a pool once it runs.
Increase(c) ==
    /\ CGoto(c, "start", "running")
    /\ consumers_left' = consumers_left + 1
    /\ cohort' = IF emptied THEN cohort ELSE cohort \cup {c}
    /\ UNCHANGED <<emptied, notify_flag, wpc, eventVars, missed>>

\* DecreaseConsumersLeft: the decrement ...
Decrease(c) ==
    /\ CGoto(c, "running", "test")
    /\ consumers_left' = consumers_left - 1
    /\ emptied' = (emptied \/ consumers_left' = 0)
    /\ UNCHANGED <<cohort, notify_flag, wpc, eventVars, missed>>

\* ... and the test of the counter, which others may have changed in between.
Test(c) ==
    /\ CGoto(c, "test", IF consumers_left = 0 THEN "setFlag" ELSE "done")
    /\ UNCHANGED <<countVars, notify_flag, wpc, eventVars, missed>>

\* Event::NotifyAll, without the mutex.
SetFlag(c) ==
    /\ CGoto(c, "setFlag", "notify") /\ notify_flag' = TRUE
    /\ UNCHANGED <<countVars, wpc, eventVars, missed>>
NotifyAll(c) ==
    /\ CGoto(c, "notify", "done") /\ CV!NotifyAll
    /\ missed' = missed \cup {w \in Waiters : wpc[w] = "block"}
    /\ UNCHANGED <<countVars, notify_flag, wpc>>

Leave(c) == Test(c) \/ SetFlag(c) \/ NotifyAll(c)

-----------------------------------------------------------------------------
(* The waiters: Event::Wait.                                               *)

Wait(w) ==
    /\ WGoto(w, "idle", "lock") \/ WGoto(w, "returned", "lock")
    /\ UNCHANGED <<countVars, notify_flag, cpc, eventVars, missed>>

Lock(w) ==
    /\ \/ WGoto(w, "lock", "eval")    /\ CV!Lock(w)
       \/ WGoto(w, "blocked", "eval") /\ CV!Relock(w)
    /\ UNCHANGED <<countVars, notify_flag, cpc, missed>>

Eval(w) ==
    /\ WGoto(w, "eval", IF notify_flag THEN "unlock" ELSE "block")
    /\ missed' = missed \ {w}
    /\ UNCHANGED <<countVars, notify_flag, cpc, eventVars>>

Block(w) ==
    /\ WGoto(w, "block", "blocked") /\ CV!Block(w)
    /\ UNCHANGED <<countVars, notify_flag, cpc, missed>>

Unlock(w) ==
    /\ WGoto(w, "unlock", "returned") /\ CV!Unlock(w)
    /\ UNCHANGED <<countVars, notify_flag, cpc, missed>>

WaitStep(w) == Lock(w) \/ Eval(w) \/ Block(w) \/ Unlock(w)

SpuriousWakeup(w) ==
    /\ CV!SpuriousWakeup(w)
    /\ UNCHANGED <<countVars, notify_flag, cpc, wpc, missed>>

-----------------------------------------------------------------------------
Init ==
    /\ consumers_left = 0 /\ notify_flag = FALSE
    /\ cpc = [c \in Consumers |-> "start"]
    /\ wpc = [w \in Waiters |-> "idle"]
    /\ mutex = NoThread /\ waiters = {}
    /\ cohort = {} /\ emptied = FALSE /\ missed = {}

Next ==
    \/ \E c \in Consumers : Increase(c) \/ Decrease(c) \/ Leave(c)
    \/ \E w \in Waiters : Wait(w) \/ WaitStep(w) \/ SpuriousWakeup(w)

Spec == Init /\ [][Next]_vars

\* A thread in DecreaseConsumersLeft or in Wait is scheduled.  When a pool's thread starts,
\* how long it runs, who waits, and spurious wakeups are left open.
FairSpec ==
    /\ Spec
    /\ \A c \in Consumers : WF_vars(Leave(c))
    /\ \A w \in Waiters : WF_vars(WaitStep(w))
=============================================================================
