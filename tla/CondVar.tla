------------------------------- MODULE CondVar -------------------------------
(***************************************************************************)
(* One std::mutex with the std::condition_variable that is waited on under *)
(* it, as the pool and Event use them.  wait(lock, pred) of the library is *)
(*     while (!pred()) wait(lock);                                         *)
(* where wait(lock) releases the mutex and joins the waiters in one atomic *)
(* step, and re-acquires the mutex after it has been woken.  A notify that *)
(* finds nobody waiting has no effect, and is legal without the mutex.     *)
(***************************************************************************)
CONSTANT NoThread       \* the owner of a free mutex

VARIABLES mutex,        \* the thread that holds the mutex, or NoThread
          waiters       \* the threads asleep in wait(lock)

Lock(t)   == mutex = NoThread /\ mutex' = t /\ UNCHANGED waiters
Unlock(t) == mutex = t /\ mutex' = NoThread /\ UNCHANGED waiters

\* wait(lock): gives up the mutex and falls asleep, atomically.
Block(t) ==
    /\ mutex = t
    /\ mutex' = NoThread
    /\ waiters' = waiters \cup {t}

\* A thread that was woken leaves wait(lock) with the mutex.
Relock(t) == t \notin waiters /\ Lock(t)

NotifyOne ==
    /\ IF waiters = {} THEN UNCHANGED waiters
                       ELSE \E t \in waiters : waiters' = waiters \ {t}
    /\ UNCHANGED mutex

NotifyAll == waiters' = {} /\ UNCHANGED mutex

\* The library may wake a waiter that nobody notified.
SpuriousWakeup(t) ==
    /\ t \in waiters
    /\ waiters' = waiters \ {t}
    /\ UNCHANGED mutex
=============================================================================
