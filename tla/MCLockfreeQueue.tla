--------------------------- MODULE MCLockfreeQueue --------------------------
(***************************************************************************)
(* Instances of the lock-free queue for TLC.                               *)
(***************************************************************************)
EXTENDS LockfreeQueueTags, TLC
=============================================================================
