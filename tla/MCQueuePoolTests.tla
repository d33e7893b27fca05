-------------------------- MODULE MCQueuePoolTests --------------------------
(***************************************************************************)
(* Instances of the test programs for TLC.                                 *)
(***************************************************************************)
EXTENDS QueuePoolTests, TLC

CONSTANTS p1, p2, k1, k2, l1, l2

TwoThreads   == <<p1, p2>>
TwoKeys      == <<k1, k2>>
TwoListeners == <<l1, l2>>
=============================================================================
