----------------------------- MODULE MCQueuePool -----------------------------
(***************************************************************************)
(* Instances of the pool for TLC.  The threads, keys and listeners are     *)
(* model values given in the .cfg; the traits and bounds differ per run.   *)
(***************************************************************************)
EXTENDS QueuePoolProperties, TLC

\* The producers are interchangeable, and no liveness is checked under symmetry.
ProducerSymmetry == Permutations(Producers)
=============================================================================
