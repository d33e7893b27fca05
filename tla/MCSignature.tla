---------------------------- MODULE MCSignature -----------------------------
(***************************************************************************)
(* The instance of SignConsumerFinished for TLC: its threads are model     *)
(* values given in the .cfg.                                               *)
(***************************************************************************)
EXTENDS SignatureProperties
=============================================================================
