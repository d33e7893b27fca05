----------------------------- MODULE MCSafeMap ------------------------------
(***************************************************************************)
(* An instance of SafeUnorderedMap for TLC, with a hash that makes the     *)
(* first key and the last one share one of two buckets.                    *)
(***************************************************************************)
EXTENDS SafeMapProperties, TLC

CONSTANTS k1, k2, k3

ThreeKeys == k1 :> 0 @@ k2 :> 1 @@ k3 :> 2
=============================================================================
