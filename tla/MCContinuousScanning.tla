------------------------- MODULE MCContinuousScanning -------------------------
(* A small instance of ContinuousScanning: each object is of a resource of its own. *)
EXTENDS ContinuousScanning

CONSTANTS k1, k2, g1, g2

TwoResources == [k \in Keys |-> IF k = k1 THEN g1 ELSE g2]
=============================================================================
