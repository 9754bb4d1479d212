---------------------------- MODULE MCSBOMWatch ----------------------------
(* SBOMWatch has only numeric bounds: its configurations give them values. *)
EXTENDS SBOMWatch
=============================================================================
