---------------------------- MODULE MCCommandWatch ----------------------------
(* A small instance of CommandWatch for TLC. *)
EXTENDS CommandWatch

CONSTANTS scan, registry

Commands == {scan, registry}
KindOf == [c \in Commands |-> IF c = registry THEN "registry" ELSE "api"]
=============================================================================
