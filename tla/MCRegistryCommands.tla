-------------------------- MODULE MCRegistryCommands --------------------------
(* A small instance of RegistryCommands for TLC. *)
EXTENDS RegistryCommands

CONSTANTS image1, image2, w1

TwoImages == {image1, image2}
OneWorker == {w1}
=============================================================================
