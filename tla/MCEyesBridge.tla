---------------------------- MODULE MCEyesBridge ----------------------------
(* Small instances of EyesBridge for TLC. *)
EXTENDS EyesBridge, TLC

CONSTANTS r1, l1, claude

MCParent == [r \in Requester |-> NoSession]
MCProvides == [l \in Launcher |-> {claude}]
TaskSymmetry == Permutations(Task)
=============================================================================
