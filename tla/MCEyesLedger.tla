---------------------------- MODULE MCEyesLedger ----------------------------
(* Small instances of EyesLedger for TLC. *)
EXTENDS EyesLedger, TLC

CONSTANTS r1, r2, l1, l2, claude

\* r2 is a subagent bound to r1, where it exists.
MCParent == [r \in Requester |-> IF r = r2 THEN r1 ELSE NoSession]

\* Every broker runs the one provider.
MCProvides == [l \in Launcher |-> {claude}]

\* Task ids are interchangeable: random hexadecimal strings.
TaskSymmetry == Permutations(Task)
=============================================================================
