---------------------------- MODULE MCWaitCursor ----------------------------
(* Small instances of WaitCursor for TLC. *)
EXTENDS WaitCursor, TLC

\* Waiters are like processes.
WaiterSymmetry == Permutations(Waiter)
=============================================================================
