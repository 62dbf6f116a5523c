------------------------- MODULE MCDaemonLifecycle --------------------------
(* Small instances of DaemonLifecycle for TLC. *)
EXTENDS DaemonLifecycle
=============================================================================
