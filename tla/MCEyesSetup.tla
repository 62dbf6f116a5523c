----------------------------- MODULE MCEyesSetup -----------------------------
(* Small instances of EyesSetup for TLC. *)
EXTENDS EyesSetup
=============================================================================
