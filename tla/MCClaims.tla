------------------------------ MODULE MCClaims ------------------------------
(* Small instances of Claims for TLC. *)
EXTENDS Claims, TLC

\* Session ids are random and requests are served by like goroutines.
ClaimsSymmetry == Permutations(Agent) \cup Permutations(Call)
=============================================================================
