----------------------------- MODULE MCMailbox ------------------------------
(* Small instances of Mailbox for TLC. *)
EXTENDS Mailbox, TLC

CONSTANTS p, q, k, c1, c2

\* k is a subagent of p, and q a rival for p's name.
MCParent == [s \in Session |-> IF s = k THEN p ELSE NoSession]
MCBase == [s \in Session |-> "amber-fox"]

\* p's own traffic, its subagent's, and the rival's, two requests at a time.
MCWork == (c1 :> {<<p, p, "read">>, <<p, k, "idle">>})
       @@ (c2 :> {<<p, p, "register">>, <<q, q, "register">>, <<q, q, "broadcast">>, <<q, q, "send">>})
=============================================================================
