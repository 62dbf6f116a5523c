----------------------------- MODULE MCIdentity ------------------------------
(* Small instances of Identity for TLC. *)
EXTENDS Identity, TLC

CONSTANTS a, b

\* Two hosts under one terminal server, too far up to be looked at.
FarHosts == [g \in {a, b} |-> [h \in {a, b} |-> IF g = h THEN 0 ELSE 3]]

\* Host b reports the start of a session, is left by exiting, and has no MCP server.
Reports == (a :> {"start", "end", "event", "tool"}) @@ (b :> {"start"})
Sessions2 == (a :> 2) @@ (b :> 1)
Servers == (a :> 1) @@ (b :> 0)
=============================================================================
