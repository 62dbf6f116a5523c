---------------------------- MODULE MCHostRunner ----------------------------
\* The host runner with two calls of Run, one task on streaming Claude and one
\* on Codex without streaming, three samples and two new logins.
EXTENDS HostRunner
=============================================================================
