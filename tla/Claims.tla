------------------------------- MODULE Claims -------------------------------
(***************************************************************************)
(* The ledger of file claims (internal/store/claims.go): Claim and Release *)
(* as the daemon runs them, a goroutine per call and one SQL statement at  *)
(* a time, with the presence of agents and the part of Housekeep that      *)
(* drops the claims of agents that are gone (internal/store/store.go).     *)
(*                                                                         *)
(* One action is one statement.  Abstracted: the scope (one workspace),    *)
(* the note and the time of a claim, and ages: an agent decays at some     *)
(* moment, and is purged at some later one.                                *)
(***************************************************************************)
EXTENDS Naturals

CONSTANTS
  Agent,           \* agents of the workspace
  Path,            \* claimed paths
  Call,            \* requests the daemon may be serving at once
  NoAgent,         \* an unclaimed path
  Overlapping,     \* may an agent have several requests under way?
  RetiresMidCall,  \* may an agent go while its request is under way?
  Returns          \* may an agent come back while it is being taken over from?

ASSUME ClaimsAssumption ==
  /\ NoAgent \notin Agent
  /\ Overlapping \in BOOLEAN
  /\ RetiresMidCall \in BOOLEAN
  /\ Returns \in BOOLEAN

VARIABLES
  presence,  \* [Agent -> Presence]
  claims,    \* the claims table: [Path -> Agent \cup {NoAgent}]
  call,      \* [Call -> CallState]
  hk,        \* Housekeep: "idle", or about to drop "claims"
  granted    \* history, see GrantHolds: [Path -> SUBSET Agent]

claimsVars == <<presence, claims, call, hk, granted>>

-----------------------------------------------------------------------------
(* State *)

\* No row; fresh; not heard of for staleWindow; deregistered.
Presence == {"none", "live", "decayed", "gone"}

Attempts == 3
Pc == {"idle", "read", "insert", "refresh", "liveness", "takeover", "check", "delete"}
CallState == [pc: Pc, agent: Agent \cup {NoAgent}, path: Path \cup {NoAgent},
              seen: Agent \cup {NoAgent}, tries: 0..Attempts - 1]
NoCall == [pc |-> "idle", agent |-> NoAgent, path |-> NoAgent, seen |-> NoAgent, tries |-> 0]

Init ==
  /\ presence = [a \in Agent |-> "none"]
  /\ claims = [p \in Path |-> NoAgent]
  /\ call = [c \in Call |-> NoCall]
  /\ hk = "idle"
  /\ granted = [p \in Path |-> {}]

\* The type invariant; it includes the bound on a claim's attempts.
ClaimsTypeOK ==
  /\ presence \in [Agent -> Presence]
  /\ claims \in [Path -> Agent \cup {NoAgent}]
  /\ call \in [Call -> CallState]
  /\ hk \in {"idle", "claims"}
  /\ granted \in [Path -> SUBSET Agent]

-----------------------------------------------------------------------------
(* Presence *)

Calling(a) == \E c \in Call : call[c].agent = a
Doubted(a) == \E c \in Call : call[c].seen = a

MayReturn(a) == Returns \/ ~Doubted(a)

\* An agent deregisters or decays.  What it was granted is no longer its own.
Leave(a, how) ==
  /\ presence[a] = "live" \/ (presence[a] = "decayed" /\ how = "gone")
  /\ RetiresMidCall \/ ~Calling(a)
  /\ presence' = [presence EXCEPT ![a] = how]
  /\ granted' = [p \in Path |-> granted[p] \ {a}]
  /\ UNCHANGED <<claims, call, hk>>

Register(a) ==
  /\ presence[a] # "live" => MayReturn(a)
  /\ presence' = [presence EXCEPT ![a] = "live"]
  /\ UNCHANGED <<claims, call, hk, granted>>

\* Touch: a heartbeat never resurrects an explicitly gone agent.
Touched(a) ==
  IF presence[a] = "decayed" THEN [presence EXCEPT ![a] = "live"] ELSE presence

\* A request of any other kind, by a session that names itself.
Heartbeat(a) ==
  /\ MayReturn(a)
  /\ presence' = Touched(a)
  /\ UNCHANGED <<claims, call, hk, granted>>

-----------------------------------------------------------------------------
(* Requests *)

\* A claim or a release of p by a is dispatched; touch says whether the
\* request names a's own session and so is a heartbeat.  From here on a
\* release no longer counts on the path.
Dispatch(c, a, p, op, touch) ==
  /\ call[c].pc = "idle"
  /\ presence[a] # "none"
  /\ Overlapping \/ ~Calling(a)
  /\ touch => MayReturn(a)
  /\ presence' = IF touch THEN Touched(a) ELSE presence
  /\ RetiresMidCall \/ presence'[a] = "live"
  /\ call' = [call EXCEPT ![c] =
       [pc |-> op, agent |-> a, path |-> p, seen |-> NoAgent, tries |-> 0]]
  /\ granted' = IF op = "check" THEN [granted EXCEPT ![p] = @ \ {a}] ELSE granted
  /\ UNCHANGED <<claims, hk>>

\* The request of c is answered.
Answered(c) == call' = [call EXCEPT ![c] = NoCall]

\* ... with a grant.
Granted(c) ==
  LET a == call[c].agent
      p == call[c].path
  IN  /\ Answered(c)
      /\ granted' = IF presence[a] = "live" THEN [granted EXCEPT ![p] = @ \cup {a}] ELSE granted

\* Mutant of Retry: the attempts are not counted down.
RetryForEver(c) ==
  call' = [call EXCEPT ![c].pc = "read", ![c].seen = NoAgent, ![c].tries = @ + 1]

\* A lost race: look again, or give up after the last attempt.
Retry(c) ==
  IF call[c].tries + 1 < Attempts
    THEN call' = [call EXCEPT ![c].pc = "read", ![c].seen = NoAgent, ![c].tries = @ + 1]
    ELSE Answered(c)

ClaimRead(c) ==
  /\ call[c].pc = "read"
  /\ LET h == claims[call[c].path]
         next == IF h = NoAgent THEN "insert"
                 ELSE IF h = call[c].agent THEN "refresh" ELSE "liveness"
     IN  call' = [call EXCEPT ![c].pc = next, ![c].seen = h]
  /\ UNCHANGED <<presence, claims, hk, granted>>

\* INSERT: the primary key (scope, path) refuses a second row.
ClaimInsert(c) ==
  /\ call[c].pc = "insert"
  /\ IF claims[call[c].path] = NoAgent
       THEN claims' = [claims EXCEPT ![call[c].path] = call[c].agent] /\ Granted(c)
       ELSE Retry(c) /\ UNCHANGED <<claims, granted>>
  /\ UNCHANGED <<presence, hk>>

\* The UPDATE of note and since names no agent: it is a grant whatever the
\* row has become.
ClaimRefresh(c) ==
  /\ call[c].pc = "refresh"
  /\ Granted(c)
  /\ UNCHANGED <<presence, claims, hk>>

\* holderLiveness: a live holder means ErrClaimHeld.
ClaimLiveness(c) ==
  /\ call[c].pc = "liveness"
  /\ IF presence[call[c].seen] = "live"
       THEN Answered(c)
       ELSE call' = [call EXCEPT ![c].pc = "takeover"]
  /\ UNCHANGED <<presence, claims, hk, granted>>

\* Mutant of ClaimTakeover: whoever holds the path now.
ClaimTakeoverBlind(c) ==
  /\ call[c].pc = "takeover"
  /\ claims' = [claims EXCEPT ![call[c].path] = call[c].agent]
  /\ Granted(c)
  /\ UNCHANGED <<presence, hk>>

\* The UPDATE takes over from the holder that was observed, or from nobody.
ClaimTakeover(c) ==
  /\ call[c].pc = "takeover"
  /\ IF claims[call[c].path] = call[c].seen
       THEN claims' = [claims EXCEPT ![call[c].path] = call[c].agent] /\ Granted(c)
       ELSE Retry(c) /\ UNCHANGED <<claims, granted>>
  /\ UNCHANGED <<presence, hk>>

\* Release looks first: an unheld path is a success, another's a refusal.
ReleaseCheck(c) ==
  /\ call[c].pc = "check"
  /\ IF claims[call[c].path] = call[c].agent
       THEN call' = [call EXCEPT ![c].pc = "delete"]
       ELSE Answered(c)
  /\ UNCHANGED <<presence, claims, hk, granted>>

\* The DELETE names no agent.
ReleaseDelete(c) ==
  /\ call[c].pc = "delete"
  /\ claims' = [claims EXCEPT ![call[c].path] = NoAgent]
  /\ Answered(c)
  /\ UNCHANGED <<presence, hk, granted>>

-----------------------------------------------------------------------------
(* Housekeep *)

\* Agents not heard of for two hours lose their rows, gone or decayed.
PurgeAgents(S) ==
  /\ hk = "idle"
  /\ \A a \in S : presence[a] \in {"decayed", "gone"} /\ (RetiresMidCall \/ ~Calling(a))
  /\ presence' = [a \in Agent |-> IF a \in S THEN "none" ELSE presence[a]]
  /\ hk' = "claims"
  /\ UNCHANGED <<claims, call, granted>>

\* Mutant of PurgeClaims: only the claims of purged agents.
PurgeClaimsOfPurged ==
  /\ hk = "claims"
  /\ claims' = [p \in Path |->
       IF claims[p] \in Agent /\ presence[claims[p]] = "none" THEN NoAgent ELSE claims[p]]
  /\ hk' = "idle"
  /\ UNCHANGED <<presence, call, granted>>

\* Claims whose holder was purged, is gone or has decayed.
PurgeClaims ==
  /\ hk = "claims"
  /\ claims' = [p \in Path |->
       IF claims[p] \in Agent /\ presence[claims[p]] # "live" THEN NoAgent ELSE claims[p]]
  /\ hk' = "idle"
  /\ UNCHANGED <<presence, call, granted>>

\* The daemon dies with everything it was doing; the tables stay.
DaemonCrash ==
  /\ call' = [c \in Call |-> NoCall]
  /\ hk' = "idle"
  /\ UNCHANGED <<presence, claims, granted>>

-----------------------------------------------------------------------------
Statement(c) ==
  \/ ClaimRead(c)
  \/ ClaimInsert(c)
  \/ ClaimRefresh(c)
  \/ ClaimLiveness(c)
  \/ ClaimTakeover(c)
  \/ ReleaseCheck(c)
  \/ ReleaseDelete(c)

Next ==
  \/ \E a \in Agent, how \in {"decayed", "gone"} : Leave(a, how)
  \/ \E a \in Agent : Register(a) \/ Heartbeat(a)
  \/ \E c \in Call, a \in Agent, p \in Path, op \in {"read", "check"}, touch \in BOOLEAN :
       Dispatch(c, a, p, op, touch)
  \/ \E c \in Call : Statement(c)
  \/ \E S \in SUBSET Agent : PurgeAgents(S)
  \/ PurgeClaims
  \/ DaemonCrash

ClaimsSpec == Init /\ [][Next]_claimsVars

\* Housekeep runs when the daemon starts and every hour; some run of it gets
\* as far as the claims.
FairClaimsSpec ==
  /\ ClaimsSpec
  /\ WF_claimsVars(\E S \in SUBSET Agent : PurgeAgents(S))
  /\ SF_claimsVars(PurgeClaims)

-----------------------------------------------------------------------------
(* Properties *)

\* An agent that was granted a path, has been live ever since and has not
\* released it is the holder in the table: no insert, takeover, release,
\* purge or crash takes it away, and so no other agent has been granted the
\* path too.
GrantHolds == \A p \in Path : \A a \in granted[p] : claims[p] = a

\* Release's comment: "releasing someone else's claim is refused".
ReleaseOnlyOwn ==
  [][\A c \in Call :
       call[c].pc = "delete" /\ claims'[call[c].path] # claims[call[c].path]
         /\ call'[c].pc = "idle"
       => claims[call[c].path] = call[c].agent]_claimsVars

\* Housekeep's comment: "Claims never outlive their holder".  It need not be
\* the Housekeep that purged the holder: that one may have been interrupted.
ClaimsDieWithHolder ==
  \A p \in Path, a \in Agent :
    (claims[p] = a /\ presence[a] # "live") ~> (claims[p] # a \/ presence[a] = "live")
=============================================================================
