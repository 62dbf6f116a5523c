---------------------------- MODULE ClaimsProofs ----------------------------
(***************************************************************************)
(* Claims are exclusive, for any number of agents, paths and requests, as  *)
(* long as the three assumptions of Disciplined hold.  Each of them is     *)
(* needed: TLC refutes GrantHolds without it.  That the tables stay well   *)
(* formed needs none of them.                                              *)
(***************************************************************************)
EXTENDS Claims, TLAPS

\* An agent makes one request at a time, does not go while it waits for the
\* answer, and does not come back while somebody is about to take over from it.
Disciplined == ~Overlapping /\ ~RetiresMidCall /\ ~Returns

-----------------------------------------------------------------------------
(* The inductive invariant *)

\* A request that is under way is fully described.
CallShape ==
  \A c \in Call :
    /\ call[c].pc = "idle" => call[c].agent = NoAgent /\ call[c].seen = NoAgent
    /\ call[c].pc # "idle" => call[c].agent \in Agent /\ call[c].path \in Path
    /\ call[c].pc \in {"liveness", "takeover"} => call[c].seen \in Agent

\* Every request comes from a live agent, and from a different one.
CallersLive ==
  \A c \in Call : call[c].pc # "idle" =>
    /\ presence[call[c].agent] = "live"
    /\ \A d \in Call : call[d].agent = call[c].agent => d = c

\* What a request has observed, and will act upon, is still the case.
StillObserved ==
  \A c \in Call :
    /\ call[c].pc \in {"refresh", "delete"} => claims[call[c].path] = call[c].agent
    /\ call[c].pc = "takeover" => presence[call[c].seen] # "live"
    /\ call[c].pc \in {"check", "delete"} => call[c].agent \notin granted[call[c].path]

GrantedLive ==
  \A p \in Path : \A a \in granted[p] : claims[p] = a /\ presence[a] = "live"

ClaimsInv == ClaimsTypeOK /\ CallShape /\ CallersLive /\ StillObserved /\ GrantedLive

-----------------------------------------------------------------------------
(* The invariant holds initially and is kept by every step *)

\* The empty ledger.
LEMMA ClaimsInvInit == Init => ClaimsInv
  BY ClaimsAssumption
  DEF Init, ClaimsInv, ClaimsTypeOK, CallShape, CallersLive, StillObserved, GrantedLive,
      NoCall, CallState, Pc, Presence, Attempts

\* Presence: leaving agents have no request under way and lose their grants;
\* a returning one is not being taken over from.
LEMMA PresenceKeeps ==
  ASSUME Disciplined, ClaimsInv, NEW a \in Agent,
         \/ \E how \in {"decayed", "gone"} : Leave(a, how)
         \/ Register(a)
         \/ Heartbeat(a)
  PROVE  ClaimsInv'
<1>1. CASE \E how \in {"decayed", "gone"} : Leave(a, how)
  <2>1. ClaimsTypeOK' /\ CallShape'
    BY <1>1 DEF Leave, ClaimsInv, ClaimsTypeOK, CallShape, Presence
  <2>2. CallersLive'
    BY <1>1 DEF Leave, ClaimsInv, ClaimsTypeOK, CallShape, CallersLive, Calling, Disciplined
  <2>3. StillObserved' /\ GrantedLive'
    BY <1>1 DEF Leave, ClaimsInv, ClaimsTypeOK, CallShape, StillObserved, GrantedLive
  <2> QED BY <2>1, <2>2, <2>3 DEF ClaimsInv
<1>2. CASE Register(a) \/ Heartbeat(a)
  <2>1. /\ presence' \in [Agent -> Presence]
        /\ \A b \in Agent : presence[b] = "live" => presence'[b] = "live"
        /\ \A b \in Agent : presence'[b] # presence[b] => ~Doubted(b)
        /\ UNCHANGED <<claims, call, hk, granted>>
    BY <1>2 DEF Register, Heartbeat, Touched, MayReturn, Disciplined, ClaimsInv, ClaimsTypeOK, Presence
  <2>2. ClaimsTypeOK' /\ CallShape' /\ CallersLive' /\ GrantedLive'
    BY <2>1 DEF ClaimsInv, ClaimsTypeOK, CallShape, CallersLive, GrantedLive
  <2>3. StillObserved'
    BY <2>1 DEF ClaimsInv, ClaimsTypeOK, CallShape, StillObserved, Doubted
  <2> QED BY <2>2, <2>3 DEF ClaimsInv
<1> QED BY <1>1, <1>2

\* A new request comes from a live agent that has none.
LEMMA DispatchKeeps ==
  ASSUME Disciplined, ClaimsInv,
         NEW c \in Call, NEW a \in Agent, NEW p \in Path, NEW op \in {"read", "check"},
         NEW touch \in BOOLEAN, Dispatch(c, a, p, op, touch)
  PROVE  ClaimsInv'
<1>1. /\ presence' \in [Agent -> Presence]
      /\ \A b \in Agent : presence[b] = "live" => presence'[b] = "live"
      /\ \A b \in Agent : presence'[b] # presence[b] => ~Doubted(b)
      /\ presence'[a] = "live"
      /\ ~Calling(a)
  BY DEF Dispatch, Touched, MayReturn, Disciplined, ClaimsInv, ClaimsTypeOK, Presence
<1>2. /\ call[c].pc = "idle"
      /\ call' = [call EXCEPT ![c] = [pc |-> op, agent |-> a, path |-> p, seen |-> NoAgent, tries |-> 0]]
      /\ UNCHANGED <<claims, hk>>
  BY DEF Dispatch
<1>3. /\ granted' \in [Path -> SUBSET Agent]
      /\ \A q \in Path : granted'[q] \subseteq granted[q]
      /\ op = "check" => a \notin granted'[p]
  BY DEF Dispatch, ClaimsInv, ClaimsTypeOK
<1>4. ClaimsTypeOK' /\ CallShape'
  BY <1>1, <1>2, <1>3, ClaimsAssumption DEF ClaimsInv, ClaimsTypeOK, CallShape, CallState, Pc, Attempts
<1>5. CallersLive'
  BY <1>1, <1>2 DEF ClaimsInv, ClaimsTypeOK, CallShape, CallersLive, Calling
<1>6. StillObserved'
  BY <1>1, <1>2, <1>3 DEF ClaimsInv, ClaimsTypeOK, CallShape, StillObserved, Doubted
<1>7. GrantedLive'
  BY <1>1, <1>2, <1>3 DEF ClaimsInv, ClaimsTypeOK, GrantedLive
<1> QED BY <1>4, <1>5, <1>6, <1>7 DEF ClaimsInv

\* An answer without a grant, and a lost race.
LEMMA AnswerKeeps ==
  ASSUME ClaimsInv, NEW c \in Call, Answered(c) \/ Retry(c),
         UNCHANGED <<presence, claims, hk, granted>>, call[c].pc # "idle"
  PROVE  ClaimsInv'
<1>1. CASE Answered(c)
  BY <1>1, ClaimsAssumption DEF Answered, NoCall, ClaimsInv, ClaimsTypeOK, CallShape, CallersLive,
     StillObserved, GrantedLive, CallState, Pc, Attempts
<1>2. CASE Retry(c) /\ ~Answered(c)
  <2>1. call' = [call EXCEPT ![c].pc = "read", ![c].seen = NoAgent, ![c].tries = @ + 1]
        /\ call[c].tries + 1 < Attempts
    BY <1>2 DEF Retry
  <2>2. ClaimsTypeOK'
    BY <2>1 DEF ClaimsInv, ClaimsTypeOK, CallState, Pc, Attempts
  <2>3. CallShape' /\ CallersLive' /\ StillObserved' /\ GrantedLive'
    BY <2>1 DEF ClaimsInv, ClaimsTypeOK, CallShape, CallersLive, StillObserved, GrantedLive, CallState
  <2> QED BY <2>2, <2>3 DEF ClaimsInv
<1> QED BY <1>1, <1>2

\* A grant keeps the invariant when the caller is the holder afterwards and
\* nobody else could have counted on the path.
LEMMA GrantKeeps ==
  ASSUME ClaimsInv, NEW c \in Call, call[c].pc # "idle", Granted(c), UNCHANGED <<presence, hk>>,
         claims' = [claims EXCEPT ![call[c].path] = call[c].agent],
         \/ claims[call[c].path] \in {call[c].agent, NoAgent}
         \/ claims[call[c].path] \in Agent /\ presence[claims[call[c].path]] # "live"
  PROVE  ClaimsInv'
<1> DEFINE a == call[c].agent
           p == call[c].path
<1>1. a \in Agent /\ p \in Path /\ presence[a] = "live"
  BY DEF ClaimsInv, CallShape, CallersLive
<1>2. /\ call' = [call EXCEPT ![c] = NoCall]
      /\ granted' = [granted EXCEPT ![p] = @ \cup {a}]
  BY <1>1 DEF Granted, Answered
<1>3. granted[p] \subseteq {a}
  BY <1>1, ClaimsAssumption DEF ClaimsInv, ClaimsTypeOK, GrantedLive
<1>4. ClaimsTypeOK' /\ CallShape'
  BY <1>1, <1>2, ClaimsAssumption DEF ClaimsInv, ClaimsTypeOK, CallShape, CallState, NoCall, Pc, Attempts
<1>5. CallersLive'
  BY <1>1, <1>2, ClaimsAssumption DEF ClaimsInv, ClaimsTypeOK, CallShape, CallersLive, NoCall
<1>6. StillObserved'
  <2>1. SUFFICES ASSUME NEW d \in Call, d # c, call[d].pc # "idle"
                 PROVE  /\ call[d].pc \in {"refresh", "delete"} => claims'[call[d].path] = call[d].agent
                        /\ call[d].pc = "takeover" => presence[call[d].seen] # "live"
                        /\ call[d].pc \in {"check", "delete"} => call[d].agent \notin granted'[call[d].path]
    BY <1>1, <1>2 DEF ClaimsInv, ClaimsTypeOK, StillObserved, NoCall
  <2>2. call[d].agent # a /\ call[d].agent \in Agent /\ call[d].path \in Path
        /\ presence[call[d].agent] = "live"
    BY <2>1 DEF ClaimsInv, CallShape, CallersLive
  <2>3. call[d].pc \in {"refresh", "delete"} => claims'[call[d].path] = call[d].agent
    BY <1>1, <2>1, <2>2, ClaimsAssumption DEF ClaimsInv, ClaimsTypeOK, StillObserved
  <2>4. call[d].pc \in {"check", "delete"} => call[d].agent \notin granted'[call[d].path]
    BY <1>1, <1>2, <2>1, <2>2 DEF ClaimsInv, ClaimsTypeOK, StillObserved
  <2> QED BY <2>1, <2>3, <2>4 DEF ClaimsInv, StillObserved
<1>7. GrantedLive'
  BY <1>1, <1>2, <1>3 DEF ClaimsInv, ClaimsTypeOK, GrantedLive
<1> QED BY <1>4, <1>5, <1>6, <1>7 DEF ClaimsInv

\* A request that has read the holder is well-formed.
LEMMA ReadShape ==
  ASSUME call \in [Call -> CallState], NEW c \in Call,
         NEW x \in Pc, NEW h \in Agent \cup {NoAgent}
  PROVE  [call EXCEPT ![c].pc = x, ![c].seen = h] \in [Call -> CallState]
<1>1. [call[c] EXCEPT !.pc = x, !.seen = h] \in CallState
  BY DEF CallState
<1> QED BY <1>1

\* Every statement of a request.
LEMMA StatementKeeps ==
  ASSUME ClaimsInv, NEW c \in Call, Statement(c)
  PROVE  ClaimsInv'
<1>1. CASE ClaimRead(c)
  <2>1. call[c].pc = "read" /\ call[c].agent \in Agent /\ call[c].path \in Path
    BY <1>1 DEF ClaimsInv, ClaimRead, CallShape
  <2> DEFINE h == claims[call[c].path]
             pc1 == IF h = NoAgent THEN "insert" ELSE IF h = call[c].agent THEN "refresh" ELSE "liveness"
  <2>2. call' = [call EXCEPT ![c].pc = pc1, ![c].seen = h] /\ UNCHANGED <<presence, claims, hk, granted>>
    BY <1>1 DEF ClaimRead
  <2>3. h \in Agent \cup {NoAgent} /\ pc1 \in {"insert", "refresh", "liveness"}
    BY <2>1 DEF ClaimsInv, ClaimsTypeOK
  <2>4. ClaimsTypeOK'
    <3>1. pc1 \in Pc
      BY <2>3 DEF Pc
    <3> HIDE DEF h, pc1
    <3>2. call' \in [Call -> CallState]
      BY <2>2, <2>3, <3>1, ReadShape DEF ClaimsInv, ClaimsTypeOK
    <3> QED BY <2>2, <3>2 DEF ClaimsInv, ClaimsTypeOK
  <2>5. CallShape' /\ CallersLive' /\ StillObserved' /\ GrantedLive'
    <3> DEFINE new == [call[c] EXCEPT !.pc = pc1, !.seen = h]
    <3>1. /\ call \in [Call -> CallState] /\ call[c] \in CallState
          /\ CallShape /\ CallersLive /\ StillObserved /\ GrantedLive
      BY DEF ClaimsInv, ClaimsTypeOK
    <3>2. /\ pc1 = "refresh" => claims[call[c].path] = call[c].agent
          /\ pc1 = "liveness" => h \in Agent
      BY <2>3
    <3>3. new.pc = pc1 /\ new.seen = h /\ new.agent = call[c].agent /\ new.path = call[c].path
      BY <3>1 DEF CallState
    <3>4. call' = [call EXCEPT ![c] = new]
      BY <2>2
    <3> HIDE DEF new, h, pc1
    <3>5. call'[c] = new /\ \A d \in Call \ {c} : call'[d] = call[d]
      BY <3>1, <3>4
    <3>6. CallShape'
      BY <2>1, <2>3, <3>1, <3>2, <3>3, <3>5 DEF CallShape
    <3>7. \A d \in Call : call'[d].agent = call[d].agent /\ (call'[d].pc # "idle" => call[d].pc # "idle")
      BY <2>1, <3>3, <3>5
    <3>8. CallersLive'
      BY <2>2, <3>1, <3>7 DEF CallersLive
    <3>9. StillObserved'
      BY <2>2, <2>3, <3>1, <3>2, <3>3, <3>5 DEF StillObserved
    <3>10. GrantedLive'
      BY <2>2, <3>1 DEF GrantedLive
    <3> QED BY <3>6, <3>8, <3>9, <3>10
  <2> QED BY <2>4, <2>5 DEF ClaimsInv
<1>2. CASE ClaimInsert(c)
  <2>1. CASE claims[call[c].path] = NoAgent
    <3>1. /\ call[c].pc # "idle"
          /\ Granted(c)
          /\ UNCHANGED <<presence, hk>>
          /\ claims' = [claims EXCEPT ![call[c].path] = call[c].agent]
      BY <1>2, <2>1 DEF ClaimInsert
    <3> QED BY <2>1, <3>1, GrantKeeps
  <2>2. CASE claims[call[c].path] # NoAgent
    BY <1>2, <2>2, AnswerKeeps DEF ClaimInsert
  <2> QED BY <2>1, <2>2
<1>3. CASE ClaimRefresh(c)
  <2>1. claims' = [claims EXCEPT ![call[c].path] = call[c].agent] /\ claims[call[c].path] = call[c].agent
    BY <1>3 DEF ClaimsInv, ClaimRefresh, StillObserved, ClaimsTypeOK, CallShape
  <2>2. call[c].pc # "idle" /\ Granted(c) /\ UNCHANGED <<presence, hk>>
    BY <1>3 DEF ClaimRefresh
  <2> QED BY <2>1, <2>2, GrantKeeps
<1>4. CASE ClaimLiveness(c)
  <2>1. CASE presence[call[c].seen] = "live"
    BY <1>4, <2>1, AnswerKeeps DEF ClaimLiveness
  <2>2. CASE presence[call[c].seen] # "live"
    <3>1. /\ call' = [call EXCEPT ![c].pc = "takeover"]
          /\ UNCHANGED <<presence, claims, hk, granted>>
          /\ call[c].pc = "liveness"
      BY <1>4, <2>2 DEF ClaimLiveness
    <3>2. ClaimsTypeOK'
      BY <3>1 DEF ClaimsInv, ClaimsTypeOK, CallState, Pc
    <3>3. CallShape' /\ CallersLive' /\ StillObserved' /\ GrantedLive'
      BY <2>2, <3>1 DEF ClaimsInv, ClaimsTypeOK, CallShape, CallersLive, StillObserved, GrantedLive, CallState
    <3> QED BY <3>2, <3>3 DEF ClaimsInv
  <2> QED BY <2>1, <2>2
<1>5. CASE ClaimTakeover(c)
  <2>1. call[c].pc = "takeover" /\ call[c].seen \in Agent /\ presence[call[c].seen] # "live"
    BY <1>5 DEF ClaimsInv, ClaimTakeover, CallShape, StillObserved
  <2>2. CASE claims[call[c].path] = call[c].seen
    BY <1>5, <2>1, <2>2, GrantKeeps DEF ClaimTakeover
  <2>3. CASE claims[call[c].path] # call[c].seen
    BY <1>5, <2>3, AnswerKeeps DEF ClaimTakeover
  <2> QED BY <2>2, <2>3
<1>6. CASE ReleaseCheck(c)
  <2>1. CASE claims[call[c].path] # call[c].agent
    BY <1>6, <2>1, AnswerKeeps DEF ReleaseCheck
  <2>2. CASE claims[call[c].path] = call[c].agent
    <3>1. /\ call' = [call EXCEPT ![c].pc = "delete"]
          /\ UNCHANGED <<presence, claims, hk, granted>>
          /\ call[c].pc = "check"
      BY <1>6, <2>2 DEF ReleaseCheck
    <3>2. ClaimsTypeOK'
      BY <3>1 DEF ClaimsInv, ClaimsTypeOK, CallState, Pc
    <3>3. CallShape' /\ CallersLive' /\ StillObserved' /\ GrantedLive'
      BY <2>2, <3>1 DEF ClaimsInv, ClaimsTypeOK, CallShape, CallersLive, StillObserved, GrantedLive, CallState
    <3> QED BY <3>2, <3>3 DEF ClaimsInv
  <2> QED BY <2>1, <2>2
<1>7. CASE ReleaseDelete(c)
  <2> DEFINE a == call[c].agent
             p == call[c].path
  <2>1. a \in Agent /\ p \in Path /\ claims[p] = a /\ a \notin granted[p] /\ call[c].pc = "delete"
    BY <1>7 DEF ClaimsInv, ReleaseDelete, CallShape, StillObserved
  <2>2. /\ call' = [call EXCEPT ![c] = NoCall]
        /\ claims' = [claims EXCEPT ![p] = NoAgent]
        /\ UNCHANGED <<presence, hk, granted>>
    BY <1>7 DEF ReleaseDelete, Answered
  <2>3. ClaimsTypeOK' /\ CallShape'
    BY <2>1, <2>2, ClaimsAssumption DEF ClaimsInv, ClaimsTypeOK, CallShape, CallState, NoCall, Pc, Attempts
  <2>4. CallersLive'
    BY <2>1, <2>2, ClaimsAssumption DEF ClaimsInv, ClaimsTypeOK, CallShape, CallersLive, NoCall
  <2>5. StillObserved'
    BY <2>1, <2>2 DEF ClaimsInv, ClaimsTypeOK, CallShape, CallersLive, StillObserved, NoCall
  <2>6. GrantedLive'
    BY <2>1, <2>2 DEF ClaimsInv, ClaimsTypeOK, GrantedLive
  <2> QED BY <2>3, <2>4, <2>5, <2>6 DEF ClaimsInv
<1> QED BY <1>1, <1>2, <1>3, <1>4, <1>5, <1>6, <1>7 DEF Statement

\* Housekeep touches neither callers nor live holders; a crash ends requests.
LEMMA HousekeepKeeps ==
  ASSUME Disciplined, ClaimsInv,
         (\E S \in SUBSET Agent : PurgeAgents(S)) \/ PurgeClaims \/ DaemonCrash
  PROVE  ClaimsInv'
<1> USE DEF ClaimsInv
<1>1. ASSUME NEW S \in SUBSET Agent, PurgeAgents(S) PROVE ClaimsInv'
  <2>1. /\ presence' \in [Agent -> Presence]
        /\ \A b \in Agent : presence[b] = "live" => presence'[b] = "live"
        /\ \A b \in Agent : presence'[b] = "live" => presence[b] = "live"
        /\ hk' = "claims"
        /\ UNCHANGED <<claims, call, granted>>
    BY <1>1 DEF PurgeAgents, ClaimsTypeOK, Presence
  <2> QED BY <2>1 DEF ClaimsTypeOK, CallShape, CallersLive, StillObserved, GrantedLive
<1>2. CASE PurgeClaims
  <2>1. /\ claims' \in [Path -> Agent \cup {NoAgent}]
        /\ \A p \in Path : claims[p] \in Agent /\ presence[claims[p]] = "live" => claims'[p] = claims[p]
        /\ hk' = "idle"
        /\ UNCHANGED <<presence, call, granted>>
    BY <1>2 DEF PurgeClaims, ClaimsTypeOK
  <2> QED BY <2>1 DEF ClaimsTypeOK, CallShape, CallersLive, StillObserved, GrantedLive
<1>3. CASE DaemonCrash
  BY <1>3, ClaimsAssumption DEF DaemonCrash, NoCall, ClaimsTypeOK, CallShape, CallersLive, StillObserved,
     GrantedLive, CallState, Pc, Attempts
<1> QED BY <1>1, <1>2, <1>3

-----------------------------------------------------------------------------
(* The theorem *)

\* Among disciplined agents a grant means what it says: Claim's conditional
\* takeover, the primary key and the order of Release's two statements keep
\* every path with the agent that was last told it has it.
THEOREM GrantsHold == Disciplined => (ClaimsSpec => []GrantHolds)
<1> SUFFICES ASSUME Disciplined PROVE ClaimsSpec => []GrantHolds
  OBVIOUS
<1>1. Init => ClaimsInv
  BY ClaimsInvInit
<1>2. ClaimsInv /\ [Next]_claimsVars => ClaimsInv'
  <2> SUFFICES ASSUME ClaimsInv, [Next]_claimsVars PROVE ClaimsInv'
    OBVIOUS
  <2>1. CASE UNCHANGED claimsVars
    BY <2>1 DEF claimsVars, ClaimsInv, ClaimsTypeOK, CallShape, CallersLive, StillObserved, GrantedLive
  <2>2. CASE Next
    BY <2>2, PresenceKeeps, DispatchKeeps, StatementKeeps, HousekeepKeeps DEF Next
  <2> QED BY <2>1, <2>2
<1>3. ClaimsInv => GrantHolds
  BY DEF ClaimsInv, GrantedLive, GrantHolds
<1> QED BY <1>1, <1>2, <1>3, PTL DEF ClaimsSpec
-----------------------------------------------------------------------------
(* Types, whatever the agents do *)

\* A request under way names an agent and a path.
RequestsNamed == \A c \in Call : call[c].pc # "idle" => call[c].agent \in Agent /\ call[c].path \in Path

\* A statement of the request c leaves it in a new state.
LEMMA TypedStatement ==
  ASSUME ClaimsTypeOK, RequestsNamed, NEW c \in Call, Statement(c)
  PROVE  ClaimsTypeOK' /\ RequestsNamed'
<1>1. call[c] \in CallState /\ call[c].agent \in Agent /\ call[c].path \in Path
  BY DEF ClaimsTypeOK, RequestsNamed, Statement, ClaimRead, ClaimInsert, ClaimRefresh, ClaimLiveness,
         ClaimTakeover, ReleaseCheck, ReleaseDelete
<1>2. ASSUME NEW k \in CallState, call' = [call EXCEPT ![c] = k],
             k.pc # "idle" => k.agent \in Agent /\ k.path \in Path
      PROVE  call' \in [Call -> CallState] /\ RequestsNamed'
  BY <1>2 DEF ClaimsTypeOK, RequestsNamed
<1>3. NoCall \in CallState /\ NoCall.pc = "idle"
  BY DEF NoCall, CallState, Pc, Attempts
<1>4. ASSUME Answered(c) PROVE call' \in [Call -> CallState] /\ RequestsNamed'
  BY <1>2, <1>3, <1>4 DEF Answered
<1>5. ASSUME NEW pc \in Pc, call' = [call EXCEPT ![c].pc = pc]
      PROVE  call' \in [Call -> CallState] /\ RequestsNamed'
  <2> DEFINE k == [call[c] EXCEPT !.pc = pc]
  <2>1. k \in CallState /\ k.agent = call[c].agent /\ k.path = call[c].path
    BY <1>1 DEF CallState
  <2>2. call' = [call EXCEPT ![c] = k]
    BY <1>5
  <2> HIDE DEF k
  <2> QED BY <1>1, <1>2, <2>1, <2>2
<1>6. ASSUME Retry(c) PROVE call' \in [Call -> CallState] /\ RequestsNamed'
  <2>1. CASE Answered(c)
    BY <1>4, <2>1
  <2>2. CASE /\ call[c].tries + 1 < Attempts
             /\ call' = [call EXCEPT ![c].pc = "read", ![c].seen = NoAgent, ![c].tries = call[c].tries + 1]
    <3> DEFINE k == [call[c] EXCEPT !.pc = "read", !.seen = NoAgent, !.tries = call[c].tries + 1]
    <3>1. call[c].tries + 1 \in 0..Attempts - 1
      BY <1>1, <2>2 DEF CallState, Attempts
    <3>2. k \in CallState /\ k.agent = call[c].agent /\ k.path = call[c].path
      BY <1>1, <3>1 DEF CallState, Pc
    <3>3. call' = [call EXCEPT ![c] = k]
      BY <2>2
    <3> HIDE DEF k
    <3> QED BY <1>1, <1>2, <3>2, <3>3
  <2> QED BY <1>6, <2>1, <2>2 DEF Retry, ClaimsTypeOK
<1>7. ASSUME Granted(c)
      PROVE  call' \in [Call -> CallState] /\ RequestsNamed' /\ granted' \in [Path -> SUBSET Agent]
  BY <1>1, <1>4, <1>7 DEF Granted, ClaimsTypeOK
<1>8. CASE ClaimRead(c)
  <2> DEFINE h == claims[call[c].path]
             next == IF h = NoAgent THEN "insert" ELSE IF h = call[c].agent THEN "refresh" ELSE "liveness"
             k == [call[c] EXCEPT !.pc = next, !.seen = h]
  <2>1. h \in Agent \cup {NoAgent} /\ next \in Pc
    BY <1>1 DEF ClaimsTypeOK, Pc
  <2>2. call' = [call EXCEPT ![c] = k]
    BY <1>8 DEF ClaimRead
  <2> HIDE DEF h, next
  <2>3. k \in CallState /\ k.agent = call[c].agent /\ k.path = call[c].path
    BY <1>1, <2>1 DEF CallState
  <2> HIDE DEF k
  <2> QED BY <1>1, <1>2, <1>8, <2>2, <2>3 DEF ClaimRead, ClaimsTypeOK
<1>9. CASE ClaimInsert(c) \/ ClaimTakeover(c)
  <2>1. claims' \in [Path -> Agent \cup {NoAgent}] /\ UNCHANGED <<presence, hk>>
    BY <1>1, <1>9 DEF ClaimInsert, ClaimTakeover, ClaimsTypeOK
  <2>2. Granted(c) \/ (Retry(c) /\ granted' = granted)
    BY <1>9 DEF ClaimInsert, ClaimTakeover
  <2> QED BY <1>6, <1>7, <2>1, <2>2 DEF ClaimsTypeOK
<1>10. CASE ClaimRefresh(c)
  BY <1>7, <1>10 DEF ClaimRefresh, ClaimsTypeOK
<1>11. CASE ClaimLiveness(c) \/ ReleaseCheck(c)
  <2>1. /\ UNCHANGED <<presence, claims, hk, granted>>
        /\ Answered(c) \/ \E pc \in Pc : call' = [call EXCEPT ![c].pc = pc]
    BY <1>11 DEF ClaimLiveness, ReleaseCheck, Pc
  <2> QED BY <1>4, <1>5, <2>1 DEF ClaimsTypeOK
<1>12. CASE ReleaseDelete(c)
  BY <1>1, <1>4, <1>12 DEF ReleaseDelete, ClaimsTypeOK
<1> QED BY <1>8, <1>9, <1>10, <1>11, <1>12 DEF Statement

\* Whether agents are disciplined or not, the tables stay well formed and a
\* claim that keeps losing races gives up after its last attempt.
THEOREM ClaimsTyped == ClaimsSpec => []ClaimsTypeOK
<1>1. Init => ClaimsTypeOK /\ RequestsNamed
  BY ClaimsAssumption DEF Init, ClaimsTypeOK, RequestsNamed, NoCall, CallState, Pc, Presence, Attempts
<1>2. ClaimsTypeOK /\ RequestsNamed /\ [Next]_claimsVars => ClaimsTypeOK' /\ RequestsNamed'
  <2> SUFFICES ASSUME ClaimsTypeOK, RequestsNamed, [Next]_claimsVars
               PROVE  ClaimsTypeOK' /\ RequestsNamed'
    OBVIOUS
  <2>1. ASSUME NEW a \in Agent, NEW how \in {"decayed", "gone"}, Leave(a, how)
        PROVE  ClaimsTypeOK' /\ RequestsNamed'
    BY <2>1 DEF Leave, ClaimsTypeOK, RequestsNamed, Presence
  <2>2. ASSUME NEW a \in Agent, Register(a) \/ Heartbeat(a)
        PROVE  ClaimsTypeOK' /\ RequestsNamed'
    BY <2>2 DEF Register, Heartbeat, Touched, ClaimsTypeOK, RequestsNamed, Presence
  <2>3. ASSUME NEW c \in Call, NEW a \in Agent, NEW p \in Path, NEW op \in {"read", "check"},
               NEW touch \in BOOLEAN, Dispatch(c, a, p, op, touch)
        PROVE  ClaimsTypeOK' /\ RequestsNamed'
    <3> DEFINE k == [pc |-> op, agent |-> a, path |-> p, seen |-> NoAgent, tries |-> 0]
    <3>1. k \in CallState /\ k.agent = a /\ k.path = p
      BY <2>3 DEF CallState, Pc, Attempts
    <3>2. /\ call' = [call EXCEPT ![c] = k] /\ UNCHANGED <<claims, hk>>
          /\ presence' \in [Agent -> Presence] /\ granted' \in [Path -> SUBSET Agent]
      BY <2>3 DEF Dispatch, Touched, ClaimsTypeOK, Presence
    <3> HIDE DEF k
    <3> QED BY <2>3, <3>1, <3>2 DEF ClaimsTypeOK, RequestsNamed
  <2>4. ASSUME NEW c \in Call, Statement(c) PROVE ClaimsTypeOK' /\ RequestsNamed'
    BY <2>4, TypedStatement
  <2>5. ASSUME NEW S \in SUBSET Agent, PurgeAgents(S) PROVE ClaimsTypeOK' /\ RequestsNamed'
    BY <2>5 DEF PurgeAgents, ClaimsTypeOK, RequestsNamed, Presence
  <2>6. CASE PurgeClaims
    BY <2>6 DEF PurgeClaims, ClaimsTypeOK, RequestsNamed
  <2>7. CASE DaemonCrash
    BY <2>7 DEF DaemonCrash, ClaimsTypeOK, RequestsNamed, NoCall, CallState, Pc, Attempts
  <2>8. CASE UNCHANGED claimsVars
    BY <2>8 DEF claimsVars, ClaimsTypeOK, RequestsNamed
  <2> QED BY <2>1, <2>2, <2>3, <2>4, <2>5, <2>6, <2>7, <2>8 DEF Next
<1> QED BY <1>1, <1>2, PTL DEF ClaimsSpec
=============================================================================
