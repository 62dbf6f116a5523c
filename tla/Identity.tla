------------------------------ MODULE Identity -------------------------------
(***************************************************************************)
(* How an agent session comes to one identity: the hooks of its harness    *)
(* (internal/hookcli/hookcli.go) register it and leave a bind file next to *)
(* the daemon's state (internal/hookcli/bind.go), and the MCP server that  *)
(* the same harness process starts (internal/mcpserv/mcpserv.go) adopts    *)
(* that registration instead of minting its own.                           *)
(*                                                                         *)
(* A host is a harness process; it runs sessions one after the other       *)
(* (another one begins with /clear) and MCP servers one after the other.   *)
(* A hook is a process of at most two visible steps, a request to the      *)
(* daemon and a change of the bind file, in the order its event gives      *)
(* them; a host runs one hook at a time, next to the calls of its server.  *)
(* Requests may fail: hooks ignore that, the server reports it.            *)
(*                                                                         *)
(* Abstracted: rows to none, live or gone; names, which follow the rows;   *)
(* time stamps (sessions are younger than bindMaxAge, and of several binds *)
(* that are equally near any may be the newest); pids to the distance      *)
(* between two hosts.                                                      *)
(***************************************************************************)
EXTENDS Naturals, FiniteSets

CONSTANTS
  Host,        \* harness processes of one workspace
  Distance,    \* [Host -> [Host -> Nat]]: depth at which a server of the first finds an ancestor of the second
  matchDepth,  \* how far up a server looks
  MaxSess,     \* bound: [Host -> Nat], sessions of a host
  MaxServers,  \* bound: [Host -> Nat], MCP servers of a host
  Events,      \* bound: [Host -> event kinds], what a harness reports
  None         \* no session

\* A server's parent is its own harness and no other.
ASSUME IdentityAssumption ==
  /\ Distance \in [Host -> [Host -> Nat]]
  /\ \A g \in Host, h \in Host : Distance[g][h] = 0 <=> g = h
  /\ matchDepth \in Nat \ {0}
  /\ MaxSess \in [Host -> Nat] /\ MaxServers \in [Host -> Nat]
  /\ Events \in [Host -> SUBSET {"start", "end", "event", "tool"}]

VARIABLES
  host,    \* [Host -> [alive, num, open]]: the process and its session
  row,     \* the agents table: [Id -> {"none", "live", "gone"}]
  bind,    \* the bind files: [Host -> Id \cup {None}], by anchor pid
  hook,    \* [Host -> [todo, sess]]: the hook process
  mcp,     \* [Host -> the MCP server]
  left     \* history: minted rows a server left live on purpose, unheard or killed

idVars == <<host, row, bind, hook, mcp, left>>

-----------------------------------------------------------------------------
(* State *)

\* Session ids: the harness's, and those servers mint for themselves.
HookId == UNION {[by: {"hook"}, of: {h}, num: 1 .. MaxSess[h]] : h \in Host}
MintId == UNION {[by: {"mcp"}, of: {h}, num: 1 .. MaxServers[h]] : h \in Host}
Id == HookId \cup MintId

ASSUME NoneAssumption == None \notin Id

Current(h) == [by |-> "hook", of |-> h, num |-> host[h].num]
Minted(h, k) == [by |-> "mcp", of |-> h, num |-> k]

\* What a hook does for its event, in this order.
Work(ev) ==
  CASE ev = "start" -> <<"register", "write">>
    [] ev = "end"   -> <<"remove", "retire">>
    [] ev = "event" -> <<"refresh", "event">>
    [] ev = "tool"  -> <<"event", "refresh">>

Todo == {<<>>} \cup {Work(ev) : ev \in {"start", "end", "event", "tool"}}
               \cup {<<w>> : w \in {"write", "retire", "event", "refresh"}}

\* A server is down or up; due is the session it should act for, as of the
\* beginning of the call, and pc where the call is.
Server == [ up: {TRUE}, num: Nat, sess: Id, named: BOOLEAN, bound: BOOLEAN,
            pc: {"idle", "match", "check", "register", "file", "act"},
            explicit: BOOLEAN, due: HookId \cup {None}, fresh: BOOLEAN ]

DownServer == [ up: {FALSE}, num: Nat, sess: {None}, named: {FALSE}, bound: {FALSE},
                pc: {"idle"}, explicit: {FALSE}, due: {None}, fresh: {FALSE} ]

Down(k) == [ up |-> FALSE, num |-> k, sess |-> None, named |-> FALSE, bound |-> FALSE,
             pc |-> "idle", explicit |-> FALSE, due |-> None, fresh |-> FALSE ]

Init ==
  /\ host = [h \in Host |-> [alive |-> TRUE, num |-> 0, open |-> FALSE]]
  /\ row = [s \in Id |-> "none"]
  /\ bind = [h \in Host |-> None]
  /\ hook = [h \in Host |-> [todo |-> <<>>, sess |-> None]]
  /\ mcp = [h \in Host |-> Down(0)]
  /\ left = {}

\* The type invariant; a server that is up has a session id.
IdentityTypeOK ==
  /\ host \in [Host -> [alive: BOOLEAN, num: Nat, open: BOOLEAN]]
  /\ row \in [Id -> {"none", "live", "gone"}]
  /\ bind \in [Host -> Id \cup {None}]
  /\ hook \in [Host -> [todo: Todo, sess: HookId \cup {None}]]
  /\ mcp \in [Host -> Server \cup DownServer]
  /\ left \subseteq MintId

-----------------------------------------------------------------------------
(* The agents table *)

\* Register and RecordEvent: the row is there and live.
Registered(s) == [row EXCEPT ![s] = "live"]

\* SetStatus: no row, no effect.
SetStatus(s, to) == [row EXCEPT ![s] = IF @ = "none" THEN @ ELSE to]

hasLiveHookAgents == \E s \in HookId : row[s] = "live"

\* Nobody is using s any more.
Unused(s) ==
  /\ hook[s.of].sess # s
  /\ ~(host[s.of].alive /\ host[s.of].open /\ Current(s.of) = s)
  /\ \A h \in Host : mcp[h].sess # s

\* Status decays with silence, and Housekeep purges what is gone.
Decay(s) ==
  /\ row[s] # "none"
  /\ Unused(s)
  /\ row' = [row EXCEPT ![s] = IF @ = "live" THEN "gone" ELSE "none"]
  /\ UNCHANGED <<host, bind, hook, mcp, left>>

-----------------------------------------------------------------------------
(* Hooks *)

\* The harness reports an event of the current session; a start may be the
\* same session's again, after a resume or a compaction.
HookRun(h, ev) ==
  /\ host[h].alive
  /\ ev \in Events[h]
  /\ hook[h].todo = <<>>
  /\ CASE ev = "start" -> \/ host[h].open /\ UNCHANGED host
                          \/ /\ ~host[h].open /\ host[h].num < MaxSess[h]
                             /\ host' = [host EXCEPT ![h].num = @ + 1, ![h].open = TRUE]
       [] ev = "end" -> host[h].open /\ host' = [host EXCEPT ![h].open = FALSE]
       [] OTHER -> host[h].open /\ UNCHANGED host
  /\ hook' = [hook EXCEPT ![h] = [todo |-> Work(ev),
                                  sess |-> [by |-> "hook", of |-> h, num |-> host'[h].num]]]
  /\ UNCHANGED <<row, bind, mcp, left>>

Doing(h, w) == hook[h].todo # <<>> /\ hook[h].todo[1] = w

\* The hook's next step, or its exit.
HookGoesOn(h) ==
  hook' = [hook EXCEPT ![h] =
    IF DOMAIN hook[h].todo = 1 .. 2 THEN [@ EXCEPT !.todo = <<hook[h].todo[2]>>]
                                    ELSE [todo |-> <<>>, sess |-> None]]

\* One request to the daemon.  A turn's end reports the session idle, which
\* makes no row; every other event does.
HookTrip(h) ==
  LET s == hook[h].sess
  IN  /\ \/ Doing(h, "register") /\ row' = Registered(s)
         \/ Doing(h, "event") /\ row' \in {Registered(s), SetStatus(s, "live")}
         \/ Doing(h, "retire") /\ row' = SetStatus(s, "gone")
      /\ HookGoesOn(h)
      /\ UNCHANGED <<host, bind, mcp, left>>

\* The daemon cannot be reached: a start hook gives up, a tool hook goes on.
HookTripFails(h) ==
  /\ \E w \in {"register", "event", "retire"} : Doing(h, w)
  /\ IF Doing(h, "register")
       THEN hook' = [hook EXCEPT ![h] = [todo |-> <<>>, sess |-> None]]
       ELSE HookGoesOn(h)
  /\ UNCHANGED <<host, row, bind, mcp, left>>

WriteBind(h, s) == bind' = [bind EXCEPT ![h] = s]

\* Mutant of HookFile: a missing bind is not written again.
HookFileOnce(h) ==
  LET s == hook[h].sess
  IN  /\ \/ Doing(h, "write") /\ WriteBind(h, s)
         \/ Doing(h, "refresh") /\ UNCHANGED bind
         \/ Doing(h, "remove") /\ bind' = [bind EXCEPT ![h] = None]
      /\ HookGoesOn(h)
      /\ UNCHANGED <<host, row, mcp, left>>

\* writeBindFile, refreshBindFile, removeBindFile.
HookFile(h) ==
  LET s == hook[h].sess
  IN  /\ \/ Doing(h, "write") /\ WriteBind(h, s)
         \/ Doing(h, "refresh") /\ bind[h] = None /\ WriteBind(h, s)
         \/ Doing(h, "refresh") /\ bind[h] # None /\ UNCHANGED bind
         \/ Doing(h, "remove") /\ bind' = [bind EXCEPT ![h] = None]
      /\ HookGoesOn(h)
      /\ UNCHANGED <<host, row, mcp, left>>

\* The harness exits, with or without having reported the end; the file stays.
HostExits(h) ==
  /\ host[h].alive
  /\ host' = [host EXCEPT ![h].alive = FALSE, ![h].open = FALSE]
  /\ hook' = [hook EXCEPT ![h] = [todo |-> <<>>, sess |-> None]]
  /\ UNCHANGED <<row, bind, mcp, left>>

-----------------------------------------------------------------------------
(* The MCP server *)

\* Serve: a new server has a session id of its own and no name yet.
ServerStarts(h) ==
  /\ host[h].alive
  /\ ~mcp[h].up /\ mcp[h].num < MaxServers[h]
  /\ LET k == mcp[h].num + 1
     IN  mcp' = [mcp EXCEPT ![h] = [Down(k) EXCEPT !.up = TRUE, !.sess = Minted(h, k)]]
  /\ UNCHANGED <<host, row, bind, hook, left>>

Leave(s) == left' = left \cup ({s} \cap MintId)

\* Mutant of ServerStops: the row is retired whoever it belongs to.
ServerStopsRetires(h) ==
  /\ mcp[h].up /\ mcp[h].pc = "idle"
  /\ row' = IF mcp[h].named THEN SetStatus(mcp[h].sess, "gone") ELSE row
  /\ mcp' = [mcp EXCEPT ![h] = Down(mcp[h].num)]
  /\ UNCHANGED <<host, bind, hook, left>>

\* Stdin ends between two calls: deregister retires only a self-minted row,
\* if the daemon hears of it.
ServerStops(h) ==
  /\ mcp[h].up /\ mcp[h].pc = "idle"
  /\ \/ /\ mcp[h].named /\ ~mcp[h].bound
        /\ row' = SetStatus(mcp[h].sess, "gone")
        /\ UNCHANGED left
     \/ /\ UNCHANGED row
        /\ Leave(mcp[h].sess)
  /\ mcp' = [mcp EXCEPT ![h] = Down(mcp[h].num)]
  /\ UNCHANGED <<host, bind, hook>>

\* The server is killed in the middle of a call.
ServerKilled(h) ==
  /\ mcp[h].up /\ (mcp[h].pc # "idle" \/ ~host[h].alive)
  /\ mcp' = [mcp EXCEPT ![h] = Down(mcp[h].num)]
  /\ Leave(mcp[h].sess)
  /\ UNCHANGED <<host, row, bind, hook>>

\* The session a call is due to: the host's, once its bind is in place.
Due(h) ==
  IF host[h].open /\ bind[h] = Current(h) THEN Current(h) ELSE None

\* A tool call that needs an identity; register_agent asks for it explicitly.
CallTool(h, explicit) ==
  /\ host[h].alive
  /\ mcp[h].up /\ mcp[h].pc = "idle"
  /\ mcp' = [mcp EXCEPT ![h].pc = "match", ![h].explicit = explicit,
                        ![h].due = Due(h), ![h].fresh = ~mcp[h].bound]
  /\ UNCHANGED <<host, row, bind, hook, left>>

\* Mutant of MatchBind: any ancestor in common will do.
MatchBindDeep(h) ==
  {g \in Host : bind[g] # None /\ host[g].alive}

\* The nearest binds of live, young anchors within matchDepth.
MatchBind(h) ==
  LET near == {g \in Host : /\ bind[g] # None /\ host[g].alive
                            /\ Distance[h][g] < matchDepth}
  IN  {g \in near : \A f \in near : Distance[h][g] <= Distance[h][f]}

\* Where ensureRegistered goes once it knows its session id.
AfterMatch(m) ==
  IF m.named /\ ~m.explicit THEN "act"
  ELSE IF m.bound \/ m.explicit THEN "register" ELSE "check"

\* Mutant of Adopt: the minted row is left behind.
AdoptLeaving(h, g) ==
  /\ mcp[h].pc = "match" /\ ~mcp[h].bound
  /\ g \in MatchBind(h)
  /\ LET m == [mcp[h] EXCEPT !.sess = bind[g], !.named = FALSE, !.bound = TRUE]
     IN  mcp' = [mcp EXCEPT ![h] = [m EXCEPT !.pc = AfterMatch(m)]]
  /\ UNCHANGED <<host, row, bind, hook, left>>

\* ensureRegistered finds a bind: the minted row, if any, is retired (unless
\* the daemon does not hear of it) and the identity switched.
Adopt(h, g) ==
  /\ mcp[h].pc = "match" /\ ~mcp[h].bound
  /\ g \in MatchBind(h)
  /\ \/ /\ mcp[h].named
        /\ row' = SetStatus(mcp[h].sess, "gone")
        /\ UNCHANGED left
     \/ /\ UNCHANGED row
        /\ Leave(mcp[h].sess)
  /\ LET m == [mcp[h] EXCEPT !.sess = bind[g], !.named = FALSE, !.bound = TRUE]
     IN  mcp' = [mcp EXCEPT ![h] = [m EXCEPT !.pc = AfterMatch(m)]]
  /\ UNCHANGED <<host, bind, hook>>

\* Mutant of KeepIdentity: a server that has a name keeps it.
KeepIdentityNamed(h) ==
  /\ mcp[h].pc = "match"
  /\ mcp[h].bound \/ mcp[h].named \/ MatchBind(h) = {}
  /\ mcp' = [mcp EXCEPT ![h].pc = AfterMatch(mcp[h])]
  /\ UNCHANGED <<host, row, bind, hook, left>>

\* It finds none, or is bound already.
KeepIdentity(h) ==
  /\ mcp[h].pc = "match"
  /\ mcp[h].bound \/ MatchBind(h) = {}
  /\ mcp' = [mcp EXCEPT ![h].pc = AfterMatch(mcp[h])]
  /\ UNCHANGED <<host, row, bind, hook, left>>

\* The call is over.
Returned(m) == [m EXCEPT !.pc = "idle", !.explicit = FALSE, !.due = None, !.fresh = FALSE]

\* RegisterIfNoLiveHook: a new row is refused while hook agents are live.
CheckNoLiveHook(h) ==
  /\ mcp[h].pc = "check"
  /\ mcp' = [mcp EXCEPT ![h] =
       IF row[@.sess] = "none" /\ hasLiveHookAgents THEN Returned(@) ELSE [@ EXCEPT !.pc = "register"]]
  /\ UNCHANGED <<host, row, bind, hook, left>>

\* Register: the row is live again, the server has a name.
ServerRegisters(h) ==
  /\ mcp[h].pc = "register"
  /\ row' = Registered(mcp[h].sess)
  /\ mcp' = [mcp EXCEPT ![h].named = TRUE,
                        ![h].pc = IF mcp[h].explicit THEN "file" ELSE "act"]
  /\ UNCHANGED <<host, bind, hook, left>>

\* The daemon cannot be reached.
ServerTripFails(h) ==
  /\ mcp[h].pc \in {"check", "register"}
  /\ mcp' = [mcp EXCEPT ![h] = Returned(@)]
  /\ UNCHANGED <<host, row, bind, hook, left>>

\* bindConnection: bound, with a bind file for the next server.
BindConnection(h) ==
  /\ mcp[h].pc = "file"
  /\ WriteBind(h, mcp[h].sess)
  /\ mcp' = [mcp EXCEPT ![h].bound = TRUE, ![h].pc = "act"]
  /\ UNCHANGED <<host, row, hook, left>>

\* The operation itself, under the session id: Touch keeps a live row fresh.
Act(h) ==
  /\ mcp[h].pc = "act"
  /\ mcp' = [mcp EXCEPT ![h] = Returned(@)]
  /\ UNCHANGED <<host, row, bind, hook, left>>

-----------------------------------------------------------------------------
(* Specification *)

HookStep(h) == HookTrip(h) \/ HookTripFails(h) \/ HookFile(h)

CallStep(h) ==
  \/ \E g \in Host : Adopt(h, g)
  \/ KeepIdentity(h) \/ CheckNoLiveHook(h) \/ ServerRegisters(h) \/ ServerTripFails(h)
  \/ BindConnection(h) \/ Act(h)

Next ==
  \/ \E h \in Host :
       \/ \E ev \in {"start", "end", "event", "tool"} : HookRun(h, ev)
       \/ HookStep(h) \/ HostExits(h)
       \/ ServerStarts(h) \/ ServerStops(h) \/ ServerKilled(h)
       \/ \E explicit \in BOOLEAN : CallTool(h, explicit)
       \/ CallStep(h)
  \/ \E s \in Id : Decay(s)

IdentitySpec == Init /\ [][Next]_idVars

\* Hooks and calls run to their end, sessions go on reporting events and the
\* model goes on calling tools.
FairIdentitySpec ==
  /\ IdentitySpec
  /\ \A h \in Host : WF_idVars(HookStep(h))
  /\ WF_idVars(\E h \in Host : CallStep(h))
  /\ SF_idVars(\E h \in Host : HookRun(h, "event"))
  /\ SF_idVars(\E h \in Host : CallTool(h, FALSE))

-----------------------------------------------------------------------------
(* Properties *)

\* "a sibling ... session must not be adopted": a server acts under an
\* identity of its own host, whatever bind files the others leave.
OwnIdentity == \A h \in Host : mcp[h].up => mcp[h].sess.of = h

\* The state is well typed, and OwnIdentity.
IdentityInv == IdentityTypeOK /\ OwnIdentity

\* "never deregister it": a hook's row goes from live to gone only when its
\* own session reports the end or nobody uses it any more; servers stop, are
\* killed and switch identities without retiring it.
HookRowKept ==
  [][\A s \in HookId : row[s] = "live" /\ row'[s] # "live" =>
       Unused(s) \/ (Doing(s.of, "retire") /\ hook[s.of].sess = s)]_idVars

\* The session the call is due to goes on.
StillDue(h) == host[h].open /\ mcp[h].due = Current(h)

\* "one session stays one inbox": a call that begins when the session's bind
\* is in place, on a server that is not bound yet, acts as that session as
\* long as it lasts, whatever name an early call was given.
FreshServerAdopts ==
  \A h \in Host : mcp[h].pc = "act" /\ mcp[h].fresh /\ StillDue(h) => mcp[h].sess = mcp[h].due

\* The same of every server: bound or not, a call made in a session whose
\* bind is in place acts as that session.
ActsAsSession ==
  \A h \in Host : mcp[h].pc = "act" /\ StillDue(h) => mcp[h].sess = mcp[h].due

\* "late adoption then retires the minted row": a minted row among the live
\* has a server that acts under it, or one that could not or meant not to
\* retire it; no agent that nobody is stays on the board.
NoGhosts == \A s \in MintId : row[s] = "live" => mcp[s.of].sess = s \/ s \in left

\* A server comes to its session's identity even if the start hook could not
\* reach the daemon or was late: later events put the bind in place.
Adopted ==
  \A h \in Host :
    host[h].open /\ mcp[h].up ~> mcp[h].bound \/ ~host[h].open \/ ~mcp[h].up
=============================================================================
