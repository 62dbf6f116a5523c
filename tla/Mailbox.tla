------------------------------ MODULE Mailbox -------------------------------
(***************************************************************************)
(* Identities and mail of one workspace (internal/store/store.go,          *)
(* history.go, names.go) behind the daemon's dispatch: registration and    *)
(* naming of sessions and their subagents, sending, broadcasting, reading, *)
(* notices, and the part of Housekeep that drops mail and agents.          *)
(*                                                                         *)
(* A request is a goroutine that runs a program of phases; one action is   *)
(* one SQL statement or transaction, and requests and Housekeep interleave *)
(* between them.  Sessions name agents durably (an agent id is a hash of   *)
(* its session id), names only while the row lives: most statements look   *)
(* rows up by name.                                                        *)
(*                                                                         *)
(* Abstracted: ages (a row is fresh or silent, a message new, a week or a  *)
(* month old), bodies and previews, other workspaces and callers that name *)
(* no session, whom the daemon trusts.  A name is a base and its numbers:  *)
(* <<"amber-fox", 2>> is amber-fox-2, <<"amber-fox", 1, 3>> a subagent     *)
(* amber-fox/sub-3.                                                        *)
(***************************************************************************)
EXTENDS Integers, Sequences, FiniteSets

CONSTANTS
  Session,        \* session ids, subagents' included
  Parent,         \* [Session -> Session \cup {NoSession}]: the parent of a subagent
  Base,           \* [Session -> names]: friendlyName
  NoSession,      \* no parent
  Call,           \* requests the daemon may be serving at once
  Work,           \* bound: [Call -> requests <<caller, who, op>> made through it]
  Ages,           \* bound: the sessions that may fall silent
  MaxSuffix,      \* the last number a name is tried with (49; 50 for a subagent)
  MaxMsgs,        \* bound: messages sent
  PurgesMidCall   \* may Housekeep purge a row while a request for it is served?

ASSUME MailboxAssumption ==
  /\ NoSession \notin Session
  /\ Parent \in [Session -> Session \cup {NoSession}]
  /\ \A s \in Session : Parent[s] # NoSession => Parent[Parent[s]] = NoSession
  /\ Work \in [Call -> SUBSET (Session \X Session \X
                {"register", "event", "idle", "deregister", "read", "send", "broadcast"})]
  /\ Ages \subseteq Session
  /\ MaxSuffix \in Nat \ {0}
  /\ MaxMsgs \in Nat
  /\ PurgesMidCall \in BOOLEAN

VARIABLES
  row,      \* the agents table: [Session -> Row]
  msg,      \* the messages table: [Msg -> MsgState]
  dlv,      \* the deliveries table: [Msg -> [Session -> Delivery]]
  call,     \* requests being served: [Call -> CallState]
  hk,       \* the daemon: down, or the statement Housekeep comes to next
  told,     \* history: names a registration answered with, while the row lives
  handed    \* history: the callers a delivery was handed to by a read

mailVars == <<row, msg, dlv, call, hk, told, handed>>

-----------------------------------------------------------------------------
(* State *)

Msg == 1..MaxMsgs
Top == {s \in Session : Parent[s] = NoSession}
Name == {<<Base[s], n>> : s \in Session, n \in 1..MaxSuffix}
        \cup {<<Base[s], n, k>> : s \in Session, n \in 1..MaxSuffix, k \in 1..MaxSuffix}
NoName == <<>>

\* A silent row has decayed, and may be two hours old.
Row == [here: BOOLEAN, name: Name \cup {NoName}, gone: BOOLEAN, silent: BOOLEAN]
NoRow == [here |-> FALSE, name |-> NoName, gone |-> FALSE, silent |-> FALSE]

MsgState == {"unsent", "new", "week", "month", "deleted"}
Delivery == {"none", "new", "noticed", "read"}

Phase == {"register", "child", "parent", "name", "gone", "idle", "notices",
          "resolve", "touch", "lookup", "drain", "send", "broadcast"}
Step == {"select", "update", "count", "insert", "reselect"}
Op == {"register", "event", "idle", "deregister", "read", "send", "broadcast"}
CallState == [op: Op \cup {"none"}, caller: Session \cup {NoSession},
              who: Session \cup {NoSession}, prog: Seq(Phase), step: Step,
              name: Name \cup {NoName}, to: Name \cup {NoName}]
NoCall == [op |-> "none", caller |-> NoSession, who |-> NoSession, prog |-> <<>>,
           step |-> "select", name |-> NoName, to |-> NoName]

HkPc == {"down", "idle", "month", "orphans", "agents", "recipients"}

Init ==
  /\ row = [s \in Session |-> NoRow]
  /\ msg = [m \in Msg |-> "unsent"]
  /\ dlv = [m \in Msg |-> [s \in Session |-> "none"]]
  /\ call = [c \in Call |-> NoCall]
  /\ hk = "idle"
  /\ told = [s \in Session |-> {}]
  /\ handed = [m \in Msg |-> [s \in Session |-> {}]]

\* The type invariant.
MailboxTypeOK ==
  /\ row \in [Session -> Row]
  /\ msg \in [Msg -> MsgState]
  /\ dlv \in [Msg -> [Session -> Delivery]]
  /\ call \in [Call -> CallState]
  /\ hk \in HkPc
  /\ told \in [Session -> SUBSET Name]
  /\ handed \in [Msg -> [Session -> SUBSET Session]]

-----------------------------------------------------------------------------
(* Rows and names *)

Named(n) == {s \in Session : row[s].here /\ row[s].name = n}
live(s) == row[s].here /\ ~row[s].gone /\ ~row[s].silent
Fresh(s) == [row EXCEPT ![s].gone = FALSE, ![s].silent = FALSE]

\* The next suffix of a candidate.
Bumped(n) == [n EXCEPT ![Len(n)] = @ + 1]
LastSuffix(n) == n[Len(n)] = MaxSuffix

\* The mail a reader or a nudge of s is shown.
Shown(s, states) == {m \in Msg : msg[m] \notin {"unsent", "deleted"} /\ dlv[m][s] \in states}

-----------------------------------------------------------------------------
(* Requests *)

\* What dispatch does for an operation, phase by phase; a request that names a
\* subagent registers it first.
Program(op, s) ==
  LET sub == IF Parent[s] # NoSession THEN <<"child">> ELSE <<>>
  IN  CASE op = "register" -> IF sub # <<>> THEN sub ELSE <<"register">>
        [] op = "event" -> sub \o <<"register", "notices">>
        [] op = "idle" -> sub \o <<"idle", "notices">>
        [] op = "deregister" -> <<"gone">>
        [] op = "read" -> <<"resolve", "touch", "lookup", "drain">>
        [] op = "send" -> <<"resolve", "touch", "send">>
        [] op = "broadcast" -> sub \o <<"resolve", "touch", "broadcast">>

\* The sessions whose rows a request relies on.
Uses(c) == {call[c].caller, call[c].who}
InUse(s) == \E c \in Call : s \in Uses(c)

\* A request of the session caller, on its own behalf or a subagent's; a
\* message goes to a name some agent has now.
Dispatch(c, caller, who, op, to) ==
  /\ hk # "down"
  /\ call[c].op = "none"
  /\ <<caller, who, op>> \in Work[c]
  /\ who = caller \/ Parent[who] = caller
  /\ Parent[caller] = NoSession
  /\ IF op = "send" THEN Named(to) # {} ELSE to = NoName
  /\ call' = [call EXCEPT ![c] =
       [op |-> op, caller |-> caller, who |-> who, prog |-> Program(op, who),
        step |-> "select", name |-> NoName, to |-> to]]
  /\ UNCHANGED <<row, msg, dlv, hk, told, handed>>

\* The request is answered; a registration with a name.
Answer(c, name) ==
  /\ call' = [call EXCEPT ![c] = NoCall]
  /\ told' = IF call[c].op = "register" /\ name # NoName
               THEN [told EXCEPT ![call[c].who] = @ \cup {name}] ELSE told

\* The phases that act under the name that was resolved.
Acting == {"touch", "lookup", "send", "broadcast"}

\* The current phase is over and has found name.  A parent's name is what
\* its subagent's is derived from.
PhaseDone(c, name) ==
  LET rest == Tail(call[c].prog)
  IN  IF rest = <<>> THEN Answer(c, name)
      ELSE /\ call' = [call EXCEPT ![c].prog = rest,
                         ![c].name = CASE Head(rest) = "name" -> Append(name, 1)
                                       [] Head(rest) \in Acting -> name
                                       [] OTHER -> NoName,
                         ![c].step = IF Head(rest) = "name" THEN "count" ELSE "select"]
           /\ UNCHANGED told

At(c, phases) == call[c].op # "none" /\ Head(call[c].prog) \in phases
Registering(c, step) ==
  At(c, {"register", "child", "parent", "name"}) /\ call[c].step = step

\* The row the current phase is about.
Subject(c) == IF Head(call[c].prog) = "parent" THEN Parent[call[c].who] ELSE call[c].who

-----------------------------------------------------------------------------
(* register and RegisterChild *)

\* SELECT name: a known session is refreshed, a new one gets a name, and a
\* new subagent first has its parent registered.
RegisterSelect(c) ==
  /\ Registering(c, "select")
  /\ LET s == Subject(c)
     IN  call' =
           IF row[s].here THEN [call EXCEPT ![c].step = "update", ![c].name = row[s].name]
           ELSE IF Head(call[c].prog) = "child"
             THEN [call EXCEPT ![c].prog = <<"parent", "name">> \o Tail(@)]
             ELSE [call EXCEPT ![c].step = "count", ![c].name = <<Base[s], 1>>]
  /\ UNCHANGED <<row, msg, dlv, hk, told, handed>>

\* The UPDATE may find no row any more; the name is returned all the same.
RegisterUpdate(c) ==
  /\ Registering(c, "update")
  /\ row' = IF row[Subject(c)].here THEN Fresh(Subject(c)) ELSE row
  /\ PhaseDone(c, call[c].name)
  /\ UNCHANGED <<msg, dlv, hk, handed>>

\* The next name of the loop, or an error after the last.
NextName(c) ==
  IF LastSuffix(call[c].name)
    THEN Answer(c, NoName)
    ELSE call' = [call EXCEPT ![c].name = Bumped(@), ![c].step = "count"] /\ UNCHANGED told

\* SELECT COUNT(*).
RegisterCount(c) ==
  /\ Registering(c, "count")
  /\ IF Named(call[c].name) = {}
       THEN call' = [call EXCEPT ![c].step = "insert"] /\ UNCHANGED told
       ELSE NextName(c)
  /\ UNCHANGED <<row, msg, dlv, hk, handed>>

\* INSERT: the primary key or the unique index on names may refuse it.
RegisterInsert(c) ==
  /\ Registering(c, "insert")
  /\ LET s == Subject(c)
     IN  IF ~row[s].here /\ Named(call[c].name) = {}
           THEN /\ row' = [row EXCEPT ![s] =
                     [here |-> TRUE, name |-> call[c].name, gone |-> FALSE, silent |-> FALSE]]
                /\ PhaseDone(c, call[c].name)
           ELSE /\ call' = [call EXCEPT ![c].step = "reselect"]
                /\ UNCHANGED <<row, told>>
  /\ UNCHANGED <<msg, dlv, hk, handed>>

\* Mutant of RegisterReselect: a lost race always means the name was taken.
RegisterReselectName(c) ==
  /\ Registering(c, "reselect")
  /\ IF row[Subject(c)].here
       THEN PhaseDone(c, call[c].name)
       ELSE NextName(c)
  /\ UNCHANGED <<row, msg, dlv, hk, handed>>

\* A lost race: a concurrent registration of the same session won, whose name
\* it is, or another session took the name.
RegisterReselect(c) ==
  /\ Registering(c, "reselect")
  /\ IF row[Subject(c)].here
       THEN PhaseDone(c, row[Subject(c)].name)
       ELSE NextName(c)
  /\ UNCHANGED <<row, msg, dlv, hk, handed>>

-----------------------------------------------------------------------------
(* Status and identity *)

\* SetStatus: an UPDATE that finds no row changes nothing.
SetStatus(c) ==
  /\ At(c, {"gone", "idle"})
  /\ row' = IF row[call[c].who].here
              THEN [Fresh(call[c].who) EXCEPT ![call[c].who].gone = (Head(call[c].prog) = "gone")]
              ELSE row
  /\ PhaseDone(c, NoName)
  /\ UNCHANGED <<msg, dlv, hk, handed>>

\* Mutant of ResolveActor: the actor is found by name, whoever asks.
ResolveActorAnyone(c) ==
  /\ At(c, {"resolve"})
  /\ \E s \in Session : row[s].here /\ PhaseDone(c, row[s].name)
  /\ UNCHANGED <<row, msg, dlv, hk, handed>>

\* ResolveActor: the caller's own row, or that of a subagent whose parent's
\* row is here.  From now on the request knows its actor by name.
ResolveActor(c) ==
  /\ At(c, {"resolve"})
  /\ LET s == call[c].who
     IN  IF row[s].here /\ row[call[c].caller].here
           THEN PhaseDone(c, row[s].name) ELSE Answer(c, NoName)
  /\ UNCHANGED <<row, msg, dlv, hk, handed>>

\* Touch: the heartbeat of the calling session; never resurrects a gone one.
TouchCaller(c) ==
  /\ At(c, {"touch"})
  /\ LET s == call[c].caller
     IN  row' = IF row[s].here /\ ~row[s].gone THEN Fresh(s) ELSE row
  /\ PhaseDone(c, call[c].name)
  /\ UNCHANGED <<msg, dlv, hk, handed>>

-----------------------------------------------------------------------------
(* Mail *)

\* INSERT INTO messages and deliveries.
Post(targets) ==
  \E m \in Msg :
    /\ msg[m] = "unsent" /\ \A k \in 1..m - 1 : msg[k] # "unsent"
    /\ msg' = [msg EXCEPT ![m] = "new"]
    /\ dlv' = [dlv EXCEPT ![m] = [s \in Session |-> IF s \in targets THEN "new" ELSE "none"]]

Room == \E m \in Msg : msg[m] = "unsent"

\* SendToScope, one transaction: sender and recipient are looked up by name.
SendTo(c) ==
  /\ At(c, {"send"})
  /\ LET to == Named(call[c].to)
     IN  IF Named(call[c].name) # {} /\ to # {} /\ Room
           THEN Post(to) ELSE UNCHANGED <<msg, dlv>>
  /\ PhaseDone(c, NoName)
  /\ UNCHANGED <<row, hk, handed>>

\* Broadcast: everyone live but the sender.
Broadcast(c) ==
  /\ At(c, {"broadcast"})
  /\ LET from == Named(call[c].name)
     IN  IF from # {} /\ Room THEN Post({s \in Session : live(s)} \ from)
         ELSE UNCHANGED <<msg, dlv>>
  /\ PhaseDone(c, NoName)
  /\ UNCHANGED <<row, hk, handed>>

\* read looks the name up again; who now stands for the row that has it.
ReadLookup(c) ==
  /\ At(c, {"lookup"})
  /\ LET s == Named(call[c].name)
     IN  IF s = {} THEN Answer(c, NoName)
         ELSE /\ call' = [call EXCEPT ![c].prog = Tail(@), ![c].name = NoName,
                                        ![c].who = CHOOSE x \in s : TRUE]
              /\ UNCHANGED told
  /\ UNCHANGED <<row, msg, dlv, hk, handed>>

\* Collect and mark are one transaction.
ReadDrain(c) ==
  /\ At(c, {"drain"})
  /\ LET s == call[c].who
         shown == Shown(s, {"new", "noticed"})
     IN  /\ dlv' = [m \in Msg |-> IF m \in shown THEN [dlv[m] EXCEPT ![s] = "read"] ELSE dlv[m]]
         /\ handed' = [m \in Msg |-> IF m \in shown
              THEN [handed[m] EXCEPT ![s] = @ \cup {call[c].caller}] ELSE handed[m]]
  /\ PhaseDone(c, NoName)
  /\ UNCHANGED <<row, msg, hk>>

\* Mutant of Notices: a subagent's turn drains the notices of its parent.
NoticesOfCaller(c) ==
  /\ At(c, {"notices"})
  /\ LET s == call[c].caller
     IN  dlv' = [m \in Msg |->
           IF m \in Shown(s, {"new"}) THEN [dlv[m] EXCEPT ![s] = "noticed"] ELSE dlv[m]]
  /\ PhaseDone(c, NoName)
  /\ UNCHANGED <<row, msg, hk, handed>>

\* noticesFor, by agent id: unread mail not yet announced is announced, once.
Notices(c) ==
  /\ At(c, {"notices"})
  /\ LET s == call[c].who
     IN  dlv' = [m \in Msg |->
           IF m \in Shown(s, {"new"}) THEN [dlv[m] EXCEPT ![s] = "noticed"] ELSE dlv[m]]
  /\ PhaseDone(c, NoName)
  /\ UNCHANGED <<row, msg, hk, handed>>

-----------------------------------------------------------------------------
(* Time, Housekeep and crashes *)

\* A session is silent for longer than any request lasts.
FallSilent(s) ==
  /\ row[s].here
  /\ ~InUse(s)
  /\ row' = [row EXCEPT ![s].silent = TRUE]
  /\ UNCHANGED <<msg, dlv, call, hk, told, handed>>

\* Housekeep reads the clock once, so what passes an age while it runs is the
\* next one's.
AgeMessage(m) ==
  /\ hk = "idle"
  /\ msg[m] \in {"new", "week"}
  /\ msg' = [msg EXCEPT ![m] = IF @ = "new" THEN "week" ELSE "month"]
  /\ UNCHANGED <<row, dlv, call, hk, told, handed>>

Delivered(m) == {s \in Session : dlv[m][s] # "none"}

\* Mutant of PurgeRead: one reader is enough.
PurgeReadBySome ==
  /\ hk = "idle"
  /\ msg' = [m \in Msg |->
       IF msg[m] \in {"week", "month"} /\ \E s \in Delivered(m) : dlv[m][s] = "read"
         THEN "deleted" ELSE msg[m]]
  /\ hk' = "month"
  /\ UNCHANGED <<row, dlv, call, told, handed>>

\* Messages a week old that all their recipients have read.
PurgeRead ==
  /\ hk = "idle"
  /\ msg' = [m \in Msg |->
       IF msg[m] \in {"week", "month"} /\ Delivered(m) # {}
          /\ \A s \in Delivered(m) : dlv[m][s] = "read"
         THEN "deleted" ELSE msg[m]]
  /\ hk' = "month"
  /\ UNCHANGED <<row, dlv, call, told, handed>>

PurgeMonth ==
  /\ hk = "month"
  /\ msg' = [m \in Msg |-> IF msg[m] = "month" THEN "deleted" ELSE msg[m]]
  /\ hk' = "orphans"
  /\ UNCHANGED <<row, dlv, call, told, handed>>

PurgeOrphans ==
  /\ hk = "orphans"
  /\ dlv' = [m \in Msg |-> IF msg[m] = "deleted" THEN [s \in Session |-> "none"] ELSE dlv[m]]
  /\ hk' = "agents"
  /\ UNCHANGED <<row, msg, call, told, handed>>

\* Rows two hours old, whatever their status: S of the silent ones.
PurgeAgents(S) ==
  /\ hk = "agents"
  /\ \A s \in S : row[s].silent /\ (PurgesMidCall \/ ~InUse(s))
  /\ row' = [s \in Session |-> IF s \in S THEN NoRow ELSE row[s]]
  /\ told' = [s \in Session |-> IF s \in S THEN {} ELSE told[s]]
  /\ hk' = "recipients"
  /\ UNCHANGED <<msg, dlv, call, handed>>

\* Deliveries of recipients without a row; a session that has registered
\* again meanwhile keeps its mail.
PurgeRecipients ==
  /\ hk = "recipients"
  /\ dlv' = [m \in Msg |-> [s \in Session |-> IF row[s].here THEN dlv[m][s] ELSE "none"]]
  /\ hk' = "idle"
  /\ UNCHANGED <<row, msg, call, told, handed>>

\* The daemon dies with everything it was doing; the tables stay.
DaemonCrash ==
  /\ hk # "down"
  /\ call' = [c \in Call |-> NoCall]
  /\ hk' = "down"
  /\ UNCHANGED <<row, msg, dlv, told, handed>>

\* The next client starts it again.
DaemonStart ==
  /\ hk = "down"
  /\ hk' = "idle"
  /\ UNCHANGED <<row, msg, dlv, call, told, handed>>

-----------------------------------------------------------------------------
Statement(c) ==
  \/ RegisterSelect(c)
  \/ RegisterUpdate(c)
  \/ RegisterCount(c)
  \/ RegisterInsert(c)
  \/ RegisterReselect(c)
  \/ SetStatus(c)
  \/ ResolveActor(c)
  \/ TouchCaller(c)
  \/ SendTo(c)
  \/ Broadcast(c)
  \/ ReadLookup(c)
  \/ ReadDrain(c)
  \/ Notices(c)

\* A Housekeep that finds nothing to purge changes nothing.
Purgeable == (\E s \in Session : row[s].silent) \/ (\E m \in Msg : msg[m] \in {"week", "month"})

Housekeep ==
  \/ Purgeable /\ PurgeRead
  \/ PurgeMonth
  \/ PurgeOrphans
  \/ \E S \in SUBSET Ages : PurgeAgents(S)
  \/ PurgeRecipients

Next ==
  \/ \E c \in Call, caller \in Session, who \in Session, op \in Op,
        to \in {row[t].name : t \in Session} \cup {NoName} :
       Dispatch(c, caller, who, op, to)
  \/ \E c \in Call : Statement(c)
  \/ \E s \in Ages : FallSilent(s)
  \/ \E m \in Msg : AgeMessage(m)
  \/ Housekeep
  \/ DaemonCrash
  \/ DaemonStart

MailboxSpec == Init /\ [][Next]_mailVars

\* The sessions whose hooks report tool events or the end of a turn.
Hooked == {s \in Session : \E c \in Call, caller \in Session, op \in {"event", "idle"} :
                            <<caller, s, op>> \in Work[c]}
HookFires(s) == \E c \in Call, caller \in Session, op \in {"event", "idle"} :
                  Dispatch(c, caller, s, op, NoName)

\* Requests are served, an agent that works fires its hooks, and the daemon
\* does not die again and again for ever.
FairMailboxSpec ==
  /\ MailboxSpec
  /\ \A c \in Call : WF_mailVars(Statement(c))
  /\ \A s \in Hooked : SF_mailVars(HookFires(s))
  /\ WF_mailVars(DaemonStart)
  /\ <>[][~DaemonCrash]_mailVars

-----------------------------------------------------------------------------
(* Properties *)

\* However its registrations race with each other, with rivals for the name
\* and with crashes, every registration of a session is answered with the name
\* its row has.
NamesAgree == \A s \in Session : told[s] \subseteq {row[s].name}

\* The state is well typed, and NamesAgree.
MailboxInv == MailboxTypeOK /\ NamesAgree

\* ResolveActor's comment: "no session can act as - or drain the inbox of -
\* another agent".
OwnMailOnly ==
  \A m \in Msg, s \in Session : handed[m][s] \subseteq {s, Parent[s]}

\* Unread mail is lost only with its recipient's row, or after a month: one
\* recipient's reading does not cost another its copy, and a nudge is no
\* reading.
UnreadKept ==
  [][\A m \in Msg, s \in Session :
       /\ dlv[m][s] \in {"new", "noticed"} /\ dlv'[m][s] = "none"
          => ~row[s].here \/ msg[m] = "deleted"
       /\ msg[m] \in {"new", "week"} /\ msg'[m] = "deleted"
          => dlv[m][s] \in {"none", "read"}]_mailVars

\* Mail is announced to the agent it is for, or read by it, unless it is lost
\* with its row: a daemon that died between a send and the next tool event
\* makes no difference.
MailAnnounced ==
  \A m \in Msg, s \in Hooked : (dlv[m][s] = "new") ~> (dlv[m][s] # "new" \/ msg[m] = "deleted")
=============================================================================
