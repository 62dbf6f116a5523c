----------------------------- MODULE EyesLedger -----------------------------
(***************************************************************************)
(* The daemon's ledger of host-eyes tasks (internal/store/eyes.go) with    *)
(* the agent rows it depends on (internal/store/store.go and relay.go) and *)
(* the housekeeping that expires tasks and purges rows.                    *)
(*                                                                         *)
(* One action is one daemon request or one SQL transaction.  The store has *)
(* a single connection, so transactions are serial; the sweep and the      *)
(* purges of Housekeep are several transactions and interleave with        *)
(* requests.  A refused request changes nothing but the caller's           *)
(* last_seen, which is what Heartbeat does.                                *)
(*                                                                         *)
(* Abstracted: names, secrets and message bodies; the workspace of a       *)
(* requester (a Requester stands for a workspace and an agent id           *)
(* together); ordinary mail; progress samples.  The child session          *)
(* "eyes-<task>" is represented by the task id itself.                     *)
(***************************************************************************)
EXTENDS Integers, Sequences, FiniteSets

CONSTANTS
  Task,             \* task ids the daemon may mint
  Launcher,         \* broker sessions
  Requester,        \* agents that may ask for eyes
  HostScope,        \* reserved scopes host:<COMPUTERNAME>
  Runtime,          \* provider names
  Parent,           \* [Requester -> Requester \cup {NoSession}]: bound parent
  Provides,         \* [Launcher -> SUBSET Runtime]: providers it advertises
  AnyRuntime,       \* a brief that names no runtime
  NoSession,        \* the session-less unix client; also "no parent"
  NoScope,          \* the scope field of a row that is not a launcher's
  DeadlineAsk,      \* values of deadline_s in a request
  DeadlineDefault,  \* eyesDeadlineDefault
  DeadlineMax,      \* eyesDeadlineMax
  LauncherWindow,   \* launcherWindow
  AgentTTL,         \* two hours without a heartbeat purge an agent row
  Retention,        \* one day without an update purges a task
  Sessionless,      \* bound: do unix clients act without naming a session?
  Retires,          \* bound: the agents that may deregister
  MaxTime,          \* bound: the clock stops here
  LastRequest       \* bound: no task is requested after this time

Agent == Requester \cup Launcher \cup Task

ASSUME SetsAssumption ==
  /\ Requester \cap Launcher = {}
  /\ Requester \cap Task = {}
  /\ Launcher \cap Task = {}
  /\ NoSession \notin Agent
  /\ NoScope \notin HostScope
  /\ AnyRuntime \notin Runtime
  /\ Retires \subseteq Agent
  /\ Sessionless \in BOOLEAN
  /\ Parent \in [Requester -> Requester \cup {NoSession}]
  /\ Provides \in [Launcher -> SUBSET Runtime]

\* The orders of magnitude the comments of store.go and eyes.go rely on:
\* 300s and 1800s deadlines, a 30s polling window, two hours, one day.
ASSUME TimesAssumption ==
  /\ DeadlineAsk \subseteq Int
  /\ DeadlineDefault \in Nat
  /\ DeadlineMax \in Nat
  /\ DeadlineDefault <= DeadlineMax
  /\ LauncherWindow \in Nat
  /\ AgentTTL \in Nat
  /\ DeadlineMax + LauncherWindow <= AgentTTL
  /\ Retention \in Nat
  /\ DeadlineMax <= Retention
  /\ MaxTime \in Nat
  /\ LastRequest \in Nat

VARIABLES
  now,      \* the daemon's clock
  agents,   \* the agents table: [Agent -> Row]
  task,     \* the eyes_tasks table: [Task -> TaskRow]
  mail,     \* ledger mail of each task in message-id order: [Task -> Seq(Mail)]
  hk        \* the watchdog goroutine running ExpireEyesTasks or Housekeep

ledgerVars == <<now, agents, task, mail, hk>>

-----------------------------------------------------------------------------
(* Rows *)

Row == [here: BOOLEAN, gone: BOOLEAN, seen: Nat, scope: HostScope \cup {NoScope}]
NoRow == [here |-> FALSE, gone |-> FALSE, seen |-> 0, scope |-> NoScope]

Live == {"queued", "accepted"}
TaskState == Live \cup {"none", "done", "failed", "cancelled", "purged"}

TaskRow == [state: TaskState, launcher: Launcher \cup {NoSession},
            lscope: HostScope \cup {NoScope}, requester: Requester \cup {NoSession},
            deadline: Nat, acked: BOOLEAN, created: Nat, updated: Nat]
NoTask(s) == [state |-> s, launcher |-> NoSession, lscope |-> NoScope,
              requester |-> NoSession, deadline |-> 0, acked |-> FALSE,
              created |-> 0, updated |-> 0]

\* To the launcher: "launch", "cancel".  To the requester: the other three.
Mail == {"launch", "cancel", "accepted", "done", "failed"}

HkPc == {"idle", "sweep", "agents", "tasks"}
Hk == [pc: HkPc, full: BOOLEAN, at: Nat, todo: SUBSET Task]
IdleHk == [pc |-> "idle", full |-> FALSE, at |-> 0, todo |-> {}]

Init ==
  /\ now = 0
  /\ agents = [a \in Agent |-> NoRow]
  /\ task = [t \in Task |-> NoTask("none")]
  /\ mail = [t \in Task |-> <<>>]
  /\ hk = IdleHk

\* The type invariant: every table holds well-formed rows.
TypeOK ==
  /\ now \in Nat
  /\ agents \in [Agent -> Row]
  /\ task \in [Task -> TaskRow]
  /\ mail \in [Task -> Seq(Mail)]
  /\ hk \in Hk

-----------------------------------------------------------------------------
(* Presence *)

\* Touch refreshes a row, but never one that is explicitly gone.
Touch(s) ==
  IF s \in Agent /\ agents[s].here /\ ~agents[s].gone
    THEN [agents EXCEPT ![s].seen = now]
    ELSE agents

\* Any identified call that leaves the ledger alone, a refused one included.
Heartbeat(s) ==
  /\ agents[s].here
  /\ agents' = Touch(s)
  /\ UNCHANGED <<now, task, mail, hk>>

Register(r) ==
  /\ agents' = [agents EXCEPT ![r] =
       [here |-> TRUE, gone |-> FALSE, seen |-> now, scope |-> NoScope]]
  /\ UNCHANGED <<now, task, mail, hk>>

\* A relay session names one row: a registration in another scope is refused
\* for as long as the first row exists.
RegisterRelay(l, h) ==
  /\ agents[l].here => agents[l].scope = h
  /\ agents' = [agents EXCEPT ![l] =
       [here |-> TRUE, gone |-> FALSE, seen |-> now, scope |-> h]]
  /\ UNCHANGED <<now, task, mail, hk>>

Deregister(s) ==
  /\ agents[s].here
  /\ agents' = [agents EXCEPT ![s].gone = TRUE, ![s].seen = now]
  /\ UNCHANGED <<now, task, mail, hk>>

\* The sessions through which a request may act as r: its own, its parent's
\* while the parent's row is here, or a unix client that names no session.
CallersFor(r) ==
  {r} \cup {p \in {Parent[r]} \cap Requester : agents[p].here}
      \cup (IF Sessionless THEN {NoSession} ELSE {})

-----------------------------------------------------------------------------
(* The task lifecycle *)

\* Mutant of HoldsBroker: a cancel hands the broker back at once.
HoldsBrokerLive(t) == task[t].state \in Live

\* taskHoldsBroker and EyesTask.unsettled
HoldsBroker(t) ==
  \/ task[t].state \in Live
  \/ task[t].state = "cancelled" /\ ~task[t].acked

eyesDeadline(d) ==
  CASE d <= 0 -> DeadlineDefault
    [] d > DeadlineMax -> DeadlineMax
    [] OTHER -> d

\* The brokers pickLauncher considers, and the runtime test it applies.
Polling(l) ==
  agents[l].here /\ ~agents[l].gone /\ agents[l].seen >= now - LauncherWindow
Matches(l, rt) ==
  IF rt = AnyRuntime THEN Provides[l] # {} ELSE rt \in Provides[l]
\* Mutant of Busy: a cancelled task frees its broker at once.
BusyOnlyWhileLive(l) ==
  \E t \in Task : task[t].launcher = l /\ task[t].state \in Live

Busy(l) == \E t \in Task : task[t].launcher = l /\ HoldsBroker(t)

\* The brokers the query may return first: match, then free, then most recent.
pickLauncher(rt) ==
  LET free == {l \in Launcher : Polling(l) /\ Matches(l, rt) /\ ~Busy(l)}
  IN  {l \in free : \A k \in free : agents[k].seen <= agents[l].seen}

AssignEyesTask(r, t, l, d) ==
  /\ task[t].state = "none"
  /\ task' = [task EXCEPT ![t] =
       [state |-> "queued", launcher |-> l, lscope |-> agents[l].scope,
        requester |-> r, deadline |-> eyesDeadline(d), acked |-> FALSE,
        created |-> now, updated |-> now]]
  /\ mail' = [mail EXCEPT ![t] = Append(@, "launch")]

RequestEyes(r, via, rt, d, t) ==
  /\ now <= LastRequest
  /\ agents[r].here
  /\ via \in CallersFor(r)
  /\ \E l \in pickLauncher(rt) : AssignEyesTask(r, t, l, d)
  /\ agents' = Touch(via)
  /\ UNCHANGED <<now, hk>>

Role == {"launcher", "child", "requester", "system", "none"}

\* Mutant of eyesEdges: a late accept revives a task the sweep has failed.
eyesEdgesLateAccept(to, role) ==
  CASE to = "accepted" /\ role = "launcher" -> {"queued", "failed"}
    [] to = "done" /\ role = "child" -> {"accepted"}
    [] to = "failed" /\ role = "child" -> Live
    [] to = "failed" /\ role = "launcher" -> {"queued"}
    [] to = "failed" /\ role = "system" -> Live
    [] to = "cancelled" /\ role = "requester" -> Live
    [] OTHER -> {}

\* The states from which a role may move a task, per target state.
eyesEdges(to, role) ==
  CASE to = "accepted" /\ role = "launcher" -> {"queued"}
    [] to = "done" /\ role = "child" -> {"accepted"}
    [] to = "failed" /\ role = "child" -> Live
    [] to = "failed" /\ role = "launcher" -> {"queued"}
    [] to = "failed" /\ role = "system" -> Live
    [] to = "cancelled" /\ role = "requester" -> Live
    [] OTHER -> {}

\* actsFor: the owner, or an agent whose parent row is the owner's.
actsFor(r, owner) ==
  \/ r = owner
  \/ agents[r].here /\ Parent[r] = owner /\ agents[owner].here

\* eyesRole: which side of task t the authenticated caller a is.
eyesRole(t, a) ==
  CASE a = t /\ agents[a].here -> "child"
    [] a = task[t].launcher /\ agents[a].here /\ agents[a].scope = task[t].lscope -> "launcher"
    [] a \in Requester /\ task[t].requester \in Requester
         /\ actsFor(a, task[t].requester) -> "requester"
    [] OTHER -> "none"

\* Does a terminal report on a cancelled task answer its cancel?
acksCancel(t, role, to) ==
  \/ role = "child" /\ to \in {"done", "failed"}
  \/ role = "launcher" /\ to = "failed" /\ ~agents[t].here
  \/ role = "system" /\ to = "failed"

LauncherHere(t) ==
  LET l == task[t].launcher
  IN  l \in Launcher /\ agents[l].here /\ agents[l].scope = task[t].lscope
RequesterHere(t) ==
  task[t].requester \in Requester /\ agents[task[t].requester].here

\* eyesMail succeeds: only an expiry tolerates a missing requester.
MailResolves(t, role) == role = "system" \/ RequesterHere(t)

\* ... and has somebody to tell (and, for an expiry, somebody to speak).
MailDelivers(t, role) ==
  CASE role = "requester" -> LauncherHere(t)
    [] role = "system" -> RequesterHere(t) /\ (agents[t].here \/ LauncherHere(t))
    [] OTHER -> TRUE

\* Mutant of MailOf: the cancel is sent under the name of its state.
MailOfState(to) == to

MailOf(to) == IF to = "cancelled" THEN "cancel" ELSE to

\* The outcome of moveEyesTask for a caller of this role.
MoveOutcome(t, role, to) ==
  LET s == task[t].state
  IN  IF s \in {"none", "purged"} \/ eyesEdges(to, role) = {} THEN "refused"
      ELSE IF s = to THEN "noop"
      ELSE IF s = "cancelled" /\ acksCancel(t, role, to) THEN "acked"
      ELSE IF s \in eyesEdges(to, role) /\ MailResolves(t, role) THEN "moved"
      ELSE "refused"

\* Mutant of moveEyesTask: the report that acknowledges a cancel is mailed too.
moveEyesTaskMailsAck(t, role, to) ==
  LET out == MoveOutcome(t, role, to)
  IN  /\ task' = CASE out = "moved" -> [task EXCEPT ![t].state = to, ![t].updated = now]
                   [] out = "acked" -> [task EXCEPT ![t].acked = TRUE]
                   [] OTHER -> task
      /\ mail' = IF out \in {"moved", "acked"} /\ MailDelivers(t, role)
                   THEN [mail EXCEPT ![t] = Append(@, MailOf(to))]
                   ELSE mail

\* The one write path of the ledger: state and mail in one transaction.
moveEyesTask(t, role, to) ==
  LET out == MoveOutcome(t, role, to)
  IN  /\ task' = CASE out = "moved" -> [task EXCEPT ![t].state = to, ![t].updated = now]
                   [] out = "acked" -> [task EXCEPT ![t].acked = TRUE]
                   [] OTHER -> task
      /\ mail' = IF out = "moved" /\ MailDelivers(t, role)
                   THEN [mail EXCEPT ![t] = Append(@, MailOf(to))]
                   ELSE mail

\* A broker or a child reporting in: taskReport, then TransitionEyesTask.
TaskReport(a, t, to) ==
  /\ agents[a].here
  /\ MoveOutcome(t, eyesRole(t, a), to) \in {"moved", "acked"}
  /\ moveEyesTask(t, eyesRole(t, a), to)
  /\ agents' = Touch(a)
  /\ UNCHANGED <<now, hk>>

CancelEyes(r, via, t) ==
  /\ agents[r].here
  /\ via \in CallersFor(r)
  /\ MoveOutcome(t, eyesRole(t, r), "cancelled") = "moved"
  /\ moveEyesTask(t, eyesRole(t, r), "cancelled")
  /\ agents' = Touch(via)
  /\ UNCHANGED <<now, hk>>

\* May the launcher mint (again) the child of this task?
ReissueAllowed(l, t) ==
  /\ task[t].launcher = l
  /\ HoldsBroker(t)
  /\ LauncherHere(t)

ReissueEyesChild(l, t) ==
  /\ ReissueAllowed(l, t)
  /\ agents' = [agents EXCEPT ![t] =
       [here |-> TRUE, gone |-> FALSE, seen |-> now, scope |-> NoScope]]
  /\ UNCHANGED <<now, task, mail, hk>>

-----------------------------------------------------------------------------
(* The watchdog: the deadline sweep, and Housekeep around it *)

\* Mutant of Expired: the sweep overlooks a cancel nobody answered.
ExpiredLiveOnly(t, at) ==
  task[t].state \in Live /\ task[t].created + task[t].deadline < at

Expired(t, at) == HoldsBroker(t) /\ task[t].created + task[t].deadline < at

\* Mutant of StartSweep: Housekeep goes straight to its purges.
StartSweepNotInHousekeep(full) ==
  /\ hk.pc = "idle"
  /\ hk' = [pc |-> "sweep", full |-> full, at |-> now,
            todo |-> IF full THEN {} ELSE {t \in Task : Expired(t, now)}]
  /\ UNCHANGED <<now, agents, task, mail>>

\* ExpireEyesTasks takes its snapshot; Housekeep (full) does so first of all.
StartSweep(full) ==
  /\ hk.pc = "idle"
  /\ hk' = [pc |-> "sweep", full |-> full, at |-> now,
            todo |-> {t \in Task : Expired(t, now)}]
  /\ UNCHANGED <<now, agents, task, mail>>

SweepTask(t) ==
  /\ hk.pc = "sweep"
  /\ t \in hk.todo
  /\ moveEyesTask(t, "system", "failed")
  /\ hk' = [hk EXCEPT !.todo = @ \ {t}]
  /\ UNCHANGED <<now, agents>>

EndSweep ==
  /\ hk.pc = "sweep"
  /\ hk.todo = {}
  /\ hk' = IF hk.full THEN [hk EXCEPT !.pc = "agents"] ELSE IdleHk
  /\ UNCHANGED <<now, agents, task, mail>>

PurgeAgents ==
  /\ hk.pc = "agents"
  /\ agents' = [a \in Agent |-> IF agents[a].seen < hk.at - AgentTTL THEN NoRow ELSE agents[a]]
  /\ hk' = [hk EXCEPT !.pc = "tasks"]
  /\ UNCHANGED <<now, task, mail>>

PurgeTasks ==
  /\ hk.pc = "tasks"
  /\ task' = [t \in Task |->
       IF task[t].state # "none" /\ task[t].updated < hk.at - Retention
         THEN NoTask("purged") ELSE task[t]]
  /\ hk' = IdleHk
  /\ UNCHANGED <<now, agents, mail>>

\* The daemon is killed part-way; the database keeps what was committed.
DaemonCrash ==
  /\ hk.pc # "idle"
  /\ hk' = IdleHk
  /\ UNCHANGED <<now, agents, task, mail>>

Tick ==
  /\ now < MaxTime
  /\ now' = now + 1
  /\ UNCHANGED <<agents, task, mail, hk>>

-----------------------------------------------------------------------------
Watchdog ==
  \/ \E full \in BOOLEAN : StartSweep(full)
  \/ \E t \in Task : SweepTask(t)
  \/ EndSweep
  \/ PurgeAgents
  \/ PurgeTasks

Next ==
  \/ Tick
  \/ \E s \in Agent : Heartbeat(s)
  \/ \E s \in Retires : Deregister(s)
  \/ \E r \in Requester : Register(r)
  \/ \E l \in Launcher, h \in HostScope : RegisterRelay(l, h)
  \/ \E r \in Requester, via \in Requester \cup {NoSession},
        rt \in Runtime \cup {AnyRuntime}, d \in DeadlineAsk, t \in Task :
          RequestEyes(r, via, rt, d, t)
  \/ \E r \in Requester, via \in Requester \cup {NoSession}, t \in Task : CancelEyes(r, via, t)
  \/ \E a \in Launcher \cup Task, t \in Task, to \in {"accepted", "done", "failed"} :
          TaskReport(a, t, to)
  \/ \E l \in Launcher, t \in Task : ReissueEyesChild(l, t)
  \/ Watchdog
  \/ DaemonCrash

Spec == Init /\ [][Next]_ledgerVars

\* The clock advances and the watchdog's ticker keeps firing; a task that is
\* in one interrupted sweep after another is eventually reached by one.
Fairness ==
  /\ WF_ledgerVars(Tick)
  /\ WF_ledgerVars(Watchdog)
  /\ \A t \in Task : SF_ledgerVars(SweepTask(t))

FairSpec == Spec /\ Fairness

-----------------------------------------------------------------------------
(* Properties *)

\* No broker is ever reserved by two tasks: AssignEyesTask picks and inserts
\* in one transaction, and a cancelled task keeps its broker until it is
\* acknowledged or swept.
BrokerExclusive ==
  \A t, u \in Task :
    t # u /\ HoldsBroker(t) /\ HoldsBroker(u) => task[t].launcher # task[u].launcher

\* While a task holds its broker, the row of that broker is still in the
\* workspace the task recorded.  Housekeep purges launchers and tasks
\* independently; it is the sweep it runs first, and the 30 minute bound on a
\* deadline, that keep a purge from stranding a task nobody could cancel.
HeldTaskHasLauncher ==
  \A t \in Task : HoldsBroker(t) => LauncherHere(t)

\* What the purges rely on: every task that had run out when Housekeep took
\* its snapshot is still on the sweep's list or no longer holds a broker, and
\* none is left once the purges begin, whatever was requested, accepted or
\* cancelled while the sweep ran.
PurgesAfterSweep ==
  /\ hk.pc = "sweep" => \A t \in Task : Expired(t, hk.at) => t \in hk.todo
  /\ hk.pc \in {"agents", "tasks"} => \A t \in Task : ~Expired(t, hk.at)

\* The mail a task may have sent on its way to its state.
MailFor(s) ==
  LET launched == <<"launch">>
      accepted == Append(launched, "accepted")
      begun == {launched, accepted}
      ended(k) == {Append(m, k) : m \in begun}
  IN  CASE s = "none" -> {<<>>}
        [] s = "queued" -> {launched}
        [] s = "accepted" -> {accepted}
        [] s = "done" -> {Append(accepted, "done")}
        [] s = "failed" -> ended("failed") \cup begun
        [] s = "cancelled" -> ended("cancel")
        [] s = "purged" -> begun \cup ended("done") \cup ended("failed") \cup ended("cancel")

\* Every state change has exactly one message and every repeat none: the mail
\* of a task is the history of its state.  In particular a cancel nobody has
\* acknowledged is the last message to the broker and the launch the first,
\* the two positions pendingTaskMail redelivers from.  Only a failure may be
\* silent, when the sweep finds no requester left to tell.
MailMatchesState ==
  \A t \in Task : mail[t] \in MailFor(task[t].state)

\* A task that has let go of its broker never holds it again, whatever report,
\* retry or sweep arrives late.
ReleasedForGood ==
  [][\A t \in Task :
       task[t].state # "none" /\ ~HoldsBroker(t) => ~HoldsBroker(t)']_ledgerVars

\* Housekeep never forgets a task that still holds a broker: it would free
\* the broker with neither an outcome nor a message.
PurgesOnlySettled ==
  [][\A t \in Task : HoldsBroker(t) => task'[t].state # "purged"]_ledgerVars

\* A task left alone by its broker, its child and its requester still lets
\* go of the broker: the sweep settles it.
EventuallyReleased ==
  \A t \in Task : HoldsBroker(t) ~> ~HoldsBroker(t)
=============================================================================
