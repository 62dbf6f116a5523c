# A verification of agent-coordinator

agent-coordinator lets coding agents that share a machine see each other, send
mail, claim files, and borrow a browser on a Windows host ("host eyes").  A
daemon keeps everything in one SQLite database; agents, hooks, waiting
processes and Windows host brokers talk to it.  This directory models the parts
of it in which several processes, crashes, lost answers and clocks meet, checks
them with TLC on small instances, and proves the central safety properties with
TLAPS for instances of every size.  Paths below are relative to the repository.

## 1. The system

| component | state it keeps | operations | meets |
|---|---|---|---|
| host-eyes ledger (`internal/store/eyes.go`, `relay.go`) | `eyes_tasks`, the task mail | request, accept, result, failure, cancel, acknowledgement, child minting, redelivery, deadline sweep | requesters, brokers, watchdog, housekeeping |
| agents and presence (`internal/store/store.go`, `names.go`) | `agents`: name, status, `last_seen` | register, child register, touch, deregister, decay, purge | everything: presence decides who may act |
| mail (`store.go`) | `messages`, `deliveries` | send, broadcast, read, peek, notices, retention | wait command, hooks, brokers |
| claims (`internal/store/claims.go`) | `claims` | claim, refresh, takeover, release, purge | presence, housekeeping |
| history, touches, tasks, board (`history.go`, `store.go`) | append-only logs | record, list | none: one statement each |
| daemon (`internal/daemon`) | listener, lock, idle clock | dispatch, watchdog (sweep every 5 s, Housekeep at start and hourly), idle exit | all clients, the dialer |
| relay gate (`internal/daemon/relaygate.go`) | tokens, session secrets | authenticate | brokers |
| host broker (`internal/hostbroker`) | journal, active task, goroutines | poll, launch, mint, accept, run, report, cancel, stop, crash, recover | the ledger over a lossy relay |
| host runner (`internal/hostrunner`) | one provider process, its stream of samples, a copy of the login | run, cancel, time out, refresh the login | the broker |
| wait command (`cmd/agent-coordinator/wait.go`) | a cursor file per agent | arm, poll, checkpoint, wake, time out | mail; other waiters |
| MCP server, hooks (`internal/mcpserv`, `internal/hookcli`) | session identity, subagent bindings | bind, register, report | daemon |
| dialer (`internal/dialer`) | the spawn stamp | dial, spawn, retry | the daemon's lock and idle exit |
| host broker setup (`cmd/agent-coordinator/eyes_setup.go`, `host.go`, `internal/hostbroker/scheduler.go`) | systemd drop-in, token, Windows binary, pairing, scheduled task | thirteen steps, each of which may block | daemon, broker, the person at the machine |
| CLI, installer, conversions | files, none | configuration, rendering | none |

How they interact: every request is one line of JSON over a unix socket or the
loopback relay, served by a goroutine of its own; the store has a single SQLite
connection, so each statement (or transaction) is atomic and *nothing larger
is*.  Where an operation is several statements or several processes share a
file, anything may happen in between.  The behaviours that make this hard:

- the ledger and the broker each keep durable state about one task, and answers
  between them get lost; launches are redelivered, reports retried, either side
  may die anywhere;
- the sweep works from a snapshot, and Housekeep is a series of statements, of
  which the later ones rely on what the first one settled;
- claims look first and write later, and liveness is a matter of age;
- waiters share a cursor file without a lock, may be killed anywhere, and peek
  in two statements;
- names are looked up in one statement and used in a later one, while
  registrations race for them and housekeeping purges their rows;
- daemons are spawned by whoever misses one, unlink stale sockets, and leave
  when idle or told to, while clients dial;
- a session's identity is registered by hooks and adopted by an MCP server that
  has only files and process ids to recognise it by;
- a provider may end, be cancelled and run out of time in the same moment, and
  has descendants, pipes and goroutines that have to go with it;
- setup changes two operating systems in thirteen steps, stops at what it cannot
  do, and forgets everything but what it changed.

`PROJECT.json` lists the hazards at their lines with the properties that cover
them, and the map from every definition to the lines it models.

## 2. The modules

| module | models | checked by | proofs |
|---|---|---|---|
| `EyesLedger` | ledger, agent rows, sweep, Housekeep | `MCEyesLedger` | `EyesProofs` |
| `EyesBridge` (extends `EyesLedger`) | one broker and its runner against the ledger | `MCEyesBridge` | `EyesProofs` |
| `EyesService` | what host eyes promise to requesters; implemented by `EyesBridge` | `MCEyesBridge` | `EyesProofs` |
| `Claims` | claims, presence, the purge of claims | `MCClaims` | `ClaimsProofs` |
| `WaitCursor` | waiters, cursor file, mailbox | `MCWaitCursor` | `WaitCursorProofs` |
| `Mailbox` | registration, naming, mail, notices, retention | `MCMailbox` | `MailboxProofs` |
| `DaemonLifecycle` | daemon processes, lock, socket, dialer | `MCDaemonLifecycle` | `DaemonLifecycleProofs` |
| `Identity` | hooks, bind files, MCP servers | `MCIdentity` | `IdentityProofs` |
| `EyesSetup` | `eyes-setup` and the person who runs it | `MCEyesSetup` | `EyesSetupProofs` |
| `HostRunner` | one provider run in all its goroutines | `MCHostRunner` | `HostRunnerProofs` |

### EyesLedger

`agents` and `task` are the two tables, `mail[t]` the ledger's messages about a
task in message-id order, `hk` the watchdog goroutine, `now` the clock.  One
action is one request or one transaction: `RequestEyes` (pick a launcher and
insert, in one transaction), `TaskReport`, `CancelEyes`, `ReissueEyesChild`,
registration, `Heartbeat` and `Deregister`; `moveEyesTask`, the one write path,
is one operator with the edge table `eyesEdges` beside it.  The sweep
(`StartSweep`, one `SweepTask` per task, `EndSweep`) and the purges of Housekeep
are separate steps that interleave with requests and can be cut short by
`DaemonCrash`.  A refused request changes nothing but the caller's `last_seen`.
Time is abstracted to ticks: what matters is the order of the deadline (30
minutes at most), the purge of rows (2 hours) and the retention of tasks (a
day), stated as `TimesAssumption`.

### EyesBridge

Adds one broker: `journal` (durable), `main` (its main loop), `active`
(`activeID`), `exec` (the goroutine that accepts and runs a task) and `jobs`
(every `superviseTerminal` under way).  One action is one relay call, one
journal write or one provider event; the parameter `heard` says whether the
answer arrives, so a call may take effect and be retried all the same.
`BrokerCrash` loses everything but the journal; `Stop` is the graceful way down.
A refusal that is heard is final where the code's `retryable` says so and
retried where it uses `retryAll`.

### Claims

One action per SQL statement of `Claim` and `Release`; `call[c]` is the position
of a request and what it has read.  `presence` condenses status and age to
"none", "live", "decayed" and "gone".  `granted[p]` is a history variable: the
agents that were told they hold `p`, have been live since and have not asked to
release it.  Three constants say what agents may do: `Overlapping` (several
requests of one agent at once), `RetiresMidCall` (go while a request is under
way) and `Returns` (come back from decay while somebody is taking over).  The
code excludes none of them; they are parameters because the main property needs
all three to be false, which TLC shows one by one (each alone refutes
`GrantHolds`).

### WaitCursor

`file` is the cursor file, `wait[w]` a waiting process, `sent` and `unread` the
mailbox.  The two statements of a peek are two actions (`PeekHigh`,
`PeekUnread`).  `base` remembers the mail there was when the cursor was created:
a first arm ignores that backlog by design.  `ConcurrentArms` says whether a
waiter may find no file while another is creating it.

### EyesService

The abstract specification: a task is asked for, accepted, worked on in the one
browser, and answered once; there is no broker, journal, relay or crash in it.
`EyesBridge` instantiates it with a refinement mapping (the ledger's state, the
provider at work, the tasks that were run, the mail a requester got) and
`ServiceProvided` says that every step of the detailed system is a step of it or
none.  It subsumes "one provider at a time", "accepted before it is run" and "a
result is the result of a run".

### Mailbox

`row`, `msg` and `dlv` are the tables `agents`, `messages` and `deliveries`;
`call[c]` is a request, a program of phases of one SQL statement each; `hk` is
the daemon and the statement of Housekeep it comes to next.  The phases are the
code's: `register` with its select, update, count, insert and reselect,
`RegisterChild`, `ResolveActor` and the second look-up by name in the operation
itself, `SendMessage` with its broadcast targets, `ReadInbox`,
`PendingNotices`, `SetIdle` and `Deregister`.  `told` and `handed` are history variables:
the names registrations answered with and who got which delivery.
`PurgesMidCall` says whether Housekeep may purge a row while a request for it is
being served; for that the request would have to take the better part of two
hours, as every request refreshes its caller.

### DaemonLifecycle

Daemon processes go from lock to probe, bind, store, serve, close, drain and
exit, in the order of `Listen`, `runDaemon` and `Serve`; `lock` is the `flock`,
`path` what is at the socket path (a daemon's socket, dead or alive, systemd's,
or none), `stamp` the dialer's throttle.  Clients dial, look at the stamp, fork
a daemon, redial, are queued by the kernel, accepted and answered, or fail open.
Daemons may be killed at every step.

### Identity

A harness process (`host`) runs sessions and MCP servers one after the other.
A hook is at most two visible steps, a request and a change of the bind file, in
the order its event gives them (`start` registers and then writes, `end` removes
and then retires).  A tool call goes through `ensureRegistered`: match a bind,
check for a live hook, register, file the connection, act.  `Distance` gives the
depth at which one host's server sees another's harness among its ancestors.

### EyesSetup

One action is one of the thirteen steps; what a step learns is in `run` and is
lost with the process, what it changes is in the other variables.  A step may go
on, block, or fail, and commands fail where the code has an error path (`Hit`
counts faults).  The person clears what a blocked step names, supplies binaries,
rotates or damages the token, stops the daemon, uninstalls, and runs the command
again, live or dry, with `--repair` or without.

### HostRunner

`run[c]` is where a call of `Run` stands between reservation and its deferred
clean-up, `proc[c]` the provider with its descendants and the guard around them,
`stream[c]` the reader and the pump, `main` and `copy` the two login files.
Steps of the provider, of the goroutine in `cmd.Wait`, of the copying goroutine,
of the pump, of `Cancel` and of the deadline interleave with those of `Run`.

## 3. The runs

"pass" runs finish without error; "violation" runs refute a statement of the
repository about its own code (section 5).  The type invariants of the newer
modules are the first conjunct of the invariant whose name ends in `Inv`.

| run | instance | checks | distinct states |
|---|---|---|---|
| `ledger` | 2 tasks, 1 broker, 1 requester, callers without a session, clock 0..2, deadline = row age = retention = 1 tick | `TypeOK`, `BrokerExclusive`, `HeldTaskHasLauncher`, `MailMatchesState`, `ReleasedForGood`, `PurgesOnlySettled`, `EventuallyReleased` | 795 thousand |
| `bridge` | 2 tasks, lost answers, a crash or shutdown, clock stopped | `BridgeInv` (a brief runs at most once), `TombstoneMeansSettled`, `ServiceProvided`, `TaskAnswered` | 352 thousand |
| `bridge_deadline` | 2 tasks, reliable relay, no crash, the clock passes the deadline | `ReservedWhileRunning`, `ServiceProvided` | 1.1 million (up to symmetry) |
| `bridge_wedge` | 1 task, the clock passes the deadline | violation of `BrokerReturnsToService` | |
| `claims` | 3 agents, 3 requests, 1 path, all three constants false | `ClaimsTypeOK`, `GrantHolds`, `ClaimsDieWithHolder` | 159 thousand |
| `wait` | 2 waiters, 3 messages, 2 faults | `CursorBehindUnread`, `MailWakes` | 87 thousand |
| `mailbox` | an agent, its subagent and a rival for its name, 2 requests at once, 1 message, crashes | `MailboxInv` (registrations agree on names), `OwnMailOnly`, `UnreadKept`, `MailAnnounced` | 421 thousand |
| `identity` | 2 hosts, 2 sessions and 1 server of one, 1 session of the other | `IdentityInv` (a server acts as its own host), `FreshServerAdopts`, `NoGhosts`, `HookRowKept`, `Adopted` | 539 thousand |
| `lifecycle` | 3 daemon processes, 2 clients, with and without systemd | `LifecycleInv` (one open store), `LiveSocketKept`, `AcceptedAnswered`, `AskerServed` | 54 thousand |
| `setup` | 2 addresses, 2 versions, 2 prerequisites, 2 tokens, 1 fault | `SetupInv` (an installed broker is usable), `RepairCures`, `Converges` | 866 thousand |
| `setup_ready` | 1 address, no fault | violation of `ReadyIsInstalled` | |
| `runner` | 2 calls, a streaming Claude task and a Codex task, 3 samples, 2 logins | `RunnerInv` (nothing outlives its run), `OutcomeIsTrue`, `NewestTold`, `StaleLoginWarned`, `NewerLoginKept`, `RunReturns` | 691 thousand |

Why these bounds are enough to be interesting:

- Two tasks compete for one broker: the second is refused, queued behind a
  cancel, or meets a broker the sweep has freed too early.  With the three
  durations at one tick and a clock that reaches two, every order of deadline,
  purge and retention the assumption allows is reached, and TLAPS proves the
  same invariants for every choice.
- A restart interrupts the broker at every one of its steps, and lost answers
  meet the recovery.  The clock stands still in `bridge` (the broker must do its
  work without the deadline's help) and moves in `bridge_deadline`.
- Three agents are needed for two rivals to take over from a third, and three
  requests for all of them to be under way; paths do not interact.
- Two waiters are a waiter and its rival or its replacement; three messages
  give mail before, during and after a checkpoint.
- Two requests at once race for every name and row, the third session (a
  subagent) makes a parent's row matter, and a name is tried with three numbers,
  one more than there are rivals; one message has up to two recipients, so that
  one may have read it and the other not.
- Three daemon processes are one that leaves, one that starts and one more that
  a second client spawns; a dead process' slot is used again once nothing is
  left of it, so that behaviours do not end.
- A second session of a host is what `/clear` makes, next to a server that was
  bound to the first; the other host contributes a bind file that must not be
  adopted.
- Two addresses and versions let a run change either; two prerequisites block
  before and after the binary is replaced, and two tokens are an old and a
  current one.
- Two calls of `Run` compete for the runner; three samples are one handed to the
  caller, one in the slot, and one that replaces it.

Symmetry (of tasks) is used in `bridge_deadline` only, which checks no
liveness.  Deadlock checking is off in `ledger`, the bridge runs and `identity`,
whose bounded clocks, tasks, restarts and sessions come to an end.

### Fairness

- `FairSpec` (ledger): the clock advances and the watchdog's ticker fires
  (`WF`); a task that is in one interrupted sweep after another is eventually
  reached by one (`SF`).  A daemon that was killed or went idle is started again
  by the next client, and `Serve` begins with Housekeep.
- `FairBridgeSpec`: the broker's goroutines run, and a call repeated for ever is
  answered in the end (`WF` of the steps with `heard`, `SF` of the poll): the
  relay is on the host's own loopback and the broker retries with no limit.
  Crashes are bounded, never assumed away.
- `FairClaimsSpec`: Housekeep runs again and again (`WF`) and some run of it
  gets as far as the claims (`SF`).
- `FairWaitSpec`: a waiter polls, and is started again when it ended, as the
  command's documentation asks of its caller (`WF`).
- `FairMailboxSpec`: requests are served and the daemon is started again (`WF`);
  the hooks of an agent at work keep firing (`SF`); the daemon does not crash for
  ever.
- `FairLifecycleSpec`: processes run, the accept loop comes to each connection,
  the cooldown ends, and a session asks again at its next event; daemons are not
  killed for ever.
- `FairIdentitySpec`: hooks and calls run to their end (`WF`); a session goes on
  reporting events and its model goes on calling tools (`SF`).
- `FairSetupSpec`: a run goes on and a started daemon comes up (`WF`); the person
  does what a blocked step asks and runs the command again (`SF`), dry runs and
  other errands in between notwithstanding.
- `FairSpec` (runner): goroutines run, the deadline's timer fires, and what the
  kernel was told to kill dies.  The provider itself owes nothing.

## 4. The proofs

All for every number of tasks, brokers, agents, paths, requests, waiters,
messages, daemons, clients, hosts, sessions, samples and runs: the constants are
restricted only by the named assumptions of their modules.  Every safety property
of every passing run is a theorem.  TLC checked each inductive invariant on the
run's instance before it was proved.

| module | theorem: property | hypothesis beyond the module's assumptions |
|---|---|---|
| `EyesProofs` | `TypeCorrect`: `TypeOK`; `OneTaskPerBroker`: `BrokerExclusive`; `LauncherOutlivesTask`: `HeldTaskHasLauncher`; `PurgeSparesHeld`: `PurgesOnlySettled`; `NeverReheld`: `ReleasedForGood`; `MailIsHistory`: `MailMatchesState`; `SweepBeforePurge` | none |
| `EyesProofs` | `RunOnce`: `BridgeInv`; `BuriedSettled`: `TombstoneMeansSettled`; `RunningReserved`: `ReservedWhileRunning`; `BridgeServes`: `ServiceProvided` | none |
| `ClaimsProofs` | `ClaimsTyped`: `ClaimsTypeOK` | none |
| | `GrantsHold`: `GrantHolds` | `Disciplined` |
| `WaitCursorProofs` | `CursorNeverSkips`: `CursorBehindUnread` | `~ConcurrentArms` |
| `DaemonLifecycleProofs` | `SingleDaemon`: `LifecycleInv`; `SocketSafe`: `LiveSocketKept`; `NoRequestDropped`: `AcceptedAnswered` | none |
| `HostRunnerProofs` | `NothingOutlivesRun`: `RunnerInv`; `OutcomeTrue`: `OutcomeIsTrue`; `LastSampleTold`: `NewestTold` | `~EarlySpawn` |
| | `StaleWarned`: `StaleLoginWarned`; `LoginKept`: `NewerLoginKept` | `~EarlySpawn`, `~ReloginMidCopy` |
| `MailboxProofs` | `UnreadMailKept`: `UnreadKept` | none |
| | `NamesStay`: `MailboxInv`; `InboxPrivate`: `OwnMailOnly` | `~PurgesMidCall` |
| `IdentityProofs` | `NoAgentNobodyIs`: `NoGhosts`; `FreshAdopts`: `FreshServerAdopts`; `SessionRowKept`: `HookRowKept` | none |
| | `ActsForOwnHost`: `IdentityInv` | `HostsApart` |
| `EyesSetupProofs` | `InstalledUsable`: `SetupInv`; `RepairIsCure`: `RepairCures` | none |

The hypotheses are the settings of the runs, and section 5 gives for each the
step of the code that breaks the property without it.

**EyesProofs, the ledger.**  From `SetsAssumption` and `TimesAssumption`:
`TypeCorrect`, `OneTaskPerBroker`, `LauncherOutlivesTask`, `SweepBeforePurge`,
`PurgeSparesHeld`, `NeverReheld` and `MailIsHistory`, that is, every safety
property of the `ledger` run.  The inductive invariant is `LedgerInv`.
`HeldTaskHasLauncher` is not inductive: a purge removes a launcher for being
silent, so the proof has to know that the launcher of a held task was heard of
no earlier than `LauncherWindow` before the task was created and that the
deadline is bounded (`HeldTaskBounds`), that a sweep's snapshot lies in the past
(`SnapshotInPast`), and that no task that had expired at the snapshot is still
held when the purges begin (`PurgesAfterSweep`).  Then a held task is younger
than the deadline at the snapshot, and its launcher younger than two hours.
Most actions fall under two shapes, steps that keep launcher rows
(`PresenceKept`) and steps that at most let go of brokers (`OnlyLetsGo`), and
the invariant is proved once for each.

**EyesProofs, the bridge.**  `BridgeIInv` ties what the broker has in memory to
what survives a crash.  `LedgerSide` is the ledger's invariant for the steps the
broker sees (`LedgerSees`): a task's age, its acceptance and its settlement last,
and its hold ends only by a report on it or by the deadline (`TaskLasts`).
`BrokerSide` says which goroutine may be busy with a task in which state of its
journal record: a worker only for an accepted record and only one (`OneWorker`),
none for a record not yet accepted (`FreshRecord`), none at all while the broker
recovers (`RecoversAlone`).  From these follow the count of runs (`RunsCounted`),
that "done" is the outcome of a run (`Outcomes`), that tombstones are for settled
tasks (`Buried`) and that work begins after acceptance (`WorkAccepted`).  The
refinement is proved step by step: almost every step of the broker is a stutter of
`EyesService`, and the others (accept, begin and end of a run, the first report
that is received) are each one step of it.

**ClaimsProofs.**  `GrantsHold`: under `Disciplined` (the three constants
false), a granted path stays the grantee's.  `ClaimsInv` adds to it that callers
are live and distinct (`CallersLive`) and that what a request has observed and
is about to act upon is still the case (`StillObserved`): a holder that was seen
not to be live stays so, and a path seen to be the caller's own remains so.

**WaitCursorProofs.**  `CursorNeverSkips`: without `ConcurrentArms`, the cursor
never passes unread mail.  `WaitInv` adds that no cursor is ahead of the mailbox
(`CursorsBehindMail`), that the cursor in each polling process is as good as the
one in the file (`PollersCleared`), and that only one process creates the file
(`OneFirstArm`).  The order of the two statements of a peek is what the proof of
`PeekUnread` rests on.

**DaemonLifecycleProofs.**  That one daemon has the store open is not inductive:
it rests on the lock file, which a daemon started by systemd does not take.
`LifeInv` says that every other daemon holds the lock from its probe to its end
(`LockHeld`), that systemd has at most one instance and the path is its socket
(`OneActivated`), and that at such a path nobody else passes the probe
(`SystemdAlone`).  The two action properties follow from it step by step.

**HostRunnerProofs.**  `RunnerIInv` is local to a call of `Run`: its position
determines what may be left of the process and its guard (`ProcOK`), of the
stream (`StreamOK`) and of the answer (`OutOK`), and only the call that holds the
runner is anywhere but idle (`Reserved`).  `PumpOK` follows the newest sample from
the reader through slot and hand to the caller: whatever else is on its way is
older.  `LoginsOK` says that the younger file holds the later login, which is
all `copyNewerCredentials` goes by.

**MailboxProofs.**  A request knows its agent by name from one statement to the
next.  `MailIInv` says what it knows at each phase (`CallOK`), that names are
unique and what a registration was told has a row (`RowsOK`), that a program is
one the dispatcher makes (`ProgOK`), and that Housekeep and the history of reads
agree (`HandedOK`).  `UnreadKept` needs only `UnsentNotDelivered`.

**IdentityProofs.**  `IdentityIInv` relates a host's process, hook, bind file and
server (`HostOK`), says that the bind a call is due to stays until the server has
looked for it (`DueOK`), and follows minted ids, the only ones that travel between
hosts (`Traces`).  `OwnBinds` is the separate induction for `ActsForOwnHost`.
`IdentityAssumption` requires a positive `matchDepth` and that nobody is at
distance 0 from another.

**EyesSetupProofs.**  The last step trusts what the earlier ones left, while the
daemon goes on and may mint a token.  `RunOK` says what a live run may rely on
after each step (the drop-in after 2, a good token after 3, the binary after 4,
the credential after 7, the directories after 11), and `TokenOK` that a token that
was ever good has been minted.

Only model-checked: all liveness properties (`EventuallyReleased`,
`TaskAnswered`, `ClaimsDieWithHolder`, `MailWakes`, `MailAnnounced`,
`AskerServed`, `Adopted`, `Converges`, `RunReturns`), which rest on fairness and
`ENABLED` and are outside the prover's reach; and the two violation runs, which
are counterexamples.

## 5. Where the code and its documentation disagree

1. `bridge_wedge`: a provider that finishes after the ledger's deadline but
   within its own reports a result the ledger refuses; `deliverTerminal` retries
   it for ever and the broker answers "eyes busy" to every later launch until it
   is restarted.
2. `setup_ready`: a run that replaces the Windows binary and is blocked by a
   later step leaves the scheduled task on the old binary.  The run the blocked
   step advises takes the binary for unchanged, because only the process that
   replaced it knows, skips `host-install` as settled, and reports the bridge
   ready.  `--repair` cures it (`RepairCures`).

### Known limits

The passing runs exclude the following, by a constant or by what the property
says; each line gives the setting under which TLC refutes the property.

| setting | refuted | code |
|---|---|---|
| `Returns = TRUE` in `claims` | `GrantHolds`: a decayed holder that returns between a rival's liveness check and its takeover believes it holds what the rival is granted | `internal/store/claims.go:87` |
| `RetiresMidCall = TRUE` in `claims` | `ReleaseOnlyOwn`: `Release` deletes by path only, and a takeover between its check and its delete loses the new holder's claim | `internal/store/claims.go:136` |
| `Overlapping = TRUE` in `claims` | `GrantHolds`: an agent that claims and releases a path at once | `internal/store/claims.go:136` |
| `ConcurrentArms = TRUE` in `wait` | `CursorBehindUnread`: two first arms at once may checkpoint past unread mail | `cmd/agent-coordinator/wait.go:92`, `docs/reference.md:135` |
| `CancelAnswered` in `bridge` | a broker that crashes between the minting of a child and its journal entry reports as the launcher; on a cancelled task that is refused, and the sweep acknowledges in its place | `internal/hostbroker/broker.go:460`, `internal/store/relay.go:163` |
| `ActsAsSession` in `identity` | a server that is bound to a session goes on acting as it after `/clear` | `internal/mcpserv/mcpserv.go:417`, `internal/hookcli/bind.go:16` |
| `Distance` of two hosts below 3 in `identity` | `IdentityInv`: a harness started by another one may adopt its bind | `internal/hookcli/bind.go:126` |
| `PurgesMidCall = TRUE` in `mailbox` | `OwnMailOnly`, `MailboxInv`: a name changes hands between two statements of one request | `internal/store/store.go:618` |
| `EarlySpawn = TRUE` in `runner` | `RunnerInv`: a descendant started before the process is attached to its job escapes it, as a comment in the code says | `internal/hostrunner/process_windows.go` |
| `ReloginMidCopy = TRUE` in `runner` | `StaleLoginWarned`: the copy is younger than a login it does not contain | `internal/hostrunner/provider.go:342` |
| `CopiesTear = TRUE` in `setup` | `Converges`: half a binary is taken for an installed one | `cmd/agent-coordinator/eyes_setup.go` |

## 6. Not modelled

- The installer, the command line, rendering, the relay's byte copying, and pure
  conversions: system calls and formatting without a protocol.
- History, touches, tasks and the board: append-only or read-only, one statement
  each.  The relay gate, which keeps no state: that a caller holds the secret of
  the session it acts as is assumed.
- In the ledger: progress samples and the list view.  In the broker: token
  rotation, progress frames, the journal's size limits and failed journal
  writes, and an attempt to register a child that arrives after its own retry.
  Only tombstones are evicted from a full journal, and `TombstoneMeansSettled`
  with `ReleasedForGood` says that their tasks are never offered again.
- In the mailbox: other workspaces and callers without a session.  In
  `WaitCursor`: retention, so that the high-water id never falls; when old, read
  mail is deleted it does, and a cursor taken from it is only lower.
- A wait longer than the cursor's life of a day (the default is under ten
  minutes): a cursor expires only while nobody waits.
- Bind files older than two days and their removal.
- In setup: what a running broker has in memory, malformed token files (a token
  is good, loose or refused), sealing by DPAPI, validation of settings.
- In the runner: command lines, the environment filter, the bound on output.

## 7. Plan

Modelled and checked: every component with concurrent or durable state that the
first section names.  Proved: every invariant and every action property of the
passing runs, and the refinement of `EyesService`.  Next:

1. More of the code inside the proved invariants: a journal write that fails and
   a registration of a child that arrives after its own retry, in `EyesBridge`;
   `RunsCounted` and `Buried` are the parts such a change would have to keep.
2. Weaker hypotheses: which of the grants survive `Returns`, and what
   `~PurgesMidCall` can be replaced by in terms of the age of a row and the
   duration of a request.
3. The safety halves of the liveness properties, where a bound can be stated as
   an invariant, such as the age a held task can reach before a sweep settles it.
