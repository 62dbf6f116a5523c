----------------------------- MODULE EyesBridge -----------------------------
(***************************************************************************)
(* One Windows host broker (internal/hostbroker/broker.go, journal.go) at  *)
(* work against the ledger: polling, minting children, accepting, running  *)
(* the provider (internal/hostrunner/runner.go), reporting, cancelling,    *)
(* stopping, crashing and recovering from its journal.                     *)
(*                                                                         *)
(* The main loop (main) and the goroutines it starts (exec, jobs) share    *)
(* the journal and activeID and interleave with the daemon.  One action is *)
(* one relay call, one durable journal write or one provider event.  A     *)
(* relay call takes effect in the ledger when the daemon handles it;       *)
(* "heard" says whether the broker gets the answer.  A call that never     *)
(* arrives changes nothing.  A refusal that is heard is a RelayError, and  *)
(* not retryable; every other failure is.                                  *)
(*                                                                         *)
(* Abstracted: the DPAPI sealing and the size limits of the journal and    *)
(* failed writes to it, token rotation, progress frames, launch            *)
(* validation, and secrets: a journaled child is never minted again, so    *)
(* its secret is the ledger's.                                             *)
(***************************************************************************)
EXTENDS EyesLedger

CONSTANTS
  Broker,           \* the launcher session this broker runs as
  BrokerScope,      \* its host scope
  Lossy,            \* bound: may answers of the relay get lost?
  MaxRestarts       \* bound: crashes and shutdowns of the broker

ASSUME BrokerAssumption ==
  /\ Broker \in Launcher
  /\ BrokerScope \in HostScope
  /\ Lossy \in BOOLEAN
  /\ MaxRestarts \in Nat

VARIABLES
  journal,    \* durable: [Task -> Record]
  main,       \* the broker's main goroutine
  active,     \* activeID as a set: {} or {t}
  cancelled,  \* tasks whose taskCtx was cancelled
  exec,       \* the goroutine that accepts and runs a task: [Task -> Exec]
  jobs,       \* superviseTerminal under way: [Who -> [Task -> Job]]
  runs,       \* history: how often the provider was started for a task
  restarts    \* how often the broker went down

brokerVars == <<journal, main, active, cancelled, exec, jobs, runs, restarts>>
bridgeVars == <<ledgerVars, brokerVars>>

-----------------------------------------------------------------------------
(* State *)

Body == {"none", "done", "failed"}
Record == [st: {"none", "received", "accepted", "terminal", "delivered"},
           child: BOOLEAN, body: Body]
Rec(s, c, b) == [st |-> s, child |-> c, body |-> b]
NoRecord == Rec("none", FALSE, "none")
Tombstone == Rec("delivered", FALSE, "none")

\* Who runs superviseTerminal: the main loop, the worker, or a goroutine
\* started for a busy answer or a redelivered launch.
Who == {"main", "exec", "redo"}
Job == [step: {"none", "put", "send", "stone"}, rec: Record]
NoJob == [step |-> "none", rec |-> NoRecord]
NewJob(rec) == [step |-> "put", rec |-> rec]

Exec == [pc: {"none", "accept", "run", "provider"}, since: Nat]
NoExec == [pc |-> "none", since |-> 0]

MainPc == {"down", "boot", "recover", "loop", "mint", "settle", "stop"}
Why == {"launch", "busy", "recover"}
Main == [pc: MainPc, recovering: BOOLEAN, todo: SUBSET Task,
         inbox: SUBSET ({"launch", "cancel"} \X Task), t: Task \cup {NoSession}, why: Why]
Down == [pc |-> "down", recovering |-> TRUE, todo |-> {}, inbox |-> {},
         t |-> NoSession, why |-> "recover"]

\* The requesters are registered and nothing else has happened.
BridgeInit ==
  /\ now = 0
  /\ agents = [a \in Agent |->
       IF a \in Requester
         THEN [here |-> TRUE, gone |-> FALSE, seen |-> 0, scope |-> NoScope]
         ELSE NoRow]
  /\ task = [t \in Task |-> NoTask("none")]
  /\ mail = [t \in Task |-> <<>>]
  /\ hk = IdleHk
  /\ journal = [t \in Task |-> NoRecord]
  /\ main = Down
  /\ active = {}
  /\ cancelled = {}
  /\ exec = [t \in Task |-> NoExec]
  /\ jobs = [w \in Who |-> [t \in Task |-> NoJob]]
  /\ runs = [t \in Task |-> 0]
  /\ restarts = 0

\* The type invariant of the broker's own state.
BridgeTypeOK ==
  /\ TypeOK
  /\ journal \in [Task -> Record]
  /\ main \in Main
  /\ active \subseteq Task
  /\ cancelled \subseteq active
  /\ exec \in [Task -> Exec]
  /\ jobs \in [Who -> [Task -> Job]]
  /\ runs \in [Task -> Nat]
  /\ restarts \in 0..MaxRestarts

-----------------------------------------------------------------------------
(* Helpers *)

\* Where the main loop continues once a synchronous step is over.
Resume == [main EXCEPT !.pc = IF main.recovering THEN "recover" ELSE "loop",
                       !.t = NoSession]

\* deactivate
Freed(t) == active' = active \ {t} /\ cancelled' = cancelled \ {t}

\* The daemon handles a report of t by a; says whether it answers OK.
Reported(a, t, to) ==
  IF agents[a].here
    THEN moveEyesTask(t, eyesRole(t, a), to) /\ agents' = Touch(a)
    ELSE UNCHANGED <<agents, task, mail>>
ReportOK(a, t, to) ==
  agents[a].here /\ MoveOutcome(t, eyesRole(t, a), to) # "refused"

\* pendingTaskMail: the launches and the cancels the broker is owed.
Owed(kind, s) ==
  {<<kind, t>> : t \in {u \in Task : task[u].launcher = Broker /\ task[u].state = s
                                     /\ ~task[u].acked}}

-----------------------------------------------------------------------------
(* The main loop *)

Start ==
  /\ main.pc = "down"
  /\ main' = [Down EXCEPT !.pc = "boot"]
  /\ UNCHANGED <<ledgerVars, journal, active, cancelled, exec, jobs, runs, restarts>>

\* registerLauncher: first of all, and again after every failed poll.
RegisterLauncher(heard) ==
  /\ main.pc = "boot"
  /\ RegisterRelay(Broker, BrokerScope)
  /\ main' = IF ~heard THEN main
             ELSE [Resume EXCEPT !.todo = IF main.recovering
                     THEN {t \in Task : journal[t].st \notin {"none", "delivered"}} ELSE {}]
  /\ UNCHANGED <<journal, active, cancelled, exec, jobs, runs, restarts>>

\* Mutant of RecoverRecord: an accepted task is resumed.
RecoverRecordResumes(t) ==
  /\ main.pc = "recover"
  /\ t \in main.todo
  /\ main' = [main EXCEPT !.todo = @ \ {t}]
  /\ exec' = IF journal[t].st = "accepted" THEN [exec EXCEPT ![t].pc = "accept"] ELSE exec
  /\ active' = active \cup {t}
  /\ UNCHANGED <<ledgerVars, journal, cancelled, jobs, runs, restarts>>

\* recover: one record of the journal.  An interrupted task is failed, never
\* run again.
RecoverRecord(t) ==
  /\ main.pc = "recover"
  /\ t \in main.todo
  /\ LET r == journal[t]
         mint == ~r.child /\ r.st # "terminal"
         rec == IF r.st = "terminal" THEN r ELSE Rec("terminal", r.child, "failed")
     IN  /\ main' = [main EXCEPT !.todo = @ \ {t}, !.t = t,
                       !.pc = IF mint THEN "mint" ELSE "settle", !.why = "recover"]
         /\ jobs' = IF mint THEN jobs ELSE [jobs EXCEPT !["main"][t] = NewJob(rec)]
  /\ UNCHANGED <<ledgerVars, journal, active, cancelled, exec, runs, restarts>>

RecoverDone ==
  /\ main.pc = "recover"
  /\ main.todo = {}
  /\ main' = [main EXCEPT !.pc = "loop", !.recovering = FALSE]
  /\ UNCHANGED <<ledgerVars, journal, active, cancelled, exec, jobs, runs, restarts>>

\* OpRead as the launcher.  A failed or refused read registers again.  The
\* daemon reads the launches, then the cancels; a cancel that falls between
\* the two is in the model part of the next reply, to the same effect.
Poll(heard) ==
  /\ main.pc = "loop"
  /\ main.inbox = {}
  /\ agents' = Touch(Broker)
  /\ IF heard /\ agents[Broker].here
       THEN main' = [main EXCEPT !.inbox = Owed("launch", "queued") \cup Owed("cancel", "cancelled")]
       ELSE main' = [main EXCEPT !.pc = "boot"]
  /\ UNCHANGED <<now, task, mail, hk, journal, active, cancelled, exec, jobs, runs, restarts>>

\* Mutant of HandleLaunch: a busy broker takes the launch all the same.
HandleLaunchNeverBusy(t) ==
  /\ main.pc = "loop"
  /\ <<"launch", t>> \in main.inbox
  /\ IF journal[t].st # "none"
       THEN /\ main' = [main EXCEPT !.inbox = @ \ {<<"launch", t>>}]
            /\ UNCHANGED <<journal, active, jobs>>
       ELSE /\ journal' = [journal EXCEPT ![t] = Rec("received", FALSE, "none")]
            /\ active' = active \cup {t}
            /\ main' = [main EXCEPT !.inbox = @ \ {<<"launch", t>>}, !.pc = "mint",
                                    !.t = t, !.why = "launch"]
            /\ UNCHANGED jobs
  /\ UNCHANGED <<ledgerVars, cancelled, exec, runs, restarts>>

\* A launch: known (a terminal record is reported again), refused because
\* the broker is busy, or taken.  (The active task always has a record, so
\* the case of a launch of the active task without one does not arise.)  At
\* most one redelivery of a report is modelled at a time; a second one would
\* only repeat it.
HandleLaunch(t) ==
  /\ main.pc = "loop"
  /\ <<"launch", t>> \in main.inbox
  /\ \/ /\ journal[t].st # "none"
        /\ jobs' = IF journal[t].st = "terminal" /\ jobs["redo"][t].step = "none"
                     THEN [jobs EXCEPT !["redo"][t] = NewJob(journal[t])] ELSE jobs
        /\ main' = [main EXCEPT !.inbox = @ \ {<<"launch", t>>}]
        /\ UNCHANGED <<journal, active>>
     \/ /\ journal[t].st = "none"
        /\ active # {}
        /\ journal' = [journal EXCEPT ![t] = Rec("terminal", FALSE, "failed")]
        /\ main' = [main EXCEPT !.inbox = @ \ {<<"launch", t>>}, !.pc = "mint", !.t = t, !.why = "busy"]
        /\ UNCHANGED <<active, jobs>>
     \/ /\ journal[t].st = "none"
        /\ active = {}
        /\ journal' = [journal EXCEPT ![t] = Rec("received", FALSE, "none")]
        /\ active' = {t}
        /\ main' = [main EXCEPT !.inbox = @ \ {<<"launch", t>>}, !.pc = "mint", !.t = t, !.why = "launch"]
        /\ UNCHANGED jobs
  /\ UNCHANGED <<ledgerVars, cancelled, exec, runs, restarts>>

\* Mutant of Minted: the provider starts without waiting for the accept.
MintedRunsFirst(t) ==
  /\ journal' = CASE main.why = "launch" -> [journal EXCEPT ![t] = Rec("accepted", TRUE, "none")]
                  [] main.why = "busy" -> [journal EXCEPT ![t].child = TRUE]
                  [] OTHER -> journal
  /\ exec' = IF main.why = "launch" THEN [exec EXCEPT ![t].pc = "run"] ELSE exec
  /\ jobs' = CASE main.why = "busy" -> [jobs EXCEPT !["redo"][t] = NewJob(journal'[t])]
               [] main.why = "recover" ->
                    [jobs EXCEPT !["main"][t] = NewJob(Rec("terminal", TRUE, "failed"))]
               [] OTHER -> jobs
  /\ main' = IF main.why = "recover" THEN [main EXCEPT !.pc = "settle"] ELSE Resume
  /\ UNCHANGED <<active, cancelled>>

\* registerChild is answered: handleLaunch starts the worker, prepareTerminal
\* the report, and recover reports by itself.
Minted(t) ==
  /\ journal' = CASE main.why = "launch" -> [journal EXCEPT ![t] = Rec("accepted", TRUE, "none")]
                  [] main.why = "busy" -> [journal EXCEPT ![t].child = TRUE]
                  [] OTHER -> journal
  /\ exec' = IF main.why = "launch" THEN [exec EXCEPT ![t].pc = "accept"] ELSE exec
  /\ jobs' = CASE main.why = "busy" -> [jobs EXCEPT !["redo"][t] = NewJob(journal'[t])]
               [] main.why = "recover" ->
                    [jobs EXCEPT !["main"][t] = NewJob(Rec("terminal", TRUE, "failed"))]
               [] OTHER -> jobs
  /\ main' = IF main.why = "recover" THEN [main EXCEPT !.pc = "settle"] ELSE Resume
  /\ UNCHANGED <<active, cancelled>>

\* registerChild is refused: failWithoutChild reports as the launcher, in the
\* main loop.
NotMinted(t) ==
  /\ jobs' = [jobs EXCEPT !["main"][t] = NewJob(Rec("terminal", FALSE, "failed"))]
  /\ main' = [main EXCEPT !.pc = "settle"]
  /\ Freed(IF main.why = "launch" THEN t ELSE NoSession)
  /\ UNCHANGED <<journal, exec>>

RegisterChild(heard) ==
  /\ main.pc = "mint"
  /\ LET t == main.t
         ok == agents[Broker].here /\ ReissueAllowed(Broker, t)
     IN  /\ IF ok THEN ReissueEyesChild(Broker, t) ELSE UNCHANGED ledgerVars
         /\ CASE ~heard -> UNCHANGED <<journal, main, active, cancelled, exec, jobs>>
              [] heard /\ ok -> Minted(t)
              [] heard /\ ~ok -> NotMinted(t)
  /\ UNCHANGED <<runs, restarts>>

\* Mutant of HandleCancel: a cancel of a task without a record is dropped.
HandleCancelKnownOnly(t) ==
  /\ main.pc = "loop"
  /\ <<"cancel", t>> \in main.inbox
  /\ \A u \in Task : <<"launch", u>> \notin main.inbox
  /\ cancelled' = cancelled \cup (active \cap {t})
  /\ main' = [main EXCEPT !.inbox = @ \ {<<"cancel", t>>}]
  /\ UNCHANGED <<ledgerVars, journal, active, exec, jobs, runs, restarts>>

\* Cancels come after the launches of the same reply.  One reaches the worker
\* through its context; without a record it is answered by a launcher failure,
\* in the main loop.
HandleCancel(t) ==
  /\ main.pc = "loop"
  /\ <<"cancel", t>> \in main.inbox
  /\ \A u \in Task : <<"launch", u>> \notin main.inbox
  /\ IF journal[t].st = "none"
       THEN /\ jobs' = [jobs EXCEPT !["main"][t] = NewJob(Rec("terminal", FALSE, "failed"))]
            /\ main' = [main EXCEPT !.inbox = @ \ {<<"cancel", t>>}, !.pc = "settle", !.t = t]
            /\ UNCHANGED cancelled
       ELSE /\ cancelled' = IF journal[t].st = "delivered" THEN cancelled
                            ELSE cancelled \cup (active \cap {t})
            /\ main' = [main EXCEPT !.inbox = @ \ {<<"cancel", t>>}]
            /\ UNCHANGED jobs
  /\ UNCHANGED <<ledgerVars, journal, active, exec, runs, restarts>>

-----------------------------------------------------------------------------
(* The worker: execute *)

\* Hand the outcome to superviseTerminal.
Report(t, body) ==
  /\ exec' = [exec EXCEPT ![t] = NoExec]
  /\ jobs' = [jobs EXCEPT !["exec"][t] = NewJob(Rec("terminal", TRUE, body))]

SendAccepted(t, heard) ==
  /\ exec[t].pc = "accept"
  /\ Reported(Broker, t, "accepted")
  /\ CASE ~heard -> UNCHANGED <<exec, jobs>>
       [] heard /\ ReportOK(Broker, t, "accepted") ->
            exec' = [exec EXCEPT ![t].pc = "run"] /\ UNCHANGED jobs
       [] heard /\ ~ReportOK(Broker, t, "accepted") -> Report(t, "failed")
  /\ UNCHANGED <<now, hk, journal, main, active, cancelled, runs, restarts>>

AcceptInterrupted(t) ==
  /\ exec[t].pc = "accept"
  /\ t \in cancelled
  /\ Report(t, "failed")
  /\ UNCHANGED <<ledgerVars, journal, main, active, cancelled, runs, restarts>>

\* Runner.Run: the provider starts unless its preparation fails or the
\* context is already cancelled.
RunProvider(t, starts) ==
  /\ exec[t].pc = "run"
  /\ starts => t \notin cancelled
  /\ IF starts
       THEN /\ exec' = [exec EXCEPT ![t] = [pc |-> "provider", since |-> now]]
            /\ runs' = [runs EXCEPT ![t] = @ + 1]
            /\ UNCHANGED jobs
       ELSE Report(t, "failed") /\ UNCHANGED runs
  /\ UNCHANGED <<ledgerVars, journal, main, active, cancelled, restarts>>

\* The provider fails, is killed, or completes before its own deadline, which
\* runs from its start; a completion may win over a cancel.
ProviderEnds(t, body) ==
  /\ exec[t].pc = "provider"
  /\ body = "done" => now <= exec[t].since + task[t].deadline
  /\ Report(t, body)
  /\ UNCHANGED <<ledgerVars, journal, main, active, cancelled, runs, restarts>>

-----------------------------------------------------------------------------
(* superviseTerminal *)

\* Whoever ran the job goes on.
JobOver(w, t) ==
  /\ jobs' = [jobs EXCEPT ![w][t] = NoJob]
  /\ IF w = "exec" THEN Freed(t) ELSE UNCHANGED <<active, cancelled>>
  /\ main' = IF w = "main" THEN Resume ELSE main

PutTerminal(w, t) ==
  /\ jobs[w][t].step = "put"
  /\ journal' = [journal EXCEPT ![t] = jobs[w][t].rec]
  /\ jobs' = [jobs EXCEPT ![w][t].step = "send"]
  /\ UNCHANGED <<ledgerVars, main, active, cancelled, exec, runs, restarts>>

\* Mutant of SendTerminal: a refused report is given up and buried.
SendTerminalOnce(w, t, heard) ==
  /\ jobs[w][t].step = "send"
  /\ Reported(IF jobs[w][t].rec.child THEN t ELSE Broker, t, jobs[w][t].rec.body)
  /\ jobs' = IF heard THEN [jobs EXCEPT ![w][t].step = "stone"] ELSE jobs
  /\ UNCHANGED <<now, hk, journal, main, active, cancelled, exec, runs, restarts>>

\* deliverTerminal and deliverLauncherTerminal retry until the daemon says OK.
SendTerminal(w, t, heard) ==
  /\ jobs[w][t].step = "send"
  /\ LET rec == jobs[w][t].rec
         a == IF rec.child THEN t ELSE Broker
     IN  /\ Reported(a, t, rec.body)
         /\ jobs' = IF heard /\ ReportOK(a, t, rec.body)
                      THEN [jobs EXCEPT ![w][t].step = "stone"] ELSE jobs
  /\ UNCHANGED <<now, hk, journal, main, active, cancelled, exec, runs, restarts>>

\* The tombstone, then a best-effort deregistration of the child.
BuryTask(w, t, gone) ==
  /\ jobs[w][t].step = "stone"
  /\ journal' = [journal EXCEPT ![t] = Tombstone]
  /\ gone => jobs[w][t].rec.child /\ agents[t].here
  /\ IF gone THEN Deregister(t) ELSE UNCHANGED ledgerVars
  /\ JobOver(w, t)
  /\ UNCHANGED <<exec, runs, restarts>>

-----------------------------------------------------------------------------
(* Shutdown and crash *)

\* The lifecycle context is cancelled; a call in the main loop is abandoned.
Stop ==
  /\ \/ main.pc \in {"recover", "loop", "mint", "settle"}
     \/ main.pc = "boot" /\ ~main.recovering
  /\ restarts < MaxRestarts
  /\ \A t \in Task : jobs["main"][t].step \in {"none", "send"}
  /\ restarts' = restarts + 1
  /\ main' = [Down EXCEPT !.pc = "stop"]
  /\ jobs' = [jobs EXCEPT !["main"] = [t \in Task |-> NoJob]]
  /\ active' = IF main.pc = "mint" /\ main.why = "launch" THEN active \ {main.t} ELSE active
  /\ cancelled' = active'
  /\ UNCHANGED <<ledgerVars, journal, exec, runs>>

AbandonReport(w, t) ==
  /\ main.pc = "stop"
  /\ w # "main"
  /\ jobs[w][t].step = "send"
  /\ JobOver(w, t)
  /\ UNCHANGED <<ledgerVars, journal, exec, runs, restarts>>

\* Every goroutine has returned: the launcher deregisters, if the call gets
\* through, and the process ends.
Stopped(heard) ==
  /\ main.pc = "stop"
  /\ \A t \in Task : exec[t].pc = "none"
  /\ \A w \in Who, t \in Task : jobs[w][t].step = "none"
  /\ heard => agents[Broker].here
  /\ IF heard THEN Deregister(Broker) ELSE UNCHANGED ledgerVars
  /\ main' = Down
  /\ UNCHANGED <<journal, active, cancelled, exec, jobs, runs, restarts>>

\* The process dies, and the provider with it (its job object closes).
BrokerCrash ==
  /\ main.pc # "down"
  /\ restarts < MaxRestarts
  /\ restarts' = restarts + 1
  /\ main' = Down
  /\ active' = {}
  /\ cancelled' = {}
  /\ exec' = [t \in Task |-> NoExec]
  /\ jobs' = [w \in Who |-> [t \in Task |-> NoJob]]
  /\ UNCHANGED <<ledgerVars, journal, runs>>

-----------------------------------------------------------------------------
\* What the broker does of its own accord when its calls are answered.
MainLoop(heard) ==
  \/ Start
  \/ RegisterLauncher(heard)
  \/ \E t \in Task : RecoverRecord(t)
  \/ RecoverDone
  \/ Poll(heard)
  \/ \E t \in Task : HandleLaunch(t) \/ HandleCancel(t)
  \/ RegisterChild(heard)
  \/ \E t \in Task : PutTerminal("main", t) \/ SendTerminal("main", t, heard)
                     \/ \E gone \in BOOLEAN : BuryTask("main", t, gone)
  \/ Stopped(heard)

Worker(t, heard) ==
  \/ SendAccepted(t, heard)
  \/ AcceptInterrupted(t)
  \/ \E starts \in BOOLEAN : RunProvider(t, starts)
  \/ \E body \in {"done", "failed"} : ProviderEnds(t, body)
  \/ PutTerminal("exec", t)
  \/ SendTerminal("exec", t, heard)
  \/ \E gone \in BOOLEAN : BuryTask("exec", t, gone)
  \/ AbandonReport("exec", t)

Redelivery(t, heard) ==
  \/ PutTerminal("redo", t)
  \/ SendTerminal("redo", t, heard)
  \/ \E gone \in BOOLEAN : BuryTask("redo", t, gone)
  \/ AbandonReport("redo", t)

\* The daemon and the requesters.  The sweep runs when there is something to
\* settle (one that finds nothing changes nothing); the purges, hours away
\* from a task, are EyesLedger's own subject.
LedgerEnv ==
  \/ Tick
  \/ (\E t \in Task : Expired(t, now)) /\ StartSweep(FALSE)
  \/ \E t \in Task : SweepTask(t)
  \/ EndSweep
  \/ \E r \in Requester, rt \in Runtime, d \in DeadlineAsk, t \in Task :
       RequestEyes(r, r, rt, d, t)
  \/ \E r \in Requester, t \in Task : CancelEyes(r, r, t)

BridgeNext ==
  \/ \E heard \in {TRUE, ~Lossy} :
       MainLoop(heard) \/ \E t \in Task : Worker(t, heard) \/ Redelivery(t, heard)
  \/ Stop
  \/ BrokerCrash
  \/ LedgerEnv /\ UNCHANGED brokerVars

BridgeSpec == BridgeInit /\ [][BridgeNext]_bridgeVars

\* The broker's goroutines run, and a call made again and again is answered
\* in the end: the relay is on the same machine's loopback.
BridgeFairness ==
  /\ WF_bridgeVars(MainLoop(TRUE))
  /\ SF_bridgeVars(Poll(TRUE))
  /\ \A t \in Task : WF_bridgeVars(Worker(t, TRUE)) /\ WF_bridgeVars(Redelivery(t, TRUE))

FairBridgeSpec == BridgeSpec /\ BridgeFairness

-----------------------------------------------------------------------------
(* Properties *)

\* Of the mail of a task, what goes to the requester: all but the launch, which
\* is the first message, and a cancel, which is the last (MailMatchesState).
ToRequester(m) ==
  LET last == IF m # <<>> /\ m[Len(m)] = "cancel" THEN Len(m) - 1 ELSE Len(m)
  IN  SubSeq(m, 2, last)

Service == INSTANCE EyesService WITH
  status <- [t \in Task |-> task[t].state],
  browser <- {t \in Task : exec[t].pc = "provider"},
  worked <- {t \in Task : runs[t] > 0},
  told <- [t \in Task |-> ToRequester(mail[t])]

\* Broker and ledger together, with the expiries, the late reports and the
\* refusals of a busy broker, implement the service the requesters see: every
\* step is a step of EyesService, or none.  So one provider at a time drives
\* the browser, only for a task the ledger knows to be accepted, and a result
\* is the result of a run that is over.
ServiceProvided == Service!ServiceSpec

\* A brief runs at most once, however often its launch is redelivered and
\* wherever the broker crashes: what acted on a page must not act twice.
RunsAtMostOnce == \A t \in Task : runs[t] <= 1

\* The state is well typed, and RunsAtMostOnce.
BridgeInv == BridgeTypeOK /\ RunsAtMostOnce

\* While the provider of a task runs, the ledger keeps its broker reserved,
\* cancelled or not; only the deadline hands the broker on earlier.
ReservedWhileRunning ==
  \A t \in Task : exec[t].pc = "provider" /\ ~HoldsBroker(t) =>
    now > task[t].created + task[t].deadline

\* A tombstone is written only once the ledger has settled the task: nothing
\* would ever report on it again.
TombstoneMeansSettled ==
  \A t \in Task : journal[t].st = "delivered" => task[t].state # "none" /\ ~HoldsBroker(t)

\* The broker answers for every task it holds, deadline or no deadline: a live
\* task is settled, because launches are redelivered, reports retried, and a
\* restarted broker reports what it was doing; and a broker that has not gone
\* down acknowledges every cancel, wherever it catches the task.
TaskAnswered ==
  \A t \in Task :
    HoldsBroker(t) ~> (~HoldsBroker(t) \/ (task[t].state = "cancelled" /\ restarts > 0))

\* ReissueEyesChild's comment: without it "a restarted broker could never ack
\* a cancel it is still holding"; so with it, it can.
CancelAnswered ==
  \A t \in Task : task[t].state = "cancelled" ~> task[t].acked

\* The broker that took a task is free again in the end (ExpireEyesTasks: a
\* task that ran out of time must not keep "a launcher out of service").
BrokerReturnsToService == (active # {}) ~> (active = {})
=============================================================================
