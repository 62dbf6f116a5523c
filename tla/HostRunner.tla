----------------------------- MODULE HostRunner -----------------------------
(***************************************************************************)
(* The host runner (internal/hostrunner): Run from its reservation to its  *)
(* deferred clean-up, Cancel, the context's deadline, the provider process *)
(* with the guard around its descendants, the goroutine in cmd.Wait, the   *)
(* stream reader that is fed by the copying goroutine, the pump that hands *)
(* samples to the caller on a goroutine of its own, and the refresh of the *)
(* isolated Claude login in Prepare.                                       *)
(*                                                                         *)
(* One action is one step another goroutine or process can observe.        *)
(* Abstracted: a sample is the number of the event that made it; a line is *)
(* its kind; a login is the number of the login or token refresh that made *)
(* it, and of the two files' times only their order is kept.  Run's        *)
(* argument checks return before any of this state is touched.             *)
(***************************************************************************)
EXTENDS Naturals

CONSTANTS
  Call,           \* calls of Run that may be under way at once
  Task,           \* task IDs
  NoCall,
  NoTask,
  Claude,         \* the tasks whose provider is Claude; the others use Codex
  Streaming,      \* the tasks whose provider is configured to stream progress
  EarlySpawn,     \* may a provider start a descendant before it is attached?
  ReloginMidCopy, \* may the user log in between the copy's read and its write?
  MaxSamples,     \* bound: events of one run that make a sample
  MaxLogins       \* bound: logins and token refreshes

ASSUME RunnerAssumption ==
  /\ NoCall \notin Call
  /\ NoTask \notin Task
  /\ Claude \subseteq Task
  /\ Streaming \subseteq Task
  /\ EarlySpawn \in BOOLEAN
  /\ ReloginMidCopy \in BOOLEAN
  /\ MaxSamples \in Nat
  /\ MaxLogins \in Nat \ {0}

VARIABLES
  active,   \* the call that holds the runner (activeID and cancel), or NoCall
  run,      \* [Call -> RunState]
  proc,     \* [Call -> ProcState]
  stream,   \* [Call -> StreamState]
  main,     \* the user's own login file; 0 when there is none
  copy,     \* the isolated login file; 0 when there is none
  newer     \* is the user's file the younger of the two?

vars == <<active, run, proc, stream, main, copy, newer>>
login == <<main, copy, newer>>

-----------------------------------------------------------------------------
(* State *)

Pc == {"idle", "scratch", "prepare", "read", "publish", "check", "start",
       "attach", "await", "terminate", "reap", "closeguard", "closestream",
       "closepump", "join", "decode", "remove", "release"}
Logins == 0..MaxLogins
RunState == [pc: Pc, task: Task \cup {NoTask},
             over: BOOLEAN,         \* the context is cancelled or expired
             scratch: BOOLEAN,      \* the scratch directory exists
             asOf: Logins,          \* history: the user's login when Run began
             token: Logins,         \* what copyNewerCredentials has read
             warned: BOOLEAN,       \* invocation.Warning is set
             interrupted: BOOLEAN,
             out: {"none", "report", "context", "error"}]
IdleRun == [pc |-> "idle", task |-> NoTask, over |-> FALSE, scratch |-> FALSE,
            asOf |-> 0, token |-> 0, warned |-> FALSE, interrupted |-> FALSE, out |-> "none"]

\* The root process, whether a descendant of it is alive, whether the guard
\* holds them, the report it has left, and what cmd.Wait has returned.
ProcState == [root: {"none", "running", "zero", "failed", "killed"},
              child: BOOLEAN, held: BOOLEAN,
              report: {"none", "good", "bad"},
              waited: {"none", "ok", "delay", "error"}]
NoProc == [root |-> "none", child |-> FALSE, held |-> FALSE, report |-> "none", waited |-> "none"]

Line == {"none", "turn", "good", "bad", "other", "long"}
StreamState == [line: Line,             \* pending and skip
                made: 0..MaxSamples,    \* samples made: the newest one's number
                offer: {"none", "send", "drain", "resend"},
                slot: 0..MaxSamples,    \* the channel of capacity 1; 0 when empty
                hand: 0..MaxSamples,    \* the sample the callback is running with
                told: 0..MaxSamples,    \* the last sample the callback returned from
                pump: {"none", "open", "closed", "done"}]
NoStream == [line |-> "none", made |-> 0, offer |-> "none", slot |-> 0,
             hand |-> 0, told |-> 0, pump |-> "none"]

Init ==
  /\ active = NoCall
  /\ run = [c \in Call |-> IdleRun]
  /\ proc = [c \in Call |-> NoProc]
  /\ stream = [c \in Call |-> NoStream]
  /\ main \in 0..1
  /\ copy \in 0..1
  /\ newer \in BOOLEAN
  /\ newer => main = 1
  /\ main = 1 /\ copy = 0 => newer

\* The type invariant.
RunnerTypeOK ==
  /\ active \in Call \cup {NoCall}
  /\ run \in [Call -> RunState]
  /\ proc \in [Call -> ProcState]
  /\ stream \in [Call -> StreamState]
  /\ main \in Logins /\ copy \in Logins /\ newer \in BOOLEAN

At(c, pc) == run[c].pc = pc
Go(c, pc) == run' = [run EXCEPT ![c].pc = pc]
Alive(c) == proc[c].root = "running" \/ proc[c].child
IsClaude(c) == run[c].task \in Claude
Streams(c) == run[c].task \in Streaming

-----------------------------------------------------------------------------
(* Run: the reservation and the preparation *)

\* The checks, the context and the reservation; a busy runner refuses, and
\* nothing is changed.
reserve(c, t) ==
  /\ At(c, "idle")
  /\ active = NoCall
  /\ active' = c
  /\ run' = [run EXCEPT ![c] = [IdleRun EXCEPT !.pc = "scratch", !.task = t, !.asOf = main]]
  /\ UNCHANGED <<proc, stream, login>>

\* Every failure leaves by the deferred calls registered so far.
Fail(c, pc) == run' = [run EXCEPT ![c].pc = pc, ![c].out = "error"]

MakeScratch(c) ==
  /\ At(c, "scratch")
  /\ \/ run' = [run EXCEPT ![c].pc = "prepare", ![c].scratch = TRUE]
     \/ Fail(c, "release")
  /\ UNCHANGED <<active, proc, stream, login>>

\* A login that cannot be refreshed is fatal only when there is none at all.
NotRefreshed(c) ==
  IF copy = 0 THEN Fail(c, "remove")
              ELSE run' = [run EXCEPT ![c].pc = "check", ![c].warned = TRUE]

\* Mutant of Prepare: the two files' times are not compared.
PrepareAnyAge(c) ==
  /\ At(c, "prepare")
  /\ IF IsClaude(c)
       THEN IF main = 0 THEN NotRefreshed(c) ELSE Go(c, "read")
       ELSE Go(c, "check") \/ Fail(c, "remove")
  /\ UNCHANGED <<active, proc, stream, login>>

\* refreshCredentials up to the comparison of the two files' times, or Codex's
\* Prepare, which only writes into the scratch directory.
Prepare(c) ==
  /\ At(c, "prepare")
  /\ IF IsClaude(c)
       THEN IF main = 0 THEN NotRefreshed(c)
            ELSE Go(c, IF copy = 0 \/ newer THEN "read" ELSE "check")
       ELSE Go(c, "check") \/ Fail(c, "remove")
  /\ UNCHANGED <<active, proc, stream, login>>

ReadCredentials(c) ==
  /\ At(c, "read")
  /\ \/ run' = [run EXCEPT ![c].pc = "publish", ![c].token = main]
     \/ NotRefreshed(c)
  /\ UNCHANGED <<active, proc, stream, login>>

\* Mutant of PublishCredentials: a copy that fails is not reported.
PublishSilently(c) ==
  /\ At(c, "publish")
  /\ \/ copy' = run[c].token /\ newer' = FALSE
     \/ copy # 0 /\ UNCHANGED <<copy, newer>>
  /\ Go(c, "check")
  /\ UNCHANGED <<active, proc, stream, main>>

\* The staged file is as young as its writing, and the rename is atomic.
PublishCredentials(c) ==
  /\ At(c, "publish")
  /\ \/ copy' = run[c].token /\ newer' = FALSE /\ Go(c, "check")
     \/ NotRefreshed(c) /\ UNCHANGED <<copy, newer>>
  /\ UNCHANGED <<active, proc, stream, main>>

CheckContext(c) ==
  /\ At(c, "check")
  /\ IF run[c].over
       THEN run' = [run EXCEPT ![c].pc = "remove", ![c].out = "context"]
       ELSE Go(c, "start")
  /\ UNCHANGED <<active, proc, stream, login>>

-----------------------------------------------------------------------------
(* Run: the process *)

Opened(c) == IF Streams(c) THEN [NoStream EXCEPT !.pump = "open"] ELSE NoStream

\* The stream reader is there before the guard and the process can fail.
Start(c) ==
  /\ At(c, "start")
  /\ stream' = [stream EXCEPT ![c] = Opened(c)]
  /\ \/ /\ proc' = [proc EXCEPT ![c] = [NoProc EXCEPT !.root = "running"]]
        /\ run' = [run EXCEPT ![c].pc = "attach", ![c].asOf = 0, ![c].token = 0]
     \/ /\ Fail(c, "closestream")
        /\ UNCHANGED proc
  /\ UNCHANGED <<active, login>>

Killed(p) ==
  [p EXCEPT !.root = IF @ = "running" THEN "killed" ELSE @, !.child = @ /\ ~p.held]

Attach(c) ==
  /\ At(c, "attach")
  /\ \/ proc' = [proc EXCEPT ![c].held = TRUE] /\ Go(c, "await")
     \/ proc' = [proc EXCEPT ![c] = Killed(@)] /\ Fail(c, "reap")
  /\ UNCHANGED <<active, stream, login>>

\* The goroutine in cmd.Wait, with the copying goroutine it joins.  A living
\* descendant holds the pipes, until WaitDelay has passed.
WaitReturns(c) ==
  /\ run[c].pc \in {"await", "terminate", "reap"}
  /\ proc[c].root \notin {"none", "running"}
  /\ proc[c].waited = "none"
  /\ stream[c].offer = "none"
  /\ proc' = [proc EXCEPT ![c].waited = IF proc[c].root # "zero" THEN "error"
                                       ELSE IF proc[c].child THEN "delay" ELSE "ok"]
  /\ UNCHANGED <<active, run, stream, login>>

awaitProcess(c) ==
  /\ At(c, "await")
  /\ \/ proc[c].waited # "none" /\ Go(c, "closeguard")
     \/ /\ run[c].over /\ proc[c].waited = "none"
        /\ run' = [run EXCEPT ![c].pc = "terminate", ![c].interrupted = TRUE]
  /\ UNCHANGED <<active, proc, stream, login>>

\* Mutant of Terminate: the processes are left running.
TerminateNothing(c) ==
  /\ At(c, "terminate")
  /\ Go(c, "reap")
  /\ UNCHANGED <<active, proc, stream, login>>

Terminate(c) ==
  /\ At(c, "terminate")
  /\ proc' = [proc EXCEPT ![c] = Killed(@)]
  /\ Go(c, "reap")
  /\ UNCHANGED <<active, stream, login>>

Reap(c) ==
  /\ At(c, "reap") /\ proc[c].waited # "none"
  /\ Go(c, "closeguard")
  /\ UNCHANGED <<active, proc, stream, login>>

\* Mutant of CloseGuard: the guard is not closed when the root has ended.
CloseGuardNever(c) ==
  /\ At(c, "closeguard")
  /\ Go(c, "closestream")
  /\ UNCHANGED <<active, proc, stream, login>>

CloseGuard(c) ==
  /\ At(c, "closeguard")
  /\ proc' = [proc EXCEPT ![c] = Killed(@)]
  /\ Go(c, "closestream")
  /\ UNCHANGED <<active, stream, login>>

-----------------------------------------------------------------------------
(* Run: the end of the stream, the outcome and the deferred calls *)

Changed(line) == line = "turn"
Flushed(s) ==
  [s EXCEPT !.line = "none",
            !.made = IF Changed(s.line) THEN @ + 1 ELSE @,
            !.offer = IF Changed(s.line) THEN "send" ELSE @]
Reported(c, line) == IF IsClaude(c) /\ line \in {"good", "bad"} THEN line ELSE proc[c].report

\* A line is decoded when its newline is written, and by Close at the end.
flush(c) ==
  /\ stream' = [stream EXCEPT ![c] = Flushed(@)]
  /\ proc' = [proc EXCEPT ![c].report = Reported(c, stream[c].line)]

CloseStream(c) ==
  /\ At(c, "closestream")
  /\ IF Streams(c) THEN flush(c) /\ Go(c, "closepump")
                   ELSE Go(c, "decode") /\ UNCHANGED <<proc, stream>>
  /\ UNCHANGED <<active, login>>

ClosePump(c) ==
  /\ At(c, "closepump") /\ stream[c].offer = "none"
  /\ stream' = [stream EXCEPT ![c].pump = "closed"]
  /\ Go(c, "join")
  /\ UNCHANGED <<active, proc, login>>

JoinPump(c) ==
  /\ At(c, "join") /\ stream[c].pump = "done"
  /\ Go(c, "decode")
  /\ UNCHANGED <<active, proc, stream, login>>

\* Mutant of Outcome: an interrupted run is reported so although it completed.
OutcomeInterrupted(c) ==
  IF run[c].out # "none" THEN run[c].out
  ELSE IF run[c].interrupted THEN "context"
  ELSE IF proc[c].waited = "ok" /\ proc[c].report = "good" THEN "report" ELSE "error"

Outcome(c) ==
  IF run[c].out # "none" THEN run[c].out
  ELSE IF run[c].interrupted /\ proc[c].waited # "ok" THEN "context"
  ELSE IF proc[c].waited = "ok" /\ proc[c].report = "good" THEN "report" ELSE "error"

Decode(c) ==
  /\ At(c, "decode")
  /\ run' = [run EXCEPT ![c].pc = "remove", ![c].out = Outcome(c)]
  /\ UNCHANGED <<active, proc, stream, login>>

RemoveScratch(c) ==
  /\ At(c, "remove")
  /\ run' = [run EXCEPT ![c].pc = "release", ![c].scratch = FALSE]
  /\ UNCHANGED <<active, proc, stream, login>>

\* release, the deferred cancel of the context, and the return.
release(c) ==
  /\ At(c, "release")
  /\ active' = NoCall
  /\ run' = [run EXCEPT ![c] = IdleRun]
  /\ proc' = [proc EXCEPT ![c] = IF Alive(c) THEN @ ELSE NoProc]
  /\ stream' = [stream EXCEPT ![c] = IF @.pump = "done" THEN NoStream ELSE @]
  /\ UNCHANGED login

-----------------------------------------------------------------------------
(* The context: Cancel by task, the timeout, and the caller's own context *)

Cancel(t) ==
  /\ active # NoCall /\ run[active].task = t
  /\ ~run[active].over
  /\ run' = [run EXCEPT ![active].over = TRUE]
  /\ UNCHANGED <<active, proc, stream, login>>

Expire(c) ==
  /\ run[c].pc # "idle" /\ ~run[c].over
  /\ run' = [run EXCEPT ![c].over = TRUE]
  /\ UNCHANGED <<active, proc, stream, login>>

-----------------------------------------------------------------------------
(* The pump: offer by the one producer, and the goroutine that reports *)

\* Mutant of OfferSend: a full channel drops the newest sample.
OfferDropping(c) ==
  /\ stream[c].offer = "send"
  /\ stream' = [stream EXCEPT ![c].offer = "none",
                              ![c].slot = IF @ = 0 THEN stream[c].made ELSE @]
  /\ UNCHANGED <<active, run, proc, login>>

OfferSend(c) ==
  /\ stream[c].offer = "send"
  /\ stream' = [stream EXCEPT
       ![c].offer = IF stream[c].slot = 0 THEN "none" ELSE "drain",
       ![c].slot = IF @ = 0 THEN stream[c].made ELSE @]
  /\ UNCHANGED <<active, run, proc, login>>

OfferDrain(c) ==
  /\ stream[c].offer = "drain"
  /\ stream' = [stream EXCEPT ![c].offer = "resend", ![c].slot = 0]
  /\ UNCHANGED <<active, run, proc, login>>

OfferResend(c) ==
  /\ stream[c].offer = "resend"
  /\ stream' = [stream EXCEPT ![c].offer = "none",
                              ![c].slot = IF @ = 0 THEN stream[c].made ELSE @]
  /\ UNCHANGED <<active, run, proc, login>>

PumpTakes(c) ==
  /\ stream[c].slot # 0 /\ stream[c].hand = 0
  /\ stream' = [stream EXCEPT ![c].hand = stream[c].slot, ![c].slot = 0]
  /\ UNCHANGED <<active, run, proc, login>>

PumpReports(c) ==
  /\ stream[c].hand # 0
  /\ stream' = [stream EXCEPT ![c].told = stream[c].hand, ![c].hand = 0]
  /\ UNCHANGED <<active, run, proc, login>>

PumpEnds(c) ==
  /\ stream[c].pump = "closed" /\ stream[c].slot = 0 /\ stream[c].hand = 0
  /\ stream' = [stream EXCEPT ![c].pump = "done"]
  /\ UNCHANGED <<active, run, proc, login>>

-----------------------------------------------------------------------------
(* The provider's process and the user: the environment *)

\* The copying goroutine is at its next read of the pipe.
Reading(c) ==
  /\ run[c].pc \in {"attach", "await", "terminate", "reap"}
  /\ proc[c].root # "none" /\ proc[c].waited = "none"
  /\ Streams(c) /\ stream[c].offer = "none"

\* buffer: the text of a line, which may grow past maxStreamLine.
WriteText(c, kind) ==
  /\ Reading(c)
  /\ stream[c].line = "none" \/ (stream[c].line # "long" /\ kind = "long")
  /\ kind = "turn" => stream[c].made < MaxSamples
  /\ stream' = [stream EXCEPT ![c].line = kind]
  /\ UNCHANGED <<active, run, proc, login>>

WriteNewline(c) ==
  /\ Reading(c)
  /\ flush(c)
  /\ UNCHANGED <<active, run, login>>

\* A report that is no line of the stream: Codex's result file, or all of stdout.
WriteReport(c, r) ==
  /\ proc[c].root = "running"
  /\ ~(IsClaude(c) /\ Streams(c))
  /\ proc' = [proc EXCEPT ![c].report = r]
  /\ UNCHANGED <<active, run, stream, login>>

Exit(c, status) ==
  /\ proc[c].root = "running"
  /\ proc' = [proc EXCEPT ![c].root = status]
  /\ UNCHANGED <<active, run, stream, login>>

Spawn(c) ==
  /\ proc[c].root = "running" /\ ~proc[c].child
  /\ proc[c].held \/ EarlySpawn
  /\ proc' = [proc EXCEPT ![c].child = TRUE]
  /\ UNCHANGED <<active, run, stream, login>>

ChildExits(c) ==
  /\ proc[c].child
  /\ proc' = [proc EXCEPT ![c].child = FALSE]
  /\ UNCHANGED <<active, run, stream, login>>

NextLogin == (IF main > copy THEN main ELSE copy) + 1

\* The provider refreshes the token of its isolated login.
RefreshToken(c) ==
  /\ Alive(c) /\ IsClaude(c)
  /\ copy # 0 /\ NextLogin <= MaxLogins
  /\ copy' = NextLogin
  /\ newer' = FALSE
  /\ UNCHANGED <<active, run, proc, stream, main>>

\* The user logs in again, which updates only the user's own file.
Relogin ==
  /\ NextLogin <= MaxLogins
  /\ ReloginMidCopy \/ \A c \in Call : ~At(c, "publish")
  /\ main' = NextLogin
  /\ newer' = TRUE
  /\ UNCHANGED <<active, run, proc, stream, copy>>

-----------------------------------------------------------------------------
RunStep(c) ==
  \/ MakeScratch(c) \/ Prepare(c) \/ ReadCredentials(c)
  \/ PublishCredentials(c) \/ CheckContext(c) \/ Start(c) \/ Attach(c)
  \/ awaitProcess(c) \/ Terminate(c) \/ Reap(c) \/ CloseGuard(c)
  \/ CloseStream(c) \/ ClosePump(c) \/ JoinPump(c) \/ Decode(c)
  \/ RemoveScratch(c) \/ release(c)

PumpStep(c) ==
  \/ OfferSend(c) \/ OfferDrain(c) \/ OfferResend(c)
  \/ PumpTakes(c) \/ PumpReports(c) \/ PumpEnds(c)

ProviderStep(c) ==
  \/ \E kind \in Line \ {"none"} : WriteText(c, kind)
  \/ WriteNewline(c)
  \/ \E r \in {"good", "bad"} : WriteReport(c, r)
  \/ \E status \in {"zero", "failed"} : Exit(c, status)
  \/ Spawn(c) \/ ChildExits(c) \/ RefreshToken(c)

Next ==
  \/ \E c \in Call, t \in Task : reserve(c, t)
  \/ \E c \in Call : RunStep(c) \/ WaitReturns(c) \/ PumpStep(c) \/ ProviderStep(c) \/ Expire(c)
  \/ \E t \in Task : Cancel(t)
  \/ Relogin

Spec == Init /\ [][Next]_vars

\* Goroutines run, and the context's timer fires; the provider and the user
\* owe nothing.
RunnerFairness ==
  \A c \in Call : /\ WF_vars(RunStep(c)) /\ WF_vars(WaitReturns(c))
                  /\ WF_vars(OfferSend(c) \/ OfferDrain(c) \/ OfferResend(c))
                  /\ WF_vars(PumpTakes(c) \/ PumpReports(c) \/ PumpEnds(c))
                  /\ WF_vars(Expire(c))

FairSpec == Spec /\ RunnerFairness

-----------------------------------------------------------------------------
(* Properties *)

\* Nothing of a run outlives its reservation: a call that does not hold the
\* runner has no provider process, no descendant, no scratch directory and no
\* sample on its way to the caller.  So two providers never share the browser.
NothingOutlives ==
  \A c \in Call : active # c =>
    /\ ~Alive(c)
    /\ ~run[c].scratch
    /\ stream[c].pump = "none"

\* The state is well typed, and NothingOutlives.
RunnerInv == RunnerTypeOK /\ NothingOutlives

\* What Run returns is what became of the process: a report only of one that
\* exited by itself with status 0 and left a good report, and the context's
\* error never of one that did, unless a descendant kept its pipes open.
OutcomeIsTrue ==
  \A c \in Call :
    /\ run[c].out = "report" => proc[c].root = "zero" /\ proc[c].report = "good"
    /\ run[c].out = "context" /\ proc[c].root = "zero" => proc[c].waited = "delay"

\* Samples reach the caller in order and the newest is never lost: what waits
\* is newer than what was reported, and once the pump has ended the last report
\* is of the last sample, whatever offer dropped on the way.
NewestTold ==
  \A c \in Call :
    /\ stream[c].slot # 0 => stream[c].slot > stream[c].told /\ stream[c].slot > stream[c].hand
    /\ stream[c].hand # 0 => stream[c].hand > stream[c].told
    /\ stream[c].pump = "done" => stream[c].told = stream[c].made

\* A Claude provider starts with a login at least as recent as the one the user
\* had when Run began, or the result carries a warning.
StaleLoginWarned ==
  \A c \in Call : At(c, "start") /\ IsClaude(c) /\ ~run[c].warned => copy >= run[c].asOf

\* The isolated copy refreshes its own token; no refresh of the copy ever
\* replaces it by an older login.
NewerLoginKept == [][copy' >= copy]_vars

\* Every call of Run returns, however the provider behaves.
RunReturns == \A c \in Call : ~At(c, "idle") ~> At(c, "idle")
=============================================================================
