-------------------------- MODULE HostRunnerProofs --------------------------
(***************************************************************************)
(* Proofs about HostRunner for any number of calls, tasks, samples and     *)
(* logins: nothing of a run outlives its reservation, what Run returns is  *)
(* what became of the process, the newest sample is never lost, and a      *)
(* login is never replaced by an older one.                                *)
(*                                                                         *)
(* The invariant is local to a call: it relates its program counter to its *)
(* process, its stream and the two login files.  A call that is idle has   *)
(* none of these, and only the call that holds the runner is not idle.     *)
(***************************************************************************)
EXTENDS HostRunner, TLAPS

-----------------------------------------------------------------------------
(* The inductive invariant *)

\* Where Run has not started the provider, where it has, and where it is done
\* with it.
Before == {"idle", "scratch", "prepare", "read", "publish", "check", "start"}
During == {"attach", "await", "terminate", "reap", "closeguard"}
After == {"closestream", "closepump", "join", "decode", "remove", "release"}

\* The process p of a call in state r.  A descendant is always in the guard's
\* hold, so closing the guard ends it.
ProcOK(r, p) ==
  /\ p.child => p.held /\ r.pc \in {"attach", "await", "terminate", "closeguard"}
  /\ p.root = "running" => r.pc \in {"attach", "await", "terminate"}
  /\ r.pc \in Before => p = NoProc
  /\ r.pc \in During => p.root # "none"
  /\ r.pc \in {"await", "terminate"} => p.held
  /\ r.pc = "closeguard" \/ (r.pc \in After /\ p.root # "none") => p.waited # "none"
  /\ p.waited # "none" => p.root \notin {"none", "running"}
  /\ p.waited # "none" => (p.waited = "error" <=> p.root # "zero")

\* What Run is about to return.
OutOK(r, p) ==
  /\ r.out \in {"report", "context"} => r.pc \in {"remove", "release"}
  /\ r.out = "report" => p.root = "zero" /\ p.report = "good"
  /\ r.out = "context" /\ p.root = "zero" => p.waited = "delay"
  /\ r.out = "none" /\ r.pc \in {"closestream", "closepump", "join", "decode"} => p.root # "none"

\* The stream s of a call in state r.
StreamOK(r, s) ==
  /\ s.pump = "none" => s = NoStream
  /\ r.pc \in Before => s.pump = "none"
  /\ r.pc \in During \cup {"closestream"} =>
       s.pump = IF r.task \in Streaming THEN "open" ELSE "none"
  /\ r.pc = "closepump" => s.pump = "open"
  /\ r.pc = "join" => s.pump \in {"closed", "done"}
  /\ r.pc \in {"decode", "remove", "release"} => s.pump \in {"none", "done"}
  /\ s.pump \in {"closed", "done"} => s.offer = "none"

\* Where the newest sample is: still to be offered, waiting, with the callback,
\* or reported; whatever else is on its way is older.
PumpOK(s) ==
  /\ s.line = "turn" => s.made < MaxSamples
  /\ s.slot # 0 => s.slot > s.told /\ s.slot > s.hand
  /\ s.hand # 0 => s.hand > s.told
  /\ s.offer # "none" => s.slot < s.made /\ s.hand < s.made /\ s.told < s.made
  /\ s.offer = "none" => s.made = IF s.slot # 0 THEN s.slot
                                  ELSE IF s.hand # 0 THEN s.hand ELSE s.told
  /\ s.offer = "resend" => s.slot = 0
  /\ s.pump = "done" => s.slot = 0 /\ s.hand = 0

\* Once cmd.Wait has returned, the copying goroutine is joined: nothing is being
\* offered but what Close itself flushes.
Joined(r, p, s) ==
  p.waited # "none" \/ r.pc = "closestream" => r.pc = "closepump" \/ s.offer = "none"

\* The login files, m the user's and k the copy, while Run prepares.
LoginOK(r, m, k) ==
  /\ r.pc \in Before => r.asOf <= m
  /\ r.pc \in {"read", "publish"} => m >= k
  /\ r.pc = "publish" => r.token = m
  /\ r.pc \in {"check", "start"} /\ r.task \in Claude /\ ~r.warned => k >= r.asOf

CallOK(r, p, s) ==
  /\ r.pc = "idle" => r = IdleRun
  /\ r.scratch => r.pc \notin {"scratch", "release"}
  /\ ProcOK(r, p) /\ OutOK(r, p) /\ StreamOK(r, s) /\ PumpOK(s) /\ Joined(r, p, s)

\* Only the call that holds the runner is under way.
Reserved == \A c \in Call : run[c].pc # "idle" <=> active = c

CallsOK == \A c \in Call : CallOK(run[c], proc[c], stream[c])

\* The younger file holds the later login.
LoginsOK ==
  /\ IF newer THEN main >= copy ELSE copy >= main
  /\ \A c \in Call : LoginOK(run[c], main, copy)

RunnerIInv == RunnerTypeOK /\ Reserved /\ CallsOK
LoginIInv == RunnerIInv /\ LoginsOK
-----------------------------------------------------------------------------
(* Facts about one call *)

\* The blank states are states.
LEMMA BlankTyped ==
  IdleRun \in RunState /\ NoProc \in ProcState /\ NoStream \in StreamState
<1>1. IdleRun \in RunState
  BY RunnerAssumption DEF IdleRun, RunState, Pc, Logins
<1>2. NoProc \in ProcState
  BY DEF NoProc, ProcState
<1>3. NoStream \in StreamState
  BY RunnerAssumption DEF NoStream, StreamState, Line
<1>4. QED
  BY <1>1, <1>2, <1>3

\* A call whose provider has not been started keeps its part of the invariant
\* wherever it may go.
LEMMA BlankCall ==
  ASSUME NEW r, r.pc \in Before \cup {"remove", "release"},
         r.pc = "idle" => r = IdleRun,
         r.scratch => r.pc \notin {"scratch", "release"},
         r.out # "report",
         r.out = "context" => r.pc \in {"remove", "release"}
  PROVE  CallOK(r, NoProc, NoStream)
<1>1. NoProc.root = "none" /\ ~NoProc.child /\ NoProc.waited = "none"
  BY DEF NoProc
<1>2. /\ NoStream.pump = "none" /\ NoStream.line = "none" /\ NoStream.offer = "none"
      /\ NoStream.slot = 0 /\ NoStream.hand = 0 /\ NoStream.told = 0 /\ NoStream.made = 0
  BY DEF NoStream
<1>3. PumpOK(NoStream)
  BY <1>2, RunnerAssumption DEF PumpOK
<1>4. ProcOK(r, NoProc) /\ OutOK(r, NoProc) /\ StreamOK(r, NoStream)
  BY <1>1, <1>2 DEF ProcOK, OutOK, StreamOK, Before, During, After
<1>5. Joined(r, NoProc, NoStream)
  BY <1>2 DEF Joined
<1>6. QED
  BY <1>3, <1>4, <1>5 DEF CallOK

\* What the invariant says of one call.
LEMMA CallFacts ==
  ASSUME RunnerIInv, NEW c \in Call
  PROVE  /\ run[c] \in RunState /\ proc[c] \in ProcState /\ stream[c] \in StreamState
         /\ CallOK(run[c], proc[c], stream[c])
  BY DEF RunnerIInv, RunnerTypeOK, CallsOK

\* A step of one call that keeps the reservation preserves the invariant when
\* it keeps that call's own part of it.
LEMMA LocalStep ==
  ASSUME RunnerIInv, NEW c \in Call,
         active' = active,
         RunnerTypeOK',
         run[c].pc # "idle", run'[c].pc # "idle",
         \A d \in Call \ {c} : run'[d] = run[d] /\ proc'[d] = proc[d] /\ stream'[d] = stream[d],
         CallOK(run'[c], proc'[c], stream'[c])
  PROVE  RunnerIInv'
<1>1. Reserved'
  BY DEF RunnerIInv, Reserved
<1>2. CallsOK'
  <2>1. SUFFICES ASSUME NEW d \in Call PROVE CallOK(run'[d], proc'[d], stream'[d])
    BY DEF CallsOK
  <2>2. CASE d = c
    BY <2>2
  <2>3. CASE d # c
    BY <2>3 DEF RunnerIInv, CallsOK
  <2>4. QED
    BY <2>2, <2>3
<1>3. QED
  BY <1>1, <1>2 DEF RunnerIInv

\* A provider, a descendant or an open stream belongs to a call under way.
LEMMA IdleHasNothing ==
  ASSUME RunnerIInv, NEW c \in Call, run[c].pc = "idle"
  PROVE  run[c] = IdleRun /\ proc[c] = NoProc /\ stream[c] = NoStream
  BY CallFacts DEF CallOK, ProcOK, StreamOK, Before

-----------------------------------------------------------------------------
(* The reservation and its release *)

\* reserve keeps the invariant.
LEMMA ReserveStep ==
  ASSUME RunnerIInv, NEW c \in Call, NEW t \in Task, reserve(c, t)
  PROVE  RunnerIInv'
<1> USE DEF reserve, At, login
<1>1. run[c] \in RunState /\ proc[c] = NoProc /\ stream[c] = NoStream
  BY CallFacts, IdleHasNothing
<1>2. RunnerTypeOK'
  <2>1. [IdleRun EXCEPT !.pc = "scratch", !.task = t, !.asOf = main] \in RunState
    BY BlankTyped DEF RunnerIInv, RunnerTypeOK, RunState, Pc
  <2>2. QED
    BY <2>1 DEF RunnerIInv, RunnerTypeOK
<1>3. Reserved'
  BY RunnerAssumption DEF RunnerIInv, RunnerTypeOK, Reserved, RunState, IdleRun
<1>4. /\ run'[c].pc = "scratch" /\ run'[c].out = "none"
      /\ proc'[c] = NoProc /\ stream'[c] = NoStream
      /\ ~run'[c].scratch
  BY <1>1 DEF RunnerIInv, RunnerTypeOK, IdleRun
<1>5. CallOK(run'[c], proc'[c], stream'[c])
  BY <1>4, BlankCall DEF Before
<1>6. CallsOK'
  <2>1. SUFFICES ASSUME NEW d \in Call, d # c PROVE CallOK(run'[d], proc'[d], stream'[d])
    BY <1>5 DEF CallsOK
  <2>2. run'[d] = run[d] /\ proc'[d] = proc[d] /\ stream'[d] = stream[d]
    BY <2>1 DEF RunnerIInv, RunnerTypeOK
  <2>3. QED
    BY <2>1, <2>2, CallFacts
<1>7. QED
  BY <1>2, <1>3, <1>6 DEF RunnerIInv

\* release keeps the invariant.
LEMMA ReleaseStep ==
  ASSUME RunnerIInv, NEW c \in Call, release(c)
  PROVE  RunnerIInv'
<1> USE DEF release, At, login
<1>1. /\ run[c] \in RunState /\ proc[c] \in ProcState /\ stream[c] \in StreamState
      /\ CallOK(run[c], proc[c], stream[c])
  BY CallFacts
<1>2. ~Alive(c) /\ (stream[c].pump = "done" \/ stream[c] = NoStream)
  BY <1>1 DEF Alive, CallOK, ProcOK, StreamOK
<1>3. run'[c] = IdleRun /\ proc'[c] = NoProc /\ stream'[c] = NoStream
  BY <1>2 DEF RunnerIInv, RunnerTypeOK
<1>4. RunnerTypeOK'
  BY <1>1, BlankTyped DEF RunnerIInv, RunnerTypeOK
<1>5. active = c
  BY DEF RunnerIInv, Reserved
<1>6. Reserved'
  BY <1>3, <1>5, RunnerAssumption DEF RunnerIInv, RunnerTypeOK, Reserved, IdleRun
<1>7. CallsOK'
  <2>1. CallOK(run'[c], proc'[c], stream'[c])
    BY <1>3, BlankCall DEF IdleRun, Before
  <2>2. SUFFICES ASSUME NEW d \in Call, d # c PROVE CallOK(run'[d], proc'[d], stream'[d])
    BY <2>1 DEF CallsOK
  <2>3. run'[d] = run[d] /\ proc'[d] = proc[d] /\ stream'[d] = stream[d]
    BY <2>2 DEF RunnerIInv, RunnerTypeOK
  <2>4. QED
    BY <2>2, <2>3, CallFacts
<1>8. QED
  BY <1>4, <1>6, <1>7 DEF RunnerIInv
-----------------------------------------------------------------------------
(* The preparation: the call has no process and no stream yet *)

\* Before the provider is started a call has only its own state.
LEMMA NothingYet ==
  ASSUME RunnerIInv, NEW c \in Call, run[c].pc \in Before
  PROVE  /\ run[c] \in RunState /\ proc[c] = NoProc /\ stream[c] = NoStream
         /\ run[c].out \notin {"report", "context"}
         /\ run[c].scratch => run[c].pc # "scratch"
  BY CallFacts DEF CallOK, ProcOK, OutOK, StreamOK, Before

\* A step that changes only the state of call c.
OnlyRun(c) ==
  /\ run' \in [Call -> RunState]
  /\ \A d \in Call \ {c} : run'[d] = run[d]
  /\ UNCHANGED <<active, proc, stream>>
  /\ main' \in Logins /\ copy' \in Logins /\ newer' \in BOOLEAN

\* A step of the preparation preserves the invariant.
LEMMA BlankStep ==
  ASSUME RunnerIInv, NEW c \in Call, OnlyRun(c),
         run[c].pc \in Before \ {"idle"},
         run'[c].pc \in (Before \ {"idle", "scratch"}) \cup {"remove", "release"},
         run'[c].scratch => run'[c].pc # "release",
         run'[c].out # "report",
         run'[c].out = "context" => run'[c].pc \in {"remove", "release"}
  PROVE  RunnerIInv'
<1>1. RunnerTypeOK'
  BY DEF RunnerIInv, RunnerTypeOK, OnlyRun
<1>2. proc'[c] = NoProc /\ stream'[c] = NoStream
  BY NothingYet DEF OnlyRun
<1>3. CallOK(run'[c], proc'[c], stream'[c])
  <2>1. /\ run'[c].pc \in Before \cup {"remove", "release"}
        /\ run'[c].pc \notin {"idle", "scratch"}
    BY DEF Before
  <2>2. QED
    BY <1>2, <2>1, BlankCall
<1>4. run'[c].pc # "idle"
  BY DEF Before
<1>5. QED
  BY <1>1, <1>3, <1>4, LocalStep DEF OnlyRun

\* The ways a step of the preparation may change the state of call c.
LEMMA RunMoves ==
  ASSUME RunnerIInv, NEW c \in Call, NEW pc \in Pc,
         UNCHANGED <<active, proc, stream>>,
         main' \in Logins, copy' \in Logins, newer' \in BOOLEAN
  PROVE  /\ Go(c, pc) =>
              OnlyRun(c) /\ run'[c] = [run[c] EXCEPT !.pc = pc]
         /\ Fail(c, pc) =>
              OnlyRun(c) /\ run'[c] = [run[c] EXCEPT !.pc = pc, !.out = "error"]
<1>1. run[c] \in RunState /\ run \in [Call -> RunState]
  BY DEF RunnerIInv, RunnerTypeOK
<1>2. ASSUME Go(c, pc)
      PROVE  OnlyRun(c) /\ run'[c] = [run[c] EXCEPT !.pc = pc]
  BY <1>1, <1>2 DEF Go, OnlyRun, RunState
<1>3. ASSUME Fail(c, pc)
      PROVE  OnlyRun(c) /\ run'[c] = [run[c] EXCEPT !.pc = pc, !.out = "error"]
  BY <1>1, <1>3 DEF Fail, OnlyRun, RunState
<1>4. QED
  BY <1>2, <1>3

\* MakeScratch keeps the invariant.
LEMMA MakeScratchStep ==
  ASSUME RunnerIInv, NEW c \in Call, MakeScratch(c)
  PROVE  RunnerIInv'
<1> USE DEF MakeScratch, At, login
<1>1. run[c].pc \in Before
  BY DEF Before
<1>2. run[c] \in RunState /\ run[c].out \notin {"report", "context"} /\ ~run[c].scratch
  BY <1>1, NothingYet
<1>3. main' \in Logins /\ copy' \in Logins /\ newer' \in BOOLEAN
  BY DEF RunnerIInv, RunnerTypeOK
<1>4. CASE Fail(c, "release")
  <2>1. OnlyRun(c) /\ run'[c] = [run[c] EXCEPT !.pc = "release", !.out = "error"]
    BY <1>3, <1>4, RunMoves DEF Pc
  <2>2. QED
    BY <1>2, <2>1, BlankStep DEF RunState, Before
<1>5. CASE run' = [run EXCEPT ![c].pc = "prepare", ![c].scratch = TRUE]
  <2>1. OnlyRun(c)
    BY <1>2, <1>3, <1>5 DEF OnlyRun, RunState, Pc, RunnerIInv, RunnerTypeOK
  <2>2. run'[c] = [run[c] EXCEPT !.pc = "prepare", !.scratch = TRUE]
    BY <1>5 DEF RunnerIInv, RunnerTypeOK
  <2>3. QED
    BY <1>2, <2>1, <2>2, BlankStep DEF RunState, Before
<1>6. QED
  BY <1>4, <1>5
\* Going on, failing, or going on with the login as it is.
LEMMA PrepareMoves ==
  ASSUME RunnerIInv, NEW c \in Call,
         run[c].pc \in Before \ {"idle", "scratch"},
         UNCHANGED <<active, proc, stream>>,
         main' \in Logins, copy' \in Logins, newer' \in BOOLEAN,
         \/ \E pc \in Before \ {"idle", "scratch"} : Go(c, pc)
         \/ Fail(c, "remove")
         \/ NotRefreshed(c)
  PROVE  RunnerIInv'
<1>1. /\ run[c] \in RunState /\ run[c].out \notin {"report", "context"}
      /\ run \in [Call -> RunState]
  BY NothingYet DEF RunnerIInv, RunnerTypeOK
<1>2. CASE \E pc \in Before \ {"idle", "scratch"} : Go(c, pc)
  <2>1. PICK pc \in Before \ {"idle", "scratch"} : Go(c, pc)
    BY <1>2
  <2>2. pc \in Pc
    BY DEF Before, Pc
  <2>3. OnlyRun(c) /\ run'[c] = [run[c] EXCEPT !.pc = pc]
    BY <2>1, <2>2, RunMoves
  <2>4. QED
    BY <1>1, <2>3, BlankStep DEF RunState, Before
<1>3. CASE Fail(c, "remove")
  <2>1. OnlyRun(c) /\ run'[c] = [run[c] EXCEPT !.pc = "remove", !.out = "error"]
    BY <1>3, RunMoves DEF Pc
  <2>2. QED
    BY <1>1, <2>1, BlankStep DEF RunState, Before
<1>4. CASE run' = [run EXCEPT ![c].pc = "check", ![c].warned = TRUE]
  <2>1. OnlyRun(c)
    BY <1>1, <1>4 DEF OnlyRun, RunState, Pc
  <2>2. run'[c] = [run[c] EXCEPT !.pc = "check", !.warned = TRUE]
    BY <1>1, <1>4
  <2>3. QED
    BY <1>1, <2>1, <2>2, BlankStep DEF RunState, Before
<1>5. QED
  BY <1>2, <1>3, <1>4 DEF NotRefreshed

\* Prepare keeps the invariant.
LEMMA PrepareStep ==
  ASSUME RunnerIInv, NEW c \in Call, Prepare(c)
  PROVE  RunnerIInv'
<1>1. /\ run[c].pc \in Before \ {"idle", "scratch"}
      /\ UNCHANGED <<active, proc, stream>>
      /\ main' \in Logins /\ copy' \in Logins /\ newer' \in BOOLEAN
  BY DEF Prepare, At, login, Before, RunnerIInv, RunnerTypeOK
<1>2. \/ \E pc \in Before \ {"idle", "scratch"} : Go(c, pc)
      \/ Fail(c, "remove")
      \/ NotRefreshed(c)
  BY DEF Prepare, Before
<1>3. QED
  BY <1>1, <1>2, PrepareMoves

\* Read keeps the invariant.
LEMMA ReadStep ==
  ASSUME RunnerIInv, NEW c \in Call, ReadCredentials(c)
  PROVE  RunnerIInv'
<1>1. /\ run[c].pc \in Before \ {"idle", "scratch"}
      /\ UNCHANGED <<active, proc, stream>>
      /\ main \in Logins
      /\ main' \in Logins /\ copy' \in Logins /\ newer' \in BOOLEAN
  BY DEF ReadCredentials, At, login, Before, RunnerIInv, RunnerTypeOK
<1>2. CASE run' = [run EXCEPT ![c].pc = "publish", ![c].token = main]
  <2>1. /\ run[c] \in RunState /\ run[c].out \notin {"report", "context"}
        /\ run \in [Call -> RunState]
    BY <1>1, NothingYet DEF RunnerIInv, RunnerTypeOK
  <2>2. OnlyRun(c)
    BY <1>1, <1>2, <2>1 DEF OnlyRun, RunState, Pc
  <2>3. run'[c] = [run[c] EXCEPT !.pc = "publish", !.token = main]
    BY <1>2, <2>1
  <2>4. QED
    BY <1>1, <2>1, <2>2, <2>3, BlankStep DEF RunState, Before
<1>3. CASE NotRefreshed(c)
  BY <1>1, <1>3, PrepareMoves
<1>4. QED
  BY <1>2, <1>3 DEF ReadCredentials

\* PublishCredentials keeps the invariant.
LEMMA PublishStep ==
  ASSUME RunnerIInv, NEW c \in Call, PublishCredentials(c)
  PROVE  RunnerIInv'
<1>1. run[c].pc \in Before \ {"idle", "scratch"} /\ UNCHANGED <<active, proc, stream>>
  BY DEF PublishCredentials, At, Before
<1>2. run[c].token \in Logins
  BY CallFacts DEF RunState
<1>3. main' \in Logins /\ copy' \in Logins /\ newer' \in BOOLEAN
  BY <1>2 DEF PublishCredentials, RunnerIInv, RunnerTypeOK
<1>4. \/ \E pc \in Before \ {"idle", "scratch"} : Go(c, pc)
      \/ NotRefreshed(c)
  BY DEF PublishCredentials, Before
<1>5. QED
  BY <1>1, <1>3, <1>4, PrepareMoves

\* CheckContext keeps the invariant.
LEMMA CheckStep ==
  ASSUME RunnerIInv, NEW c \in Call, CheckContext(c)
  PROVE  RunnerIInv'
<1>1. /\ run[c].pc \in Before \ {"idle", "scratch"}
      /\ UNCHANGED <<active, proc, stream>>
      /\ main' \in Logins /\ copy' \in Logins /\ newer' \in BOOLEAN
  BY DEF CheckContext, At, login, Before, RunnerIInv, RunnerTypeOK
<1>2. CASE run[c].over
  <2>1. run' = [run EXCEPT ![c].pc = "remove", ![c].out = "context"]
    BY <1>2 DEF CheckContext
  <2>2. /\ run[c] \in RunState
        /\ run \in [Call -> RunState]
    BY <1>1, NothingYet DEF RunnerIInv, RunnerTypeOK
  <2>3. OnlyRun(c)
    BY <1>1, <2>1, <2>2 DEF OnlyRun, RunState, Pc
  <2>4. run'[c] = [run[c] EXCEPT !.pc = "remove", !.out = "context"]
    BY <2>1, <2>2
  <2>5. QED
    BY <1>1, <2>2, <2>3, <2>4, BlankStep DEF RunState, Before
<1>3. CASE ~run[c].over
  <2>1. \E pc \in Before \ {"idle", "scratch"} : Go(c, pc)
    BY <1>3 DEF CheckContext, Before
  <2>2. QED
    BY <1>1, <2>1, PrepareMoves
<1>4. QED
  BY <1>2, <1>3
-----------------------------------------------------------------------------
(* The process: from Start to the closing of the guard *)

\* The program counter of a call under way moves; its process, its stream and
\* the outcome stay.
LEMMA GoStep ==
  ASSUME RunnerIInv, NEW c \in Call, NEW pc \in Pc \ {"idle", "scratch", "release"}, Go(c, pc),
         run[c].pc # "idle",
         UNCHANGED <<active, proc, stream, login>>,
         ProcOK([run[c] EXCEPT !.pc = pc], proc[c]),
         OutOK([run[c] EXCEPT !.pc = pc], proc[c]),
         StreamOK([run[c] EXCEPT !.pc = pc], stream[c]),
         Joined([run[c] EXCEPT !.pc = pc], proc[c], stream[c])
  PROVE  RunnerIInv'
<1>1. main' \in Logins /\ copy' \in Logins /\ newer' \in BOOLEAN
  BY DEF RunnerIInv, RunnerTypeOK, login
<1>2. OnlyRun(c) /\ run'[c] = [run[c] EXCEPT !.pc = pc]
  BY <1>1, RunMoves
<1>3. RunnerTypeOK'
  BY <1>1, <1>2 DEF RunnerIInv, RunnerTypeOK, OnlyRun
<1>4. run[c] \in RunState /\ PumpOK(stream[c])
  BY CallFacts DEF CallOK
<1>5. run'[c].pc = pc
  BY <1>2, <1>4 DEF RunState
<1>6. CallOK(run'[c], proc'[c], stream'[c])
  BY <1>2, <1>4, <1>5 DEF CallOK
<1>7. QED
  BY <1>2, <1>3, <1>5, <1>6, LocalStep DEF OnlyRun

\* Start keeps the invariant.
LEMMA StartStep ==
  ASSUME RunnerIInv, NEW c \in Call, Start(c)
  PROVE  RunnerIInv'
<1> USE DEF Start, At, login
<1>1. /\ run[c] \in RunState /\ run[c].pc = "start" /\ proc[c] = NoProc /\ stream[c] = NoStream
      /\ run[c].out \notin {"report", "context"}
  BY NothingYet DEF Before
<1>2. Opened(c) \in StreamState /\ PumpOK(Opened(c))
  <2>1. Opened(c) \in StreamState
    BY BlankTyped DEF Opened, StreamState
  <2>2. PumpOK(Opened(c))
    BY RunnerAssumption DEF Opened, NoStream, PumpOK
  <2>3. QED
    BY <2>1, <2>2
<1>3. (Opened(c).pump = "none" => Opened(c) = NoStream) /\ Opened(c).offer = "none"
  BY DEF Opened, NoStream
<1>4. Opened(c).pump = IF run[c].task \in Streaming THEN "open" ELSE "none"
  BY DEF Opened, NoStream, Streams
<1>5. /\ stream'[c] = Opened(c)
      /\ \A d \in Call \ {c} : stream'[d] = stream[d]
      /\ stream' \in [Call -> StreamState]
  BY <1>2 DEF RunnerIInv, RunnerTypeOK
<1>6. CASE /\ proc' = [proc EXCEPT ![c] = [NoProc EXCEPT !.root = "running"]]
           /\ run' = [run EXCEPT ![c].pc = "attach", ![c].asOf = 0, ![c].token = 0]
  <2>1. /\ run' \in [Call -> RunState]
        /\ \A d \in Call \ {c} : run'[d] = run[d]
        /\ run'[c] = [run[c] EXCEPT !.pc = "attach", !.asOf = 0, !.token = 0]
    <3>1. 0 \in Logins
      BY RunnerAssumption DEF Logins
    <3>2. [run[c] EXCEPT !.pc = "attach", !.asOf = 0, !.token = 0] \in RunState
      BY <1>1, <3>1 DEF RunState, Pc
    <3>3. QED
      BY <1>6, <3>2 DEF RunnerIInv, RunnerTypeOK
  <2>2. [NoProc EXCEPT !.root = "running"] \in ProcState
    BY BlankTyped DEF ProcState
  <2>3. /\ proc' \in [Call -> ProcState]
        /\ \A d \in Call \ {c} : proc'[d] = proc[d]
        /\ proc'[c] = [NoProc EXCEPT !.root = "running"]
    BY <1>6, <2>2 DEF RunnerIInv, RunnerTypeOK
  <2>4. /\ run'[c].pc = "attach" /\ run'[c].out = run[c].out /\ run'[c].task = run[c].task
    BY <1>1, <2>1 DEF RunState
  <2>5. proc'[c].root = "running" /\ ~proc'[c].child /\ proc'[c].waited = "none"
    BY <2>3 DEF NoProc
  <2>6. ProcOK(run'[c], proc'[c]) /\ OutOK(run'[c], proc'[c])
    BY <1>1, <2>4, <2>5 DEF ProcOK, OutOK, Before, During, After
  <2>7. StreamOK(run'[c], stream'[c])
    BY <1>3, <1>4, <1>5, <2>4, NothingYet DEF StreamOK, Before, During
  <2>8. RunnerTypeOK'
    BY <1>5, <2>1, <2>3 DEF RunnerIInv, RunnerTypeOK
  <2>9. CallOK(run'[c], proc'[c], stream'[c])
    BY <1>2, <1>3, <1>5, <2>4, <2>6, <2>7 DEF CallOK, Joined
  <2>10. QED
    BY <1>1, <1>5, <2>1, <2>3, <2>4, <2>8, <2>9, LocalStep
<1>7. CASE Fail(c, "closestream") /\ UNCHANGED proc
  <2>1. /\ run' \in [Call -> RunState]
        /\ \A d \in Call \ {c} : run'[d] = run[d]
        /\ run'[c] = [run[c] EXCEPT !.pc = "closestream", !.out = "error"]
    BY <1>1, <1>7 DEF Fail, RunnerIInv, RunnerTypeOK, RunState, Pc
  <2>2. /\ run'[c].pc = "closestream" /\ run'[c].out = "error" /\ run'[c].task = run[c].task
    BY <1>1, <2>1 DEF RunState
  <2>3. proc'[c].root = "none" /\ ~proc'[c].child /\ proc'[c].waited = "none"
    BY <1>1, <1>7 DEF NoProc
  <2>4. ProcOK(run'[c], proc'[c]) /\ OutOK(run'[c], proc'[c])
    BY <2>2, <2>3 DEF ProcOK, OutOK, Before, During, After
  <2>5. StreamOK(run'[c], stream'[c])
    BY <1>3, <1>4, <1>5, <2>2 DEF StreamOK, Before, During
  <2>6. RunnerTypeOK'
    BY <1>5, <1>7, <2>1 DEF RunnerIInv, RunnerTypeOK
  <2>7. CallOK(run'[c], proc'[c], stream'[c])
    BY <1>2, <1>3, <1>5, <2>2, <2>4, <2>5 DEF CallOK, Joined
  <2>8. QED
    BY <1>1, <1>5, <1>7, <2>1, <2>2, <2>6, <2>7, LocalStep
<1>8. QED
  BY <1>6, <1>7
\* A step of the process alone, of a call under way.
LEMMA ProcStep ==
  ASSUME RunnerIInv, NEW c \in Call, NEW p \in ProcState,
         run[c].pc # "idle",
         proc' = [proc EXCEPT ![c] = p],
         UNCHANGED <<active, run, stream, login>>,
         ProcOK(run[c], p), OutOK(run[c], p), Joined(run[c], p, stream[c])
  PROVE  RunnerIInv'
<1>1. RunnerTypeOK'
  BY DEF RunnerIInv, RunnerTypeOK, login
<1>2. proc'[c] = p /\ \A d \in Call \ {c} : proc'[d] = proc[d]
  BY DEF RunnerIInv, RunnerTypeOK
<1>3. CallOK(run'[c], proc'[c], stream'[c])
  BY <1>2, CallFacts DEF CallOK
<1>4. QED
  BY <1>1, <1>2, <1>3, LocalStep

\* A step of the program counter and the process of a call under way.
LEMMA RunProcStep ==
  ASSUME RunnerIInv, NEW c \in Call, NEW p \in ProcState,
         NEW pc \in Pc \ {"idle", "scratch", "release"},
         run[c].pc # "idle",
         Go(c, pc) \/ Fail(c, pc),
         proc' = [proc EXCEPT ![c] = p],
         UNCHANGED <<active, stream, login>>,
         ProcOK(run'[c], p), OutOK(run'[c], p), StreamOK(run'[c], stream[c]),
         Joined(run'[c], p, stream[c])
  PROVE  RunnerIInv'
<1>1. run[c] \in RunState /\ run \in [Call -> RunState] /\ PumpOK(stream[c])
  BY CallFacts DEF CallOK, RunnerIInv, RunnerTypeOK
<1>2. run'[c].pc = pc /\ run' \in [Call -> RunState] /\ \A d \in Call \ {c} : run'[d] = run[d]
  BY <1>1 DEF Go, Fail, RunState
<1>3. RunnerTypeOK'
  BY <1>2 DEF RunnerIInv, RunnerTypeOK, login
<1>4. proc'[c] = p /\ \A d \in Call \ {c} : proc'[d] = proc[d]
  BY DEF RunnerIInv, RunnerTypeOK
<1>5. CallOK(run'[c], proc'[c], stream'[c])
  BY <1>1, <1>2, <1>4 DEF CallOK
<1>6. QED
  BY <1>2, <1>3, <1>4, <1>5, LocalStep

\* A guard that is told to kill leaves no process it holds.
LEMMA KilledProc ==
  ASSUME NEW p \in ProcState
  PROVE  /\ Killed(p) \in ProcState
         /\ Killed(p).root # "running"
         /\ Killed(p).root = p.root \/ (p.root = "running" /\ Killed(p).root = "killed")
         /\ p.held => ~Killed(p).child
         /\ Killed(p).child => p.child
         /\ Killed(p).held = p.held /\ Killed(p).waited = p.waited /\ Killed(p).report = p.report
  BY DEF Killed, ProcState

\* Attach keeps the invariant.
LEMMA AttachStep ==
  ASSUME RunnerIInv, NEW c \in Call, Attach(c)
  PROVE  RunnerIInv'
<1> USE DEF Attach, At
<1>1. /\ run[c] \in RunState /\ proc[c] \in ProcState /\ stream[c] \in StreamState
      /\ ProcOK(run[c], proc[c]) /\ OutOK(run[c], proc[c]) /\ StreamOK(run[c], stream[c])
      /\ Joined(run[c], proc[c], stream[c])
      /\ run \in [Call -> RunState] /\ run[c].pc = "attach"
  BY CallFacts DEF CallOK, RunnerIInv, RunnerTypeOK
<1>2. CASE proc' = [proc EXCEPT ![c].held = TRUE] /\ Go(c, "await")
  <2> DEFINE p == [proc[c] EXCEPT !.held = TRUE]
  <2>1. p \in ProcState /\ p.held /\ p.root = proc[c].root /\ p.waited = proc[c].waited
        /\ p.report = proc[c].report
    BY <1>1 DEF ProcState
  <2>2. proc' = [proc EXCEPT ![c] = p]
    BY <1>2
  <2>3. run'[c] = [run[c] EXCEPT !.pc = "await"]
    BY <1>1, <1>2 DEF Go
  <2>4. run'[c].pc = "await" /\ run'[c].out = run[c].out /\ run'[c].task = run[c].task
    BY <1>1, <2>3 DEF RunState
  <2>5. ProcOK(run'[c], p) /\ OutOK(run'[c], p) /\ Joined(run'[c], p, stream[c])
    BY <1>1, <2>1, <2>4 DEF ProcOK, OutOK, Joined, Before, During, After
  <2>6. StreamOK(run'[c], stream[c])
    BY <1>1, <2>4 DEF StreamOK, Before, During
  <2>7. QED
    BY <1>1, <1>2, <2>1, <2>2, <2>5, <2>6, RunProcStep DEF Pc
<1>3. CASE proc' = [proc EXCEPT ![c] = Killed(@)] /\ Fail(c, "reap")
  <2>1. proc' = [proc EXCEPT ![c] = Killed(proc[c])]
    BY <1>3
  <2>2. run'[c] = [run[c] EXCEPT !.pc = "reap", !.out = "error"]
    BY <1>1, <1>3 DEF Fail
  <2>3. run'[c].pc = "reap" /\ run'[c].out = "error" /\ run'[c].task = run[c].task
    BY <1>1, <2>2 DEF RunState
  <2>4. ~Killed(proc[c]).child
    BY <1>1, KilledProc DEF ProcOK
  <2>5. ProcOK(run'[c], Killed(proc[c])) /\ OutOK(run'[c], Killed(proc[c]))
    BY <1>1, <2>3, <2>4, KilledProc DEF ProcOK, OutOK, Before, During, After
  <2>6. StreamOK(run'[c], stream[c]) /\ Joined(run'[c], Killed(proc[c]), stream[c])
    BY <1>1, <2>3, KilledProc DEF StreamOK, Joined, Before, During
  <2>7. Killed(proc[c]) \in ProcState
    BY <1>1, KilledProc
  <2>8. QED
    BY <1>1, <1>3, <2>1, <2>5, <2>6, <2>7, RunProcStep DEF Pc
<1>4. QED
  BY <1>2, <1>3
\* WaitReturns keeps the invariant.
LEMMA WaitStep ==
  ASSUME RunnerIInv, NEW c \in Call, WaitReturns(c)
  PROVE  RunnerIInv'
<1> USE DEF WaitReturns
<1>1. /\ run[c] \in RunState /\ proc[c] \in ProcState
      /\ ProcOK(run[c], proc[c]) /\ OutOK(run[c], proc[c])
  BY CallFacts DEF CallOK
<1> DEFINE w == IF proc[c].root # "zero" THEN "error"
                ELSE IF proc[c].child THEN "delay" ELSE "ok"
           p == [proc[c] EXCEPT !.waited = w]
<1>2. w \in {"error", "delay", "ok"} /\ (w = "error" <=> proc[c].root # "zero")
  OBVIOUS
<1>3. proc' = [proc EXCEPT ![c] = p]
  OBVIOUS
<1> HIDE DEF w
<1>4. /\ p \in ProcState /\ p.waited = w /\ p.root = proc[c].root /\ p.child = proc[c].child
      /\ p.held = proc[c].held /\ p.report = proc[c].report
  BY <1>1, <1>2 DEF ProcState
<1>5. run[c].pc \in {"await", "terminate", "reap"} /\ UNCHANGED <<active, run, stream, login>>
  OBVIOUS
<1>6. ProcOK(run[c], p) /\ OutOK(run[c], p) /\ Joined(run[c], p, stream[c])
  BY <1>1, <1>2, <1>4, <1>5 DEF ProcOK, OutOK, Joined, Before, During, After
<1> HIDE DEF p
<1>7. QED
  BY <1>3, <1>4, <1>5, <1>6, ProcStep

\* awaitProcess keeps the invariant.
LEMMA AwaitStep ==
  ASSUME RunnerIInv, NEW c \in Call, awaitProcess(c)
  PROVE  RunnerIInv'
<1>1. /\ run[c] \in RunState /\ proc[c] \in ProcState /\ stream[c] \in StreamState
      /\ ProcOK(run[c], proc[c]) /\ OutOK(run[c], proc[c]) /\ StreamOK(run[c], stream[c])
      /\ Joined(run[c], proc[c], stream[c])
      /\ run \in [Call -> RunState] /\ run[c].pc = "await" /\ PumpOK(stream[c])
      /\ UNCHANGED <<active, proc, stream, login>>
  BY CallFacts DEF CallOK, RunnerIInv, RunnerTypeOK, awaitProcess, At
<1>2. CASE proc[c].waited # "none" /\ Go(c, "closeguard")
  <2> DEFINE r == [run[c] EXCEPT !.pc = "closeguard"]
  <2>1. r.pc = "closeguard" /\ r.out = run[c].out /\ r.task = run[c].task
    BY <1>1 DEF RunState
  <2>2. ProcOK(r, proc[c]) /\ OutOK(r, proc[c]) /\ StreamOK(r, stream[c]) /\ Joined(r, proc[c], stream[c])
    BY <1>1, <1>2, <2>1 DEF ProcOK, OutOK, StreamOK, Joined, Before, During, After
  <2>3. QED
    BY <1>1, <1>2, <2>2, GoStep DEF Pc
<1>3. CASE run' = [run EXCEPT ![c].pc = "terminate", ![c].interrupted = TRUE]
  <2> DEFINE r == [run[c] EXCEPT !.pc = "terminate", !.interrupted = TRUE]
  <2>1. /\ r \in RunState /\ r.pc = "terminate" /\ r.out = run[c].out
        /\ r.task = run[c].task
    BY <1>1 DEF RunState, Pc
  <2>2. run' = [run EXCEPT ![c] = r]
    BY <1>3
  <2>3. ProcOK(r, proc[c]) /\ OutOK(r, proc[c]) /\ StreamOK(r, stream[c]) /\ Joined(r, proc[c], stream[c])
    BY <1>1, <2>1 DEF ProcOK, OutOK, StreamOK, Joined, Before, During, After
  <2> HIDE DEF r
  <2>4. CallOK(r, proc[c], stream[c])
    BY <1>1, <2>1, <2>3 DEF CallOK
  <2>5. run'[c] = r /\ run' \in [Call -> RunState] /\ \A d \in Call \ {c} : run'[d] = run[d]
    BY <1>1, <2>1, <2>2
  <2>6. RunnerTypeOK'
    BY <1>1, <2>5 DEF RunnerIInv, RunnerTypeOK, login
  <2>7. QED
    BY <1>1, <2>1, <2>4, <2>5, <2>6, LocalStep
<1>4. QED
  BY <1>2, <1>3 DEF awaitProcess

\* Terminate keeps the invariant.
LEMMA TerminateStep ==
  ASSUME RunnerIInv, NEW c \in Call, Terminate(c)
  PROVE  RunnerIInv'
<1> USE DEF Terminate, At
<1>1. /\ run[c] \in RunState /\ proc[c] \in ProcState /\ stream[c] \in StreamState
      /\ ProcOK(run[c], proc[c]) /\ OutOK(run[c], proc[c]) /\ StreamOK(run[c], stream[c])
      /\ Joined(run[c], proc[c], stream[c])
      /\ run \in [Call -> RunState] /\ run[c].pc = "terminate"
  BY CallFacts DEF CallOK, RunnerIInv, RunnerTypeOK
<1>2. proc' = [proc EXCEPT ![c] = Killed(proc[c])] /\ Killed(proc[c]) \in ProcState
  BY <1>1, KilledProc
<1>3. run'[c] = [run[c] EXCEPT !.pc = "reap"]
  BY <1>1 DEF Go
<1>4. run'[c].pc = "reap" /\ run'[c].out = run[c].out /\ run'[c].task = run[c].task
  BY <1>1, <1>3 DEF RunState
<1>5. ~Killed(proc[c]).child
  BY <1>1, KilledProc DEF ProcOK
<1>6. ProcOK(run'[c], Killed(proc[c]))
  BY <1>1, <1>4, <1>5, KilledProc DEF ProcOK, Before, During, After
<1>7. /\ OutOK(run'[c], Killed(proc[c])) /\ StreamOK(run'[c], stream[c])
      /\ Joined(run'[c], Killed(proc[c]), stream[c])
  BY <1>1, <1>4, KilledProc DEF OutOK, StreamOK, Joined, Before, During
<1>8. QED
  BY <1>1, <1>2, <1>6, <1>7, RunProcStep DEF Pc

\* Reap keeps the invariant.
LEMMA ReapStep ==
  ASSUME RunnerIInv, NEW c \in Call, Reap(c)
  PROVE  RunnerIInv'
<1> USE DEF Reap, At
<1>1. /\ run[c] \in RunState /\ run[c].pc = "reap"
      /\ ProcOK(run[c], proc[c]) /\ OutOK(run[c], proc[c]) /\ StreamOK(run[c], stream[c])
      /\ Joined(run[c], proc[c], stream[c])
  BY CallFacts DEF CallOK
<1> DEFINE r == [run[c] EXCEPT !.pc = "closeguard"]
<1>2. r.pc = "closeguard" /\ r.out = run[c].out /\ r.task = run[c].task
  BY <1>1 DEF RunState
<1>3. ProcOK(r, proc[c]) /\ OutOK(r, proc[c]) /\ StreamOK(r, stream[c]) /\ Joined(r, proc[c], stream[c])
  BY <1>1, <1>2 DEF ProcOK, OutOK, StreamOK, Joined, Before, During, After
<1>4. QED
  BY <1>1, <1>3, GoStep DEF Pc

\* CloseGuard keeps the invariant.
LEMMA CloseGuardStep ==
  ASSUME RunnerIInv, NEW c \in Call, CloseGuard(c)
  PROVE  RunnerIInv'
<1> USE DEF CloseGuard, At
<1>1. /\ run[c] \in RunState /\ proc[c] \in ProcState /\ stream[c] \in StreamState
      /\ ProcOK(run[c], proc[c]) /\ OutOK(run[c], proc[c]) /\ StreamOK(run[c], stream[c])
      /\ Joined(run[c], proc[c], stream[c])
      /\ run \in [Call -> RunState] /\ run[c].pc = "closeguard"
  BY CallFacts DEF CallOK, RunnerIInv, RunnerTypeOK
<1>2. proc' = [proc EXCEPT ![c] = Killed(proc[c])] /\ Killed(proc[c]) \in ProcState
  BY <1>1, KilledProc
<1>3. run'[c] = [run[c] EXCEPT !.pc = "closestream"]
  BY <1>1 DEF Go
<1>4. run'[c].pc = "closestream" /\ run'[c].out = run[c].out /\ run'[c].task = run[c].task
  BY <1>1, <1>3 DEF RunState
<1>5. /\ ~Killed(proc[c]).child
      /\ Killed(proc[c]).root = proc[c].root /\ proc[c].root \notin {"none", "running"}
  BY <1>1, KilledProc DEF ProcOK, During
<1>6. ProcOK(run'[c], Killed(proc[c]))
  BY <1>1, <1>4, <1>5, KilledProc DEF ProcOK, Before, During, After
<1>7. /\ OutOK(run'[c], Killed(proc[c])) /\ StreamOK(run'[c], stream[c])
      /\ Joined(run'[c], Killed(proc[c]), stream[c])
  BY <1>1, <1>4, <1>5 DEF OutOK, StreamOK, ProcOK, Joined, Before, During
<1>8. QED
  BY <1>1, <1>2, <1>6, <1>7, RunProcStep DEF Pc
-----------------------------------------------------------------------------
(* The end of the stream, the outcome and the clean-up *)

\* A line is flushed when nothing is being offered.
LEMMA FlushedStream ==
  ASSUME NEW s \in StreamState, PumpOK(s), s.offer = "none"
  PROVE  /\ Flushed(s) \in StreamState /\ PumpOK(Flushed(s))
         /\ Flushed(s).pump = s.pump
<1>1. /\ s.made \in 0..MaxSamples /\ s.slot \in 0..MaxSamples /\ s.hand \in 0..MaxSamples
      /\ s.told \in 0..MaxSamples /\ s.line \in Line
      /\ s.pump \in {"none", "open", "closed", "done"}
  BY DEF StreamState
<1>2. CASE s.line = "turn"
  <2>1. s.made + 1 \in 0..MaxSamples
    BY <1>1, <1>2, RunnerAssumption DEF PumpOK
  <2>2. Flushed(s) = [s EXCEPT !.line = "none", !.made = s.made + 1, !.offer = "send"]
    BY <1>2 DEF Flushed, Changed
  <2>3. Flushed(s) \in StreamState
    BY <2>1, <2>2 DEF StreamState, Line
  <2>4. /\ Flushed(s).line = "none" /\ Flushed(s).made = s.made + 1 /\ Flushed(s).offer = "send"
        /\ Flushed(s).slot = s.slot /\ Flushed(s).hand = s.hand /\ Flushed(s).told = s.told
        /\ Flushed(s).pump = s.pump
    BY <2>2 DEF StreamState
  <2>5. PumpOK(Flushed(s))
    BY <1>1, <2>4, RunnerAssumption DEF PumpOK
  <2>6. QED
    BY <2>3, <2>4, <2>5
<1>3. CASE s.line # "turn"
  <2>1. Flushed(s) = [s EXCEPT !.line = "none"]
    BY <1>3 DEF Flushed, Changed, StreamState
  <2>2. Flushed(s) \in StreamState
    BY <2>1 DEF StreamState, Line
  <2>3. /\ Flushed(s).line = "none" /\ Flushed(s).made = s.made /\ Flushed(s).offer = s.offer
        /\ Flushed(s).slot = s.slot /\ Flushed(s).hand = s.hand /\ Flushed(s).told = s.told
        /\ Flushed(s).pump = s.pump
    BY <2>1 DEF StreamState
  <2>4. PumpOK(Flushed(s))
    BY <1>1, <2>3 DEF PumpOK
  <2>5. QED
    BY <2>2, <2>3, <2>4
<1>4. QED
  BY <1>2, <1>3

\* What a flush leaves in the process is a report and nothing else.
LEMMA FlushedProc ==
  ASSUME RunnerIInv, NEW c \in Call, flush(c)
  PROVE  \E q \in {"none", "good", "bad"} :
           /\ proc' = [proc EXCEPT ![c] = [proc[c] EXCEPT !.report = q]]
           /\ [proc[c] EXCEPT !.report = q] \in ProcState
<1>1. proc[c] \in ProcState
  BY CallFacts
<1>2. Reported(c, stream[c].line) \in {"none", "good", "bad"}
  BY <1>1 DEF Reported, ProcState
<1>3. [proc[c] EXCEPT !.report = Reported(c, stream[c].line)] \in ProcState
  BY <1>1, <1>2 DEF ProcState
<1>4. QED
  BY <1>2, <1>3 DEF flush

\* CloseStream keeps the invariant.
LEMMA CloseStreamStep ==
  ASSUME RunnerIInv, NEW c \in Call, CloseStream(c)
  PROVE  RunnerIInv'
<1> USE DEF CloseStream, At
<1>1. /\ run[c] \in RunState /\ proc[c] \in ProcState /\ stream[c] \in StreamState
      /\ ProcOK(run[c], proc[c]) /\ OutOK(run[c], proc[c]) /\ StreamOK(run[c], stream[c])
      /\ Joined(run[c], proc[c], stream[c]) /\ PumpOK(stream[c])
      /\ run \in [Call -> RunState] /\ run[c].pc = "closestream"
  BY CallFacts DEF CallOK, RunnerIInv, RunnerTypeOK
<1>2. CASE Streams(c)
  <2>1. flush(c) /\ Go(c, "closepump")
    BY <1>2
  <2>2. PICK q \in {"none", "good", "bad"} :
          /\ proc' = [proc EXCEPT ![c] = [proc[c] EXCEPT !.report = q]]
          /\ [proc[c] EXCEPT !.report = q] \in ProcState
    BY <2>1, FlushedProc
  <2> DEFINE p == [proc[c] EXCEPT !.report = q]
             s == Flushed(stream[c])
             r == [run[c] EXCEPT !.pc = "closepump"]
  <2>3. /\ p.root = proc[c].root /\ p.child = proc[c].child /\ p.held = proc[c].held
        /\ p.waited = proc[c].waited
    BY <1>1 DEF ProcState
  <2>4. s \in StreamState /\ PumpOK(s) /\ s.pump = stream[c].pump
    BY <1>1, FlushedStream DEF Joined
  <2>5. r \in RunState /\ r.pc = "closepump" /\ r.out = run[c].out /\ r.task = run[c].task
    BY <1>1 DEF RunState, Pc
  <2>6. stream[c].pump = "open"
    BY <1>1, <1>2 DEF StreamOK, Streams
  <2>7. run' = [run EXCEPT ![c] = r] /\ stream' = [stream EXCEPT ![c] = s] /\ proc' = [proc EXCEPT ![c] = p]
    BY <2>1, <2>2 DEF Go, flush
  <2> HIDE DEF p, s, r
  <2>8. run'[c] = r /\ stream'[c] = s /\ proc'[c] = p
    BY <2>7 DEF RunnerIInv, RunnerTypeOK
  <2>9. RunnerTypeOK'
    BY <2>2, <2>4, <2>5, <2>7 DEF p, RunnerIInv, RunnerTypeOK, login
  <2>10. ProcOK(r, p) /\ OutOK(r, p)
    BY <1>1, <2>3, <2>5 DEF ProcOK, OutOK, Before, During, After
  <2>11. StreamOK(r, s) /\ Joined(r, p, s)
    BY <1>1, <2>4, <2>5, <2>6 DEF StreamOK, Joined, Before, During
  <2>12. CallOK(run'[c], proc'[c], stream'[c])
    BY <2>4, <2>5, <2>8, <2>10, <2>11 DEF CallOK
  <2>13. \A d \in Call \ {c} : run'[d] = run[d] /\ proc'[d] = proc[d] /\ stream'[d] = stream[d]
    BY <2>7 DEF RunnerIInv, RunnerTypeOK
  <2>14. QED
    BY <1>1, <2>5, <2>8, <2>9, <2>12, <2>13, LocalStep
<1>3. CASE ~Streams(c)
  <2>1. Go(c, "decode") /\ UNCHANGED <<active, proc, stream, login>>
    BY <1>3
  <2> DEFINE r == [run[c] EXCEPT !.pc = "decode"]
  <2>2. r.pc = "decode" /\ r.out = run[c].out /\ r.task = run[c].task
    BY <1>1 DEF RunState
  <2>3. stream[c].pump = "none"
    BY <1>1, <1>3 DEF StreamOK, Streams
  <2>4. ProcOK(r, proc[c]) /\ OutOK(r, proc[c])
    BY <1>1, <2>2 DEF ProcOK, OutOK, Before, During, After
  <2>5. StreamOK(r, stream[c]) /\ Joined(r, proc[c], stream[c])
    BY <1>1, <2>2, <2>3 DEF StreamOK, Joined, Before, During
  <2>6. QED
    BY <1>1, <2>1, <2>4, <2>5, GoStep DEF Pc
<1>4. QED
  BY <1>2, <1>3
\* ClosePump keeps the invariant.
LEMMA ClosePumpStep ==
  ASSUME RunnerIInv, NEW c \in Call, ClosePump(c)
  PROVE  RunnerIInv'
<1> USE DEF ClosePump, At
<1>1. /\ run[c] \in RunState /\ stream[c] \in StreamState
      /\ ProcOK(run[c], proc[c]) /\ OutOK(run[c], proc[c]) /\ StreamOK(run[c], stream[c])
      /\ PumpOK(stream[c])
      /\ run \in [Call -> RunState] /\ run[c].pc = "closepump" /\ stream[c].offer = "none"
  BY CallFacts DEF CallOK, RunnerIInv, RunnerTypeOK
<1> DEFINE r == [run[c] EXCEPT !.pc = "join"]
           s == [stream[c] EXCEPT !.pump = "closed"]
<1>2. r \in RunState /\ r.pc = "join" /\ r.out = run[c].out /\ r.task = run[c].task
  BY <1>1 DEF RunState, Pc
<1>3. /\ s \in StreamState /\ s.pump = "closed" /\ s.line = stream[c].line /\ s.made = stream[c].made
      /\ s.offer = stream[c].offer /\ s.slot = stream[c].slot /\ s.hand = stream[c].hand
      /\ s.told = stream[c].told
  BY <1>1 DEF StreamState
<1>4. run' = [run EXCEPT ![c] = r] /\ stream' = [stream EXCEPT ![c] = s]
  BY DEF Go
<1> HIDE DEF r, s
<1>5. /\ run'[c] = r /\ stream'[c] = s
      /\ \A d \in Call \ {c} : run'[d] = run[d] /\ stream'[d] = stream[d]
  BY <1>4 DEF RunnerIInv, RunnerTypeOK
<1>6. RunnerTypeOK'
  BY <1>2, <1>3, <1>4 DEF RunnerIInv, RunnerTypeOK, login
<1>7. ProcOK(r, proc[c]) /\ OutOK(r, proc[c])
  BY <1>1, <1>2 DEF ProcOK, OutOK, Before, During, After
<1>8. PumpOK(s)
  BY <1>1, <1>3 DEF PumpOK
<1>9. StreamOK(r, s) /\ Joined(r, proc[c], s)
  BY <1>1, <1>2, <1>3 DEF StreamOK, Joined, Before, During
<1>10. CallOK(run'[c], proc'[c], stream'[c])
  BY <1>2, <1>5, <1>7, <1>8, <1>9 DEF CallOK
<1>11. QED
  BY <1>1, <1>2, <1>5, <1>6, <1>10, LocalStep

\* JoinPump keeps the invariant.
LEMMA JoinPumpStep ==
  ASSUME RunnerIInv, NEW c \in Call, JoinPump(c)
  PROVE  RunnerIInv'
<1> USE DEF JoinPump, At
<1>1. /\ run[c] \in RunState /\ run[c].pc = "join" /\ stream[c].pump = "done"
      /\ ProcOK(run[c], proc[c]) /\ OutOK(run[c], proc[c]) /\ StreamOK(run[c], stream[c])
      /\ Joined(run[c], proc[c], stream[c])
  BY CallFacts DEF CallOK
<1> DEFINE r == [run[c] EXCEPT !.pc = "decode"]
<1>2. r.pc = "decode" /\ r.out = run[c].out /\ r.task = run[c].task
  BY <1>1 DEF RunState
<1>3. ProcOK(r, proc[c]) /\ OutOK(r, proc[c])
  BY <1>1, <1>2 DEF ProcOK, OutOK, Before, During, After
<1>4. StreamOK(r, stream[c]) /\ Joined(r, proc[c], stream[c])
  BY <1>1, <1>2 DEF StreamOK, Joined, Before, During
<1>5. QED
  BY <1>1, <1>3, <1>4, GoStep DEF Pc

\* A step of the state of a call under way, its process and stream unchanged.
LEMMA RunStateStep ==
  ASSUME RunnerIInv, NEW c \in Call, NEW r \in RunState,
         run[c].pc # "idle", r.pc # "idle",
         run' = [run EXCEPT ![c] = r],
         UNCHANGED <<active, proc, stream, login>>,
         CallOK(r, proc[c], stream[c])
  PROVE  RunnerIInv'
<1>1. run'[c] = r /\ \A d \in Call \ {c} : run'[d] = run[d]
  BY DEF RunnerIInv, RunnerTypeOK
<1>2. RunnerTypeOK'
  BY DEF RunnerIInv, RunnerTypeOK, login
<1>3. QED
  BY <1>1, <1>2, LocalStep

\* Decode keeps the invariant.
LEMMA DecodeStep ==
  ASSUME RunnerIInv, NEW c \in Call, Decode(c)
  PROVE  RunnerIInv'
<1>1. /\ run[c] \in RunState /\ proc[c] \in ProcState
      /\ ProcOK(run[c], proc[c]) /\ OutOK(run[c], proc[c]) /\ StreamOK(run[c], stream[c])
      /\ Joined(run[c], proc[c], stream[c]) /\ PumpOK(stream[c])
      /\ run[c].pc = "decode" /\ UNCHANGED <<active, proc, stream, login>>
  BY CallFacts DEF CallOK, Decode, At
<1> DEFINE r == [run[c] EXCEPT !.pc = "remove", !.out = Outcome(c)]
<1>2. /\ Outcome(c) \in {"none", "report", "context", "error"} \ {"none"}
      /\ Outcome(c) = "report" => proc[c].waited = "ok" /\ proc[c].report = "good"
      /\ Outcome(c) = "context" => proc[c].waited # "ok" /\ run[c].out = "none"
  BY <1>1 DEF Outcome, RunState, OutOK
<1>3. r \in RunState /\ r.pc = "remove" /\ r.out = Outcome(c) /\ r.task = run[c].task
  BY <1>1, <1>2 DEF RunState, Pc
<1>4. run' = [run EXCEPT ![c] = r]
  BY DEF Decode
<1> HIDE DEF r
<1>5. ProcOK(r, proc[c])
  BY <1>1, <1>3 DEF ProcOK, Before, During, After
<1>6. OutOK(r, proc[c])
  <2>1. proc[c].waited = "ok" => proc[c].root = "zero"
    BY <1>1 DEF ProcOK
  <2>2. run[c].out = "none" => proc[c].root # "none" /\ proc[c].waited # "none"
    BY <1>1 DEF ProcOK, OutOK, After
  <2>3. proc[c].root = "zero" /\ proc[c].waited \notin {"none", "ok"} => proc[c].waited = "delay"
    BY <1>1 DEF ProcOK, ProcState
  <2>4. QED
    BY <1>2, <1>3, <2>1, <2>2, <2>3 DEF OutOK
<1>7. StreamOK(r, stream[c]) /\ Joined(r, proc[c], stream[c])
  BY <1>1, <1>3 DEF StreamOK, Joined, Before, During
<1>8. CallOK(r, proc[c], stream[c])
  BY <1>1, <1>3, <1>5, <1>6, <1>7 DEF CallOK
<1>9. QED
  BY <1>1, <1>3, <1>4, <1>8, RunStateStep

\* RemoveScratch keeps the invariant.
LEMMA RemoveScratchStep ==
  ASSUME RunnerIInv, NEW c \in Call, RemoveScratch(c)
  PROVE  RunnerIInv'
<1>1. /\ run[c] \in RunState
      /\ ProcOK(run[c], proc[c]) /\ OutOK(run[c], proc[c]) /\ StreamOK(run[c], stream[c])
      /\ Joined(run[c], proc[c], stream[c]) /\ PumpOK(stream[c])
      /\ run[c].pc = "remove" /\ UNCHANGED <<active, proc, stream, login>>
  BY CallFacts DEF CallOK, RemoveScratch, At
<1> DEFINE r == [run[c] EXCEPT !.pc = "release", !.scratch = FALSE]
<1>2. /\ r \in RunState /\ r.pc = "release" /\ r.out = run[c].out /\ r.task = run[c].task
      /\ ~r.scratch
  BY <1>1 DEF RunState, Pc
<1>3. run' = [run EXCEPT ![c] = r]
  BY DEF RemoveScratch
<1> HIDE DEF r
<1>4. ProcOK(r, proc[c]) /\ OutOK(r, proc[c])
  BY <1>1, <1>2 DEF ProcOK, OutOK, Before, During, After
<1>5. StreamOK(r, stream[c]) /\ Joined(r, proc[c], stream[c])
  BY <1>1, <1>2 DEF StreamOK, Joined, Before, During
<1>6. CallOK(r, proc[c], stream[c])
  BY <1>1, <1>2, <1>4, <1>5 DEF CallOK
<1>7. QED
  BY <1>1, <1>2, <1>3, <1>6, RunStateStep

-----------------------------------------------------------------------------
(* The context *)

\* The end of the context only raises a flag.
LEMMA OverStep ==
  ASSUME RunnerIInv, NEW c \in Call, run[c].pc # "idle",
         run' = [run EXCEPT ![c].over = TRUE],
         UNCHANGED <<active, proc, stream, login>>
  PROVE  RunnerIInv'
<1>1. run[c] \in RunState /\ CallOK(run[c], proc[c], stream[c])
  BY CallFacts
<1> DEFINE r == [run[c] EXCEPT !.over = TRUE]
<1>2. /\ r \in RunState /\ r.pc = run[c].pc /\ r.out = run[c].out /\ r.task = run[c].task
      /\ r.scratch = run[c].scratch
  BY <1>1 DEF RunState
<1>3. run' = [run EXCEPT ![c] = r]
  OBVIOUS
<1> HIDE DEF r
<1>4. CallOK(r, proc[c], stream[c])
  BY <1>1, <1>2 DEF CallOK, ProcOK, OutOK, StreamOK, Joined
<1>5. QED
  BY <1>2, <1>3, <1>4, RunStateStep

\* Expire keeps the invariant.
LEMMA ExpireStep ==
  ASSUME RunnerIInv, NEW c \in Call, Expire(c)
  PROVE  RunnerIInv'
  BY OverStep DEF Expire

\* Cancel keeps the invariant.
LEMMA CancelStep ==
  ASSUME RunnerIInv, NEW t \in Task, Cancel(t)
  PROVE  RunnerIInv'
<1>1. active \in Call /\ run[active].pc # "idle"
  BY DEF Cancel, RunnerIInv, RunnerTypeOK, Reserved
<1>2. QED
  BY <1>1, OverStep DEF Cancel
-----------------------------------------------------------------------------
(* The pump *)

\* A step of the stream alone, of a call that has one.
LEMMA StreamStep ==
  ASSUME RunnerIInv, NEW c \in Call, NEW s \in StreamState,
         stream[c] # NoStream,
         stream' = [stream EXCEPT ![c] = s],
         UNCHANGED <<active, run, proc, login>>,
         PumpOK(s),
         s.pump = stream[c].pump \/ (stream[c].pump = "closed" /\ s.pump = "done"),
         stream[c].offer = "none" => s.offer = "none"
  PROVE  RunnerIInv'
<1>1. /\ run[c] \in RunState /\ stream[c] \in StreamState
      /\ ProcOK(run[c], proc[c]) /\ OutOK(run[c], proc[c]) /\ StreamOK(run[c], stream[c])
      /\ Joined(run[c], proc[c], stream[c]) /\ CallOK(run[c], proc[c], stream[c])
  BY CallFacts DEF CallOK
<1>2. run[c].pc # "idle"
  BY IdleHasNothing
<1>3. run[c].pc \in Pc /\ stream[c].pump # "none"
  BY <1>1 DEF RunState, StreamOK
<1>4. StreamOK(run[c], s)
  BY <1>1, <1>3 DEF StreamOK, Before, During, Pc
<1>5. CallOK(run[c], proc[c], s)
  BY <1>1, <1>4 DEF CallOK, Joined
<1>6. RunnerTypeOK'
  BY DEF RunnerIInv, RunnerTypeOK, login
<1>7. stream'[c] = s /\ \A d \in Call \ {c} : stream'[d] = stream[d]
  BY DEF RunnerIInv, RunnerTypeOK
<1>8. QED
  BY <1>2, <1>5, <1>6, <1>7, LocalStep

\* PumpStep keeps the invariant.
LEMMA PumpStepStep ==
  ASSUME RunnerIInv, NEW c \in Call, PumpStep(c)
  PROVE  RunnerIInv'
<1>1. /\ stream[c] \in StreamState /\ PumpOK(stream[c]) /\ stream \in [Call -> StreamState]
      /\ stream[c].pump = "none" => stream[c] = NoStream
  BY CallFacts DEF CallOK, StreamOK, RunnerIInv, RunnerTypeOK
<1>2. /\ stream[c].made \in 0..MaxSamples /\ stream[c].slot \in 0..MaxSamples
      /\ stream[c].hand \in 0..MaxSamples /\ stream[c].told \in 0..MaxSamples
      /\ 0 \in 0..MaxSamples
  BY <1>1, RunnerAssumption DEF StreamState
<1>3. /\ NoStream.offer = "none" /\ NoStream.slot = 0 /\ NoStream.hand = 0 /\ NoStream.pump = "none"
  BY DEF NoStream
<1>4. CASE OfferSend(c) \/ OfferResend(c)
  <2>1. stream[c].offer = "resend" => stream[c].slot = 0
    BY <1>1 DEF PumpOK
  <2>2. CASE stream[c].slot = 0
    <3> DEFINE s == [stream[c] EXCEPT !.offer = "none", !.slot = stream[c].made]
    <3>1. stream' = [stream EXCEPT ![c] = s] /\ UNCHANGED <<active, run, proc, login>>
      BY <1>1, <1>4, <2>2 DEF OfferSend, OfferResend
    <3>2. /\ s \in StreamState /\ s.pump = stream[c].pump /\ s.offer = "none" /\ s.slot = stream[c].made
          /\ s.hand = stream[c].hand /\ s.told = stream[c].told /\ s.made = stream[c].made
          /\ s.line = stream[c].line
      BY <1>1, <1>2 DEF StreamState
    <3>3. stream[c].offer # "none"
      BY <1>4 DEF OfferSend, OfferResend
    <3> HIDE DEF s
    <3>4. PumpOK(s)
      <4>1. stream[c].pump # "done"
        BY <1>4, <3>3, CallFacts DEF CallOK, StreamOK
      <4>2. QED
        BY <1>1, <1>2, <3>2, <3>3, <4>1, RunnerAssumption DEF PumpOK
    <3>5. QED
      BY <1>3, <3>1, <3>2, <3>3, <3>4, StreamStep
  <2>3. CASE stream[c].slot # 0
    <3> DEFINE s == [stream[c] EXCEPT !.offer = "drain"]
    <3>1. OfferSend(c)
      BY <1>4, <2>1, <2>3 DEF OfferResend
    <3>2. stream' = [stream EXCEPT ![c].offer = "drain", ![c].slot = stream[c].slot]
      BY <1>1, <2>3, <3>1 DEF OfferSend
    <3>3. stream' = [stream EXCEPT ![c] = s] /\ UNCHANGED <<active, run, proc, login>>
      BY <1>1, <3>1, <3>2 DEF OfferSend, StreamState
    <3>4. /\ s \in StreamState /\ s.pump = stream[c].pump /\ s.offer = "drain" /\ s.slot = stream[c].slot
          /\ s.hand = stream[c].hand /\ s.told = stream[c].told /\ s.made = stream[c].made
          /\ s.line = stream[c].line
      BY <1>1 DEF StreamState
    <3>5. stream[c].offer = "send"
      BY <3>1 DEF OfferSend
    <3> HIDE DEF s
    <3>6. PumpOK(s)
      BY <1>1, <1>2, <3>4, <3>5, RunnerAssumption DEF PumpOK
    <3>7. QED
      BY <1>3, <3>3, <3>4, <3>5, <3>6, StreamStep
  <2>4. QED
    BY <2>2, <2>3
<1>5. CASE OfferDrain(c)
  <2> DEFINE s == [stream[c] EXCEPT !.offer = "resend", !.slot = 0]
  <2>1. /\ stream' = [stream EXCEPT ![c] = s] /\ UNCHANGED <<active, run, proc, login>>
        /\ stream[c].offer = "drain"
    BY <1>5 DEF OfferDrain
  <2>2. /\ s \in StreamState /\ s.pump = stream[c].pump /\ s.offer = "resend" /\ s.slot = 0
        /\ s.hand = stream[c].hand /\ s.told = stream[c].told /\ s.made = stream[c].made
        /\ s.line = stream[c].line
    BY <1>1, <1>2 DEF StreamState
  <2> HIDE DEF s
  <2>3. PumpOK(s)
    BY <1>1, <1>2, <2>1, <2>2, RunnerAssumption DEF PumpOK
  <2>4. QED
    BY <1>3, <2>1, <2>2, <2>3, StreamStep
<1>6. CASE PumpTakes(c)
  <2> DEFINE s == [stream[c] EXCEPT !.hand = stream[c].slot, !.slot = 0]
  <2>1. /\ stream' = [stream EXCEPT ![c] = s] /\ UNCHANGED <<active, run, proc, login>>
        /\ stream[c].slot # 0 /\ stream[c].hand = 0
    BY <1>6 DEF PumpTakes
  <2>2. /\ s \in StreamState /\ s.pump = stream[c].pump /\ s.offer = stream[c].offer /\ s.slot = 0
        /\ s.hand = stream[c].slot /\ s.told = stream[c].told /\ s.made = stream[c].made
        /\ s.line = stream[c].line
    BY <1>1, <1>2 DEF StreamState
  <2> HIDE DEF s
  <2>3. PumpOK(s)
    BY <1>1, <1>2, <2>1, <2>2, RunnerAssumption DEF PumpOK
  <2>4. QED
    BY <1>3, <2>1, <2>2, <2>3, StreamStep
<1>7. CASE PumpReports(c)
  <2> DEFINE s == [stream[c] EXCEPT !.told = stream[c].hand, !.hand = 0]
  <2>1. /\ stream' = [stream EXCEPT ![c] = s] /\ UNCHANGED <<active, run, proc, login>>
        /\ stream[c].hand # 0
    BY <1>7 DEF PumpReports
  <2>2. /\ s \in StreamState /\ s.pump = stream[c].pump /\ s.offer = stream[c].offer
        /\ s.slot = stream[c].slot /\ s.hand = 0 /\ s.told = stream[c].hand
        /\ s.made = stream[c].made /\ s.line = stream[c].line
    BY <1>1, <1>2 DEF StreamState
  <2> HIDE DEF s
  <2>3. PumpOK(s)
    BY <1>1, <1>2, <2>1, <2>2, RunnerAssumption DEF PumpOK
  <2>4. QED
    BY <1>3, <2>1, <2>2, <2>3, StreamStep
<1>8. CASE PumpEnds(c)
  <2> DEFINE s == [stream[c] EXCEPT !.pump = "done"]
  <2>1. /\ stream' = [stream EXCEPT ![c] = s] /\ UNCHANGED <<active, run, proc, login>>
        /\ stream[c].pump = "closed" /\ stream[c].slot = 0 /\ stream[c].hand = 0
    BY <1>8 DEF PumpEnds
  <2>2. /\ s \in StreamState /\ s.pump = "done" /\ s.offer = stream[c].offer
        /\ s.slot = stream[c].slot /\ s.hand = stream[c].hand /\ s.told = stream[c].told
        /\ s.made = stream[c].made /\ s.line = stream[c].line
    BY <1>1 DEF StreamState
  <2> HIDE DEF s
  <2>3. PumpOK(s)
    BY <1>1, <1>2, <2>1, <2>2, RunnerAssumption DEF PumpOK
  <2>4. QED
    BY <1>3, <2>1, <2>2, <2>3, StreamStep
<1>9. QED
  BY <1>4, <1>5, <1>6, <1>7, <1>8 DEF PumpStep
-----------------------------------------------------------------------------
(* The provider and the user *)

\* WriteText keeps the invariant.
LEMMA WriteTextStep ==
  ASSUME RunnerIInv, NEW c \in Call, NEW kind \in Line, WriteText(c, kind)
  PROVE  RunnerIInv'
<1>1. /\ stream[c] \in StreamState /\ PumpOK(stream[c])
      /\ StreamOK(run[c], stream[c])
  BY CallFacts DEF CallOK
<1>2. /\ run[c].pc \in During /\ run[c].task \in Streaming
      /\ kind = "turn" => stream[c].made < MaxSamples
      /\ UNCHANGED <<active, run, proc, login>>
  BY DEF WriteText, Reading, Streams, During
<1> DEFINE s == [stream[c] EXCEPT !.line = kind]
<1>3. /\ s \in StreamState /\ s.pump = stream[c].pump /\ s.offer = stream[c].offer
      /\ s.slot = stream[c].slot /\ s.hand = stream[c].hand /\ s.told = stream[c].told
      /\ s.made = stream[c].made /\ s.line = kind
  BY <1>1 DEF StreamState
<1>4. stream' = [stream EXCEPT ![c] = s]
  BY DEF WriteText
<1> HIDE DEF s
<1>5. PumpOK(s)
  BY <1>1, <1>2, <1>3 DEF PumpOK
<1>6. stream[c] # NoStream
  BY <1>1, <1>2 DEF StreamOK, NoStream
<1>7. QED
  BY <1>2, <1>3, <1>4, <1>5, <1>6, StreamStep

\* WriteNewline keeps the invariant.
LEMMA WriteNewlineStep ==
  ASSUME RunnerIInv, NEW c \in Call, WriteNewline(c)
  PROVE  RunnerIInv'
<1>1. /\ run[c] \in RunState /\ proc[c] \in ProcState /\ stream[c] \in StreamState
      /\ ProcOK(run[c], proc[c]) /\ OutOK(run[c], proc[c]) /\ StreamOK(run[c], stream[c])
      /\ CallOK(run[c], proc[c], stream[c]) /\ PumpOK(stream[c])
  BY CallFacts DEF CallOK
<1>2. /\ run[c].pc \in {"attach", "await", "terminate", "reap"}
      /\ run[c].task \in Streaming
      /\ proc[c].waited = "none" /\ stream[c].offer = "none"
      /\ flush(c) /\ UNCHANGED <<active, run, login>>
  BY DEF WriteNewline, Reading, Streams
<1>3. PICK q \in {"none", "good", "bad"} :
        /\ proc' = [proc EXCEPT ![c] = [proc[c] EXCEPT !.report = q]]
        /\ [proc[c] EXCEPT !.report = q] \in ProcState
  BY <1>2, FlushedProc
<1> DEFINE p == [proc[c] EXCEPT !.report = q]
           s == Flushed(stream[c])
<1>4. /\ p.root = proc[c].root /\ p.child = proc[c].child /\ p.held = proc[c].held
      /\ p.waited = proc[c].waited
  BY <1>1 DEF ProcState
<1>5. s \in StreamState /\ PumpOK(s) /\ s.pump = stream[c].pump
  BY <1>1, <1>2, FlushedStream
<1>6. stream[c].pump = "open"
  BY <1>1, <1>2 DEF StreamOK, During
<1>7. stream' = [stream EXCEPT ![c] = s] /\ proc' = [proc EXCEPT ![c] = p] /\ p \in ProcState
  BY <1>2, <1>3 DEF flush
<1> HIDE DEF p, s
<1>8. /\ stream'[c] = s /\ proc'[c] = p
      /\ \A d \in Call \ {c} : proc'[d] = proc[d] /\ stream'[d] = stream[d]
  BY <1>7 DEF RunnerIInv, RunnerTypeOK
<1>9. RunnerTypeOK'
  BY <1>2, <1>5, <1>7 DEF RunnerIInv, RunnerTypeOK, login
<1>10. ProcOK(run[c], p) /\ OutOK(run[c], p)
  BY <1>1, <1>2, <1>4 DEF ProcOK, OutOK, Before, During, After
<1>11. StreamOK(run[c], s) /\ Joined(run[c], p, s)
  BY <1>1, <1>2, <1>4, <1>5, <1>6 DEF StreamOK, Joined, Before, During
<1>12. CallOK(run'[c], proc'[c], stream'[c])
  BY <1>1, <1>2, <1>5, <1>8, <1>10, <1>11 DEF CallOK
<1>13. QED
  BY <1>2, <1>8, <1>9, <1>12, LocalStep

\* The steps of the processes themselves.  This is where a descendant that the
\* guard does not hold would break the invariant.
LEMMA ProcessStep ==
  ASSUME RunnerIInv, ~EarlySpawn, NEW c \in Call,
         \/ \E r \in {"good", "bad"} : WriteReport(c, r)
         \/ \E status \in {"zero", "failed"} : Exit(c, status)
         \/ Spawn(c)
         \/ ChildExits(c)
  PROVE  RunnerIInv'
<1>1. /\ run[c] \in RunState /\ proc[c] \in ProcState
      /\ ProcOK(run[c], proc[c]) /\ OutOK(run[c], proc[c])
      /\ Joined(run[c], proc[c], stream[c])
  BY CallFacts DEF CallOK
<1>2. UNCHANGED <<active, run, stream, login>>
  BY DEF WriteReport, Exit, Spawn, ChildExits
<1>3. run[c].pc # "idle"
  <2>1. proc[c].root = "running" \/ proc[c].child
    BY DEF WriteReport, Exit, Spawn, ChildExits
  <2>2. QED
    BY <1>1, <2>1 DEF ProcOK
<1>4. ASSUME NEW q \in {"good", "bad"}, WriteReport(c, q)
      PROVE  RunnerIInv'
  <2> DEFINE p == [proc[c] EXCEPT !.report = q]
  <2>1. proc' = [proc EXCEPT ![c] = p] /\ proc[c].root = "running"
    BY <1>4 DEF WriteReport
  <2>2. /\ p \in ProcState /\ p.root = proc[c].root /\ p.child = proc[c].child
        /\ p.held = proc[c].held /\ p.waited = proc[c].waited
    BY <1>1 DEF ProcState
  <2>3. ProcOK(run[c], p) /\ OutOK(run[c], p) /\ Joined(run[c], p, stream[c])
    BY <1>1, <2>1, <2>2 DEF ProcOK, OutOK, Joined, Before, During, After
  <2> HIDE DEF p
  <2>4. QED
    BY <1>2, <1>3, <2>1, <2>2, <2>3, ProcStep
<1>5. ASSUME NEW status \in {"zero", "failed"}, Exit(c, status)
      PROVE  RunnerIInv'
  <2> DEFINE p == [proc[c] EXCEPT !.root = status]
  <2>1. proc' = [proc EXCEPT ![c] = p] /\ proc[c].root = "running"
    BY <1>5 DEF Exit
  <2>2. /\ p \in ProcState /\ p.root = status /\ p.child = proc[c].child
        /\ p.held = proc[c].held /\ p.waited = proc[c].waited /\ p.report = proc[c].report
    BY <1>1 DEF ProcState
  <2>3. ProcOK(run[c], p) /\ OutOK(run[c], p) /\ Joined(run[c], p, stream[c])
    BY <1>1, <2>1, <2>2 DEF ProcOK, OutOK, Joined, Before, During, After
  <2> HIDE DEF p
  <2>4. QED
    BY <1>2, <1>3, <2>1, <2>2, <2>3, ProcStep
<1>6. ASSUME Spawn(c) PROVE RunnerIInv'
  <2> DEFINE p == [proc[c] EXCEPT !.child = TRUE]
  <2>1. proc' = [proc EXCEPT ![c] = p] /\ proc[c].root = "running" /\ proc[c].held
    BY <1>6 DEF Spawn
  <2>2. /\ p \in ProcState /\ p.root = proc[c].root /\ p.child
        /\ p.held = proc[c].held /\ p.waited = proc[c].waited /\ p.report = proc[c].report
    BY <1>1 DEF ProcState
  <2>3. ProcOK(run[c], p) /\ OutOK(run[c], p) /\ Joined(run[c], p, stream[c])
    BY <1>1, <2>1, <2>2 DEF ProcOK, OutOK, Joined, Before, During, After
  <2> HIDE DEF p
  <2>4. QED
    BY <1>2, <1>3, <2>1, <2>2, <2>3, ProcStep
<1>7. ASSUME ChildExits(c) PROVE RunnerIInv'
  <2> DEFINE p == [proc[c] EXCEPT !.child = FALSE]
  <2>1. proc' = [proc EXCEPT ![c] = p] /\ proc[c].child
    BY <1>7 DEF ChildExits
  <2>2. /\ p \in ProcState /\ p.root = proc[c].root /\ ~p.child
        /\ p.held = proc[c].held /\ p.waited = proc[c].waited /\ p.report = proc[c].report
    BY <1>1 DEF ProcState
  <2>3. ProcOK(run[c], p) /\ OutOK(run[c], p) /\ Joined(run[c], p, stream[c])
    BY <1>1, <2>1, <2>2 DEF ProcOK, OutOK, Joined, Before, During, After
  <2> HIDE DEF p
  <2>4. QED
    BY <1>2, <1>3, <2>1, <2>2, <2>3, ProcStep
<1>8. QED
  BY <1>4, <1>5, <1>6, <1>7

\* A step of the login files leaves the calls alone.
LEMMA LoginStep ==
  ASSUME RunnerIInv, Relogin \/ \E c \in Call : RefreshToken(c)
  PROVE  RunnerIInv'
<1>1. UNCHANGED <<active, run, proc, stream>>
  BY DEF Relogin, RefreshToken
<1>2. main' \in Logins /\ copy' \in Logins /\ newer' \in BOOLEAN
  <2>1. main \in 0..MaxLogins /\ copy \in 0..MaxLogins /\ newer \in BOOLEAN /\ MaxLogins \in Nat
    BY RunnerAssumption DEF RunnerIInv, RunnerTypeOK, Logins
  <2>2. NextLogin <= MaxLogins => NextLogin \in 0..MaxLogins
    BY <2>1 DEF NextLogin
  <2>3. CASE Relogin
    BY <2>1, <2>2, <2>3 DEF Relogin, Logins
  <2>4. CASE \E c \in Call : RefreshToken(c)
    BY <2>1, <2>2, <2>4 DEF RefreshToken, Logins
  <2>5. QED
    BY <2>3, <2>4
<1>3. RunnerTypeOK'
  BY <1>1, <1>2 DEF RunnerIInv, RunnerTypeOK
<1>4. QED
  BY <1>1, <1>3 DEF RunnerIInv, Reserved, CallsOK

-----------------------------------------------------------------------------
(* The theorems *)

\* A runner that has not begun satisfies the invariant.
LEMMA RunnerInit ==
  Init => RunnerIInv
<1> SUFFICES ASSUME Init PROVE RunnerIInv
  OBVIOUS
<1> USE DEF Init
<1>1. RunnerTypeOK
  BY BlankTyped, RunnerAssumption DEF RunnerTypeOK, Logins
<1>2. Reserved
  BY RunnerAssumption DEF Reserved, IdleRun
<1>3. CallsOK
  <2>1. CallOK(IdleRun, NoProc, NoStream)
    BY BlankCall DEF IdleRun, Before
  <2>2. QED
    BY <2>1 DEF CallsOK
<1>4. QED
  BY <1>1, <1>2, <1>3 DEF RunnerIInv

\* Every step keeps the invariant.
LEMMA RunnerStep ==
  ASSUME RunnerIInv, ~EarlySpawn, [Next]_vars
  PROVE  RunnerIInv'
<1>1. ASSUME NEW c \in Call, NEW t \in Task, reserve(c, t) PROVE RunnerIInv'
  BY <1>1, ReserveStep
<1>2. ASSUME NEW c \in Call, RunStep(c) PROVE RunnerIInv'
  BY <1>2, MakeScratchStep, PrepareStep, ReadStep, PublishStep, CheckStep, StartStep,
     AttachStep, AwaitStep, TerminateStep, ReapStep, CloseGuardStep, CloseStreamStep,
     ClosePumpStep, JoinPumpStep, DecodeStep, RemoveScratchStep, ReleaseStep
  DEF RunStep
<1>3. ASSUME NEW c \in Call, WaitReturns(c) \/ PumpStep(c) \/ Expire(c) PROVE RunnerIInv'
  BY <1>3, WaitStep, PumpStepStep, ExpireStep
<1>4. ASSUME NEW c \in Call, ProviderStep(c) PROVE RunnerIInv'
  BY <1>4, WriteTextStep, WriteNewlineStep, ProcessStep, LoginStep DEF ProviderStep
<1>5. ASSUME NEW t \in Task, Cancel(t) PROVE RunnerIInv'
  BY <1>5, CancelStep
<1>6. ASSUME Relogin PROVE RunnerIInv'
  BY <1>6, LoginStep
<1>7. ASSUME UNCHANGED vars PROVE RunnerIInv'
  BY <1>7 DEF vars, RunnerIInv, RunnerTypeOK, Reserved, CallsOK
<1>8. QED
  BY <1>1, <1>2, <1>3, <1>4, <1>5, <1>6, <1>7 DEF Next
\* The inductive invariant holds, when no provider starts a descendant before
\* the guard holds it.
LEMMA RunnerInvariant ==
  ASSUME ~EarlySpawn
  PROVE  Spec => []RunnerIInv
<1>1. Init => RunnerIInv
  BY RunnerInit
<1>2. RunnerIInv /\ [Next]_vars => RunnerIInv'
  BY RunnerStep
<1>3. QED
  BY <1>1, <1>2, PTL DEF Spec

\* Nothing of a run outlives its reservation: in every reachable state a call
\* that does not hold the runner has no provider process, no descendant, no
\* scratch directory and no pump (Run's deferred calls and release).  The
\* hypothesis is the window between cmd.Start and guard.Attach, in which the
\* code has no hold on a descendant.
THEOREM NothingOutlivesRun ==
  ASSUME ~EarlySpawn
  PROVE  Spec => []RunnerInv
<1>1. RunnerIInv => RunnerInv
  <2> SUFFICES ASSUME RunnerIInv, NEW c \in Call, active # c
               PROVE  ~Alive(c) /\ ~run[c].scratch /\ stream[c].pump = "none"
    BY DEF RunnerInv, NothingOutlives, RunnerIInv
  <2>1. run[c].pc = "idle"
    BY DEF RunnerIInv, Reserved
  <2>2. run[c] = IdleRun /\ proc[c] = NoProc /\ stream[c] = NoStream
    BY <2>1, IdleHasNothing
  <2>3. QED
    BY <2>2 DEF Alive, IdleRun, NoProc, NoStream
<1>2. QED
  BY <1>1, RunnerInvariant, PTL

\* What Run returns is what became of the process: a report only of a process
\* that exited with status 0 and left a good report, the context's error never
\* of one that did and was waited for without a delay (the decoding after
\* awaitProcess).
THEOREM OutcomeTrue ==
  ASSUME ~EarlySpawn
  PROVE  Spec => []OutcomeIsTrue
<1>1. RunnerIInv => OutcomeIsTrue
  BY DEF RunnerIInv, CallsOK, CallOK, OutOK, OutcomeIsTrue
<1>2. QED
  BY <1>1, RunnerInvariant, PTL

\* Samples reach the caller in order, and when the pump has ended the last one
\* told is the last one made, although offer drops samples on the way.
THEOREM LastSampleTold ==
  ASSUME ~EarlySpawn
  PROVE  Spec => []NewestTold
<1>1. RunnerIInv => NewestTold
  <2> SUFFICES ASSUME RunnerIInv, NEW c \in Call
               PROVE  /\ stream[c].slot # 0 => stream[c].slot > stream[c].told /\ stream[c].slot > stream[c].hand
                      /\ stream[c].hand # 0 => stream[c].hand > stream[c].told
                      /\ stream[c].pump = "done" => stream[c].told = stream[c].made
    BY DEF NewestTold
  <2>1. PumpOK(stream[c]) /\ StreamOK(run[c], stream[c])
    BY CallFacts DEF CallOK
  <2>2. QED
    BY <2>1 DEF PumpOK, StreamOK
<1>2. QED
  BY <1>1, RunnerInvariant, PTL
-----------------------------------------------------------------------------
(* The login files *)

\* What the invariant says of the files' numbers.
LEMMA LoginFacts ==
  ASSUME LoginIInv, NEW c \in Call
  PROVE  /\ main \in Nat /\ copy \in Nat /\ newer \in BOOLEAN
         /\ run[c] \in RunState /\ run \in [Call -> RunState]
         /\ run[c].asOf \in Nat /\ run[c].token \in Nat
         /\ LoginOK(run[c], main, copy)
         /\ IF newer THEN main >= copy ELSE copy >= main
<1>1. main \in Logins /\ copy \in Logins /\ newer \in BOOLEAN /\ run[c] \in RunState
  BY DEF LoginIInv, RunnerIInv, RunnerTypeOK
<1>2. main \in Nat /\ copy \in Nat
  BY <1>1, RunnerAssumption DEF Logins
<1>3. run[c].asOf \in Nat /\ run[c].token \in Nat
  BY <1>1, RunnerAssumption DEF RunState, Logins
<1>4. QED
  BY <1>1, <1>2, <1>3 DEF LoginIInv, LoginsOK, RunnerIInv, RunnerTypeOK

\* A step of one call that leaves the files alone.
LEMMA LoginFrame ==
  ASSUME LoginIInv, NEW c \in Call,
         UNCHANGED login,
         \A d \in Call \ {c} : run'[d] = run[d],
         LoginOK(run'[c], main, copy)
  PROVE  LoginsOK'
<1>1. main' = main /\ copy' = copy /\ newer' = newer
  BY DEF login
<1>2. ASSUME NEW d \in Call PROVE LoginOK(run'[d], main', copy')
  <2>1. CASE d = c
    BY <1>1, <2>1
  <2>2. CASE d # c
    <3>1. run'[d] = run[d]
      BY <2>2
    <3>2. QED
      BY <1>1, <3>1 DEF LoginIInv, LoginsOK
  <2>3. QED
    BY <2>1, <2>2
<1>3. QED
  BY <1>1, <1>2 DEF LoginIInv, LoginsOK

\* The reservation remembers the login the user has.
LEMMA ReserveLogin ==
  ASSUME LoginIInv, NEW c \in Call, NEW t \in Task, reserve(c, t)
  PROVE  LoginsOK'
<1>1. /\ run'[c].pc = "scratch" /\ run'[c].asOf = main
      /\ \A d \in Call \ {c} : run'[d] = run[d]
  BY LoginFacts DEF reserve, IdleRun
<1>2. LoginOK(run'[c], main, copy)
  BY <1>1, LoginFacts DEF LoginOK
<1>3. QED
  BY <1>1, <1>2, LoginFrame DEF reserve

\* Run reads the user's file only when it is not older than the copy.
LEMMA PrepareLogin ==
  ASSUME LoginIInv, NEW c \in Call, MakeScratch(c) \/ Prepare(c) \/ ReadCredentials(c) \/ CheckContext(c)
  PROVE  LoginsOK'
<1> USE LoginFacts
<1>1. UNCHANGED login
  BY DEF MakeScratch, Prepare, ReadCredentials, CheckContext
<1>2. ASSUME NotRefreshed(c), run[c].pc \in {"prepare", "read"}
      PROVE  /\ \A d \in Call \ {c} : run'[d] = run[d]
             /\ LoginOK(run'[c], main, copy)
  <2>1. \A d \in Call \ {c} : run'[d] = run[d]
    BY <1>2 DEF NotRefreshed, Fail
  <2>2. \/ run'[c].pc = "remove"
        \/ run'[c].pc = "check" /\ run'[c].warned /\ run'[c].asOf = run[c].asOf
    BY <1>2 DEF NotRefreshed, Fail, RunState
  <2>3. QED
    BY <1>2, <2>1, <2>2 DEF LoginOK, Before
<1>3. CASE MakeScratch(c)
  <2>1. /\ \A d \in Call \ {c} : run'[d] = run[d]
        /\ run'[c].pc \in {"prepare", "release"} /\ run'[c].asOf = run[c].asOf
        /\ run[c].pc = "scratch"
    BY <1>3 DEF MakeScratch, Fail, At, RunState
  <2>2. LoginOK(run'[c], main, copy)
    BY <2>1 DEF LoginOK, Before
  <2>3. QED
    BY <1>1, <2>1, <2>2, LoginFrame
<1>4. CASE Prepare(c)
  <2>1. run[c].pc = "prepare" /\ run[c].asOf <= main
    BY <1>4 DEF Prepare, At, LoginOK, Before
  <2>2. CASE NotRefreshed(c)
    BY <1>1, <1>2, <2>1, <2>2, LoginFrame
  <2>3. CASE Fail(c, "remove")
    <3>1. run'[c].pc = "remove" /\ \A d \in Call \ {c} : run'[d] = run[d]
      BY <2>3 DEF Fail, RunState
    <3>2. LoginOK(run'[c], main, copy)
      BY <3>1 DEF LoginOK, Before
    <3>3. QED
      BY <1>1, <3>1, <3>2, LoginFrame
  <2>4. CASE IsClaude(c) /\ Go(c, IF copy = 0 \/ newer THEN "read" ELSE "check")
    <3>1. /\ \A d \in Call \ {c} : run'[d] = run[d]
          /\ run'[c].pc = IF copy = 0 \/ newer THEN "read" ELSE "check"
          /\ run'[c].asOf = run[c].asOf
      BY <2>4 DEF Go, RunState
    <3>2. LoginOK(run'[c], main, copy)
      <4>1. CASE copy = 0 \/ newer
        BY <2>1, <3>1, <4>1 DEF LoginOK, Before
      <4>2. CASE ~(copy = 0 \/ newer)
        BY <2>1, <3>1, <4>2 DEF LoginOK, Before
      <4>3. QED
        BY <4>1, <4>2
    <3>3. QED
      BY <1>1, <3>1, <3>2, LoginFrame
  <2>5. CASE ~IsClaude(c) /\ Go(c, "check")
    <3>1. /\ \A d \in Call \ {c} : run'[d] = run[d]
          /\ run'[c].pc = "check" /\ run'[c].asOf = run[c].asOf /\ run'[c].task \notin Claude
      BY <2>5 DEF Go, IsClaude, RunState
    <3>2. LoginOK(run'[c], main, copy)
      BY <2>1, <3>1 DEF LoginOK, Before
    <3>3. QED
      BY <1>1, <3>1, <3>2, LoginFrame
  <2>6. QED
    BY <1>4, <2>2, <2>3, <2>4, <2>5 DEF Prepare
<1>5. CASE ReadCredentials(c)
  <2>1. run[c].pc = "read" /\ run[c].asOf <= main /\ main >= copy
    BY <1>5 DEF ReadCredentials, At, LoginOK, Before
  <2>2. CASE NotRefreshed(c)
    BY <1>1, <1>2, <2>1, <2>2, LoginFrame
  <2>3. CASE run' = [run EXCEPT ![c].pc = "publish", ![c].token = main]
    <3>1. /\ \A d \in Call \ {c} : run'[d] = run[d]
          /\ run'[c].pc = "publish" /\ run'[c].asOf = run[c].asOf /\ run'[c].token = main
      BY <2>3 DEF RunState
    <3>2. LoginOK(run'[c], main, copy)
      BY <2>1, <3>1 DEF LoginOK, Before
    <3>3. QED
      BY <1>1, <3>1, <3>2, LoginFrame
  <2>4. QED
    BY <1>5, <2>2, <2>3 DEF ReadCredentials
<1>6. CASE CheckContext(c)
  <2>1. /\ \A d \in Call \ {c} : run'[d] = run[d]
        /\ run'[c].pc \in {"remove", "start"} /\ run'[c].asOf = run[c].asOf
        /\ run'[c].task = run[c].task /\ run'[c].warned = run[c].warned
        /\ run[c].pc = "check"
    BY <1>6 DEF CheckContext, Go, At, RunState
  <2>2. LoginOK(run'[c], main, copy)
    BY <2>1 DEF LoginOK, Before
  <2>3. QED
    BY <1>1, <2>1, <2>2, LoginFrame
<1>7. QED
  BY <1>3, <1>4, <1>5, <1>6
\* The copy that is published is of the login the user still has, and is not
\* older than the one it replaces.
LEMMA PublishLogin ==
  ASSUME LoginIInv, NEW c \in Call, PublishCredentials(c)
  PROVE  LoginsOK' /\ copy' >= copy
<1> USE LoginFacts
<1>1. /\ run[c].pc = "publish" /\ run[c].asOf <= main /\ main >= copy /\ run[c].token = main
      /\ main' = main
  BY DEF PublishCredentials, At, LoginOK, Before
<1>2. \A d \in Call \ {c} : run'[d] = run[d]
  BY DEF PublishCredentials, Go, NotRefreshed, Fail
<1>3. CASE copy' = run[c].token /\ newer' = FALSE /\ Go(c, "check")
  <2>1. run'[c].pc = "check" /\ run'[c].asOf = run[c].asOf
    BY <1>3 DEF Go, RunState
  <2>2. LoginOK(run'[c], main', copy')
    BY <1>1, <1>3, <2>1 DEF LoginOK, Before
  <2>3. ASSUME NEW d \in Call, d # c PROVE LoginOK(run'[d], main', copy')
    <3>1. run'[d] = run[d] /\ run[d].pc = "idle"
      BY <1>1, <1>2, <2>3 DEF LoginIInv, RunnerIInv, Reserved
    <3>2. LoginOK(run[d], main, copy)
      BY <2>3
    <3>3. QED
      BY <1>1, <3>1, <3>2 DEF LoginOK, Before
  <2>4. QED
    BY <1>1, <1>3, <2>2, <2>3 DEF LoginsOK
<1>4. CASE NotRefreshed(c) /\ UNCHANGED <<copy, newer>>
  <2>1. \/ run'[c].pc = "remove"
        \/ run'[c].pc = "check" /\ run'[c].warned /\ run'[c].asOf = run[c].asOf
    BY <1>4 DEF NotRefreshed, Fail, RunState
  <2>2. LoginOK(run'[c], main, copy)
    BY <1>1, <2>1 DEF LoginOK, Before
  <2>3. UNCHANGED login
    BY <1>1, <1>4 DEF login
  <2>4. QED
    BY <1>2, <1>4, <2>2, <2>3, LoginFrame
<1>5. QED
  BY <1>3, <1>4 DEF PublishCredentials

\* The steps that follow have no more to do with the files.
LEMMA LaterLogin ==
  ASSUME LoginIInv, NEW c \in Call,
         \/ Start(c) \/ Attach(c) \/ awaitProcess(c) \/ Terminate(c) \/ Reap(c) \/ CloseGuard(c)
         \/ CloseStream(c) \/ ClosePump(c) \/ JoinPump(c) \/ Decode(c) \/ RemoveScratch(c)
         \/ release(c)
  PROVE  LoginsOK'
<1> USE LoginFacts
<1>1. UNCHANGED login
  BY DEF Start, Attach, awaitProcess, Terminate, Reap, CloseGuard, CloseStream, ClosePump,
         JoinPump, Decode, RemoveScratch, release
<1>2. CASE release(c)
  <2>1. run'[c] = IdleRun /\ \A d \in Call \ {c} : run'[d] = run[d]
    BY <1>2 DEF release
  <2>2. LoginOK(run'[c], main, copy)
    BY <2>1 DEF LoginOK, IdleRun
  <2>3. QED
    BY <1>1, <2>1, <2>2, LoginFrame
<1>3. CASE ~release(c)
  <2>1. \A d \in Call \ {c} : run'[d] = run[d]
    BY <1>3 DEF Start, Attach, awaitProcess, Terminate, Reap, CloseGuard, CloseStream, ClosePump,
                JoinPump, Decode, RemoveScratch, Go, Fail
  <2>2. run'[c].pc \notin Before
    <3>1. CASE Start(c) \/ Attach(c) \/ awaitProcess(c) \/ Terminate(c) \/ Reap(c) \/ CloseGuard(c)
      BY <3>1 DEF Start, Attach, awaitProcess, Terminate, Reap, CloseGuard, Go, Fail, Before, RunState
    <3>2. CASE CloseStream(c) \/ ClosePump(c) \/ JoinPump(c) \/ Decode(c) \/ RemoveScratch(c)
      BY <3>2 DEF CloseStream, ClosePump, JoinPump, Decode, RemoveScratch, Go, Before, RunState
    <3>3. QED
      BY <1>3, <3>1, <3>2
  <2>3. LoginOK(run'[c], main, copy)
    BY <2>2 DEF LoginOK, Before
  <2>4. QED
    BY <1>1, <2>1, <2>3, LoginFrame
<1>4. QED
  BY <1>2, <1>3

\* The end of the context changes nothing the files are compared with.
LEMMA OverLogin ==
  ASSUME LoginIInv, NEW c \in Call, run' = [run EXCEPT ![c].over = TRUE], UNCHANGED login
  PROVE  LoginsOK'
<1>1. \A d \in Call \ {c} : run'[d] = run[d]
  BY LoginFacts
<1>2. /\ run'[c].pc = run[c].pc /\ run'[c].asOf = run[c].asOf /\ run'[c].token = run[c].token
      /\ run'[c].task = run[c].task /\ run'[c].warned = run[c].warned
  BY LoginFacts DEF RunState
<1>3. LoginOK(run'[c], main, copy)
  BY <1>2, LoginFacts DEF LoginOK
<1>4. QED
  BY <1>1, <1>3, LoginFrame

\* A provider refreshes the copy's token only while its own call is under way,
\* so no other call is at the two files.
LEMMA RefreshLogin ==
  ASSUME LoginIInv, NEW c \in Call, RefreshToken(c)
  PROVE  LoginsOK' /\ copy' >= copy
<1> USE LoginFacts
<1>1. copy' = NextLogin /\ newer' = FALSE /\ main' = main /\ run' = run /\ Alive(c)
  BY DEF RefreshToken
<1>2. NextLogin > main /\ NextLogin > copy /\ NextLogin \in Nat
  BY DEF NextLogin
<1>3. run[c].pc \notin Before
  BY <1>1, CallFacts DEF LoginIInv, CallOK, ProcOK, Alive, Before
<1>4. ASSUME NEW d \in Call PROVE LoginOK(run'[d], main', copy')
  <2>1. CASE run[d].pc = "idle"
    <3>1. LoginOK(run[d], main, copy)
      OBVIOUS
    <3>2. QED
      BY <1>1, <2>1, <3>1 DEF LoginOK, Before
  <2>2. CASE run[d].pc # "idle"
    <3>1. d = c
      BY <1>3, <2>2 DEF LoginIInv, RunnerIInv, Reserved, Before
    <3>2. QED
      BY <1>1, <1>3, <3>1 DEF LoginOK, Before
  <2>3. QED
    BY <2>1, <2>2
<1>5. QED
  BY <1>1, <1>2, <1>4 DEF LoginsOK

\* A login of the user's between a read and its publication would leave a copy
\* that is older than it looks; the hypothesis excludes just that.
LEMMA ReloginLogin ==
  ASSUME LoginIInv, ~ReloginMidCopy, Relogin
  PROVE  LoginsOK'
<1>1. main' = NextLogin /\ newer' = TRUE /\ copy' = copy /\ run' = run
  BY DEF Relogin
<1>2. main \in Nat /\ copy \in Nat
  BY RunnerAssumption DEF LoginIInv, RunnerIInv, RunnerTypeOK, Logins
<1>3. NextLogin > main /\ NextLogin > copy /\ NextLogin \in Nat
  BY <1>2 DEF NextLogin
<1>4. ASSUME NEW d \in Call PROVE LoginOK(run'[d], main', copy')
  <2>1. run[d].pc # "publish"
    BY DEF Relogin, At
  <2>2. LoginOK(run[d], main, copy) /\ run[d].asOf \in Nat
    BY LoginFacts
  <2>3. QED
    BY <1>1, <1>2, <1>3, <2>1, <2>2 DEF LoginOK, Before
<1>5. QED
  BY <1>1, <1>2, <1>3, <1>4 DEF LoginsOK

\* Every step keeps what is known of the logins.
LEMMA LoginsStep ==
  ASSUME LoginIInv, ~ReloginMidCopy, [Next]_vars
  PROVE  LoginsOK' /\ copy' >= copy
<1>0. copy \in Nat
  BY RunnerAssumption DEF LoginIInv, RunnerIInv, RunnerTypeOK, Logins
<1>1. ASSUME NEW c \in Call, NEW t \in Task, reserve(c, t) PROVE LoginsOK' /\ copy' >= copy
  <2>1. LoginsOK'
    BY <1>1, ReserveLogin
  <2>2. copy' = copy
    BY <1>1 DEF reserve, login
  <2>3. QED
    BY <1>0, <2>1, <2>2
<1>2. ASSUME NEW c \in Call, RunStep(c) PROVE LoginsOK' /\ copy' >= copy
  <2>1. CASE MakeScratch(c) \/ Prepare(c) \/ ReadCredentials(c) \/ CheckContext(c)
    <3>1. copy' = copy
      BY <2>1 DEF MakeScratch, Prepare, ReadCredentials, CheckContext, login
    <3>2. QED
      BY <1>0, <2>1, <3>1, PrepareLogin
  <2>2. CASE PublishCredentials(c)
    BY <2>2, PublishLogin
  <2>3. CASE \/ Start(c) \/ Attach(c) \/ awaitProcess(c) \/ Terminate(c) \/ Reap(c) \/ CloseGuard(c)
             \/ CloseStream(c) \/ ClosePump(c) \/ JoinPump(c) \/ Decode(c) \/ RemoveScratch(c)
             \/ release(c)
    <3>1. LoginsOK'
      BY <2>3, LaterLogin
    <3>2. copy' = copy
      BY <2>3 DEF Start, Attach, awaitProcess, Terminate, Reap, CloseGuard, CloseStream, ClosePump,
                  JoinPump, Decode, RemoveScratch, release, login
    <3>3. QED
      BY <1>0, <3>1, <3>2
  <2>4. QED
    BY <1>2, <2>1, <2>2, <2>3 DEF RunStep
<1>3. ASSUME run' = run, UNCHANGED login PROVE LoginsOK' /\ copy' >= copy
  BY <1>0, <1>3 DEF LoginIInv, LoginsOK, login
<1>4. ASSUME NEW c \in Call, WaitReturns(c) \/ PumpStep(c) PROVE LoginsOK' /\ copy' >= copy
  <2>1. run' = run /\ UNCHANGED login
    BY <1>4 DEF WaitReturns, PumpStep, OfferSend, OfferDrain, OfferResend, PumpTakes, PumpReports, PumpEnds
  <2>2. QED
    BY <1>3, <2>1
<1>5. ASSUME NEW c \in Call, Expire(c) PROVE LoginsOK' /\ copy' >= copy
  <2>1. run' = [run EXCEPT ![c].over = TRUE] /\ UNCHANGED login
    BY <1>5 DEF Expire
  <2>2. LoginsOK'
    BY <2>1, OverLogin
  <2>3. QED
    BY <1>0, <2>1, <2>2 DEF login
<1>6. ASSUME NEW c \in Call, ProviderStep(c) PROVE LoginsOK' /\ copy' >= copy
  <2>1. CASE RefreshToken(c)
    BY <2>1, RefreshLogin
  <2>2. CASE ~RefreshToken(c)
    <3>1. run' = run /\ UNCHANGED login
      BY <1>6, <2>2 DEF ProviderStep, WriteText, WriteNewline, WriteReport, Exit, Spawn, ChildExits
    <3>2. QED
      BY <1>3, <3>1
  <2>3. QED
    BY <2>1, <2>2
<1>7. ASSUME NEW t \in Task, Cancel(t) PROVE LoginsOK' /\ copy' >= copy
  <2>1. active \in Call
    BY <1>7 DEF Cancel, LoginIInv, RunnerIInv, RunnerTypeOK
  <2>2. QED
    <3>1. run' = [run EXCEPT ![active].over = TRUE] /\ UNCHANGED login
      BY <1>7 DEF Cancel
    <3>2. LoginsOK'
      BY <2>1, <3>1, OverLogin
    <3>3. QED
      BY <1>0, <3>1, <3>2 DEF login
<1>8. ASSUME Relogin PROVE LoginsOK' /\ copy' >= copy
  BY <1>0, <1>8, ReloginLogin DEF Relogin
<1>9. ASSUME UNCHANGED vars PROVE LoginsOK' /\ copy' >= copy
  <2>1. run' = run /\ UNCHANGED login
    BY <1>9 DEF vars, login
  <2>2. QED
    BY <1>3, <2>1
<1>10. QED
  BY <1>1, <1>2, <1>4, <1>5, <1>6, <1>7, <1>8, <1>9 DEF Next

\* The invariant with the login files, when the user does not log in between a
\* read and its publication either.
LEMMA LoginInvariant ==
  ASSUME ~EarlySpawn, ~ReloginMidCopy
  PROVE  Spec => []LoginIInv
<1>1. Init => LoginIInv
  <2> SUFFICES ASSUME Init PROVE LoginIInv
    OBVIOUS
  <2>1. RunnerIInv
    BY RunnerInit
  <2>2. LoginsOK
    <3>1. IdleRun.pc = "idle" /\ IdleRun.asOf = 0
      BY DEF IdleRun
    <3>2. LoginOK(IdleRun, main, copy)
      BY <3>1 DEF Init, LoginOK, Before
    <3>3. \A c \in Call : run[c] = IdleRun
      BY DEF Init
    <3>4. IF newer THEN main >= copy ELSE copy >= main
      BY DEF Init
    <3>5. QED
      BY <3>2, <3>3, <3>4 DEF LoginsOK
  <2>3. QED
    BY <2>1, <2>2 DEF LoginIInv
<1>2. LoginIInv /\ [Next]_vars => LoginIInv'
  <2> SUFFICES ASSUME LoginIInv, [Next]_vars PROVE LoginIInv'
    OBVIOUS
  <2>1. RunnerIInv'
    BY RunnerStep DEF LoginIInv
  <2>2. LoginsOK'
    BY LoginsStep
  <2>3. QED
    BY <2>1, <2>2 DEF LoginIInv
<1>3. QED
  BY <1>1, <1>2, PTL DEF Spec

\* A Claude provider starts with a login at least as recent as the user's when
\* Run began, or its result carries a warning (refreshCredentials).
THEOREM StaleWarned ==
  ASSUME ~EarlySpawn, ~ReloginMidCopy
  PROVE  Spec => []StaleLoginWarned
<1>1. LoginIInv => StaleLoginWarned
  BY DEF LoginIInv, LoginsOK, LoginOK, StaleLoginWarned, At, IsClaude
<1>2. QED
  BY <1>1, LoginInvariant, PTL

\* No step replaces the isolated copy by an older login, although the copy
\* refreshes its own token (copyNewerCredentials).
THEOREM LoginKept ==
  ASSUME ~EarlySpawn, ~ReloginMidCopy
  PROVE  Spec => NewerLoginKept
<1>1. LoginIInv /\ [Next]_vars => [copy' >= copy]_vars
  BY LoginsStep
<1>2. QED
  BY <1>1, LoginInvariant, PTL DEF Spec, NewerLoginKept
=============================================================================
