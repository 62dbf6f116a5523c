--------------------------- MODULE EyesSetupProofs ---------------------------
(***************************************************************************)
(* Proofs about EyesSetup for any machine, any number of runs and any      *)
(* faults: an installed broker has all it needs, and a --repair run that   *)
(* ends as ready leaves nothing stale behind.                              *)
(*                                                                         *)
(* Neither can be seen at the step that matters: the last step of a run    *)
(* trusts what the earlier ones have left, while the daemon goes on.  The  *)
(* invariant says what a live run may rely on after each of its steps.     *)
(***************************************************************************)
EXTENDS EyesSetup, TLAPS

-----------------------------------------------------------------------------
(* The inductive invariant *)

\* A token's file that was ever good has been minted, and one that is yet to
\* be minted can be.
TokenOK ==
  /\ token.kind \in {"ok", "loose"} => token.id # 0
  /\ token.kind \in {"missing", "odd"} => token.id < MaxMints

\* What a live run has seen to: the daemon's address after step 2, the token
\* after 3, the binary after 4, the credential after 7 and the directories
\* after 11.
RunOK ==
  ~Idle /\ ~run.dry =>
    /\ run.step > 2 /\ HasSystemd => conf = run.addr
    /\ run.step > 3 => token.kind = "ok"
    /\ run.step > 4 => exe # None
    /\ run.step > 7 /\ ~settled => cred = token.id
    /\ run.step > 11 => dirs

SetupIInv == SetupTypeOK /\ InstalledIsUsable /\ TokenOK /\ RunOK
-----------------------------------------------------------------------------
(* The steps of a run *)

\* A step's number.
LEMMA StepNumbers ==
  /\ Len(Steps) = 13 /\ DOMAIN Steps = 1 .. 13
  /\ \A i \in 1 .. 13 :
       /\ Steps[i] \in StepName
       /\ Steps[i] \notin {"none", "planned", "ready", "error", "cleared"}
       /\ Steps[i] = "environment" => i = 1
       /\ Steps[i] = "relay-listener" => i = 2
       /\ Steps[i] = "relay-token" => i = 3
       /\ Steps[i] = "windows-binary" => i = 4
       /\ Steps[i] = "token-unc-path" => i = 5
       /\ Steps[i] = "broker-task" => i = 6
       /\ Steps[i] = "pair" => i = 7
       /\ Steps[i] = "connectivity" => i = 8
       /\ Steps[i] = "claude-exe" => i = 9
       /\ Steps[i] = "claude-login" => i = 10
       /\ Steps[i] = "work-dirs" => i = 11
       /\ Steps[i] = "chrome-ready" => i = 12
       /\ Steps[i] = "host-install" => i = 13
<1>1. Len(Steps) = 13 /\ DOMAIN Steps = 1 .. 13
  BY DEF Steps
<1>2. \A i \in 1 .. 13 : Steps[i] \in StepName
  BY <1>1 DEF StepName
<1>3. ASSUME NEW i \in 1 .. 13
      PROVE  /\ Steps[i] \notin {"none", "planned", "ready", "error", "cleared"}
             /\ Steps[i] = "environment" => i = 1
             /\ Steps[i] = "relay-listener" => i = 2
             /\ Steps[i] = "relay-token" => i = 3
             /\ Steps[i] = "windows-binary" => i = 4
             /\ Steps[i] = "token-unc-path" => i = 5
             /\ Steps[i] = "broker-task" => i = 6
             /\ Steps[i] = "pair" => i = 7
             /\ Steps[i] = "connectivity" => i = 8
             /\ Steps[i] = "claude-exe" => i = 9
             /\ Steps[i] = "claude-login" => i = 10
             /\ Steps[i] = "work-dirs" => i = 11
             /\ Steps[i] = "chrome-ready" => i = 12
             /\ Steps[i] = "host-install" => i = 13
  BY DEF Steps
<1>4. QED
  BY <1>1, <1>2, <1>3

\* A run in progress.
LEMMA RunFacts ==
  ASSUME SetupIInv, ~Idle
  PROVE  /\ run \in Run /\ run.step \in 1 .. 13 /\ run.addr # None /\ run.addr \in Addr
         /\ run.result = "none"
         /\ run.dry \in BOOLEAN /\ run.fresh \in BOOLEAN /\ run.repair \in BOOLEAN
         /\ run.installed \in BOOLEAN /\ run.over \in Version \cup {None}
<1>1. run \in Run /\ run.step # 0 /\ run.addr # None /\ run.result = "none"
  BY DEF SetupIInv, SetupTypeOK, Idle
<1>2. QED
  BY <1>1, StepNumbers DEF Run

\* The run has gone on from r, or has ended.
Moved(r) ==
  /\ run' \in Run
  /\ run'.step # 0 => /\ run'.step = r.step + 1 /\ run'.dry = r.dry /\ run'.repair = r.repair
                      /\ run'.addr = r.addr /\ run'.fresh = r.fresh /\ run'.installed = r.installed
                      /\ run'.result = "none"

\* The record of a run that has ended.
LEMMA OverFacts ==
  ASSUME NEW a \in Addr \cup {None},
         NEW x \in {"none", "planned", "ready", "error", "cleared"} \cup StepName
  PROVE  Over(x, a) \in Run /\ Over(x, a).step = 0 /\ Over(x, a).result = x
<1>1. 0 \in 0 .. Len(Steps)
  BY StepNumbers
<1>2. QED
  BY <1>1 DEF Over, Run

\* Only the last step of a live run is followed by "ready".
LEMMA GoOnMoves ==
  ASSUME NEW r \in Run, r.step \in 1 .. 13, r.result = "none", GoOn(r)
  PROVE  Moved(r) /\ (run'.result = "ready" => r.step = 13 /\ ~r.dry)
<1>1. CASE r.step < 13
  <2> DEFINE q == [r EXCEPT !.step = r.step + 1]
  <2>1. run' = q
    BY <1>1, StepNumbers DEF GoOn
  <2>2. r.step + 1 \in 0 .. Len(Steps)
    BY <1>1, StepNumbers
  <2>3. /\ q \in Run /\ q.step = r.step + 1 /\ q.dry = r.dry /\ q.repair = r.repair
        /\ q.addr = r.addr /\ q.fresh = r.fresh /\ q.installed = r.installed /\ q.result = "none"
    BY <2>2 DEF Run
  <2> HIDE DEF q
  <2>4. QED
    BY <2>1, <2>3 DEF Moved
<1>2. CASE r.step = 13
  <2>1. run' = Over(IF r.dry THEN "planned" ELSE "ready", r.addr)
    BY <1>2, StepNumbers DEF GoOn
  <2>2. r.addr \in Addr \cup {None} /\ r.dry \in BOOLEAN
    BY DEF Run
  <2>3. QED
    BY <1>2, <2>1, <2>2, OverFacts DEF Moved
<1>3. QED
  BY <1>1, <1>2

\* A blocked step ends a live run, and never as ready.
LEMMA BlockMoves ==
  ASSUME SetupIInv, ~Idle, Block
  PROVE  Moved(run) /\ (run'.step # 0 => run.dry) /\ run'.result # "ready"
<1>1. CASE run.dry
  BY <1>1, RunFacts, GoOnMoves DEF Block
<1>2. CASE ~run.dry
  <2>1. run' = Over(Steps[run.step], run.addr)
    BY <1>2 DEF Block
  <2>2. Steps[run.step] \in StepName /\ Steps[run.step] # "ready" /\ run.addr \in Addr \cup {None}
    BY RunFacts, StepNumbers
  <2>3. QED
    BY <2>1, <2>2, OverFacts DEF Moved
<1>3. QED
  BY <1>1, <1>2, RunFacts

\* A failure ends the run, and never as ready.
LEMMA FailMoves ==
  ASSUME SetupIInv, ~Idle, Fail
  PROVE  Moved(run) /\ run'.step = 0 /\ run'.result # "ready"
  BY RunFacts, OverFacts DEF Fail, Moved

\* A step of a run leaves what the run has seen to, and sees to its own part.
LEMMA StepFrame ==
  ASSUME SetupIInv, ~Idle, NEW r,
         r = run \/ (run.step <= 6 /\ r.step = run.step /\ r.dry = run.dry /\ r.addr = run.addr),
         Moved(r),
         SetupTypeOK', InstalledIsUsable', token' = token,
         run.step > 2 => conf' = conf,
         exe # None => exe' # None,
         cred' = cred \/ run.step = 7,
         dirs => dirs',
         ~run.dry /\ run'.step # 0 =>
           /\ run.step = 2 /\ HasSystemd => conf' = run.addr
           /\ run.step = 3 => token.kind = "ok"
           /\ run.step = 4 => exe' # None
           /\ run.step = 7 /\ ~settled => cred' = token.id
           /\ run.step = 11 => dirs'
  PROVE  SetupIInv'
<1>1. TokenOK'
  BY DEF SetupIInv, TokenOK
<1>2. RunOK'
  <2> SUFFICES ASSUME run'.step # 0, ~run'.dry
               PROVE  /\ run'.step > 2 /\ HasSystemd => conf' = run'.addr
                      /\ run'.step > 3 => token'.kind = "ok"
                      /\ run'.step > 4 => exe' # None
                      /\ run'.step > 7 /\ ~settled' => cred' = token'.id
                      /\ run'.step > 11 => dirs'
    BY DEF RunOK, Idle
  <2>1. /\ run'.step = run.step + 1 /\ ~run.dry /\ run'.addr = run.addr
        /\ run.step > 6 => (settled' <=> settled)
        /\ run.step \in 1 .. 13
    BY RunFacts DEF Moved, settled
  <2>2. /\ run.step > 2 /\ HasSystemd => conf = run.addr
        /\ run.step > 3 => token.kind = "ok"
        /\ run.step > 4 => exe # None
        /\ run.step > 7 /\ ~settled => cred = token.id
        /\ run.step > 11 => dirs
    BY <2>1 DEF SetupIInv, RunOK
  <2> HIDE DEF settled
  <2>3. QED
    BY <2>1, <2>2
<1>3. QED
  BY <1>1, <1>2 DEF SetupIInv

\* Faults stay within their bound.
LEMMA FaultsTyped ==
  ASSUME SetupIInv, Hit \/ Smooth
  PROVE  faults' \in 0 .. MaxFaults
<1>1. faults \in 0 .. MaxFaults /\ MaxFaults \in Nat
  BY SetupAssumption DEF SetupIInv, SetupTypeOK
<1>2. QED
  BY <1>1 DEF Hit, Smooth

\* The run's part of the type invariant.
LEMMA MovedTyped ==
  ASSUME SetupIInv, ~Idle, NEW r, r.addr = run.addr, Moved(r)
  PROVE  run' \in Run /\ (run'.step # 0 => run'.addr # None /\ run'.result = "none")
  BY RunFacts DEF Moved

\* A step that only looks.
LEMMA QuietStep ==
  ASSUME SetupIInv, ~Idle, NEW r,
         r = run \/ (run.step <= 6 /\ r.step = run.step /\ r.dry = run.dry /\ r.addr = run.addr),
         Moved(r),
         UNCHANGED <<wslVars, hostVars, personVars, exe, dirs>>,
         faults' \in 0 .. MaxFaults,
         ~run.dry /\ run'.step # 0 =>
           /\ run.step = 2 /\ HasSystemd => conf = run.addr
           /\ run.step = 3 => token.kind = "ok"
           /\ run.step = 4 => exe # None
           /\ run.step = 7 /\ ~settled => cred = token.id
           /\ run.step = 11 => dirs
  PROVE  SetupIInv'
<1>1. /\ UNCHANGED <<conf, daemon, token, cred, config, task, sources, missing, supplied, exe, dirs>>
  BY DEF wslVars, hostVars, personVars
<1>2. SetupTypeOK'
  BY <1>1, MovedTyped DEF SetupIInv, SetupTypeOK
<1>3. InstalledIsUsable'
  BY <1>1 DEF SetupIInv, InstalledIsUsable
<1> HIDE DEF settled
<1>4. QED
  BY <1>1, <1>2, <1>3, StepFrame

\* The steps that check a prerequisite.
LEMMA PrerequisiteStep ==
  ASSUME SetupIInv,
         StepEnvironment \/ StepTokenUNC \/ StepClaudeExe \/ StepClaudeLogin \/ StepChromeReady
  PROVE  SetupIInv'
<1>1. /\ ~Idle /\ (Fail \/ Block \/ GoOn(run))
      /\ UNCHANGED <<wslVars, hostVars, personVars, exe, dirs, faults>>
      /\ Steps[run.step] \in {"environment", "token-unc-path", "claude-exe", "claude-login", "chrome-ready"}
  BY DEF StepEnvironment, StepTokenUNC, StepClaudeExe, StepClaudeLogin, StepChromeReady, At
<1>2. run.step \in {1, 5, 9, 10, 12}
  BY <1>1, RunFacts, StepNumbers
<1>3. Moved(run)
  BY <1>1, RunFacts, GoOnMoves, BlockMoves, FailMoves
<1>4. faults' \in 0 .. MaxFaults
  BY <1>1, FaultsTyped DEF Smooth
<1>5. QED
  BY <1>1, <1>2, <1>3, <1>4, QuietStep

\* The two steps that probe, for the token and for the connection, keep the
\* invariant.
LEMMA ProbeStep ==
  ASSUME SetupIInv, StepRelayToken \/ StepConnectivity
  PROVE  SetupIInv'
<1>1. /\ ~Idle /\ (Block \/ GoOn(run)) /\ (Hit \/ Smooth)
      /\ UNCHANGED <<wslVars, hostVars, personVars, exe, dirs>>
      /\ Steps[run.step] \in {"relay-token", "connectivity"}
      /\ Steps[run.step] = "relay-token" => Block \/ token.kind = "ok"
  BY DEF StepRelayToken, StepConnectivity, At
<1>2. run.step = 8 \/ (run.step = 3 /\ (Block \/ token.kind = "ok"))
  BY <1>1, RunFacts, StepNumbers
<1>3. Moved(run) /\ (Block => run'.step = 0 \/ run.dry)
  BY <1>1, RunFacts, GoOnMoves, BlockMoves
<1>4. faults' \in 0 .. MaxFaults
  BY <1>1, FaultsTyped
<1>5. QED
  BY <1>1, <1>2, <1>3, <1>4, QuietStep

\* StepBrokerTask keeps the invariant.
LEMMA BrokerTaskStep ==
  ASSUME SetupIInv, StepBrokerTask
  PROVE  SetupIInv'
<1>1. PICK b \in BOOLEAN :
        /\ ~Idle /\ Steps[run.step] = "broker-task" /\ (Hit \/ Smooth)
        /\ GoOn([run EXCEPT !.installed = b])
        /\ UNCHANGED <<wslVars, hostVars, personVars, exe, dirs>>
  BY DEF StepBrokerTask, At
<1>2. run.step = 6
  BY <1>1, RunFacts, StepNumbers
<1> DEFINE r == [run EXCEPT !.installed = b]
<1>3. r \in Run /\ r.step = run.step /\ r.dry = run.dry /\ r.addr = run.addr /\ r.result = run.result
  BY <1>1, RunFacts DEF Run
<1>4. GoOn(r)
  BY <1>1
<1> HIDE DEF r
<1>5. Moved(r)
  BY <1>1, <1>2, <1>3, <1>4, RunFacts, GoOnMoves
<1>6. faults' \in 0 .. MaxFaults
  BY <1>1, FaultsTyped
<1>7. QED
  BY <1>1, <1>2, <1>3, <1>5, <1>6, QuietStep

\* StepRelayListener keeps the invariant.
LEMMA RelayListenerStep ==
  ASSUME SetupIInv, StepRelayListener
  PROVE  SetupIInv'
<1>1. /\ ~Idle /\ Steps[run.step] = "relay-listener" /\ GoOn(run)
      /\ UNCHANGED <<token, hostVars, personVars, exe, dirs>>
  BY DEF StepRelayListener, At
<1>2. run.step = 2 /\ run.addr \in Addr
  BY <1>1, RunFacts, StepNumbers
<1>3. Moved(run)
  BY <1>1, RunFacts, GoOnMoves
<1>4. UNCHANGED <<cred, config, task, sources, missing, supplied>>
  BY <1>1 DEF hostVars, personVars
<1>5. CASE /\ ~HasSystemd \/ run.dry \/ (conf = run.addr /\ ~run.repair /\ Active)
           /\ UNCHANGED <<conf, daemon, faults>>
  <2>1. faults' \in 0 .. MaxFaults
    BY <1>5, FaultsTyped DEF Smooth
  <2>2. UNCHANGED <<wslVars, hostVars, personVars, exe, dirs>>
    BY <1>1, <1>5 DEF wslVars
  <2>3. QED
    BY <1>1, <1>2, <1>3, <1>5, <2>1, <2>2, QuietStep
<1>6. CASE /\ conf' = run.addr
           /\ (daemon' = Started(run.addr) /\ Smooth) \/ (UNCHANGED daemon /\ Hit)
  <2>1. faults' \in 0 .. MaxFaults
    BY <1>6, FaultsTyped
  <2>2. daemon' \in [st: {"off", "starting", "deaf", "relay"}, addr: Addr \cup {None}]
    BY <1>2, <1>6 DEF Started, SetupIInv, SetupTypeOK
  <2>3. SetupTypeOK'
    BY <1>1, <1>2, <1>3, <1>4, <1>6, <2>1, <2>2, MovedTyped DEF SetupIInv, SetupTypeOK
  <2>4. InstalledIsUsable'
    BY <1>1, <1>4 DEF SetupIInv, InstalledIsUsable
  <2>5. QED
    BY <1>1, <1>2, <1>3, <1>4, <1>6, <2>3, <2>4, StepFrame
<1>7. QED
  BY <1>5, <1>6 DEF StepRelayListener

\* Where the installed binary may come from, and how the step ends: it goes
\* on only with a binary in place.
BinaryOutcome ==
  /\ Hit \/ Smooth
  /\ exe' \in Version \cup {exe, "torn"}
  /\ exe' = None => exe = None
  /\ \/ Fail \/ Block
     \/ (GoOn(run) \/ GoOn([run EXCEPT !.fresh = TRUE])) /\ (run.dry \/ exe' # None)

\* A copy goes on only with the copied binary in place.
LEMMA CopyOutcome ==
  ASSUME NEW v \in Version, CopyWindowsBinary(v)
  PROVE  BinaryOutcome
<1>1. v # None /\ "torn" # None
  BY SetupAssumption
<1> HIDE DEF Fail, Block, GoOn, Hit, Smooth
<1>2. CASE run.dry
  BY <1>1, <1>2 DEF CopyWindowsBinary, BinaryOutcome
<1>3. CASE ~run.dry
  BY <1>1, <1>3 DEF CopyWindowsBinary, BinaryOutcome
<1>4. QED
  BY <1>2, <1>3

\* So does the step, whichever source it takes.
LEMMA BinaryStepOutcome ==
  ASSUME SetupIInv, StepWindowsBinary
  PROVE  BinaryOutcome
<1>1. run.over \in Version \cup {None} /\ Build \in Version /\ Build # None
  BY RunFacts, SetupAssumption DEF StepWindowsBinary, At
<1> HIDE DEF Fail, Block, GoOn, Hit, Smooth
<1>2. CASE run.over # None
  <2>1. CopyWindowsBinary(run.over) \/ (Block /\ UNCHANGED exe /\ Hit)
    BY <1>2 DEF StepWindowsBinary
  <2>2. QED
    BY <1>1, <1>2, <2>1, CopyOutcome DEF BinaryOutcome
<1>3. CASE run.over = None /\ exe # None
  <2>1. GoOn(run) /\ UNCHANGED exe /\ Smooth
    BY <1>3 DEF StepWindowsBinary
  <2>2. QED
    BY <1>3, <2>1 DEF BinaryOutcome
<1>4. CASE run.over = None /\ exe = None
  <2>1. \/ CopyWindowsBinary(Build) \/ FetchWindowsBinary
        \/ Block /\ UNCHANGED exe /\ (Hit \/ Smooth)
    BY <1>4 DEF StepWindowsBinary, BuildWindowsBinary
  <2>2. FetchWindowsBinary => BinaryOutcome
    BY <1>1, <1>4 DEF FetchWindowsBinary, BinaryOutcome
  <2>3. QED
    BY <1>1, <2>1, <2>2, CopyOutcome DEF BinaryOutcome
<1>5. QED
  BY <1>2, <1>3, <1>4

\* StepWindowsBinary keeps the invariant.
LEMMA WindowsBinaryStep ==
  ASSUME SetupIInv, StepWindowsBinary
  PROVE  SetupIInv'
<1>1. /\ ~Idle /\ Steps[run.step] = "windows-binary"
      /\ UNCHANGED <<wslVars, hostVars, personVars, dirs>>
  BY DEF StepWindowsBinary, At
<1>2. run.step = 4
  BY <1>1, RunFacts, StepNumbers
<1>3. BinaryOutcome
  BY BinaryStepOutcome
<1> DEFINE f == [run EXCEPT !.fresh = TRUE]
<1>4. f \in Run /\ f.step = run.step /\ f.dry = run.dry /\ f.addr = run.addr /\ f.result = run.result
  BY <1>1, RunFacts DEF Run
<1>5. Fail \/ Block \/ ((GoOn(run) \/ GoOn(f)) /\ (run.dry \/ exe' # None))
  BY <1>3 DEF BinaryOutcome
<1> HIDE DEF f
<1>6. /\ Moved(run) \/ Moved(f)
      /\ ~run.dry /\ run'.step # 0 => exe' # None
  BY <1>1, <1>2, <1>4, <1>5, RunFacts, GoOnMoves, BlockMoves, FailMoves
<1>7. UNCHANGED <<conf, daemon, token, cred, config, task, sources, missing, supplied, dirs>>
  BY <1>1 DEF wslVars, hostVars, personVars
<1>8. run' \in Run /\ (run'.step # 0 => run'.addr # None /\ run'.result = "none")
  BY <1>1, <1>4, <1>6, MovedTyped
<1>9. faults' \in 0 .. MaxFaults
  BY <1>3, FaultsTyped DEF BinaryOutcome
<1>10. exe' \in Version \cup {None, "torn"} /\ (exe # None => exe' # None)
  BY <1>3 DEF BinaryOutcome, SetupIInv, SetupTypeOK
<1>11. SetupTypeOK'
  BY <1>7, <1>8, <1>9, <1>10 DEF SetupIInv, SetupTypeOK
<1>12. InstalledIsUsable'
  BY <1>7, <1>10 DEF SetupIInv, InstalledIsUsable
<1>13. PICK r \in {run, f} : Moved(r)
  BY <1>6
<1>14. QED
  BY <1>1, <1>2, <1>4, <1>6, <1>7, <1>10, <1>11, <1>12, <1>13, StepFrame

\* StepPair keeps the invariant.
LEMMA PairStep ==
  ASSUME SetupIInv, StepPair
  PROVE  SetupIInv'
<1>1. /\ ~Idle /\ Steps[run.step] = "pair"
      /\ UNCHANGED <<wslVars, config, task, personVars, exe, dirs>>
      /\ Block \/ GoOn(run)
      /\ Hit \/ Smooth
      /\ cred' = cred \/ (cred' = token.id /\ ~run.dry)
      /\ Block \/ settled \/ run.dry \/ cred' = token.id
  BY DEF StepPair, At
<1>2. run.step = 7
  BY <1>1, RunFacts, StepNumbers
<1>3. Moved(run) /\ (Block => run'.step = 0 \/ run.dry)
  BY <1>1, RunFacts, GoOnMoves, BlockMoves
<1>4. faults' \in 0 .. MaxFaults
  BY <1>1, FaultsTyped
<1>5. UNCHANGED <<conf, daemon, token, config, task, sources, missing, supplied, exe, dirs>>
  BY <1>1 DEF wslVars, personVars
<1>6. /\ token.id \in 0 .. MaxMints
      /\ ~run.dry => token.id # 0
  BY <1>1, <1>2 DEF SetupIInv, SetupTypeOK, RunOK, TokenOK
<1> HIDE DEF settled
<1>7. SetupTypeOK'
  BY <1>1, <1>3, <1>4, <1>5, <1>6, MovedTyped DEF SetupIInv, SetupTypeOK
<1>8. InstalledIsUsable'
  BY <1>1, <1>5, <1>6 DEF SetupIInv, InstalledIsUsable
<1>9. QED
  BY <1>1, <1>2, <1>3, <1>5, <1>7, <1>8, StepFrame

\* StepWorkDirs keeps the invariant.
LEMMA WorkDirsStep ==
  ASSUME SetupIInv, StepWorkDirs
  PROVE  SetupIInv'
<1>1. /\ ~Idle /\ Steps[run.step] = "work-dirs"
      /\ UNCHANGED <<wslVars, hostVars, personVars, exe, faults>>
      /\ Block \/ (GoOn(run) /\ (run.dry \/ dirs'))
      /\ dirs' \in BOOLEAN /\ (dirs => dirs')
  BY DEF StepWorkDirs, At, SetupIInv, SetupTypeOK
<1>2. run.step = 11
  BY <1>1, RunFacts, StepNumbers
<1>3. Moved(run) /\ (Block => run'.step = 0 \/ run.dry)
  BY <1>1, RunFacts, GoOnMoves, BlockMoves
<1>4. UNCHANGED <<conf, daemon, token, cred, config, task, sources, missing, supplied, exe, faults>>
  BY <1>1 DEF wslVars, hostVars, personVars
<1>5. SetupTypeOK'
  BY <1>1, <1>3, <1>4, MovedTyped DEF SetupIInv, SetupTypeOK
<1>6. InstalledIsUsable'
  BY <1>1, <1>4 DEF SetupIInv, InstalledIsUsable
<1>7. QED
  BY <1>1, <1>2, <1>3, <1>4, <1>5, <1>6, StepFrame

\* HostInstall keeps the invariant.
LEMMA HostInstallStep ==
  ASSUME SetupIInv, StepHostInstall
  PROVE  SetupIInv'
<1>1. /\ ~Idle /\ Steps[run.step] = "host-install"
      /\ UNCHANGED <<wslVars, cred, personVars, exe, dirs>>
      /\ Block \/ GoOn(run)
      /\ Hit \/ Smooth
      /\ \/ UNCHANGED task /\ config' \in {config, run.addr}
         \/ /\ ~settled /\ ~run.dry /\ config' = run.addr
            /\ task' \in {[st |-> "started", exe |-> exe], [st |-> "none", exe |-> None],
                          [st |-> "created", exe |-> None]}
  BY DEF StepHostInstall, HostInstall, At
<1>2. run.step = 13 /\ run.addr \in Addr /\ run.addr # None
  BY <1>1, RunFacts, StepNumbers
<1>3. Moved(run)
  BY <1>1, RunFacts, GoOnMoves, BlockMoves
<1>4. faults' \in 0 .. MaxFaults
  BY <1>1, FaultsTyped
<1>5. UNCHANGED <<conf, daemon, token, cred, sources, missing, supplied, exe, dirs>>
  BY <1>1 DEF wslVars, personVars
<1> HIDE DEF settled
<1>6. ~settled /\ ~run.dry => cred # 0 /\ dirs /\ exe # None
  BY <1>1, <1>2 DEF SetupIInv, RunOK, TokenOK
<1>7. task' \in [st: {"none", "created", "started"}, exe: Version \cup {None, "torn"}]
  BY <1>1 DEF SetupIInv, SetupTypeOK
<1>8. SetupTypeOK'
  BY <1>1, <1>2, <1>3, <1>4, <1>5, <1>7, MovedTyped DEF SetupIInv, SetupTypeOK
<1>9. InstalledIsUsable'
  BY <1>1, <1>2, <1>5, <1>6 DEF SetupIInv, InstalledIsUsable
<1>10. QED
  BY <1>1, <1>2, <1>3, <1>5, <1>8, <1>9, StepFrame
-----------------------------------------------------------------------------
(* The daemon and the person *)

\* Between runs, and while a run's token is good, a change of the token's
\* file and of the daemon leaves the run alone.
LEMMA RunKept ==
  ASSUME SetupIInv, UNCHANGED <<conf, exe, cred, dirs, run>>,
         run.step # 0 /\ token.kind = "ok" => token' = token
  PROVE  RunOK'
<1> SUFFICES ASSUME ~Idle, ~run.dry
             PROVE  RunOK'
  BY DEF RunOK, Idle
<1>1. (settled' <=> settled) /\ run.step \in 1 .. 13 /\ run.step # 0
  BY RunFacts DEF settled, Idle
<1> HIDE DEF settled
<1>2. RunOK
  BY DEF SetupIInv
<1>3. QED
  BY <1>1, <1>2 DEF RunOK

\* Nothing is required of a run that has ended.
LEMMA IdleRunOK ==
  ASSUME run'.step = 0
  PROVE  RunOK'
  BY DEF RunOK, Idle

\* Interrupt keeps the invariant.
LEMMA InterruptStep ==
  ASSUME SetupIInv, Interrupt
  PROVE  SetupIInv'
<1>1. ~Idle /\ Fail /\ Hit /\ UNCHANGED <<wslVars, hostVars, personVars, exe, dirs>>
  BY DEF Interrupt
<1>2. Moved(run) /\ run'.step = 0
  BY <1>1, FailMoves
<1>3. faults' \in 0 .. MaxFaults
  BY <1>1, FaultsTyped
<1>4. QED
  BY <1>1, <1>2, <1>3, QuietStep

\* Bind keeps the invariant.
LEMMA BindStep ==
  ASSUME SetupIInv, Bind
  PROVE  SetupIInv'
<1>1. /\ UNCHANGED <<conf, exe, cred, config, task, dirs, sources, missing, supplied, faults, run>>
      /\ \/ UNCHANGED token
         \/ token.kind = "missing" /\ token' = [id |-> token.id + 1, kind |-> "ok"]
  BY DEF Bind, hostVars, personVars
<1>2. daemon' \in [st: {"off", "starting", "deaf", "relay"}, addr: Addr \cup {None}]
  BY DEF Bind, SetupIInv, SetupTypeOK
<1>3. /\ token' \in [id: 0 .. MaxMints, kind: {"missing", "odd", "loose", "ok"}]
      /\ TokenOK'
  <2>1. token \in [id: 0 .. MaxMints, kind: {"missing", "odd", "loose", "ok"}] /\ TokenOK /\ MaxMints \in Nat
    BY SetupAssumption DEF SetupIInv, SetupTypeOK
  <2>2. CASE UNCHANGED token
    BY <2>1, <2>2 DEF TokenOK
  <2>3. CASE token.kind = "missing" /\ token' = [id |-> token.id + 1, kind |-> "ok"]
    <3>1. token.id \in 0 .. MaxMints /\ token.id < MaxMints
      BY <2>1, <2>3 DEF TokenOK
    <3>2. token.id + 1 \in 0 .. MaxMints /\ token.id + 1 # 0
      BY <2>1, <3>1
    <3>3. QED
      BY <2>3, <3>2 DEF TokenOK
  <2>4. QED
    BY <1>1, <2>2, <2>3
<1>4. SetupTypeOK'
  BY <1>1, <1>2, <1>3 DEF SetupIInv, SetupTypeOK
<1>5. InstalledIsUsable'
  BY <1>1 DEF SetupIInv, InstalledIsUsable
<1>6. RunOK'
  BY <1>1, RunKept
<1>7. QED
  BY <1>3, <1>4, <1>5, <1>6 DEF SetupIInv

\* Begin keeps the invariant.
LEMMA BeginStep ==
  ASSUME SetupIInv, NEW dry \in BOOLEAN, NEW repair \in BOOLEAN, NEW addr \in Addr,
         Begin(dry, repair, addr)
  PROVE  SetupIInv'
<1> DEFINE q == [ step |-> 1, dry |-> dry, repair |-> repair, addr |-> addr, over |-> supplied,
                  fresh |-> FALSE, installed |-> FALSE, result |-> "none" ]
<1>1. /\ run' = q /\ (supplied' = supplied \/ supplied' = None)
      /\ UNCHANGED <<conf, daemon, token, cred, config, task, sources, missing, exe, dirs, faults>>
  BY DEF Begin, wslVars, hostVars
<1>2. supplied \in Version \cup {None} /\ 1 \in 0 .. Len(Steps) /\ addr # None
  BY StepNumbers, SetupAssumption DEF SetupIInv, SetupTypeOK
<1>3. q \in Run /\ q.addr # None /\ q.result = "none" /\ q.step = 1
  BY <1>2 DEF Run
<1> HIDE DEF q
<1>4. SetupTypeOK'
  BY <1>1, <1>2, <1>3 DEF SetupIInv, SetupTypeOK
<1>5. InstalledIsUsable' /\ TokenOK'
  BY <1>1 DEF SetupIInv, InstalledIsUsable, TokenOK
<1>6. RunOK'
  BY <1>1, <1>3 DEF RunOK
<1>7. QED
  BY <1>4, <1>5, <1>6 DEF SetupIInv

\* Clear keeps the invariant.
LEMMA ClearStep ==
  ASSUME SetupIInv, Clear
  PROVE  SetupIInv'
<1>1. /\ run.step = 0 /\ ClearDaemon(run.result) /\ run' = [run EXCEPT !.result = "cleared"]
      /\ missing' \subseteq missing /\ (supplied' = supplied \/ supplied' = Build)
      /\ UNCHANGED <<conf, cred, config, task, sources, exe, dirs, faults>>
  BY DEF Clear, Idle, hostVars
<1>2. /\ run \in Run /\ conf \in Addr \cup {None} /\ run.addr \in Addr \cup {None}
      /\ daemon \in [st: {"off", "starting", "deaf", "relay"}, addr: Addr \cup {None}]
      /\ token \in [id: 0 .. MaxMints, kind: {"missing", "odd", "loose", "ok"}]
      /\ missing \subseteq Prereq /\ supplied \in Version \cup {None} /\ Build \in Version
  BY SetupAssumption DEF SetupIInv, SetupTypeOK, Run
<1>3. run' \in Run /\ run'.step = 0
  BY <1>1, <1>2 DEF Run
<1>4. daemon' \in [st: {"off", "starting", "deaf", "relay"}, addr: Addr \cup {None}]
  <2>1. \/ UNCHANGED daemon \/ daemon' = [st |-> "off", addr |-> None]
        \/ \E a \in {conf, run.addr} : daemon' = Started(a)
    BY <1>1 DEF ClearDaemon
  <2>2. QED
    BY <1>2, <2>1 DEF Started
<1>5. /\ token' \in [id: 0 .. MaxMints, kind: {"missing", "odd", "loose", "ok"}]
      /\ TokenOK'
  <2>1. \/ UNCHANGED token
        \/ token.kind = "loose" /\ token' = [token EXCEPT !.kind = "ok"]
        \/ token.kind = "odd" /\ token' = [token EXCEPT !.kind = "missing"]
        \/ token' = [token EXCEPT !.kind = token.kind]
    BY <1>1 DEF ClearDaemon
  <2>2. TokenOK
    BY DEF SetupIInv
  <2>3. QED
    BY <1>2, <2>1, <2>2 DEF TokenOK
<1>6. SetupTypeOK'
  BY <1>1, <1>2, <1>3, <1>4, <1>5 DEF SetupIInv, SetupTypeOK
<1>7. InstalledIsUsable'
  BY <1>1 DEF SetupIInv, InstalledIsUsable
<1>8. QED
  BY <1>3, <1>5, <1>6, <1>7, IdleRunOK DEF SetupIInv

\* What the person does between runs, and the daemon's end.
LEMMA ErrandStep ==
  ASSUME SetupIInv, Forget \/ (\E v \in Version : Supply(v)) \/ Stop
  PROVE  SetupIInv'
<1>1. UNCHANGED <<conf, token, cred, config, task, sources, exe, dirs, run>>
  BY DEF Forget, Supply, Stop, wslVars, hostVars, personVars
<1>2. missing' \subseteq Prereq /\ supplied' \in Version \cup {None}
  BY DEF Forget, Supply, Stop, personVars, SetupIInv, SetupTypeOK
<1>3. faults' \in 0 .. MaxFaults
  BY FaultsTyped DEF Forget, Supply, Stop, Smooth
<1>4. daemon' \in [st: {"off", "starting", "deaf", "relay"}, addr: Addr \cup {None}]
  BY DEF Forget, Supply, Stop, wslVars, SetupIInv, SetupTypeOK
<1>5. SetupTypeOK'
  BY <1>1, <1>2, <1>3, <1>4 DEF SetupIInv, SetupTypeOK
<1>6. InstalledIsUsable' /\ TokenOK'
  BY <1>1 DEF SetupIInv, InstalledIsUsable, TokenOK
<1>7. RunOK'
  BY <1>1, RunKept
<1>8. QED
  BY <1>5, <1>6, <1>7 DEF SetupIInv

\* The token's file is removed or loosened, the task deleted.
LEMMA RemovalStep ==
  ASSUME SetupIInv, Rotate \/ Loosen \/ HostUninstall
  PROVE  SetupIInv'
<1>1. /\ run.step = 0
      /\ UNCHANGED <<conf, daemon, cred, config, sources, missing, supplied, exe, dirs, run>>
  BY DEF Rotate, Loosen, HostUninstall, Idle, wslVars, hostVars, personVars
<1>2. faults' \in 0 .. MaxFaults
  BY FaultsTyped DEF Rotate, Loosen, HostUninstall, Smooth
<1>3. UNCHANGED task \/ task' = [st |-> "none", exe |-> None]
  BY DEF Rotate, Loosen, HostUninstall, hostVars
<1>4. /\ token' \in [id: 0 .. MaxMints, kind: {"missing", "odd", "loose", "ok"}]
      /\ TokenOK'
  <2>1. /\ token \in [id: 0 .. MaxMints, kind: {"missing", "odd", "loose", "ok"}]
        /\ TokenOK
    BY DEF SetupIInv, SetupTypeOK
  <2>2. CASE Rotate
    BY <2>1, <2>2 DEF Rotate, TokenOK
  <2>3. CASE Loosen
    BY <2>1, <2>3 DEF Loosen, TokenOK
  <2>4. CASE HostUninstall
    BY <2>1, <2>4 DEF HostUninstall, wslVars, TokenOK
  <2>5. QED
    BY <2>2, <2>3, <2>4
<1>5. SetupTypeOK'
  BY <1>1, <1>2, <1>3, <1>4 DEF SetupIInv, SetupTypeOK
<1>6. InstalledIsUsable'
  BY <1>1, <1>3 DEF SetupIInv, InstalledIsUsable
<1>7. QED
  BY <1>1, <1>4, <1>5, <1>6, IdleRunOK DEF SetupIInv
-----------------------------------------------------------------------------
(* Theorems *)

\* Every step keeps the invariant.
LEMMA SetupStep ==
  ASSUME SetupIInv, [Next]_setupVars
  PROVE  SetupIInv'
<1>1. CASE StepOfRun
  BY <1>1, PrerequisiteStep, ProbeStep, BrokerTaskStep, RelayListenerStep, WindowsBinaryStep,
     PairStep, WorkDirsStep, HostInstallStep DEF StepOfRun
<1>2. CASE BeginLive \/ \E repair \in BOOLEAN, a \in Addr : Begin(TRUE, repair, a)
  <2>1. PICK dry \in BOOLEAN, repair \in BOOLEAN, a \in Addr : Begin(dry, repair, a)
    BY <1>2 DEF BeginLive
  <2>2. QED
    BY <2>1, BeginStep
<1>3. CASE Bind \/ Interrupt \/ Clear
  BY <1>3, BindStep, InterruptStep, ClearStep
<1>4. CASE Forget \/ Stop \/ \E v \in Version : Supply(v)
  BY <1>4, ErrandStep
<1>5. CASE Rotate \/ Loosen \/ HostUninstall
  BY <1>5, RemovalStep
<1>6. CASE UNCHANGED setupVars
  <2>1. UNCHANGED <<conf, daemon, token, sources, exe, cred, config, task, dirs, missing, supplied, faults, run>>
    BY <1>6 DEF setupVars, wslVars, hostVars, personVars
  <2>2. SetupTypeOK' /\ InstalledIsUsable' /\ TokenOK'
    BY <2>1 DEF SetupIInv, SetupTypeOK, InstalledIsUsable, TokenOK
  <2>3. RunOK'
    BY <2>1, RunKept
  <2>4. QED
    BY <2>2, <2>3 DEF SetupIInv
<1>7. QED
  BY <1>1, <1>2, <1>3, <1>4, <1>5, <1>6 DEF Next

\* A machine nobody has set up satisfies the invariant.
LEMMA SetupInit ==
  ASSUME Init
  PROVE  SetupIInv
<1>1. run = Over("none", None) /\ run \in Run /\ run.step = 0
  BY OverFacts DEF Init
<1>2. 0 \in 0 .. MaxMints /\ 0 < MaxMints /\ 0 \in 0 .. MaxFaults
  BY SetupAssumption
<1>3. SetupTypeOK
  BY <1>1, <1>2 DEF Init, SetupTypeOK
<1>4. InstalledIsUsable /\ TokenOK
  BY <1>2 DEF Init, InstalledIsUsable, TokenOK
<1>5. RunOK
  BY <1>1 DEF RunOK, Idle
<1>6. QED
  BY <1>3, <1>4, <1>5 DEF SetupIInv

\* What a live run may rely on holds whatever the daemon and the person do
\* between its steps.
THEOREM SetupInvariant == SetupSpec => []SetupIInv
<1>1. Init => SetupIInv
  BY SetupInit
<1>2. SetupIInv /\ [Next]_setupVars => SetupIInv'
  BY SetupStep
<1>3. QED
  BY <1>1, <1>2, PTL DEF SetupSpec

\* However often runs are interrupted, fail or are repeated, a broker whose
\* task exists is paired, has its settings, its directories and its binary.
THEOREM InstalledUsable == SetupSpec => []SetupInv
<1>1. SetupIInv => SetupInv
  BY DEF SetupIInv, SetupInv
<1>2. QED
  BY <1>1, SetupInvariant, PTL
\* A --repair run that ends as ready has installed: the last step was not
\* skipped, and what it trusted was seen to on the way.
LEMMA ReadyRepaired ==
  ASSUME SetupIInv, [Next]_setupVars, BecomesReady, run.repair
  PROVE  /\ cred' = token'.id /\ token'.kind = "ok"
         /\ config' = run.addr /\ (HasSystemd => conf' = run.addr)
         /\ task' = [st |-> "started", exe |-> exe']
<1>1. StepOfRun
  <2>1. run' # run
    BY DEF BecomesReady
  <2>2. ~BeginLive /\ ~\E repair \in BOOLEAN, a \in Addr : Begin(TRUE, repair, a)
    BY DEF BecomesReady, BeginLive, Begin
  <2>3. ~Interrupt
    BY FailMoves DEF Interrupt, BecomesReady
  <2>4. ~Clear
    <3>1. run \in Run
      BY DEF SetupIInv, SetupTypeOK
    <3>2. QED
      BY <3>1 DEF Clear, BecomesReady, Run
  <2>5. ~(Bind \/ Forget \/ Rotate \/ Loosen \/ Stop \/ HostUninstall \/ \E v \in Version : Supply(v))
    BY <2>1 DEF Bind, Forget, Rotate, Loosen, Stop, HostUninstall, Supply
  <2>6. ~UNCHANGED setupVars
    BY <2>1 DEF setupVars
  <2>7. QED
    BY <2>2, <2>3, <2>4, <2>5, <2>6 DEF Next
<1>2. ~Idle /\ run.step \in 1 .. 13 /\ run \in Run /\ run.result = "none"
  <2>1. ~Idle
    BY <1>1 DEF StepOfRun, At, StepEnvironment, StepRelayListener, StepRelayToken, StepWindowsBinary,
       StepTokenUNC, StepBrokerTask, StepPair, StepConnectivity, StepClaudeExe, StepClaudeLogin,
       StepWorkDirs, StepChromeReady, StepHostInstall
  <2>2. QED
    BY <2>1, RunFacts
<1>3. run.step = 13 /\ ~run.dry /\ ~Block /\ ~Fail
  <2>1. ~Block /\ ~Fail
    BY <1>2, BlockMoves, FailMoves DEF BecomesReady
  <2>2. PICK r : /\ r \in Run /\ r.step = run.step /\ r.dry = run.dry /\ r.result = "none"
                 /\ GoOn(r)
    <3> DEFINE f == [run EXCEPT !.fresh = TRUE]
               g(b) == [run EXCEPT !.installed = b]
    <3>1. f \in Run /\ f.step = run.step /\ f.dry = run.dry /\ f.result = "none"
      BY <1>2 DEF Run
    <3>2. \A b \in BOOLEAN :
            g(b) \in Run /\ g(b).step = run.step /\ g(b).dry = run.dry /\ g(b).result = "none"
      BY <1>2 DEF Run
    <3>3. GoOn(run) \/ GoOn(f) \/ \E b \in BOOLEAN : GoOn(g(b))
      <4> HIDE DEF GoOn, Block, Fail, Hit, Smooth
      <4>1. CASE StepWindowsBinary
        BY <2>1, <4>1, BinaryStepOutcome DEF BinaryOutcome
      <4>2. CASE StepBrokerTask
        BY <4>2 DEF StepBrokerTask
      <4>3. CASE \/ StepEnvironment \/ StepRelayListener \/ StepRelayToken \/ StepTokenUNC \/ StepPair
                 \/ StepConnectivity \/ StepClaudeExe \/ StepClaudeLogin \/ StepWorkDirs
                 \/ StepChromeReady
        BY <2>1, <4>3 DEF StepEnvironment, StepRelayListener, StepRelayToken, StepTokenUNC, StepPair,
           StepConnectivity, StepClaudeExe, StepClaudeLogin, StepWorkDirs, StepChromeReady
      <4>4. CASE StepHostInstall
        BY <2>1, <4>4 DEF StepHostInstall, HostInstall
      <4>5. QED
        BY <1>1, <4>1, <4>2, <4>3, <4>4 DEF StepOfRun
    <3> HIDE DEF f, g
    <3>4. QED
      BY <1>2, <3>1, <3>2, <3>3
  <2>3. QED
    BY <1>2, <2>1, <2>2, GoOnMoves DEF BecomesReady
<1>4. StepHostInstall
  <2>1. Steps[13] = "host-install"
    BY DEF Steps
  <2>2. At("host-install") /\ \A x : At(x) => x = "host-install"
    BY <1>2, <1>3, <2>1 DEF At
  <2>3. QED
    BY <1>1, <2>2 DEF StepOfRun, StepEnvironment, StepRelayListener, StepRelayToken, StepWindowsBinary,
       StepTokenUNC, StepBrokerTask, StepPair, StepConnectivity, StepClaudeExe, StepClaudeLogin,
       StepWorkDirs, StepChromeReady
<1>5. ~settled
  BY DEF settled
<1>6. /\ config' = run.addr /\ task' = [st |-> "started", exe |-> exe]
      /\ UNCHANGED <<conf, token, cred, exe>>
  BY <1>3, <1>4, <1>5 DEF StepHostInstall, HostInstall, wslVars
<1>7. cred = token.id /\ token.kind = "ok" /\ (HasSystemd => conf = run.addr)
  BY <1>2, <1>3, <1>5 DEF SetupIInv, RunOK
<1>8. QED
  BY <1>6, <1>7

\* --repair cures what earlier runs, a rotated token and a change of address
\* have left: a ready bridge holds the current token, the address and a task
\* started with the installed binary.
THEOREM RepairIsCure == SetupSpec => RepairCures
<1>1. SetupIInv /\ [Next]_setupVars =>
        [BecomesReady /\ run.repair =>
           /\ cred' = token'.id /\ token'.kind = "ok"
           /\ config' = run.addr /\ (HasSystemd => conf' = run.addr)
           /\ task' = [st |-> "started", exe |-> exe']]_setupVars
  BY ReadyRepaired
<1>2. QED
  BY <1>1, SetupInvariant, PTL DEF SetupSpec, RepairCures
=============================================================================
