------------------------------ MODULE EyesSetup ------------------------------
(***************************************************************************)
(* eyes-setup (cmd/agent-coordinator/eyes_setup.go) with the commands it   *)
(* drives on the Windows side (cmd/agent-coordinator/host.go,              *)
(* hostbroker.Pair, hostbroker.applySchedule), the daemon's relay listener *)
(* (internal/daemon/daemon.go, internal/paths/relay.go) and the person who *)
(* clears what blocks it and runs it again.                                *)
(*                                                                         *)
(* One action is one of the thirteen steps of Run.  What a step finds out  *)
(* lives in the run record and is lost with the process; what it changes   *)
(* are the files and services below.  The person acts between runs.        *)
(*                                                                         *)
(* Abstracted: paths, wording and the contents of files (a token is the    *)
(* number of its minting, a binary its version, the settings stored for    *)
(* the broker the relay address), and the environment's prerequisites,     *)
(* which are members of the set missing until the person provides them.    *)
(***************************************************************************)
EXTENDS Naturals, Sequences, FiniteSets

CONSTANTS
  Addr,        \* loopback addresses
  Version,     \* versions of agent-coordinator.exe
  Build,       \* the version of the running eyes-setup
  Prereq,      \* what is missing at first
  Offers,      \* the sources of a Windows binary a machine may have
  HasSystemd,  \* is systemctl on the path?
  CopiesTear,  \* may a failing cp leave half a binary behind?
  MaxMints,    \* bound: tokens the daemon mints
  MaxFaults,   \* bound: commands that fail, runs that are interrupted
  None         \* no address, no version

ASSUME SetupAssumption ==
  /\ Build \in Version
  /\ None \notin Addr \cup Version
  /\ "torn" \notin Version \cup {None}
  /\ Prereq \subseteq {"interop", "distro", "network", "claude", "login", "outside", "chrome"}
  /\ Offers \subseteq SUBSET {"sibling", "release", "make"}
  /\ HasSystemd \in BOOLEAN /\ CopiesTear \in BOOLEAN
  /\ MaxMints \in Nat \ {0} /\ MaxFaults \in Nat

VARIABLES
  conf,      \* the address in the systemd drop-in
  daemon,    \* [st, addr]: the daemon and its AC_RELAY_LISTEN
  token,     \* [id, kind]: the relay token's file
  sources,   \* where a Windows binary can be had from
  exe,       \* the installed Windows binary
  cred,      \* the token the broker is paired with, 0 when it is not
  config,    \* the address in the broker's stored settings
  task,      \* [st, exe]: the scheduled task and the binary it was started with
  dirs,      \* do the work and config directories exist?
  missing,   \* prerequisites nobody has provided yet
  supplied,  \* the binary the person passes to the next run
  faults,    \* faults so far
  run        \* the run in progress, or the last one

wslVars == <<conf, daemon, token>>
hostVars == <<cred, config, task>>
personVars == <<sources, missing, supplied>>
setupVars == <<wslVars, hostVars, personVars, exe, dirs, faults, run>>

-----------------------------------------------------------------------------
(* State *)

Steps == << "environment", "relay-listener", "relay-token", "windows-binary", "token-unc-path",
            "broker-task", "pair", "connectivity", "claude-exe", "claude-login", "work-dirs",
            "chrome-ready", "host-install" >>

StepName == {Steps[i] : i \in DOMAIN Steps}

Run == [ step: 0 .. Len(Steps), dry: BOOLEAN, repair: BOOLEAN, addr: Addr \cup {None},
         over: Version \cup {None}, fresh: BOOLEAN, installed: BOOLEAN,
         result: {"none", "planned", "ready", "error", "cleared"} \cup StepName ]

\* The process has ended; the person remembers the address and the outcome.
Over(result, a) ==
  [ step |-> 0, dry |-> FALSE, repair |-> FALSE, addr |-> a, over |-> None,
    fresh |-> FALSE, installed |-> FALSE, result |-> result ]

Init ==
  /\ conf = None
  /\ daemon = [st |-> "off", addr |-> None]
  /\ token \in [id: {0}, kind: {"missing", "odd"}]
  /\ sources \in Offers
  /\ exe = None
  /\ cred = 0
  /\ config = None
  /\ task = [st |-> "none", exe |-> None]
  /\ dirs = FALSE
  /\ missing = Prereq
  /\ supplied = None
  /\ faults = 0
  /\ run = Over("none", None)

\* The type invariant; a run in progress has an address.
SetupTypeOK ==
  /\ conf \in Addr \cup {None}
  /\ daemon \in [st: {"off", "starting", "deaf", "relay"}, addr: Addr \cup {None}]
  /\ token \in [id: 0 .. MaxMints, kind: {"missing", "odd", "loose", "ok"}]
  /\ sources \in Offers
  /\ exe \in Version \cup {None, "torn"}
  /\ cred \in 0 .. MaxMints
  /\ config \in Addr \cup {None}
  /\ task \in [st: {"none", "created", "started"}, exe: Version \cup {None, "torn"}]
  /\ dirs \in BOOLEAN
  /\ missing \subseteq Prereq
  /\ supplied \in Version \cup {None}
  /\ faults \in 0 .. MaxFaults
  /\ run \in Run
  /\ run.step # 0 => run.addr # None /\ run.result = "none"

Idle == run.step = 0
At(name) == ~Idle /\ Steps[run.step] = name

\* A command fails.
Hit == faults < MaxFaults /\ faults' = faults + 1
Smooth == UNCHANGED faults

-----------------------------------------------------------------------------
(* The daemon's relay listener *)

Active == daemon.st # "off"
Reachable == daemon.st = "relay" /\ daemon.addr = run.addr /\ "network" \notin missing
Started(a) == [st |-> "starting", addr |-> a]

\* relayListener and RelayToken: mint on first use, refuse a file that is
\* not a regular 0600 one.
Bind ==
  /\ daemon.st = "starting"
  /\ daemon' = [daemon EXCEPT !.st = IF daemon.addr # None /\ token.kind \in {"missing", "ok"}
                                       THEN "relay" ELSE "deaf"]
  /\ token' = IF daemon.addr # None /\ token.kind = "missing"
                THEN [id |-> token.id + 1, kind |-> "ok"] ELSE token
  /\ UNCHANGED <<conf, exe, hostVars, dirs, personVars, faults, run>>

-----------------------------------------------------------------------------
(* Run: what follows a step, by its result *)

\* ok, done, plan and note go on; the last step ends the run.
GoOn(r) ==
  run' = IF r.step < Len(Steps)
           THEN [r EXCEPT !.step = @ + 1]
           ELSE Over(IF r.dry THEN "planned" ELSE "ready", r.addr)

\* Mutant of Block: the steps after a blocked one are tried all the same.
BlockGoesOn == GoOn(run)

\* A blocked step ends a live run; a dry run shows the whole plan.
Block ==
  IF run.dry THEN GoOn(run)
             ELSE run' = Over(Steps[run.step], run.addr)

Fail == run' = Over("error", run.addr)

-----------------------------------------------------------------------------
(* The steps *)

StepEnvironment ==
  /\ At("environment")
  /\ IF "interop" \in missing THEN Fail ELSE GoOn(run)
  /\ UNCHANGED <<wslVars, hostVars, personVars, exe, dirs, faults>>

\* Mutant of StepRelayListener: a drop-in with the right address is enough.
StepRelayListenerTrusting ==
  /\ At("relay-listener")
  /\ IF run.dry \/ (conf = run.addr /\ ~run.repair)
       THEN UNCHANGED <<conf, daemon>>
       ELSE conf' = run.addr /\ daemon' = Started(run.addr)
  /\ GoOn(run)
  /\ UNCHANGED <<token, hostVars, personVars, exe, dirs, faults>>

\* Write the drop-in, reload, restart.  waitForToken only passes time, and
\* a listener that is not up yet is left to the later steps.
StepRelayListener ==
  /\ At("relay-listener")
  /\ \/ /\ ~HasSystemd \/ run.dry \/ (conf = run.addr /\ ~run.repair /\ Active)
        /\ UNCHANGED <<conf, daemon, faults>>
     \/ /\ HasSystemd /\ ~run.dry
        /\ ~(conf = run.addr /\ ~run.repair /\ Active)
        /\ conf' = run.addr
        /\ \/ daemon' = Started(run.addr) /\ Smooth
           \/ UNCHANGED daemon /\ Hit
  /\ GoOn(run)
  /\ UNCHANGED <<token, hostVars, personVars, exe, dirs>>

\* Type and mode of the token's file; its contents are never read.  A token
\* that appears too late for waitForToken is a fault.
StepRelayToken ==
  /\ At("relay-token")
  /\ IF token.kind = "ok" THEN GoOn(run) ELSE Block
  /\ IF token.kind = "missing" /\ daemon.st = "starting" THEN Hit ELSE Smooth
  /\ UNCHANGED <<wslVars, hostVars, personVars, exe, dirs>>

\* copyWindowsBinary: a failing cp ends the run with an error.
CopyWindowsBinary(v) ==
  \/ /\ run.dry
     /\ GoOn([run EXCEPT !.fresh = TRUE])
     /\ UNCHANGED exe /\ Smooth
  \/ /\ ~run.dry
     /\ exe' = v
     /\ GoOn([run EXCEPT !.fresh = TRUE])
     /\ Smooth
  \/ /\ ~run.dry
     /\ exe' \in {exe} \cup (IF CopiesTear THEN {"torn"} ELSE {})
     /\ Fail
     /\ Hit

\* fetchWindowsBinary: staged, verified, renamed; a bad artifact blocks.
FetchWindowsBinary ==
  \/ /\ GoOn([run EXCEPT !.fresh = TRUE])
     /\ exe' = IF run.dry THEN exe ELSE Build
     /\ Smooth
  \/ /\ ~run.dry
     /\ Block
     /\ UNCHANGED exe
     /\ Hit

\* make build-windows, then a copy of what it built.
BuildWindowsBinary ==
  \/ CopyWindowsBinary(Build)
  \/ /\ ~run.dry
     /\ Block
     /\ UNCHANGED exe
     /\ Hit

\* An override wins over a present binary; a present one over the sibling,
\* that over the release, that over a build.
StepWindowsBinary ==
  /\ At("windows-binary")
  /\ \/ /\ run.over # None
        /\ \/ CopyWindowsBinary(run.over)
           \/ Block /\ UNCHANGED exe /\ Hit
     \/ /\ run.over = None /\ exe # None
        /\ GoOn(run) /\ UNCHANGED exe /\ Smooth
     \/ /\ run.over = None /\ exe = None
        /\ \/ "sibling" \in sources /\ CopyWindowsBinary(Build)
           \/ "sibling" \notin sources /\ "release" \in sources /\ FetchWindowsBinary
           \/ /\ "sibling" \notin sources /\ "make" \in sources
              /\ "release" \notin sources \/ (~run.dry /\ faults < MaxFaults)
              /\ BuildWindowsBinary
           \/ sources = {} /\ Block /\ UNCHANGED exe /\ Smooth
  /\ UNCHANGED <<wslVars, hostVars, personVars, dirs>>

StepTokenUNC ==
  /\ At("token-unc-path")
  /\ IF "distro" \in missing THEN Block ELSE GoOn(run)
  /\ UNCHANGED <<wslVars, hostVars, personVars, exe, dirs, faults>>

\* A failing query counts as no task.
StepBrokerTask ==
  /\ At("broker-task")
  /\ \/ GoOn([run EXCEPT !.installed = (task.st # "none")]) /\ Smooth
     \/ GoOn([run EXCEPT !.installed = FALSE]) /\ Hit
  /\ UNCHANGED <<wslVars, hostVars, personVars, exe, dirs>>

\* Mutant of settled: --repair is forgotten.
SettledUnrepaired == run.installed /\ ~run.fresh

\* Pairing and installation can be left alone.
settled == run.installed /\ ~run.fresh /\ ~run.repair

\* host pair --file: the token becomes the credential's.
StepPair ==
  /\ At("pair")
  /\ \/ /\ settled \/ run.dry
        /\ GoOn(run)
        /\ UNCHANGED cred /\ Smooth
     \/ /\ ~settled /\ ~run.dry /\ exe # "torn"
        /\ cred' = token.id
        /\ GoOn(run)
        /\ Smooth
     \/ /\ ~settled /\ ~run.dry
        /\ Block
        /\ UNCHANGED cred
        /\ IF exe = "torn" THEN Smooth ELSE Hit
  /\ UNCHANGED <<wslVars, config, task, personVars, exe, dirs>>

\* The probe comes seconds after the restart: that the daemon has not bound
\* by then is a fault too.
StepConnectivity ==
  /\ At("connectivity")
  /\ \/ Reachable /\ GoOn(run) /\ Smooth
     \/ ~Reachable /\ daemon.st # "starting" /\ Block /\ Smooth
     \/ (Reachable \/ daemon.st = "starting") /\ Block /\ Hit
  /\ UNCHANGED <<wslVars, hostVars, personVars, exe, dirs>>

StepClaudeExe ==
  /\ At("claude-exe")
  /\ IF "claude" \in missing THEN Block ELSE GoOn(run)
  /\ UNCHANGED <<wslVars, hostVars, personVars, exe, dirs, faults>>

StepClaudeLogin ==
  /\ At("claude-login")
  /\ IF "login" \in missing THEN Block ELSE GoOn(run)
  /\ UNCHANGED <<wslVars, hostVars, personVars, exe, dirs, faults>>

\* The config directory must lie outside the work directory.
StepWorkDirs ==
  /\ At("work-dirs")
  /\ IF "outside" \in missing
       THEN Block /\ UNCHANGED dirs
       ELSE GoOn(run) /\ dirs' = (dirs \/ ~run.dry)
  /\ UNCHANGED <<wslVars, hostVars, personVars, exe, faults>>

StepChromeReady ==
  /\ At("chrome-ready")
  /\ IF "chrome" \in missing THEN Block ELSE GoOn(run)
  /\ UNCHANGED <<wslVars, hostVars, personVars, exe, dirs, faults>>

\* host install: settings saved, task created, task run; a task that does
\* not run is deleted again, if that works.
HostInstall ==
  \/ /\ exe # "torn"
     /\ config' = run.addr
     /\ task' = [st |-> "started", exe |-> exe]
     /\ GoOn(run)
     /\ Smooth
  \/ /\ config' \in {config, run.addr}
     /\ \/ UNCHANGED task
        \/ config' = run.addr /\ task' = [st |-> "none", exe |-> None]
        \/ config' = run.addr /\ task' = [st |-> "created", exe |-> None]
     /\ Block
     /\ IF exe = "torn" THEN Smooth /\ UNCHANGED <<config, task>> ELSE Hit

StepHostInstall ==
  /\ At("host-install")
  /\ \/ (settled \/ run.dry) /\ GoOn(run) /\ UNCHANGED <<config, task>> /\ Smooth
     \/ ~settled /\ ~run.dry /\ HostInstall
  /\ UNCHANGED <<wslVars, cred, personVars, exe, dirs>>

-----------------------------------------------------------------------------
(* Runs begin, are interrupted, and are answered by the person *)

\* ParseEyesSetup, executeEyesSetup: a setup that has found out nothing yet.
Begin(dry, repair, addr) ==
  /\ Idle
  /\ run' = [ step |-> 1, dry |-> dry, repair |-> repair, addr |-> addr, over |-> supplied,
              fresh |-> FALSE, installed |-> FALSE, result |-> "none" ]
  /\ supplied' = IF dry THEN supplied ELSE None
  /\ UNCHANGED <<wslVars, hostVars, sources, missing, exe, dirs, faults>>

\* The process is stopped between two steps.
Interrupt ==
  /\ ~Idle
  /\ Fail
  /\ Hit
  /\ UNCHANGED <<wslVars, hostVars, personVars, exe, dirs>>

\* What the person provides when a step names it.
Provides == [ x \in StepName \cup {"error"} |->
  CASE x = "error" -> {"interop"}
    [] x = "token-unc-path" -> {"distro"}
    [] x = "connectivity" -> {"network"}
    [] x = "claude-exe" -> {"claude"}
    [] x = "claude-login" -> {"login"}
    [] x = "work-dirs" -> {"outside"}
    [] x = "chrome-ready" -> {"chrome"}
    [] OTHER -> {} ]

\* The advice for the token's file: restart, remove and restart, chmod; for
\* the network: wsl --shutdown, unless Windows reaches the relay by now.
ClearDaemon(x) ==
  \/ /\ x = "relay-token" /\ token.kind = "loose"
     /\ token' = [token EXCEPT !.kind = "ok"]
     /\ UNCHANGED daemon
  \/ /\ x = "relay-token" /\ token.kind # "loose"
     /\ daemon' = Started(IF HasSystemd THEN conf ELSE run.addr)
     /\ token' = [token EXCEPT !.kind = IF @ = "odd" THEN "missing" ELSE @]
  \/ /\ x = "connectivity" /\ ~(daemon.st = "relay" /\ daemon.addr = run.addr)
     /\ daemon' = IF HasSystemd THEN [st |-> "off", addr |-> None] ELSE Started(run.addr)
     /\ UNCHANGED token
  \/ /\ x # "relay-token"
     /\ x = "connectivity" => (daemon.st = "relay" /\ daemon.addr = run.addr)
     /\ UNCHANGED <<daemon, token>>

\* The person does what the blocked step says.
Clear ==
  /\ Idle
  /\ run.result \in StepName \cup {"error"}
  /\ missing' = missing \ Provides[run.result]
  /\ supplied' = IF run.result = "windows-binary" THEN Build ELSE supplied
  /\ ClearDaemon(run.result)
  /\ run' = [run EXCEPT !.result = "cleared"]
  /\ UNCHANGED <<conf, hostVars, sources, exe, dirs, faults>>

\* The person comes by another binary to install.
Supply(v) ==
  /\ Idle
  /\ supplied = None /\ exe # v
  /\ supplied' = v
  /\ UNCHANGED <<wslVars, hostVars, sources, missing, exe, dirs, faults, run>>

\* Once the bridge is ready the person leaves --claude-chrome-ready out of
\* later runs, until one asks for it again.
Forget ==
  /\ Idle
  /\ run.result = "ready"
  /\ "chrome" \in Prereq \ missing
  /\ missing' = missing \cup {"chrome"}
  /\ UNCHANGED <<wslVars, hostVars, sources, supplied, exe, dirs, faults, run>>

\* The token is rotated: its file removed, to be minted anew.
Rotate ==
  /\ Idle
  /\ token.kind = "ok" /\ token.id < MaxMints
  /\ token' = [token EXCEPT !.kind = "missing"]
  /\ UNCHANGED <<conf, daemon, hostVars, personVars, exe, dirs, faults, run>>

\* The token's file gets another mode.
Loosen ==
  /\ Idle
  /\ token.kind = "ok"
  /\ token' = [token EXCEPT !.kind = "loose"]
  /\ Hit
  /\ UNCHANGED <<conf, daemon, hostVars, personVars, exe, dirs, run>>

\* The daemon stops.
Stop ==
  /\ Active
  /\ daemon' = [st |-> "off", addr |-> None]
  /\ Hit
  /\ UNCHANGED <<conf, token, hostVars, personVars, exe, dirs, run>>

\* host uninstall: ended, then deleted.
HostUninstall ==
  /\ Idle
  /\ task.st # "none"
  /\ task' = [st |-> "none", exe |-> None]
  /\ Hit
  /\ UNCHANGED <<wslVars, cred, config, personVars, exe, dirs, run>>

-----------------------------------------------------------------------------
(* Specification *)

StepOfRun ==
  \/ StepEnvironment \/ StepRelayListener \/ StepRelayToken \/ StepWindowsBinary
  \/ StepTokenUNC \/ StepBrokerTask \/ StepPair \/ StepConnectivity \/ StepClaudeExe
  \/ StepClaudeLogin \/ StepWorkDirs \/ StepChromeReady \/ StepHostInstall

BeginLive == \E repair \in BOOLEAN, a \in Addr : Begin(FALSE, repair, a)

Next ==
  \/ StepOfRun
  \/ Bind
  \/ BeginLive
  \/ \E repair \in BOOLEAN, a \in Addr : Begin(TRUE, repair, a)
  \/ Interrupt \/ Clear \/ Forget \/ Rotate \/ Loosen \/ Stop \/ HostUninstall
  \/ \E v \in Version : Supply(v)

SetupSpec == Init /\ [][Next]_setupVars

\* A run goes on by itself.  The person does what a blocked step asks for
\* and runs the command again, dry runs and other errands in between
\* notwithstanding.
FairSetupSpec ==
  /\ SetupSpec
  /\ WF_setupVars(StepOfRun)
  /\ WF_setupVars(Bind)
  /\ SF_setupVars(Clear)
  /\ SF_setupVars(BeginLive)

-----------------------------------------------------------------------------
(* Properties *)

\* A broker that is installed has all it needs to run: it is paired, its
\* settings are stored, its directories and its binary exist.  Runs are
\* interrupted and fail anywhere.
InstalledIsUsable ==
  task.st # "none" => cred # 0 /\ config # None /\ dirs /\ exe # None

\* The state is well typed, and InstalledIsUsable.
SetupInv == SetupTypeOK /\ InstalledIsUsable

\* The step that ends a run as "eyes bridge ready".
BecomesReady == run.result # "ready" /\ run'.result = "ready"

\* --repair cures whatever earlier runs left behind, "including after token
\* rotation" (docs/eyes.md:57) and a change of address: when such a run is
\* ready the broker holds the current token, its settings name the address
\* the daemon is told to listen on, and the task was started with the binary
\* that is installed.
RepairCures ==
  [][BecomesReady /\ run.repair =>
       /\ cred' = token'.id /\ token'.kind = "ok"
       /\ config' = run.addr /\ (HasSystemd => conf' = run.addr)
       /\ task' = [st |-> "started", exe |-> exe']]_setupVars

\* "clear them and re-run": a person who does what each blocked step names
\* gets to a ready bridge.
Converges == Idle ~> run.result = "ready"

\* "settled reports whether pairing and installation can be left alone: the
\* broker task exists, the binary did not change": a ready run leaves a task
\* that was started with the binary that is installed.
ReadyIsInstalled ==
  [][BecomesReady => task' = [st |-> "started", exe |-> exe']]_setupVars
=============================================================================
