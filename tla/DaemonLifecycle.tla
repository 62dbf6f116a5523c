--------------------------- MODULE DaemonLifecycle ---------------------------
(***************************************************************************)
(* How the daemon comes up and goes down (internal/daemon/daemon.go and    *)
(* lock_unix.go, cmd/agent-coordinator/daemon.go) while clients dial it    *)
(* and spawn it on a miss (internal/dialer/dialer.go).                     *)
(*                                                                         *)
(* One action is one system call that another process can observe.  The    *)
(* socket path holds the socket of one daemon, dead or alive, of systemd,  *)
(* or none; unlinking it removes whatever is there.  A connection is       *)
(* queued by the kernel as soon as the socket is bound and accepted by     *)
(* Serve.  A client stands for a session: what fails open is asked again   *)
(* with its next hook event or tool call.                                  *)
(*                                                                         *)
(* Abstracted: durations (the stamp's cooldown ends at some moment, a      *)
(* redial window too; the idle time-out of ten minutes passes only while   *)
(* nobody asks), the relay listener, which closes with the unix one, and   *)
(* what requests do.                                                       *)
(***************************************************************************)
EXTENDS Naturals, FiniteSets

CONSTANTS
  Daemon,   \* process slots for daemons
  Client,   \* sessions that ask
  Systemd,  \* systemd's socket unit
  None      \* no holder, no file, no connection

ASSUME LifecycleAssumption ==
  /\ None \notin Daemon \cup {Systemd}
  /\ Systemd \notin Daemon

VARIABLES
  dm,         \* [Daemon -> DaemonPc]
  activated,  \* the daemons systemd has started
  lock,       \* who holds the lock file
  path,       \* whose socket is at the socket path
  quiet,      \* daemons that have seen nobody for the idle time-out
  stamp,      \* is the spawn stamp younger than the cooldown?
  cl          \* [Client -> ClientState]

lifeVars == <<dm, activated, lock, path, quiet, stamp, cl>>

-----------------------------------------------------------------------------
(* State *)

DaemonPc == {"none", "lock", "probe", "bind", "open", "serve", "closing", "drain", "dead"}
ClientPc == {"idle", "dial", "check", "fork", "retry", "queued", "accepted", "answered", "failed"}
Connected == [pc: {"queued"}, on: Daemon \cup {Systemd}] \cup [pc: {"accepted"}, on: Daemon]
ClientState == [pc: ClientPc \ {"queued", "accepted"}, on: {None}] \cup Connected
At(pc) == [pc |-> pc, on |-> None]

Init ==
  /\ dm = [d \in Daemon |-> "none"]
  /\ activated = {}
  /\ lock = None
  /\ path \in {None, Systemd}
  /\ quiet = {}
  /\ stamp = FALSE
  /\ cl = [c \in Client |-> At("idle")]

\* The type invariant; a connection has a peer.
LifecycleTypeOK ==
  /\ dm \in [Daemon -> DaemonPc]
  /\ activated \subseteq Daemon
  /\ lock \in Daemon \cup {None}
  /\ path \in Daemon \cup {Systemd, None}
  /\ quiet \subseteq Daemon
  /\ stamp \in BOOLEAN
  /\ cl \in [Client -> ClientState]

\* The store is open from store.Open to the end of Serve.
HasStore(d) == dm[d] \in {"serve", "closing", "drain"}
Listening(d) == dm[d] \in {"open", "serve"}

\* A connection to the socket path succeeds.
dialable == path = Systemd \/ (path \in Daemon /\ Listening(path))

-----------------------------------------------------------------------------
(* Listener *)

\* tryLock: the loser exits at once.
TryLock(d) ==
  /\ dm[d] = "lock"
  /\ IF lock = None
       THEN lock' = d /\ dm' = [dm EXCEPT ![d] = "probe"]
       ELSE dm' = [dm EXCEPT ![d] = "none"] /\ UNCHANGED lock
  /\ UNCHANGED <<activated, path, quiet, stamp, cl>>

\* Mutant of Probe: the path is not tried before it is removed.
ProbeSkipped(d) ==
  /\ dm[d] = "probe"
  /\ dm' = [dm EXCEPT ![d] = "bind"]
  /\ UNCHANGED <<activated, lock, path, quiet, stamp, cl>>

\* A peer that answers without holding the lock is systemd's.
Probe(d) ==
  /\ dm[d] = "probe"
  /\ IF dialable
       THEN dm' = [dm EXCEPT ![d] = "none"] /\ lock' = None
       ELSE dm' = [dm EXCEPT ![d] = "bind"] /\ UNCHANGED lock
  /\ UNCHANGED <<activated, path, quiet, stamp, cl>>

\* Mutant of Bind: the lock file is closed when Listener returns.
BindReleases(d) ==
  /\ dm[d] = "bind"
  /\ path' = d
  /\ dm' = [dm EXCEPT ![d] = "open"]
  /\ lock' = None
  /\ UNCHANGED <<activated, quiet, stamp, cl>>

\* Remove the dead socket, if any, and listen; the lock stays.
Bind(d) ==
  /\ dm[d] = "bind"
  /\ path' = d
  /\ dm' = [dm EXCEPT ![d] = "open"]
  /\ UNCHANGED <<activated, lock, quiet, stamp, cl>>

\* systemd starts its one service instance for a waiting connection.
Activate(d) ==
  /\ path = Systemd
  /\ activated = {}
  /\ dm[d] = "none"
  /\ \E c \in Client : cl[c] = [pc |-> "queued", on |-> Systemd]
  /\ dm' = [dm EXCEPT ![d] = "open"]
  /\ activated' = {d}
  /\ UNCHANGED <<lock, path, quiet, stamp, cl>>

\* A daemon is started by hand.
RunDaemon(d) ==
  /\ dm[d] = "none"
  /\ dm' = [dm EXCEPT ![d] = "lock"]
  /\ UNCHANGED <<activated, lock, path, quiet, stamp, cl>>

-----------------------------------------------------------------------------
(* Serve *)

OpenStore(d) ==
  /\ dm[d] = "open"
  /\ dm' = [dm EXCEPT ![d] = "serve"]
  /\ UNCHANGED <<activated, lock, path, quiet, stamp, cl>>

\* The socket whose connections d accepts.
SocketOf(d) == IF d \in activated THEN Systemd ELSE d

Accept(d, c) ==
  /\ dm[d] = "serve"
  /\ cl[c] = [pc |-> "queued", on |-> SocketOf(d)]
  /\ cl' = [cl EXCEPT ![c] = [pc |-> "accepted", on |-> d]]
  /\ quiet' = quiet \ {d}
  /\ UNCHANGED <<dm, activated, lock, path, stamp>>

\* The handler goroutine answers; it goes on while the daemon shuts down.
Handle(c) ==
  /\ cl[c].pc = "accepted"
  /\ cl' = [cl EXCEPT ![c] = At("answered")]
  /\ UNCHANGED <<dm, activated, lock, path, quiet, stamp>>

\* Ten minutes without a connection: nobody has asked for as long.
GoQuiet(d) ==
  /\ dm[d] = "serve"
  /\ \A c \in Client : cl[c].pc = "idle"
  /\ quiet' = quiet \cup {d}
  /\ UNCHANGED <<dm, activated, lock, path, stamp, cl>>

\* closeListeners unlinks the socket first; a socket handed over by systemd
\* is left alone.
Unlink(d) ==
  /\ dm[d] = "serve"
  /\ dm' = [dm EXCEPT ![d] = "closing"]
  /\ path' = IF d \in activated THEN path ELSE None
  /\ quiet' = quiet \ {d}
  /\ UNCHANGED <<activated, lock, stamp, cl>>

\* The watchdog finds the daemon idle, or a signal arrives.
IdleExit(d) == d \in quiet /\ Unlink(d)
Signal(d) == d \notin quiet /\ Unlink(d)

\* The connections of S end without an answer.
Dropped(S) == cl' = [c \in Client |-> IF c \in S THEN At("failed") ELSE cl[c]]

\* The socket closes: the kernel resets what was queued and not accepted.
CloseSocket(d) ==
  /\ dm[d] = "closing"
  /\ dm' = [dm EXCEPT ![d] = "drain"]
  /\ Dropped({c \in Client : cl[c] = [pc |-> "queued", on |-> d]})
  /\ UNCHANGED <<activated, lock, path, quiet, stamp>>

\* Mutant of Ended: the lock outlives its process.
EndedLocked(d, pc) ==
  /\ dm' = [dm EXCEPT ![d] = pc]
  /\ UNCHANGED lock
  /\ activated' = activated \ {d}
  /\ quiet' = quiet \ {d}

\* The process ends, and with it the lock.
Ended(d, pc) ==
  /\ dm' = [dm EXCEPT ![d] = pc]
  /\ lock' = IF lock = d THEN None ELSE lock
  /\ activated' = activated \ {d}
  /\ quiet' = quiet \ {d}

\* Mutant of Exit: the handlers are not waited for.
ExitAtOnce(d) ==
  /\ dm[d] = "drain"
  /\ Ended(d, "none")
  /\ Dropped({c \in Client : cl[c] = [pc |-> "accepted", on |-> d]})
  /\ UNCHANGED <<path, stamp>>

\* wg.Wait: every handler has answered; the store closes and the process ends.
Exit(d) ==
  /\ dm[d] = "drain"
  /\ \A c \in Client : cl[c] # [pc |-> "accepted", on |-> d]
  /\ Ended(d, "none")
  /\ UNCHANGED <<path, stamp, cl>>

\* The process is killed, or the store cannot be opened.  Its socket file
\* stays behind.
Crash(d) ==
  /\ dm[d] \notin {"none", "dead"}
  /\ Ended(d, "dead")
  /\ Dropped({c \in Client : cl[c].on = d})
  /\ UNCHANGED <<path, stamp>>

\* The slot of a killed daemon is free again.
Reap(d) ==
  /\ dm[d] = "dead"
  /\ dm' = [dm EXCEPT ![d] = "none"]
  /\ UNCHANGED <<activated, lock, path, quiet, stamp, cl>>

-----------------------------------------------------------------------------
(* Dial *)

\* A new request, or the next one of a session whose last one failed.
Ask(c) ==
  /\ cl[c].pc \in {"idle", "failed"}
  /\ cl' = [cl EXCEPT ![c] = At("dial")]
  /\ UNCHANGED <<dm, activated, lock, path, quiet, stamp>>

\* The first dial, and every redial while a daemon may be coming up.
Dial(c) ==
  /\ cl[c].pc = "dial" \/ (cl[c].pc = "retry" /\ dialable)
  /\ cl' = [cl EXCEPT ![c] = IF dialable THEN [pc |-> "queued", on |-> path] ELSE At("check")]
  /\ UNCHANGED <<dm, activated, lock, path, quiet, stamp>>

\* maybeSpawn: a fresh stamp means somebody has just spawned one.
SpawnCheck(c) ==
  /\ cl[c].pc = "check"
  /\ cl' = [cl EXCEPT ![c] = At(IF stamp THEN "retry" ELSE "fork")]
  /\ UNCHANGED <<dm, activated, lock, path, quiet, stamp>>

\* The daemon is forked and the stamp touched.
Fork(c, d) ==
  /\ cl[c].pc = "fork"
  /\ dm[d] = "none"
  /\ dm' = [dm EXCEPT ![d] = "lock"]
  /\ stamp' = TRUE
  /\ cl' = [cl EXCEPT ![c] = At("retry")]
  /\ UNCHANGED <<activated, lock, path, quiet>>

ForkFails(c) ==
  /\ cl[c].pc = "fork"
  /\ cl' = [cl EXCEPT ![c] = At("failed")]
  /\ UNCHANGED <<dm, activated, lock, path, quiet, stamp>>

\* The redial window ends, or the daemon that was forked has exited and a
\* last dial failed.
GiveUp(c) ==
  /\ cl[c].pc = "retry"
  /\ ~dialable
  /\ cl' = [cl EXCEPT ![c] = At("failed")]
  /\ UNCHANGED <<dm, activated, lock, path, quiet, stamp>>

Done(c) ==
  /\ cl[c].pc = "answered"
  /\ cl' = [cl EXCEPT ![c] = At("idle")]
  /\ UNCHANGED <<dm, activated, lock, path, quiet, stamp>>

CooldownEnds ==
  /\ stamp
  /\ stamp' = FALSE
  /\ UNCHANGED <<dm, activated, lock, path, quiet, cl>>

-----------------------------------------------------------------------------
Process(d) ==
  \/ TryLock(d)
  \/ Probe(d)
  \/ Bind(d)
  \/ Activate(d)
  \/ OpenStore(d)
  \/ \E c \in Client : Accept(d, c)
  \/ CloseSocket(d)
  \/ Exit(d)
  \/ Reap(d)

Session(c) ==
  \/ Dial(c)
  \/ SpawnCheck(c)
  \/ \E d \in Daemon : Fork(c, d)
  \/ GiveUp(c)
  \/ Handle(c)
  \/ cl[c].pc = "failed" /\ Ask(c)

\* What comes from outside: faults, and operators at their keyboards.
Fault ==
  \/ \E d \in Daemon : Crash(d) \/ Signal(d) \/ RunDaemon(d)
  \/ \E c \in Client : ForkFails(c)

Next ==
  \/ \E d \in Daemon : Process(d) \/ GoQuiet(d) \/ IdleExit(d)
  \/ \E c \in Client : Session(c) \/ Done(c) \/ Ask(c)
  \/ CooldownEnds
  \/ Fault

LifecycleSpec == Init /\ [][Next]_lifeVars

\* Processes run and accept their connections in turn, time passes, a session
\* that got no answer asks again, and faults are not for ever.
FairLifecycleSpec ==
  /\ LifecycleSpec
  /\ \A d \in Daemon : WF_lifeVars(Process(d)) /\ \A c \in Client : WF_lifeVars(Accept(d, c))
  /\ \A c \in Client : WF_lifeVars(Session(c))
  /\ WF_lifeVars(CooldownEnds)
  /\ <>[][~Fault]_lifeVars

-----------------------------------------------------------------------------
(* Properties *)

\* runDaemon: "binding is the single-daemon lock, so a duplicate spawn exits
\* before ever touching the store"; a successor waits even for a daemon that
\* is draining with its socket closed.
OneStore == \A d, e \in Daemon : HasStore(d) /\ HasStore(e) => d = e

\* The state is well typed, and OneStore.
LifecycleInv == LifecycleTypeOK /\ OneStore

\* sockLock: "there is no window in which a successor binds the path and this
\* process then unlinks the live socket".
LiveSocketKept ==
  [][/\ path = Systemd => path' = Systemd
     /\ \A d \in Daemon : path = d /\ Listening(d) /\ path' # d => ~Listening(d)']_lifeVars

\* A request that was accepted is answered, whatever ends the daemon, unless it
\* is killed.
AcceptedAnswered ==
  [][\A c \in Client : cl[c].pc = "accepted" /\ cl'[c].pc = "failed" => dm'[cl[c].on] = "dead"]_lifeVars

\* A session that keeps asking is answered in the end: it finds the daemon,
\* spawns one, or outlasts the shutdown, the stale socket or the cooldown that
\* is in its way.
AskerServed == \A c \in Client : (cl[c].pc = "dial") ~> (cl[c].pc = "answered")
=============================================================================
