------------------------ MODULE DaemonLifecycleProofs ------------------------
(***************************************************************************)
(* One daemon has the store open and nobody removes a live socket, for any *)
(* number of daemon processes and clients, with and without systemd.       *)
(*                                                                         *)
(* OneStore is not inductive: it holds because of the lock file, which a   *)
(* daemon started by systemd does not take.  The invariant therefore says  *)
(* who holds the lock and that a socket of systemd's keeps everybody else  *)
(* from getting past the probe.                                            *)
(***************************************************************************)
EXTENDS DaemonLifecycle, TLAPS

\* The steps between the lock and the end of the process.
Bound == {"bind", "open", "serve", "closing", "drain"}
Locking == Bound \cup {"probe"}

\* A daemon that systemd did not start holds the lock from its probe to its end.
LockHeld == \A d \in Daemon \ activated : dm[d] \in Locking => lock = d

\* systemd has one instance of its service, which is past Listener, and the
\* path is its socket.
OneActivated ==
  /\ \A d, e \in activated : d = e
  /\ \A d \in activated : dm[d] \in Bound \ {"bind"}
  /\ activated # {} => path = Systemd

\* At systemd's path nobody else gets beyond the probe.
SystemdAlone == path = Systemd => \A d \in Daemon : dm[d] \in Bound => d \in activated

\* The inductive invariant.
LifeInv == LifecycleTypeOK /\ LockHeld /\ OneActivated /\ SystemdAlone

-----------------------------------------------------------------------------
\* No daemon yet.
LEMMA LifeInvInit == Init => LifeInv
<1> SUFFICES ASSUME Init PROVE LifeInv
  OBVIOUS
<1>1. LifecycleTypeOK
  BY DEF Init, LifecycleTypeOK, DaemonPc, ClientState, ClientPc, At
<1>2. LockHeld /\ OneActivated /\ SystemdAlone
  BY DEF Init, LockHeld, OneActivated, SystemdAlone, Locking, Bound
<1> QED BY <1>1, <1>2 DEF LifeInv

\* A step that leaves the daemons, their lock and their socket alone, and
\* moves clients from one proper state to another.
ClientsMove ==
  /\ cl' \in [Client -> ClientState]
  /\ quiet' \subseteq Daemon
  /\ stamp' \in BOOLEAN
  /\ UNCHANGED <<dm, activated, lock, path>>

\* Such a step keeps the invariant.
LEMMA ClientsMoveKeeps == ASSUME LifeInv, ClientsMove PROVE LifeInv'
BY DEF LifeInv, ClientsMove, LifecycleTypeOK, LockHeld, OneActivated, SystemdAlone

\* The state of one client after a step.
LEMMA OneClientMoves ==
  ASSUME LifecycleTypeOK, NEW c \in Client, NEW s \in ClientState, cl' = [cl EXCEPT ![c] = s]
  PROVE  cl' \in [Client -> ClientState]
BY DEF LifecycleTypeOK

\* A connection that was dropped leaves its client in a proper state.
LEMMA DroppedTyped ==
  ASSUME LifecycleTypeOK, NEW S \in SUBSET Client, Dropped(S)
  PROVE  cl' \in [Client -> ClientState]
BY DEF LifecycleTypeOK, Dropped, ClientState, ClientPc, At

\* What sessions do, and what is done for them.
LEMMA SessionsKeep ==
  ASSUME LifeInv, NEW c \in Client,
         \/ Dial(c) \/ SpawnCheck(c) \/ GiveUp(c) \/ Handle(c) \/ Ask(c) \/ Done(c) \/ ForkFails(c)
  PROVE  LifeInv'
<1>0. LifecycleTypeOK
  BY DEF LifeInv
<1>1. \A pc \in {"idle", "dial", "check", "fork", "retry", "answered", "failed"} : At(pc) \in ClientState
  BY DEF At, ClientState, ClientPc
<1>2. dialable => [pc |-> "queued", on |-> path] \in ClientState
  BY <1>0 DEF dialable, ClientState, Connected, LifecycleTypeOK
<1>3. \E s \in ClientState : cl' = [cl EXCEPT ![c] = s]
  BY <1>1, <1>2 DEF Dial, SpawnCheck, GiveUp, Handle, Ask, Done, ForkFails
<1>4. cl' \in [Client -> ClientState]
  BY <1>0, <1>3, OneClientMoves
<1>5. ClientsMove
  BY <1>0, <1>4 DEF ClientsMove, LifecycleTypeOK, Dial, SpawnCheck, GiveUp, Handle, Ask, Done, ForkFails
<1> QED BY <1>5, ClientsMoveKeeps

\* A daemon on its way up.
LEMMA StartupKeeps ==
  ASSUME LifeInv, NEW d \in Daemon,
         TryLock(d) \/ Probe(d) \/ Bind(d) \/ Activate(d) \/ RunDaemon(d) \/ OpenStore(d)
  PROVE  LifeInv'
<1> USE DEF LifeInv, LifecycleTypeOK, LockHeld, OneActivated, SystemdAlone, Locking, Bound, DaemonPc
<1>1. CASE TryLock(d)
  <2>1. CASE lock = None
    BY <1>1, <2>1, LifecycleAssumption DEF TryLock
  <2>2. CASE lock # None
    BY <1>1, <2>2 DEF TryLock
  <2> QED BY <2>1, <2>2
<1>2. CASE Probe(d)
  <2>1. CASE dialable
    BY <1>2, <2>1, LifecycleAssumption DEF Probe
  <2>2. CASE ~dialable
    BY <1>2, <2>2, LifecycleAssumption DEF Probe, dialable
  <2> QED BY <2>1, <2>2
<1>3. CASE Bind(d)
  BY <1>3, LifecycleAssumption DEF Bind
<1>4. CASE Activate(d)
  BY <1>4, LifecycleAssumption DEF Activate
<1>5. CASE RunDaemon(d)
  BY <1>5, LifecycleAssumption DEF RunDaemon
<1>6. CASE OpenStore(d)
  BY <1>6, LifecycleAssumption DEF OpenStore
<1> QED BY <1>1, <1>2, <1>3, <1>4, <1>5, <1>6

\* The end of a process takes its lock, and with it all that rested on it.
LEMMA EndedKeeps ==
  ASSUME LifeInv, NEW d \in Daemon, NEW pc \in {"none", "dead"}, Ended(d, pc),
         UNCHANGED <<path, stamp>>, cl' \in [Client -> ClientState]
  PROVE  LifeInv'
BY LifecycleAssumption
   DEF LifeInv, LifecycleTypeOK, LockHeld, OneActivated, SystemdAlone, Locking, Bound, DaemonPc, Ended

\* A daemon at work and on its way down.
LEMMA ServingKeeps ==
  ASSUME LifeInv, NEW d \in Daemon,
         \/ \E c \in Client : Accept(d, c)
         \/ GoQuiet(d) \/ Unlink(d) \/ CloseSocket(d) \/ Exit(d) \/ Crash(d) \/ Reap(d)
  PROVE  LifeInv'
<1>0. LifecycleTypeOK
  BY DEF LifeInv
<1>1. ASSUME NEW c \in Client, Accept(d, c)
      PROVE  LifeInv'
  <2>1. [pc |-> "accepted", on |-> d] \in ClientState
    BY DEF ClientState, Connected
  <2>2. cl' \in [Client -> ClientState]
    BY <1>0, <1>1, <2>1, OneClientMoves DEF Accept
  <2> QED BY <1>0, <1>1, <2>2, ClientsMoveKeeps DEF ClientsMove, LifecycleTypeOK, Accept
<1>2. CASE GoQuiet(d)
  BY <1>0, <1>2, ClientsMoveKeeps DEF ClientsMove, LifecycleTypeOK, GoQuiet
<1>3. CASE Unlink(d)
  BY <1>3, LifecycleAssumption DEF Unlink, LifeInv, LifecycleTypeOK, LockHeld, OneActivated,
     SystemdAlone, Locking, Bound, DaemonPc
<1>4. CASE CloseSocket(d)
  <2>1. cl' \in [Client -> ClientState]
    BY <1>0, <1>4, DroppedTyped DEF CloseSocket
  <2> QED
    BY <1>4, <2>1, LifecycleAssumption DEF CloseSocket, LifeInv, LifecycleTypeOK, LockHeld,
       OneActivated, SystemdAlone, Locking, Bound, DaemonPc
<1>5. CASE Exit(d)
  BY <1>0, <1>5, EndedKeeps DEF Exit, LifecycleTypeOK
<1>6. CASE Crash(d)
  <2>1. cl' \in [Client -> ClientState]
    BY <1>0, <1>6, DroppedTyped DEF Crash
  <2> QED BY <1>6, <2>1, EndedKeeps DEF Crash
<1>7. CASE Reap(d)
  BY <1>7, LifecycleAssumption DEF Reap, LifeInv, LifecycleTypeOK, LockHeld, OneActivated,
     SystemdAlone, Locking, Bound, DaemonPc
<1> QED BY <1>1, <1>2, <1>3, <1>4, <1>5, <1>6, <1>7

\* A client that forks a daemon.
LEMMA ForkKeeps ==
  ASSUME LifeInv, NEW c \in Client, NEW d \in Daemon, Fork(c, d)
  PROVE  LifeInv'
<1>1. At("retry") \in ClientState
  BY DEF At, ClientState, ClientPc
<1>2. cl' \in [Client -> ClientState]
  BY <1>1, OneClientMoves DEF Fork, LifeInv
<1> QED
  BY <1>2, LifecycleAssumption DEF Fork, LifeInv, LifecycleTypeOK, LockHeld, OneActivated,
     SystemdAlone, Locking, Bound, DaemonPc

\* Every step keeps the invariant.
LEMMA LifeInvStep == LifeInv /\ [Next]_lifeVars => LifeInv'
<1> SUFFICES ASSUME LifeInv, [Next]_lifeVars PROVE LifeInv'
  OBVIOUS
<1>1. CASE UNCHANGED lifeVars
  BY <1>1 DEF lifeVars, LifeInv, LifecycleTypeOK, LockHeld, OneActivated, SystemdAlone
<1>2. ASSUME NEW d \in Daemon, Process(d) \/ GoQuiet(d) \/ IdleExit(d)
      PROVE  LifeInv'
  BY <1>2, StartupKeeps, ServingKeeps DEF Process, IdleExit
<1>3. ASSUME NEW c \in Client, Session(c) \/ Done(c) \/ Ask(c)
      PROVE  LifeInv'
  BY <1>3, SessionsKeep, ForkKeeps DEF Session
<1>4. CASE CooldownEnds
  BY <1>4, ClientsMoveKeeps DEF CooldownEnds, ClientsMove, LifeInv, LifecycleTypeOK
<1>5. CASE Fault
  BY <1>5, StartupKeeps, ServingKeeps, SessionsKeep DEF Fault, Signal
<1> QED BY <1>1, <1>2, <1>3, <1>4, <1>5 DEF Next

\* The inductive invariant holds in every reachable state.
LEMMA Lifecycle == LifecycleSpec => []LifeInv
<1> QED BY LifeInvInit, LifeInvStep, PTL DEF LifecycleSpec

-----------------------------------------------------------------------------
(* The theorems *)

\* Listener and Serve: whatever is spawned, killed, signalled or activated,
\* and however many clients do so at once, two daemons never have the store
\* open together.
THEOREM SingleDaemon == LifecycleSpec => []LifecycleInv
<1>1. LifeInv => LifecycleInv
  BY DEF LifeInv, LifecycleInv, OneStore, HasStore, LockHeld, OneActivated, SystemdAlone,
     Locking, Bound, LifecycleTypeOK
<1> QED BY <1>1, Lifecycle, PTL

\* Listener and closeListeners: a socket that accepts connections is removed by
\* nobody but the daemon that stops listening on it, and systemd's by nobody.
THEOREM SocketSafe == LifecycleSpec => LiveSocketKept
<1> DEFINE Kept ==
      /\ path = Systemd => path' = Systemd
      /\ \A d \in Daemon : path = d /\ Listening(d) /\ path' # d => ~Listening(d)'
<1>1. ASSUME LifeInv, NEW e \in Daemon, Bind(e) \/ Unlink(e)
      PROVE  Kept
  BY <1>1, LifecycleAssumption DEF Bind, Unlink, Listening, LifeInv, LifecycleTypeOK, LockHeld,
     OneActivated, SystemdAlone, Locking, Bound
<1>2. ASSUME UNCHANGED path PROVE Kept
  BY <1>2
<1>3. Next => UNCHANGED path \/ \E e \in Daemon : Bind(e) \/ Unlink(e)
  BY DEF Next, Process, Session, Fault, IdleExit, Signal, TryLock, Probe, Activate, RunDaemon,
     OpenStore, Accept, Handle, GoQuiet, CloseSocket, Exit, Crash, Reap, Ask, Dial, SpawnCheck,
     Fork, ForkFails, GiveUp, Done, CooldownEnds
<1>4. LifeInv /\ [Next]_lifeVars => [Kept]_lifeVars
  BY <1>1, <1>2, <1>3 DEF lifeVars
<1> QED BY <1>4, Lifecycle, PTL DEF LifecycleSpec, LiveSocketKept

\* Serve's teardown: a request that was accepted fails only because its daemon
\* was killed; idle exits and signals wait for it.
THEOREM NoRequestDropped == LifecycleSpec => AcceptedAnswered
<1> DEFINE Answered ==
      \A c \in Client : cl[c].pc = "accepted" /\ cl'[c].pc = "failed" => dm'[cl[c].on] = "dead"
<1>1. ASSUME LifeInv, Next PROVE Answered
  <2>0. LifecycleTypeOK
    BY <1>1 DEF LifeInv
  <2>1. CASE UNCHANGED cl
    BY <2>1 DEF Answered
  <2>2. ASSUME NEW b \in Client,
               \/ Dial(b) \/ SpawnCheck(b) \/ GiveUp(b) \/ Handle(b) \/ Ask(b) \/ Done(b)
               \/ ForkFails(b) \/ \E d \in Daemon : Fork(b, d) \/ Accept(d, b)
        PROVE  Answered
    BY <2>0, <2>2 DEF LifecycleTypeOK, Dial, SpawnCheck, GiveUp, Handle, Ask, Done, ForkFails,
       Fork, Accept, At
  <2>3. ASSUME NEW d \in Daemon, CloseSocket(d) PROVE Answered
    BY <2>0, <2>3 DEF CloseSocket, Dropped, LifecycleTypeOK
  <2>4. ASSUME NEW d \in Daemon, Crash(d) PROVE Answered
    BY <2>0, <2>4 DEF Crash, Ended, Dropped, LifecycleTypeOK
  <2> QED
    BY <1>1, <2>1, <2>2, <2>3, <2>4
    DEF Next, Process, Session, Fault, IdleExit, Signal, Unlink, TryLock, Probe, Bind, Activate,
       RunDaemon, OpenStore, GoQuiet, Exit, Reap, CooldownEnds
<1>2. LifeInv /\ [Next]_lifeVars => [Answered]_lifeVars
  BY <1>1
<1> QED BY <1>2, Lifecycle, PTL DEF LifecycleSpec, AcceptedAnswered
=============================================================================
