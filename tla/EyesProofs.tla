----------------------------- MODULE EyesProofs -----------------------------
(***************************************************************************)
(* Proofs about the host-eyes bridge: first the ledger by itself           *)
(* (EyesLedger), then the ledger with a broker (EyesBridge).               *)
(*                                                                         *)
(* The ledger, for every number of tasks, brokers, requesters and host     *)
(* scopes and every choice of the time constants that satisfies            *)
(* TimesAssumption.  HeldTaskHasLauncher is not inductive by itself: a     *)
(* purge removes a launcher for being silent, so the proof has to know how *)
(* silent the launcher of a held task can be (HeldTaskBounds) and how old  *)
(* a held task can be once the purges begin (PurgesAfterSweep).            *)
(*                                                                         *)
(* The bridge, for any number of tasks and restarts, with a relay that     *)
(* loses answers and a clock that passes the deadlines: a brief runs at    *)
(* most once, a tombstone means a settled task, a running provider keeps   *)
(* its broker reserved, and broker and ledger together implement           *)
(* EyesService.  The inductive invariant says which goroutine may be busy  *)
(* with a task in which state of its journal record: the journal is the    *)
(* only thing that survives a crash, so everything the broker must not do  *)
(* twice is tied to a record it can only have had once.                    *)
(***************************************************************************)
EXTENDS EyesBridge, SequenceTheorems, TLAPS

-----------------------------------------------------------------------------
(* The ledger *)

\* What bounds the age of a held task and the silence of its launcher.
HeldTaskBounds ==
  \A t \in Task : HoldsBroker(t) =>
    /\ task[t].launcher \in Launcher
    /\ agents[task[t].launcher].seen + LauncherWindow >= task[t].created
    /\ task[t].deadline <= DeadlineMax
    /\ task[t].created <= now
    /\ task[t].created <= task[t].updated

\* The snapshot of a running sweep was taken in the past.
SnapshotInPast == hk.at <= now

\* The inductive invariant.
LedgerInv ==
  /\ TypeOK
  /\ BrokerExclusive
  /\ HeldTaskHasLauncher
  /\ HeldTaskBounds
  /\ SnapshotInPast
  /\ PurgesAfterSweep

Target == {"accepted", "done", "failed", "cancelled"}

\* A step of this kind leaves every launcher row where it is and as fresh.
PresenceKept ==
  /\ agents' \in [Agent -> Row]
  /\ \A l \in Launcher : agents[l].here =>
       /\ agents'[l].here
       /\ agents'[l].scope = agents[l].scope
       /\ agents'[l].seen \in {agents[l].seen, now}

\* A step of this kind lets go of brokers at most, and rewrites nothing of a
\* task row but its state, its acknowledgement and its age.
OnlyLetsGo ==
  /\ task' \in [Task -> TaskRow]
  /\ mail' \in [Task -> Seq(Mail)]
  /\ \A u \in Task :
       /\ HoldsBroker(u)' => HoldsBroker(u)
       /\ task'[u].launcher = task[u].launcher
       /\ task'[u].lscope = task[u].lscope
       /\ task'[u].deadline = task[u].deadline
       /\ task'[u].created = task[u].created
       /\ task'[u].updated \in {task[u].updated, now}
       /\ task'[u].state = "purged" => task[u].state = "purged"

-----------------------------------------------------------------------------
(* Lemmas about the operators *)

\* eyesDeadline clamps every request into 1..DeadlineMax.
LEMMA DeadlineClamped ==
  ASSUME NEW d \in DeadlineAsk
  PROVE  eyesDeadline(d) \in Nat /\ eyesDeadline(d) <= DeadlineMax
BY TimesAssumption DEF eyesDeadline

\* A role leaves only live states, so a settled task has no edge out.
LEMMA EdgesLeaveLive ==
  ASSUME NEW to, NEW role
  PROVE  eyesEdges(to, role) \subseteq Live
BY DEF eyesEdges, Live

\* What moveEyesTask may do to the row it is asked to move.
LEMMA OutcomeCases ==
  ASSUME NEW t \in Task, NEW role, NEW to
  PROVE  /\ MoveOutcome(t, role, to) = "moved" => task[t].state \in Live
         /\ MoveOutcome(t, role, to) = "acked" => task[t].state = "cancelled"
BY EdgesLeaveLive DEF MoveOutcome

\* The one write path of the ledger only ever lets go of a broker, and it
\* rewrites nothing of a row but its state, its acknowledgement and its age.
LEMMA MoveLetsGo ==
  ASSUME TypeOK, NEW t \in Task, NEW role, NEW to \in Target,
         moveEyesTask(t, role, to)
  PROVE  OnlyLetsGo
<1> DEFINE out == MoveOutcome(t, role, to)
<1>1. /\ task \in [Task -> TaskRow]
      /\ mail \in [Task -> Seq(Mail)]
      /\ now \in Nat
  BY DEF TypeOK
<1>2. MailOf(to) \in Mail
  BY DEF MailOf, Mail, Target
<1>3. mail' \in [Task -> Seq(Mail)]
  <2>1. mail[t] \in Seq(Mail)
    BY <1>1
  <2>2. Append(mail[t], MailOf(to)) \in Seq(Mail)
    BY <2>1, <1>2
  <2>3. mail' = mail \/ mail' = [mail EXCEPT ![t] = Append(@, MailOf(to))]
    BY DEF moveEyesTask
  <2> QED
    BY <1>1, <2>2, <2>3
<1>4. \/ /\ out = "moved"
         /\ task' = [task EXCEPT ![t].state = to, ![t].updated = now]
      \/ /\ out = "acked"
         /\ task' = [task EXCEPT ![t].acked = TRUE]
      \/ task' = task
  BY DEF moveEyesTask
<1>5. CASE /\ out = "moved"
           /\ task' = [task EXCEPT ![t].state = to, ![t].updated = now]
  <2>1. task[t].state \in Live
    BY <1>5, OutcomeCases
  <2> DEFINE new == [task[t] EXCEPT !.state = to, !.updated = now]
  <2>2. task[t] \in TaskRow
    BY <1>1
  <2>3. /\ new \in TaskRow /\ new.state = to /\ new.updated = now /\ to # "purged"
        /\ new.launcher = task[t].launcher /\ new.lscope = task[t].lscope
        /\ new.deadline = task[t].deadline /\ new.created = task[t].created
    BY <1>1, <2>2 DEF TaskRow, TaskState, Live, Target
  <2>4. task' = [task EXCEPT ![t] = new]
    BY <1>5
  <2> HIDE DEF new
  <2>5. /\ task' \in [Task -> TaskRow] /\ task'[t] = new
        /\ \A u \in Task \ {t} : task'[u] = task[u]
    BY <1>1, <2>3, <2>4
  <2>6. HoldsBroker(t) /\ \A u \in Task \ {t} : HoldsBroker(u)' => HoldsBroker(u)
    BY <2>1, <2>5 DEF HoldsBroker
  <2> QED
    BY <1>3, <2>3, <2>5, <2>6 DEF OnlyLetsGo
<1>6. CASE /\ out = "acked"
           /\ task' = [task EXCEPT ![t].acked = TRUE]
  <2>1. task[t].state = "cancelled"
    BY <1>6, OutcomeCases
  <2> QED
    BY <1>1, <1>3, <1>6, <2>1 DEF OnlyLetsGo, HoldsBroker, TaskRow, TaskState, Live, Target
<1>7. CASE task' = task
  BY <1>1, <1>3, <1>7 DEF OnlyLetsGo, HoldsBroker
<1> QED
  BY <1>4, <1>5, <1>6, <1>7

\* The sweep settles every task it is asked to settle: an expiry is never
\* refused while the task holds its broker, requester present or not.
LEMMA SweepSettles ==
  ASSUME TypeOK, NEW t \in Task, moveEyesTask(t, "system", "failed")
  PROVE  ~HoldsBroker(t)'
<1>1. task \in [Task -> TaskRow]
  BY DEF TypeOK
<1>2. eyesEdges("failed", "system") = Live
  BY DEF eyesEdges
<1>3. MailResolves(t, "system") /\ acksCancel(t, "system", "failed")
  BY DEF MailResolves, acksCancel
<1>4. CASE task[t].state \in Live
  <2>1. MoveOutcome(t, "system", "failed") = "moved"
    BY <1>2, <1>3, <1>4 DEF MoveOutcome, Live
  <2> QED
    BY <1>1, <2>1 DEF moveEyesTask, HoldsBroker, Live
<1>5. CASE task[t].state = "cancelled" /\ ~task[t].acked
  <2>1. MoveOutcome(t, "system", "failed") = "acked"
    BY <1>2, <1>3, <1>5 DEF MoveOutcome, Live
  <2> QED
    BY <1>1, <1>5, <2>1 DEF moveEyesTask, HoldsBroker, Live, TaskRow
<1>6. CASE ~HoldsBroker(t)
  BY <1>6, MoveLetsGo DEF Target, OnlyLetsGo
<1> QED
  BY <1>4, <1>5, <1>6 DEF HoldsBroker

\* Touch keeps every launcher row.
LEMMA TouchKeeps ==
  ASSUME TypeOK, NEW s, agents' = Touch(s)
  PROVE  PresenceKept
<1>1. agents \in [Agent -> Row] /\ now \in Nat
  BY DEF TypeOK
<1>2. Launcher \subseteq Agent
  BY DEF Agent
<1> QED
  BY <1>1, <1>2 DEF Touch, PresenceKept, Row

\* Requests that report, cancel or merely show that somebody is there.
LEMMA QuietStep ==
  ASSUME LedgerInv, PresenceKept, OnlyLetsGo, UNCHANGED <<now, hk>>
  PROVE  LedgerInv'
<1>1. TypeOK /\ TypeOK'
  BY DEF LedgerInv, TypeOK, PresenceKept, OnlyLetsGo
<1>2. BrokerExclusive'
  BY <1>1 DEF LedgerInv, BrokerExclusive, OnlyLetsGo
<1>3. /\ task \in [Task -> TaskRow] /\ task' \in [Task -> TaskRow]
      /\ agents \in [Agent -> Row] /\ agents' \in [Agent -> Row]
      /\ now \in Nat /\ now' = now
      /\ Launcher \subseteq Agent
  BY <1>1 DEF TypeOK, Agent
<1>4. HeldTaskHasLauncher' /\ HeldTaskBounds'
  <2> SUFFICES ASSUME NEW t \in Task, HoldsBroker(t)'
               PROVE  /\ LauncherHere(t)'
                      /\ task'[t].launcher \in Launcher
                      /\ agents'[task'[t].launcher].seen + LauncherWindow >= task'[t].created
                      /\ task'[t].deadline <= DeadlineMax
                      /\ task'[t].created <= now'
                      /\ task'[t].created <= task'[t].updated
    BY DEF HeldTaskHasLauncher, HeldTaskBounds
  <2>1. /\ LauncherHere(t)
        /\ task[t].launcher \in Launcher
        /\ agents[task[t].launcher].seen + LauncherWindow >= task[t].created
        /\ task[t].deadline <= DeadlineMax
        /\ task[t].created <= now
        /\ task[t].created <= task[t].updated
    BY DEF OnlyLetsGo, LedgerInv, HeldTaskHasLauncher, HeldTaskBounds
  <2>2. /\ task[t].launcher \in Agent
        /\ agents[task[t].launcher].seen \in Nat
        /\ task[t].created \in Nat
    BY <1>3, <2>1 DEF Row, TaskRow
  <2>3. /\ agents'[task[t].launcher].here
        /\ agents'[task[t].launcher].scope = agents[task[t].launcher].scope
        /\ agents'[task[t].launcher].seen \in {agents[task[t].launcher].seen, now}
    BY <2>1 DEF PresenceKept, LauncherHere
  <2>4. /\ task'[t].launcher = task[t].launcher
        /\ task'[t].lscope = task[t].lscope
        /\ task'[t].deadline = task[t].deadline
        /\ task'[t].created = task[t].created
        /\ task'[t].updated \in {task[t].updated, now}
    BY DEF OnlyLetsGo
  <2>5. LauncherHere(t)'
    BY <2>1, <2>3, <2>4 DEF LauncherHere
  <2>6. agents'[task[t].launcher].seen + LauncherWindow >= task[t].created
    BY <1>3, <2>1, <2>2, <2>3, TimesAssumption
  <2>7. task[t].created <= task'[t].updated
    BY <2>1, <2>4
  <2> QED
    BY <1>3, <2>1, <2>4, <2>5, <2>6, <2>7
<1>5. SnapshotInPast' /\ PurgesAfterSweep'
  BY DEF LedgerInv, SnapshotInPast, PurgesAfterSweep, OnlyLetsGo, Expired
<1> QED
  BY <1>1, <1>2, <1>4, <1>5 DEF LedgerInv

\* A step that leaves the ledger alone trivially only lets go.
LEMMA NothingMoves ==
  ASSUME TypeOK, UNCHANGED <<task, mail>>
  PROVE  OnlyLetsGo
BY DEF TypeOK, OnlyLetsGo, HoldsBroker

-----------------------------------------------------------------------------
(* The steps that are not quiet *)

\* A request takes a broker that no task holds and that polled just now.
LEMMA RequestStep ==
  ASSUME LedgerInv,
         NEW r \in Requester, NEW via, NEW rt, NEW d \in DeadlineAsk, NEW t \in Task,
         RequestEyes(r, via, rt, d, t)
  PROVE  LedgerInv'
<1>1. PICK l \in pickLauncher(rt) : AssignEyesTask(r, t, l, d)
  BY DEF RequestEyes
<1>2. /\ l \in Launcher /\ l \in Agent
      /\ agents[l].here
      /\ agents[l].seen >= now - LauncherWindow
      /\ ~Busy(l)
  BY DEF pickLauncher, Polling, Agent
<1>3. /\ TypeOK
      /\ task \in [Task -> TaskRow] /\ agents \in [Agent -> Row]
      /\ mail \in [Task -> Seq(Mail)] /\ now \in Nat /\ hk \in Hk
  BY DEF LedgerInv, TypeOK
<1>4. now' = now /\ hk' = hk /\ PresenceKept
  BY <1>3, TouchKeeps DEF RequestEyes
<1>5. agents[l].scope \in HostScope \cup {NoScope} /\ agents[l].seen \in Nat
  BY <1>2, <1>3 DEF Row
<1>6. eyesDeadline(d) \in Nat /\ eyesDeadline(d) <= DeadlineMax
  BY DeadlineClamped
<1> DEFINE row == [state |-> "queued", launcher |-> l, lscope |-> agents[l].scope,
                   requester |-> r, deadline |-> eyesDeadline(d), acked |-> FALSE,
                   created |-> now, updated |-> now]
<1>7. task[t].state = "none" /\ task' = [task EXCEPT ![t] = row]
  BY <1>1 DEF AssignEyesTask
<1>8. row \in TaskRow
  BY <1>2, <1>3, <1>5, <1>6 DEF TaskRow, TaskState, Live
<1>9. task' \in [Task -> TaskRow]
  BY <1>3, <1>7, <1>8
<1>10. mail' \in [Task -> Seq(Mail)]
  <2>1. mail[t] \in Seq(Mail) /\ "launch" \in Mail
    BY <1>3 DEF Mail
  <2>2. Append(mail[t], "launch") \in Seq(Mail)
    BY <2>1
  <2>3. mail' = [mail EXCEPT ![t] = Append(@, "launch")]
    BY <1>1 DEF AssignEyesTask
  <2> QED
    BY <1>3, <2>2, <2>3
<1>11. TypeOK'
  BY <1>3, <1>4, <1>9, <1>10 DEF TypeOK, PresenceKept
<1>12. task'[t] = row /\ \A u \in Task \ {t} : task'[u] = task[u]
  BY <1>3, <1>7
<1>13. HoldsBroker(t)' /\ \A u \in Task \ {t} : HoldsBroker(u)' <=> HoldsBroker(u)
  BY <1>12 DEF HoldsBroker, Live
<1>14. BrokerExclusive'
  BY <1>2, <1>12, <1>13 DEF LedgerInv, BrokerExclusive, Busy
<1>15. /\ agents'[l].here
       /\ agents'[l].scope = agents[l].scope
       /\ agents'[l].seen + LauncherWindow >= now
  <2>1. agents'[l].seen \in {agents[l].seen, now}
    BY <1>2, <1>4 DEF PresenceKept
  <2>2. agents'[l].seen + LauncherWindow >= now
    BY <1>2, <1>3, <1>5, <2>1, TimesAssumption
  <2> QED
    BY <1>2, <1>4, <2>2 DEF PresenceKept
<1>16. ASSUME NEW u \in Task \ {t}, HoldsBroker(u)
       PROVE  /\ LauncherHere(u)'
              /\ task'[u].launcher \in Launcher
              /\ agents'[task'[u].launcher].seen + LauncherWindow >= task'[u].created
              /\ task'[u].deadline <= DeadlineMax
              /\ task'[u].created <= now'
              /\ task'[u].created <= task'[u].updated
  <2>1. /\ LauncherHere(u)
        /\ task[u].launcher \in Launcher
        /\ agents[task[u].launcher].seen + LauncherWindow >= task[u].created
        /\ task[u].deadline <= DeadlineMax
        /\ task[u].created <= now
        /\ task[u].created <= task[u].updated
    BY <1>16 DEF LedgerInv, HeldTaskHasLauncher, HeldTaskBounds
  <2>2. task'[u] = task[u]
    BY <1>12
  <2>3. task[u].created \in Nat /\ agents[task[u].launcher].seen \in Nat
    BY <1>3, <2>1 DEF TaskRow, Row, Agent
  <2>4. /\ agents'[task[u].launcher].here
        /\ agents'[task[u].launcher].scope = agents[task[u].launcher].scope
        /\ agents'[task[u].launcher].seen \in {agents[task[u].launcher].seen, now}
    BY <1>4, <2>1 DEF PresenceKept, LauncherHere
  <2>5. LauncherHere(u)'
    BY <2>1, <2>2, <2>4 DEF LauncherHere
  <2>6. agents'[task[u].launcher].seen + LauncherWindow >= task[u].created
    BY <1>3, <2>1, <2>3, <2>4, TimesAssumption
  <2> QED
    BY <1>4, <2>1, <2>2, <2>5, <2>6
<1>17. LauncherHere(t)'
  BY <1>2, <1>12, <1>15 DEF LauncherHere
<1>18. HeldTaskHasLauncher'
  BY <1>13, <1>16, <1>17 DEF HeldTaskHasLauncher
<1>19. /\ task'[t].launcher \in Launcher
       /\ agents'[task'[t].launcher].seen + LauncherWindow >= task'[t].created
       /\ task'[t].deadline <= DeadlineMax
       /\ task'[t].created <= now'
       /\ task'[t].created <= task'[t].updated
  BY <1>2, <1>3, <1>4, <1>6, <1>12, <1>15
<1>20. HeldTaskBounds'
  BY <1>13, <1>16, <1>19 DEF HeldTaskBounds
<1>21. ~Expired(t, hk.at)' /\ \A u \in Task \ {t} : Expired(u, hk.at)' <=> Expired(u, hk.at)
  <2>1. hk.at \in Nat /\ hk.at <= now
    BY <1>3 DEF LedgerInv, SnapshotInPast, Hk
  <2>2. ~(now + eyesDeadline(d) < hk.at)
    BY <1>3, <1>6, <2>1
  <2> QED
    BY <1>4, <1>12, <1>13, <2>2 DEF Expired
<1>22. SnapshotInPast' /\ PurgesAfterSweep'
  BY <1>4, <1>21 DEF LedgerInv, SnapshotInPast, PurgesAfterSweep
<1> QED
  BY <1>11, <1>14, <1>18, <1>20, <1>22 DEF LedgerInv

\* The watchdog's own steps, the purges among them.
LEMMA SweepTaskStep ==
  ASSUME LedgerInv, NEW t \in Task, SweepTask(t)
  PROVE  LedgerInv'
<1>1. TypeOK /\ hk \in Hk /\ hk.pc = "sweep"
  BY DEF LedgerInv, TypeOK, SweepTask
<1>2. OnlyLetsGo /\ ~HoldsBroker(t)'
  BY <1>1, MoveLetsGo, SweepSettles DEF SweepTask, Target
<1>3. PresenceKept
  BY <1>1 DEF SweepTask, PresenceKept, TypeOK
<1>4. /\ hk' \in Hk /\ hk'.pc = "sweep" /\ hk'.at = hk.at
      /\ hk'.todo = hk.todo \ {t} /\ now' = now
  BY <1>1 DEF SweepTask, Hk
<1>5. TypeOK'
  BY <1>1, <1>2, <1>3, <1>4 DEF TypeOK, OnlyLetsGo, PresenceKept
<1>6. BrokerExclusive'
  BY <1>2 DEF LedgerInv, BrokerExclusive, OnlyLetsGo
<1>7. agents' = agents
  BY DEF SweepTask
<1>8. HeldTaskHasLauncher'
  BY <1>2, <1>7 DEF LedgerInv, HeldTaskHasLauncher, OnlyLetsGo, LauncherHere
<1>9. HeldTaskBounds'
  BY <1>2, <1>4, <1>7 DEF LedgerInv, HeldTaskBounds, OnlyLetsGo
<1>10. SnapshotInPast'
  BY <1>4 DEF LedgerInv, SnapshotInPast
<1>11. PurgesAfterSweep'
  <2> SUFFICES ASSUME NEW u \in Task, Expired(u, hk.at)' PROVE u \in hk'.todo
    BY <1>4 DEF PurgesAfterSweep
  <2>1. u # t /\ HoldsBroker(u)
    BY <1>2 DEF Expired, OnlyLetsGo
  <2>2. Expired(u, hk.at)
    BY <1>2, <1>4, <2>1 DEF Expired, OnlyLetsGo
  <2> QED
    BY <1>1, <1>4, <2>1, <2>2 DEF LedgerInv, PurgesAfterSweep
<1> QED
  BY <1>5, <1>6, <1>8, <1>9, <1>10, <1>11 DEF LedgerInv

\* A launcher silent for two hours holds no task once the sweep is over.
LEMMA PurgeAgentsStep ==
  ASSUME LedgerInv, PurgeAgents
  PROVE  LedgerInv'
<1>1. /\ TypeOK /\ task \in [Task -> TaskRow] /\ agents \in [Agent -> Row]
      /\ now \in Nat /\ hk \in Hk /\ hk.at \in Nat
  BY DEF LedgerInv, TypeOK, Hk
<1>2. /\ hk.pc = "agents" /\ hk' \in Hk /\ hk'.pc = "tasks" /\ hk'.at = hk.at
      /\ now' = now /\ task' = task /\ mail' = mail
  BY <1>1 DEF PurgeAgents, Hk, HkPc
<1>3. NoRow \in Row
  BY DEF NoRow, Row
<1>4. agents' \in [Agent -> Row]
  BY <1>1, <1>3 DEF PurgeAgents
<1>5. TypeOK'
  BY <1>1, <1>2, <1>4 DEF TypeOK
<1>6. ASSUME NEW t \in Task, HoldsBroker(t)
      PROVE  /\ task[t].launcher \in Agent
             /\ agents'[task[t].launcher] = agents[task[t].launcher]
  <2>1. /\ task[t].launcher \in Launcher
        /\ agents[task[t].launcher].seen + LauncherWindow >= task[t].created
        /\ task[t].deadline <= DeadlineMax
    BY <1>6 DEF LedgerInv, HeldTaskBounds
  <2>2. ~Expired(t, hk.at)
    BY <1>2 DEF LedgerInv, PurgesAfterSweep
  <2>3. ~(task[t].created + task[t].deadline < hk.at)
    BY <1>6, <2>2 DEF Expired
  <2>4. task[t].launcher \in Agent
    BY <2>1 DEF Agent
  <2>5. /\ task[t].created \in Nat /\ task[t].deadline \in Nat
        /\ agents[task[t].launcher].seen \in Nat
    BY <1>1, <2>4 DEF TaskRow, Row
  <2>6. ~(agents[task[t].launcher].seen < hk.at - AgentTTL)
    BY <1>1, <2>1, <2>3, <2>5, TimesAssumption
  <2> QED
    BY <2>4, <2>6 DEF PurgeAgents
<1>7. \A t \in Task : HoldsBroker(t)' <=> HoldsBroker(t)
  BY <1>2 DEF HoldsBroker
<1>8. BrokerExclusive'
  BY <1>2, <1>7 DEF LedgerInv, BrokerExclusive
<1>9. HeldTaskHasLauncher'
  BY <1>2, <1>6, <1>7 DEF LedgerInv, HeldTaskHasLauncher, LauncherHere
<1>10. HeldTaskBounds'
  BY <1>2, <1>6, <1>7 DEF LedgerInv, HeldTaskBounds
<1>11. SnapshotInPast' /\ PurgesAfterSweep'
  BY <1>2, <1>7 DEF LedgerInv, SnapshotInPast, PurgesAfterSweep, Expired
<1> QED
  BY <1>5, <1>8, <1>9, <1>10, <1>11 DEF LedgerInv

\* A task untouched for a day no longer holds a broker.
LEMMA PurgedTaskSettled ==
  ASSUME LedgerInv, PurgeTasks, NEW t \in Task, HoldsBroker(t)
  PROVE  task'[t] = task[t]
<1>1. /\ task \in [Task -> TaskRow] /\ hk.at \in Nat /\ hk.pc = "tasks"
  BY DEF LedgerInv, TypeOK, Hk, PurgeTasks
<1>2. /\ task[t].deadline <= DeadlineMax
      /\ task[t].created <= task[t].updated
  BY DEF LedgerInv, HeldTaskBounds
<1>3. ~(task[t].created + task[t].deadline < hk.at)
  BY <1>1 DEF LedgerInv, PurgesAfterSweep, Expired
<1>4. /\ task[t].created \in Nat /\ task[t].deadline \in Nat /\ task[t].updated \in Nat
  BY <1>1 DEF TaskRow
<1>5. ~(task[t].updated < hk.at - Retention)
  BY <1>1, <1>2, <1>3, <1>4, TimesAssumption
<1> QED
  BY <1>5 DEF PurgeTasks

\* PurgeTasks keeps the invariant.
LEMMA PurgeTasksStep ==
  ASSUME LedgerInv, PurgeTasks
  PROVE  LedgerInv'
<1>1. /\ TypeOK /\ task \in [Task -> TaskRow] /\ now \in Nat
  BY DEF LedgerInv, TypeOK
<1>2. /\ hk' = IdleHk /\ now' = now /\ agents' = agents /\ mail' = mail
  BY DEF PurgeTasks
<1>3. NoTask("purged") \in TaskRow
  BY DEF NoTask, TaskRow, TaskState
<1>4. task' \in [Task -> TaskRow]
  BY <1>1, <1>3 DEF PurgeTasks
<1>5. TypeOK'
  BY <1>1, <1>2, <1>4 DEF TypeOK, IdleHk, Hk, HkPc
<1>6. \A t \in Task : HoldsBroker(t)' => HoldsBroker(t) /\ task'[t] = task[t]
  <2> SUFFICES ASSUME NEW t \in Task, HoldsBroker(t)'
               PROVE  HoldsBroker(t) /\ task'[t] = task[t]
    OBVIOUS
  <2>1. task'[t] # NoTask("purged")
    BY DEF HoldsBroker, NoTask, Live
  <2>2. task'[t] = task[t]
    BY <2>1 DEF PurgeTasks
  <2> QED
    BY <2>2 DEF HoldsBroker
<1>7. BrokerExclusive' /\ HeldTaskHasLauncher' /\ HeldTaskBounds'
  BY <1>2, <1>6 DEF LedgerInv, BrokerExclusive, HeldTaskHasLauncher, HeldTaskBounds, LauncherHere
<1>8. SnapshotInPast' /\ PurgesAfterSweep'
  BY <1>1, <1>2 DEF SnapshotInPast, PurgesAfterSweep, IdleHk
<1> QED
  BY <1>5, <1>7, <1>8 DEF LedgerInv

\* The steps of the watchdog and of the clock that change neither table.
LEMMA WatchdogControlStep ==
  ASSUME LedgerInv, UNCHANGED <<agents, task, mail>>,
         \/ \E full \in BOOLEAN : StartSweep(full)
         \/ EndSweep
         \/ DaemonCrash
         \/ Tick
  PROVE  LedgerInv'
<1>1. /\ TypeOK /\ now \in Nat /\ hk \in Hk /\ hk.at \in Nat
      /\ task \in [Task -> TaskRow]
  BY DEF LedgerInv, TypeOK, Hk
<1>2. \A t \in Task : HoldsBroker(t)' <=> HoldsBroker(t)
  BY DEF HoldsBroker
<1>3. /\ now' \in Nat /\ now' >= now /\ hk' \in Hk
      /\ hk'.at <= now'
  <2>1. CASE \E full \in BOOLEAN : StartSweep(full)
    BY <1>1, <2>1 DEF StartSweep, Hk, HkPc
  <2>2. CASE EndSweep
    BY <1>1, <2>2 DEF EndSweep, Hk, HkPc, IdleHk, LedgerInv, SnapshotInPast
  <2>3. CASE DaemonCrash
    BY <1>1, <2>3 DEF DaemonCrash, Hk, HkPc, IdleHk
  <2>4. CASE Tick
    BY <1>1, <2>4 DEF Tick, LedgerInv, SnapshotInPast
  <2> QED
    BY <2>1, <2>2, <2>3, <2>4
<1>4. TypeOK' /\ SnapshotInPast'
  BY <1>1, <1>3 DEF TypeOK, SnapshotInPast
<1>5. BrokerExclusive' /\ HeldTaskHasLauncher'
  BY <1>2 DEF LedgerInv, BrokerExclusive, HeldTaskHasLauncher, LauncherHere
<1>6. HeldTaskBounds'
  <2> SUFFICES ASSUME NEW t \in Task, HoldsBroker(t)
               PROVE  task[t].created <= now'
    BY <1>2 DEF LedgerInv, HeldTaskBounds
  <2> QED
    BY <1>1, <1>3 DEF LedgerInv, HeldTaskBounds, TaskRow
<1>7. PurgesAfterSweep'
  <2>1. CASE \E full \in BOOLEAN : StartSweep(full)
    <3>1. hk'.pc = "sweep" /\ hk'.at = now /\ hk'.todo = {t \in Task : Expired(t, now)}
      BY <2>1 DEF StartSweep
    <3> QED
      BY <1>2, <3>1 DEF PurgesAfterSweep, Expired
  <2>2. CASE EndSweep
    <3>1. \A t \in Task : ~Expired(t, hk.at)
      BY <2>2 DEF EndSweep, LedgerInv, PurgesAfterSweep
    <3>2. hk' = [hk EXCEPT !.pc = "agents"] \/ hk' = IdleHk
      BY <2>2 DEF EndSweep
    <3> QED
      BY <1>1, <1>2, <3>1, <3>2 DEF PurgesAfterSweep, Expired, IdleHk, Hk
  <2>3. CASE DaemonCrash
    BY <2>3 DEF DaemonCrash, PurgesAfterSweep, IdleHk
  <2>4. CASE Tick
    BY <1>2, <2>4 DEF Tick, LedgerInv, PurgesAfterSweep, Expired
  <2> QED
    BY <2>1, <2>2, <2>3, <2>4
<1> QED
  BY <1>4, <1>5, <1>6, <1>7 DEF LedgerInv

\* A session that leaves keeps its row.
LEMMA DeregisterStep ==
  ASSUME LedgerInv, NEW s \in Agent, Deregister(s)
  PROVE  LedgerInv'
<1>1. TypeOK /\ agents \in [Agent -> Row] /\ now \in Nat /\ Launcher \subseteq Agent
  BY DEF LedgerInv, TypeOK, Agent
<1>2. agents' = [agents EXCEPT ![s] = [agents[s] EXCEPT !.gone = TRUE, !.seen = now]]
  BY <1>1 DEF Deregister
<1>3. [agents[s] EXCEPT !.gone = TRUE, !.seen = now] \in Row
  BY <1>1 DEF Row
<1>4. agents' \in [Agent -> Row]
  BY <1>1, <1>2, <1>3
<1>5. PresenceKept
  BY <1>1, <1>2, <1>4 DEF PresenceKept, Row
<1> QED
  BY <1>1, <1>5, NothingMoves, QuietStep DEF Deregister

-----------------------------------------------------------------------------
(* The theorems *)

\* The empty database the daemon first opens satisfies the invariant.
LEMMA LedgerInit == Init => LedgerInv
<1> SUFFICES ASSUME Init PROVE LedgerInv
  OBVIOUS
<1>1. NoRow \in Row /\ NoTask("none") \in TaskRow /\ IdleHk \in Hk
  BY DEF NoRow, Row, NoTask, TaskRow, TaskState, IdleHk, Hk, HkPc
<1>2. TypeOK
  BY <1>1 DEF Init, TypeOK
<1>3. \A t \in Task : ~HoldsBroker(t)
  BY DEF Init, HoldsBroker, NoTask, Live
<1> QED
  BY <1>2, <1>3 DEF Init, LedgerInv, BrokerExclusive, HeldTaskHasLauncher,
     HeldTaskBounds, SnapshotInPast, PurgesAfterSweep, IdleHk

\* Every request, report, sweep, purge and restart preserves the invariant.
LEMMA LedgerStep == LedgerInv /\ [Next]_ledgerVars => LedgerInv'
<1> SUFFICES ASSUME LedgerInv, [Next]_ledgerVars PROVE LedgerInv'
  OBVIOUS
<1>1. /\ TypeOK /\ agents \in [Agent -> Row] /\ now \in Nat
      /\ Launcher \subseteq Agent /\ Requester \subseteq Agent /\ Task \subseteq Agent
  BY DEF LedgerInv, TypeOK, Agent
<1>2. CASE Tick
  BY <1>2, WatchdogControlStep DEF Tick
<1>3. CASE \E s \in Agent : Heartbeat(s)
  BY <1>1, <1>3, TouchKeeps, NothingMoves, QuietStep DEF Heartbeat
<1>4. CASE \E s \in Retires : Deregister(s)
  BY <1>4, DeregisterStep, SetsAssumption
<1>5. CASE \E r \in Requester : Register(r)
  <2>1. PresenceKept
    BY <1>1, <1>5, SetsAssumption DEF Register, PresenceKept, Row
  <2> QED
    BY <1>1, <1>5, <2>1, NothingMoves, QuietStep DEF Register
<1>6. CASE \E l \in Launcher, h \in HostScope : RegisterRelay(l, h)
  <2>1. PresenceKept
    BY <1>1, <1>6, SetsAssumption DEF RegisterRelay, PresenceKept, Row
  <2> QED
    BY <1>1, <1>6, <2>1, NothingMoves, QuietStep DEF RegisterRelay
<1>7. CASE \E r \in Requester, via \in Requester \cup {NoSession},
              rt \in Runtime \cup {AnyRuntime}, d \in DeadlineAsk, t \in Task :
                RequestEyes(r, via, rt, d, t)
  BY <1>7, RequestStep
<1>8. CASE \E r \in Requester, via \in Requester \cup {NoSession}, t \in Task :
              CancelEyes(r, via, t)
  <2>1. PICK r \in Requester, via \in Requester \cup {NoSession}, t \in Task :
          CancelEyes(r, via, t)
    BY <1>8
  <2>2. PresenceKept
    BY <1>1, <2>1, TouchKeeps DEF CancelEyes
  <2>3. OnlyLetsGo
    BY <1>1, <2>1, MoveLetsGo DEF CancelEyes, Target
  <2> QED
    BY <2>1, <2>2, <2>3, QuietStep DEF CancelEyes
<1>9. CASE \E a \in Launcher \cup Task, t \in Task, to \in {"accepted", "done", "failed"} :
              TaskReport(a, t, to)
  <2>1. PICK a \in Launcher \cup Task, t \in Task, to \in {"accepted", "done", "failed"} :
          TaskReport(a, t, to)
    BY <1>9
  <2>2. PresenceKept
    BY <1>1, <2>1, TouchKeeps DEF TaskReport
  <2>3. to \in Target
    BY DEF Target
  <2>4. OnlyLetsGo
    BY <1>1, <2>1, <2>3, MoveLetsGo DEF TaskReport
  <2> QED
    BY <2>1, <2>2, <2>4, QuietStep DEF TaskReport
<1>10. CASE \E l \in Launcher, t \in Task : ReissueEyesChild(l, t)
  <2>1. PresenceKept
    BY <1>1, <1>10, SetsAssumption DEF ReissueEyesChild, PresenceKept, Row
  <2> QED
    BY <1>1, <1>10, <2>1, NothingMoves, QuietStep DEF ReissueEyesChild
<1>11. CASE Watchdog
  <2>1. CASE \E full \in BOOLEAN : StartSweep(full)
    BY <2>1, WatchdogControlStep DEF StartSweep
  <2>2. CASE EndSweep
    BY <2>2, WatchdogControlStep DEF EndSweep
  <2> QED
    BY <1>11, <2>1, <2>2, SweepTaskStep, PurgeAgentsStep, PurgeTasksStep DEF Watchdog
<1>12. CASE DaemonCrash
  BY <1>12, WatchdogControlStep DEF DaemonCrash
<1>13. CASE UNCHANGED ledgerVars
  <2>1. PresenceKept
    BY <1>1, <1>13 DEF PresenceKept, ledgerVars
  <2> QED
    BY <1>1, <1>13, <2>1, NothingMoves, QuietStep DEF ledgerVars
<1> QED
  BY <1>2, <1>3, <1>4, <1>5, <1>6, <1>7, <1>8, <1>9, <1>10, <1>11, <1>12, <1>13 DEF Next

\* The inductive invariant holds of the daemon.
THEOREM LedgerInvariant == Spec => []LedgerInv
<1> QED
  BY LedgerInit, LedgerStep, PTL DEF Spec

\* Every row of every table stays well formed.
THEOREM TypeCorrect == Spec => []TypeOK
<1>1. LedgerInv => TypeOK
  BY DEF LedgerInv
<1> QED
  BY <1>1, LedgerInvariant, PTL

\* No broker is ever reserved by two tasks.
THEOREM OneTaskPerBroker == Spec => []BrokerExclusive
<1>1. LedgerInv => BrokerExclusive
  BY DEF LedgerInv
<1> QED
  BY <1>1, LedgerInvariant, PTL

\* Housekeep never purges the launcher of a task that still holds it.
THEOREM LauncherOutlivesTask == Spec => []HeldTaskHasLauncher
<1>1. LedgerInv => HeldTaskHasLauncher
  BY DEF LedgerInv
<1> QED
  BY <1>1, LedgerInvariant, PTL

\* The purges of Housekeep never meet a task that had run out.
THEOREM SweepBeforePurge == Spec => []PurgesAfterSweep
<1>1. LedgerInv => PurgesAfterSweep
  BY DEF LedgerInv
<1> QED
  BY <1>1, LedgerInvariant, PTL

\* A task that still holds its broker is never purged.
THEOREM PurgeSparesHeld == Spec => PurgesOnlySettled
<1>1. ASSUME LedgerInv, [Next]_ledgerVars
      PROVE  [\A t \in Task : HoldsBroker(t) => task'[t].state # "purged"]_ledgerVars
  <2> SUFFICES ASSUME NEW t \in Task, HoldsBroker(t), Next
               PROVE  task'[t].state # "purged"
    BY <1>1
  <2>1. TypeOK /\ task \in [Task -> TaskRow] /\ task[t].state # "purged"
    BY <1>1 DEF LedgerInv, TypeOK, HoldsBroker, Live
  <2>2. CASE UNCHANGED <<task, mail>>
    BY <2>1, <2>2
  <2>3. CASE PurgeTasks
    BY <1>1, <2>1, <2>3, PurgedTaskSettled
  <2>4. CASE \E r \in Requester, via \in Requester \cup {NoSession},
                rt \in Runtime \cup {AnyRuntime}, d \in DeadlineAsk, u \in Task :
                  RequestEyes(r, via, rt, d, u)
    BY <2>1, <2>4 DEF RequestEyes, AssignEyesTask
  <2>5. CASE OnlyLetsGo
    BY <2>1, <2>5 DEF OnlyLetsGo
  <2>6. \A u \in Task, role \in Role, to \in Target : moveEyesTask(u, role, to) => OnlyLetsGo
    BY <2>1, MoveLetsGo
  <2>7. \A u \in Task : \A a : eyesRole(u, a) \in Role
    BY DEF eyesRole, Role
  <2> QED
    BY <2>2, <2>3, <2>4, <2>5, <2>6, <2>7
       DEF Next, Watchdog, Tick, Heartbeat, Deregister, Register, RegisterRelay,
           ReissueEyesChild, StartSweep, EndSweep, PurgeAgents, DaemonCrash,
           SweepTask, TaskReport, CancelEyes, Role, Target
<1> QED
  BY <1>1, LedgerInvariant, PTL DEF Spec, PurgesOnlySettled

\* A task that has let go of its broker never holds it again.
THEOREM NeverReheld == Spec => ReleasedForGood
<1>1. ASSUME LedgerInv, [Next]_ledgerVars
      PROVE  [\A t \in Task : task[t].state # "none" /\ ~HoldsBroker(t)
                              => ~HoldsBroker(t)']_ledgerVars
  <2> SUFFICES ASSUME NEW t \in Task, task[t].state # "none", ~HoldsBroker(t), Next
               PROVE  ~HoldsBroker(t)'
    BY <1>1
  <2>1. TypeOK /\ task \in [Task -> TaskRow]
    BY <1>1 DEF LedgerInv, TypeOK
  <2>2. CASE UNCHANGED <<task, mail>>
    BY <2>2 DEF HoldsBroker
  <2>3. CASE PurgeTasks
    BY <2>3 DEF PurgeTasks, HoldsBroker, NoTask, Live
  <2>4. CASE \E r \in Requester, via \in Requester \cup {NoSession},
                rt \in Runtime \cup {AnyRuntime}, d \in DeadlineAsk, u \in Task :
                  RequestEyes(r, via, rt, d, u)
    <3>1. PICK u \in Task : task[u].state = "none" /\ \E row : task' = [task EXCEPT ![u] = row]
      BY <2>4 DEF RequestEyes, AssignEyesTask
    <3> QED
      BY <2>1, <3>1 DEF HoldsBroker
  <2>5. CASE OnlyLetsGo
    BY <2>5 DEF OnlyLetsGo
  <2>6. \A u \in Task, role \in Role, to \in Target : moveEyesTask(u, role, to) => OnlyLetsGo
    BY <2>1, MoveLetsGo
  <2>7. \A u \in Task : \A a : eyesRole(u, a) \in Role
    BY DEF eyesRole, Role
  <2> QED
    BY <2>2, <2>3, <2>4, <2>5, <2>6, <2>7
       DEF Next, Watchdog, Tick, Heartbeat, Deregister, Register, RegisterRelay,
           ReissueEyesChild, StartSweep, EndSweep, PurgeAgents, DaemonCrash,
           SweepTask, TaskReport, CancelEyes, Role, Target
<1> QED
  BY <1>1, LedgerInvariant, PTL DEF Spec, ReleasedForGood

-----------------------------------------------------------------------------
(* The mail of a task is the history of its state *)

\* A move appends exactly the message of the state it enters.  A cancel finds
\* its broker (HeldTaskHasLauncher); only the sweep may find nobody to tell.
LEMMA MoveMails ==
  ASSUME TypeOK, HeldTaskHasLauncher, MailMatchesState,
         NEW t \in Task, NEW role \in Role, NEW to \in Target,
         moveEyesTask(t, role, to)
  PROVE  MailMatchesState'
<1>1. task \in [Task -> TaskRow] /\ mail \in [Task -> Seq(Mail)]
  BY DEF TypeOK
<1> DEFINE out == MoveOutcome(t, role, to)
<1>2. CASE out \notin {"moved", "acked"}
  BY <1>2 DEF moveEyesTask, MailMatchesState
<1>3. CASE out = "acked"
  <2>1. mail' = mail /\ task' = [task EXCEPT ![t].acked = TRUE]
    BY <1>3 DEF moveEyesTask
  <2>2. \A u \in Task : task'[u].state = task[u].state
    BY <1>1, <2>1 DEF TaskRow
  <2> QED
    BY <2>1, <2>2 DEF MailMatchesState
<1>4. CASE out = "moved"
  <2>1. /\ task' = [task EXCEPT ![t].state = to, ![t].updated = now]
        /\ mail' = IF MailDelivers(t, role)
                     THEN [mail EXCEPT ![t] = Append(@, MailOf(to))] ELSE mail
    BY <1>4 DEF moveEyesTask
  <2>2. task'[t].state = to /\ \A u \in Task \ {t} : task'[u] = task[u]
    BY <1>1, <2>1 DEF TaskRow
  <2>3. \A u \in Task \ {t} : mail'[u] = mail[u]
    BY <1>1, <2>1
  <2>4. \/ mail'[t] = Append(mail[t], MailOf(to))
        \/ ~MailDelivers(t, role) /\ mail'[t] = mail[t]
    BY <1>1, <2>1
  <2>5. task[t].state \in eyesEdges(to, role)
    BY <1>4 DEF MoveOutcome
  <2>6. task[t].state \in Live /\ HoldsBroker(t)
    BY <2>5, EdgesLeaveLive DEF HoldsBroker
  <2>7. mail[t] \in MailFor(task[t].state)
    BY DEF MailMatchesState
  <2>8. mail'[t] \in MailFor(to)
    <3>1. CASE to = "accepted"
      <4>1. role = "launcher" /\ task[t].state = "queued"
        BY <2>5, <3>1 DEF eyesEdges
      <4>2. MailDelivers(t, role) /\ MailOf(to) = "accepted"
        BY <3>1, <4>1 DEF MailDelivers, MailOf
      <4> QED
        BY <2>4, <2>7, <3>1, <4>1, <4>2 DEF MailFor
    <3>2. CASE to = "done"
      <4>1. role = "child" /\ task[t].state = "accepted"
        BY <2>5, <3>2 DEF eyesEdges
      <4>2. MailDelivers(t, role) /\ MailOf(to) = "done"
        BY <3>2, <4>1 DEF MailDelivers, MailOf
      <4> QED
        BY <2>4, <2>7, <3>2, <4>1, <4>2 DEF MailFor
    <3>3. CASE to = "failed"
      <4>1. MailOf(to) = "failed"
        BY <3>3 DEF MailOf
      <4>2. mail'[t] \in {Append(mail[t], "failed"), mail[t]}
        BY <2>4, <4>1
      <4> QED
        BY <2>6, <2>7, <3>3, <4>2 DEF MailFor, Live
    <3>4. CASE to = "cancelled"
      <4>1. role = "requester"
        BY <2>5, <3>4 DEF eyesEdges
      <4>2. MailDelivers(t, role) /\ MailOf(to) = "cancel"
        BY <2>6, <3>4, <4>1 DEF MailDelivers, MailOf, HeldTaskHasLauncher
      <4> QED
        BY <2>4, <2>6, <2>7, <3>4, <4>2 DEF MailFor, Live
    <3> QED
      BY <3>1, <3>2, <3>3, <3>4 DEF Target
  <2> QED
    BY <2>2, <2>3, <2>8 DEF MailMatchesState
<1> QED
  BY <1>2, <1>3, <1>4

\* A launch is the first message of its task.
LEMMA RequestMails ==
  ASSUME TypeOK, MailMatchesState, NEW r, NEW l, NEW d, NEW t \in Task,
         AssignEyesTask(r, t, l, d)
  PROVE  MailMatchesState'
<1>1. task \in [Task -> TaskRow] /\ mail \in [Task -> Seq(Mail)]
  BY DEF TypeOK
<1>2. mail[t] = <<>>
  BY DEF AssignEyesTask, MailMatchesState, MailFor
<1>3. mail' = [mail EXCEPT ![t] = Append(@, "launch")]
  BY DEF AssignEyesTask
<1>4. mail'[t] = <<"launch">>
  BY <1>1, <1>2, <1>3
<1>5. task'[t].state = "queued" /\ \A u \in Task \ {t} : task'[u] = task[u]
  BY <1>1 DEF AssignEyesTask
<1>6. mail'[t] \in MailFor("queued")
  BY <1>4 DEF MailFor
<1> QED
  BY <1>1, <1>3, <1>5, <1>6 DEF MailMatchesState

\* A purged task keeps the mail of whatever state it was purged in.
LEMMA PurgeMails ==
  ASSUME TypeOK, MailMatchesState, PurgeTasks
  PROVE  MailMatchesState'
<1> SUFFICES ASSUME NEW t \in Task PROVE mail'[t] \in MailFor(task'[t].state)
  BY DEF MailMatchesState
<1>1. mail' = mail /\ mail[t] \in MailFor(task[t].state) /\ task[t].state \in TaskState
  BY DEF PurgeTasks, MailMatchesState, TypeOK, TaskRow
<1>2. CASE task'[t] = task[t]
  BY <1>1, <1>2
<1>3. CASE task'[t] # task[t]
  <2>1. task[t].state # "none" /\ task'[t].state = "purged"
    BY <1>3 DEF PurgeTasks, NoTask
  <2>2. \A s \in TaskState \ {"none"} : MailFor(s) \subseteq MailFor("purged")
    BY DEF MailFor, TaskState, Live
  <2> QED
    BY <1>1, <2>1, <2>2
<1> QED
  BY <1>2, <1>3

\* Every step of the ledger keeps the mail in step with the state.
LEMMA MailStep ==
  ASSUME LedgerInv, MailMatchesState, [Next]_ledgerVars
  PROVE  MailMatchesState'
<1>1. TypeOK /\ HeldTaskHasLauncher
  BY DEF LedgerInv
<1>2. CASE UNCHANGED <<task, mail>>
  BY <1>2 DEF MailMatchesState
<1>3. CASE PurgeTasks
  BY <1>1, <1>3, PurgeMails
<1>4. CASE \E r \in Requester, via \in Requester \cup {NoSession},
              rt \in Runtime \cup {AnyRuntime}, d \in DeadlineAsk, u \in Task :
                RequestEyes(r, via, rt, d, u)
  BY <1>1, <1>4, RequestMails DEF RequestEyes
<1>5. \A u \in Task, role \in Role, to \in Target :
        moveEyesTask(u, role, to) => MailMatchesState'
  BY <1>1, MoveMails
<1>6. \A u \in Task : \A a : eyesRole(u, a) \in Role
  BY DEF eyesRole, Role
<1> QED
  BY <1>2, <1>3, <1>4, <1>5, <1>6
     DEF Next, Watchdog, Tick, Heartbeat, Deregister, Register, RegisterRelay,
         ReissueEyesChild, StartSweep, EndSweep, PurgeAgents, DaemonCrash,
         SweepTask, TaskReport, CancelEyes, Role, Target, ledgerVars

\* Exactly one message per state change, in order, and none for a repeat.
THEOREM MailIsHistory == Spec => []MailMatchesState
<1>1. Init => MailMatchesState
  BY DEF Init, MailMatchesState, MailFor, NoTask
<1>2. LedgerInv /\ MailMatchesState /\ [Next]_ledgerVars => MailMatchesState'
  BY MailStep
<1> QED
  BY <1>1, <1>2, LedgerInvariant, PTL DEF Spec

-----------------------------------------------------------------------------
(* The inductive invariant: the ledger's side *)

\* The bridge purges nothing, so requesters stay.
RequestersHere ==
  /\ \A r \in Requester : agents[r].here
  /\ \A t \in Task : task[t].state # "none" => task[t].requester \in Requester

\* A sweep settles only tasks that had run out when it began.
SweepListed ==
  \A t \in hk.todo : task[t].state # "none" /\ task[t].created + task[t].deadline < hk.at

\* Only a cancelled task is acknowledged.
AckedCancel == \A t \in Task : task[t].acked => task[t].state = "cancelled"

LedgerSide ==
  /\ LedgerInv /\ MailMatchesState
  /\ RequestersHere /\ SweepListed /\ AckedCancel

-----------------------------------------------------------------------------
(* The inductive invariant: the broker's side *)

Idle(t) == exec[t].pc = "none" /\ jobs["exec"][t].step = "none" /\ jobs["redo"][t].step = "none"

\* What the main loop is doing, and for which task: while it mints a child
\* nobody else is busy with the task, and a launch has a fresh record.
MainWorks ==
  /\ main.pc \in {"mint", "settle"} => main.t \in Task
  /\ main.pc \in {"down", "recover", "stop"} => main.recovering
  /\ main.pc = "loop" => ~main.recovering
  /\ main.pc = "mint" =>
       /\ Idle(main.t)
       /\ main.why = "recover" <=> main.recovering
       /\ main.why = "launch" => journal[main.t].st = "received" /\ active = {main.t}
       /\ main.why = "busy" => journal[main.t].st = "terminal"
  /\ \A t \in Task : jobs["main"][t].step # "none" => main.pc = "settle" /\ main.t = t

\* A broker that recovers has no goroutine left from before.
RecoversAlone ==
  main.recovering /\ main.pc # "stop" => \A t \in Task : Idle(t)

\* A task that is being worked on is the active one, its record says accepted,
\* and no report on it is under way.
OneWorker ==
  \A t \in Task :
    /\ exec[t].pc # "none" =>
         /\ active = {t}
         /\ journal[t].st = "accepted"
         /\ \A w \in Who : jobs[w][t].step = "none"
    /\ jobs["exec"][t].step # "none" => active = {t}

\* A task that was never taken, or not accepted yet, has not been worked on
\* and nobody reports on it but the main loop.
FreshRecord ==
  \A t \in Task : journal[t].st \in {"none", "received"} => runs[t] = 0 /\ Idle(t)

\* How often a task has run, by where its worker is.
RunsCounted ==
  \A t \in Task :
    /\ runs[t] <= 1
    /\ exec[t].pc \in {"accept", "run"} => runs[t] = 0
    /\ exec[t].pc = "provider" => runs[t] = 1

\* Every report has an outcome, and "done" is the outcome of a run.
Outcomes ==
  \A t \in Task :
    /\ journal[t].st = "terminal" => journal[t].body # "none"
    /\ journal[t].body = "done" => runs[t] = 1
    /\ \A w \in Who : jobs[w][t].step # "none" =>
         /\ jobs[w][t].rec.st = "terminal"
         /\ jobs[w][t].rec.body # "none"
         /\ jobs[w][t].rec.body = "done" => runs[t] = 1

\* Nothing is buried that the ledger has not settled.
Settled(t) == task[t].state # "none" /\ ~HoldsBroker(t)
Buried ==
  \A t \in Task :
    /\ journal[t].st = "delivered" => Settled(t)
    /\ \A w \in Who : jobs[w][t].step = "stone" => Settled(t)

\* Work begins when the ledger has accepted, and until the deadline the broker
\* stays reserved.
OutOfTime(t) == now > task[t].created + task[t].deadline
WorkAccepted ==
  \A t \in Task : exec[t].pc \in {"run", "provider"} =>
    /\ task[t].state \notin {"none", "queued"}
    /\ ~HoldsBroker(t) => OutOfTime(t)

BrokerSide ==
  /\ MainWorks /\ RecoversAlone /\ OneWorker /\ FreshRecord
  /\ RunsCounted /\ Outcomes /\ Buried /\ WorkAccepted

BridgeIInv == BridgeTypeOK /\ LedgerSide /\ BrokerSide

-----------------------------------------------------------------------------
(* What the broker's steps do to the ledger *)

\* The steps of the bridge as the ledger sees them; S holds the tasks a report
\* may be about.
LedgerSees(S) ==
  \/ UNCHANGED ledgerVars
  \/ \E a \in Agent : Heartbeat(a) \/ Deregister(a)
  \/ RegisterRelay(Broker, BrokerScope)
  \/ \E t \in Task : ReissueEyesChild(Broker, t)
  \/ \E a \in Launcher \cup Task, t \in S, to \in {"accepted", "done", "failed"} :
       TaskReport(a, t, to)
  \/ LedgerEnv

\* What lasts: the age of a task, that it is settled, that it is accepted, and
\* its hold on the broker unless it is reported on or out of time.
TaskLasts(S) ==
  \A u \in Task : task[u].state # "none" =>
    /\ task'[u].state # "none"
    /\ task'[u].created = task[u].created
    /\ task'[u].deadline = task[u].deadline
    /\ task'[u].requester = task[u].requester
    /\ ~HoldsBroker(u) => ~HoldsBroker(u)'
    /\ task[u].state # "queued" => task'[u].state # "queued"
    /\ u \notin S /\ HoldsBroker(u) => HoldsBroker(u)' \/ OutOfTime(u)

\* Every such step is one of EyesLedger, or a deregistration.
LEMMA SeesLedgerStep ==
  ASSUME NEW S \in SUBSET Task, LedgerSees(S)
  PROVE  [Next]_ledgerVars \/ \E s \in Agent : Deregister(s)
<1>1. CASE \E t \in Task : ReissueEyesChild(Broker, t)
  BY <1>1, BrokerAssumption DEF Next
<1>2. CASE \E r \in Requester, rt \in Runtime, d \in DeadlineAsk, t \in Task :
             RequestEyes(r, r, rt, d, t)
  BY <1>2 DEF Next
<1>3. CASE \E r \in Requester, t \in Task : CancelEyes(r, r, t)
  BY <1>3 DEF Next
<1>4. CASE \E a \in Launcher \cup Task, t \in S, to \in {"accepted", "done", "failed"} :
             TaskReport(a, t, to)
  BY <1>4 DEF Next
<1>5. CASE RegisterRelay(Broker, BrokerScope)
  BY <1>5, BrokerAssumption DEF Next
<1>6. CASE \E a \in Agent : Heartbeat(a) \/ Deregister(a)
  BY <1>6 DEF Next
<1>7. CASE Tick \/ StartSweep(FALSE) \/ (\E t \in Task : SweepTask(t)) \/ EndSweep
  BY <1>7 DEF Next, Watchdog
<1> QED
  BY <1>1, <1>2, <1>3, <1>4, <1>5, <1>6, <1>7 DEF LedgerSees, LedgerEnv

\* The one write path of the ledger.
LEMMA MoveLasts ==
  ASSUME TypeOK, AckedCancel, NEW t \in Task, NEW role, NEW to \in Target,
         moveEyesTask(t, role, to)
  PROVE  /\ TaskLasts({t})
         /\ AckedCancel'
         /\ \A u \in Task : /\ task[u].state = "none" => task'[u] = task[u]
                            /\ to = "cancelled" /\ HoldsBroker(u) /\ role = "requester"
                                 => HoldsBroker(u)'
<1> DEFINE out == MoveOutcome(t, role, to)
<1>1. task \in [Task -> TaskRow]
  BY DEF TypeOK
<1>2. \/ /\ out = "moved"
         /\ task' = [task EXCEPT ![t].state = to, ![t].updated = now]
      \/ /\ out = "acked"
         /\ task' = [task EXCEPT ![t].acked = TRUE]
      \/ task' = task
  BY DEF moveEyesTask
<1>3. CASE /\ out = "moved"
           /\ task' = [task EXCEPT ![t].state = to, ![t].updated = now]
  <2>1. task[t].state \in Live /\ task[t].acked = FALSE
    BY <1>1, <1>3, OutcomeCases DEF AckedCancel, Live, TaskRow
  <2>2. /\ task'[t] = [task[t] EXCEPT !.state = to, !.updated = now]
        /\ \A u \in Task \ {t} : task'[u] = task[u]
    BY <1>1, <1>3
  <2>3. /\ task'[t].state = to
        /\ task'[t].created = task[t].created /\ task'[t].deadline = task[t].deadline
        /\ task'[t].requester = task[t].requester /\ task'[t].acked = FALSE
    BY <1>1, <2>1, <2>2 DEF TaskRow
  <2>4. to \notin {"none", "queued"}
    BY DEF Target
  <2> QED
    BY <2>1, <2>2, <2>3, <2>4 DEF TaskLasts, AckedCancel, HoldsBroker, Live
<1>4. CASE /\ out = "acked"
           /\ task' = [task EXCEPT ![t].acked = TRUE]
  <2>1. task[t].state = "cancelled"
    BY <1>4, OutcomeCases
  <2>2. to = "cancelled" => role # "requester"
    BY <1>4, <2>1 DEF MoveOutcome, acksCancel
  <2>3. /\ task'[t] = [task[t] EXCEPT !.acked = TRUE]
        /\ \A u \in Task \ {t} : task'[u] = task[u]
    BY <1>1, <1>4
  <2>4. /\ task'[t].state = "cancelled"
        /\ task'[t].created = task[t].created /\ task'[t].deadline = task[t].deadline
        /\ task'[t].requester = task[t].requester /\ task'[t].acked
    BY <1>1, <2>1, <2>3 DEF TaskRow
  <2> QED
    BY <2>1, <2>2, <2>3, <2>4 DEF TaskLasts, AckedCancel, HoldsBroker, Live
<1>5. CASE task' = task
  BY <1>5 DEF TaskLasts, AckedCancel, HoldsBroker
<1> QED
  BY <1>2, <1>3, <1>4, <1>5
\* The ledger's side of the invariant is kept, and what should last lasts.
LEMMA LedgerEffect ==
  ASSUME LedgerSide, NEW S \in SUBSET Task, LedgerSees(S)
  PROVE  /\ LedgerSide'
         /\ TaskLasts(S)
         /\ now' >= now
<1>1. /\ LedgerInv /\ TypeOK /\ task \in [Task -> TaskRow] /\ agents \in [Agent -> Row]
      /\ now \in Nat /\ hk \in Hk
  BY DEF LedgerSide, LedgerInv, TypeOK
<1>2. LedgerInv' /\ MailMatchesState'
  <2>1. CASE [Next]_ledgerVars
    BY <1>1, <2>1, LedgerStep, MailStep DEF LedgerSide
  <2>2. CASE \E s \in Agent : Deregister(s)
    <3>1. LedgerInv'
      BY <1>1, <2>2, DeregisterStep
    <3>2. UNCHANGED <<task, mail>>
      BY <2>2 DEF Deregister
    <3> QED
      BY <3>1, <3>2 DEF LedgerSide, MailMatchesState
  <2> QED
    BY <2>1, <2>2, SeesLedgerStep
<1>3. \A a \in Agent : agents[a].here => agents'[a].here
  <2>1. CASE UNCHANGED agents
    BY <2>1
  <2>2. CASE \E a \in Agent : agents' = Touch(a)
    BY <1>1, <2>2 DEF Touch, Row
  <2>3. CASE \E a \in Agent : Deregister(a)
    BY <1>1, <2>3 DEF Deregister, Row
  <2>4. CASE RegisterRelay(Broker, BrokerScope) \/ \E t \in Task : ReissueEyesChild(Broker, t)
    BY <1>1, <2>4 DEF RegisterRelay, ReissueEyesChild
  <2>5. \/ UNCHANGED agents
        \/ \E a \in Agent : agents' = Touch(a)
        \/ \E a \in Agent : Deregister(a)
        \/ RegisterRelay(Broker, BrokerScope) \/ \E t \in Task : ReissueEyesChild(Broker, t)
    BY DEF LedgerSees, ledgerVars, Heartbeat, TaskReport, LedgerEnv, Tick, StartSweep,
       SweepTask, EndSweep, RequestEyes, CancelEyes, Agent
  <2> QED
    BY <2>1, <2>2, <2>3, <2>4, <2>5
<1>4. \A r \in Requester : agents'[r].here
  BY <1>3 DEF LedgerSide, RequestersHere, Agent
<1>5. now' >= now
  <2>1. UNCHANGED now \/ Tick
    BY DEF LedgerSees, ledgerVars, Heartbeat, Deregister, RegisterRelay,
       ReissueEyesChild, TaskReport, LedgerEnv, StartSweep, SweepTask, EndSweep,
       RequestEyes, CancelEyes
  <2> QED
    BY <1>1, <2>1 DEF Tick
<1>6. CASE UNCHANGED task
  <2>1. TaskLasts(S) /\ AckedCancel' /\ RequestersHere'
    BY <1>4, <1>6 DEF TaskLasts, LedgerSide, AckedCancel, RequestersHere, HoldsBroker
  <2>2. \/ hk' = hk
        \/ \E t \in Task : SweepTask(t)
        \/ EndSweep
        \/ StartSweep(FALSE)
    BY DEF LedgerSees, ledgerVars, Heartbeat, Deregister, RegisterRelay,
       ReissueEyesChild, TaskReport, LedgerEnv, Tick, RequestEyes, CancelEyes
  <2>3. \/ hk'.at = hk.at /\ hk'.todo \subseteq hk.todo
        \/ hk'.todo = {}
        \/ hk'.at = now /\ hk'.todo = {t \in Task : Expired(t, now)}
    <3>1. CASE \E t \in Task : SweepTask(t)
      BY <1>1, <3>1 DEF SweepTask, Hk
    <3>2. CASE EndSweep
      BY <1>1, <3>2 DEF EndSweep, IdleHk, Hk
    <3>3. CASE StartSweep(FALSE)
      BY <3>3 DEF StartSweep
    <3> QED
      BY <2>2, <3>1, <3>2, <3>3
  <2>4. SweepListed'
    BY <1>6, <2>3 DEF LedgerSide, SweepListed, Expired, HoldsBroker, Live
  <2> QED
    BY <1>2, <1>5, <2>1, <2>4 DEF LedgerSide
<1>7. CASE \E a \in Launcher \cup Task, t \in S, to \in {"accepted", "done", "failed"} :
             TaskReport(a, t, to)
  <2>1. PICK a \in Launcher \cup Task, t \in S, to \in {"accepted", "done", "failed"} :
          TaskReport(a, t, to)
    BY <1>7
  <2>2. hk' = hk /\ moveEyesTask(t, eyesRole(t, a), to) /\ t \in Task /\ to \in Target
    BY <2>1 DEF TaskReport, Target
  <2>3. TaskLasts({t}) /\ AckedCancel' /\ \A u \in Task : task[u].state = "none" => task'[u] = task[u]
    BY <1>1, <2>2, MoveLasts DEF LedgerSide
  <2>4. TaskLasts(S)
    BY <2>1, <2>3 DEF TaskLasts
  <2>5. RequestersHere'
    BY <1>4, <2>3 DEF TaskLasts, LedgerSide, RequestersHere
  <2>6. SweepListed'
    BY <1>1, <2>2, <2>3 DEF TaskLasts, LedgerSide, SweepListed, Hk
  <2> QED
    BY <1>2, <1>5, <2>3, <2>4, <2>5, <2>6 DEF LedgerSide
<1>8. CASE \E r \in Requester, rt \in Runtime, d \in DeadlineAsk, t \in Task :
             RequestEyes(r, r, rt, d, t)
  <2>1. PICK r \in Requester, rt \in Runtime, d \in DeadlineAsk, t \in Task :
          RequestEyes(r, r, rt, d, t)
    BY <1>8
  <2>2. PICK l \in Launcher : AssignEyesTask(r, t, l, d)
    BY <2>1 DEF RequestEyes, pickLauncher
  <2>3. /\ task[t].state = "none" /\ hk' = hk
        /\ task'[t].state = "queued" /\ task'[t].requester = r /\ task'[t].acked = FALSE
        /\ \A u \in Task \ {t} : task'[u] = task[u]
    BY <1>1, <2>1, <2>2 DEF AssignEyesTask, RequestEyes
  <2>4. TaskLasts(S) /\ AckedCancel' /\ RequestersHere'
    BY <1>4, <2>3 DEF TaskLasts, LedgerSide, AckedCancel, RequestersHere, HoldsBroker
  <2>5. SweepListed'
    BY <1>1, <2>3 DEF LedgerSide, SweepListed, Hk
  <2> QED
    BY <1>2, <1>5, <2>4, <2>5 DEF LedgerSide
<1>9. CASE \E r \in Requester, t \in Task : CancelEyes(r, r, t)
  <2>1. PICK r \in Requester, t \in Task : CancelEyes(r, r, t)
    BY <1>9
  <2>2. hk' = hk /\ moveEyesTask(t, eyesRole(t, r), "cancelled") /\ "cancelled" \in Target
    BY <2>1 DEF CancelEyes, Target
  <2>3. eyesRole(t, r) = "requester"
    BY <2>1 DEF CancelEyes, MoveOutcome, eyesEdges
  <2>4. /\ TaskLasts({t}) /\ AckedCancel'
        /\ \A u \in Task : task[u].state = "none" => task'[u] = task[u]
        /\ \A u \in Task : HoldsBroker(u) => HoldsBroker(u)'
    BY <1>1, <2>2, <2>3, MoveLasts DEF LedgerSide
  <2>5. TaskLasts(S)
    BY <2>4 DEF TaskLasts
  <2>6. RequestersHere'
    BY <1>4, <2>4 DEF TaskLasts, LedgerSide, RequestersHere
  <2>7. SweepListed'
    BY <1>1, <2>2, <2>4 DEF TaskLasts, LedgerSide, SweepListed, Hk
  <2> QED
    BY <1>2, <1>5, <2>4, <2>5, <2>6, <2>7 DEF LedgerSide
<1>10. CASE \E t \in Task : SweepTask(t)
  <2>1. PICK t \in Task : SweepTask(t)
    BY <1>10
  <2>2. /\ moveEyesTask(t, "system", "failed") /\ "failed" \in Target
        /\ t \in hk.todo /\ hk'.todo = hk.todo \ {t} /\ hk'.at = hk.at
    BY <1>1, <2>1 DEF SweepTask, Target, Hk
  <2>3. /\ TaskLasts({t}) /\ AckedCancel'
        /\ \A u \in Task : task[u].state = "none" => task'[u] = task[u]
    BY <1>1, <2>2, MoveLasts DEF LedgerSide
  <2>4. OutOfTime(t)
    <3>1. task[t].created + task[t].deadline < hk.at /\ hk.at <= now
      BY <2>2 DEF LedgerSide, SweepListed, LedgerInv, SnapshotInPast
    <3>2. task[t].created \in Nat /\ task[t].deadline \in Nat /\ hk.at \in Nat
      BY <1>1 DEF TaskRow, Hk
    <3> QED
      BY <1>1, <3>1, <3>2 DEF OutOfTime
  <2>5. TaskLasts(S)
    BY <2>3, <2>4 DEF TaskLasts
  <2>6. RequestersHere'
    BY <1>4, <2>3 DEF TaskLasts, LedgerSide, RequestersHere
  <2>7. SweepListed'
    BY <1>1, <2>2, <2>3 DEF TaskLasts, LedgerSide, SweepListed, Hk
  <2> QED
    BY <1>2, <1>5, <2>3, <2>5, <2>6, <2>7 DEF LedgerSide
<1>11. CASE Tick \/ StartSweep(FALSE) \/ EndSweep
  BY <1>6, <1>11 DEF Tick, StartSweep, EndSweep
<1>12. CASE \/ UNCHANGED ledgerVars
            \/ \E a \in Agent : Heartbeat(a) \/ Deregister(a)
            \/ RegisterRelay(Broker, BrokerScope)
            \/ \E t \in Task : ReissueEyesChild(Broker, t)
  BY <1>6, <1>12 DEF ledgerVars, Heartbeat, Deregister, RegisterRelay, ReissueEyesChild
<1> QED
  BY <1>7, <1>8, <1>9, <1>10, <1>11, <1>12 DEF LedgerSees, LedgerEnv

\* A report the daemon handles is a TaskReport or a heartbeat.
LEMMA ReportedSeen ==
  ASSUME LedgerSide, NEW t \in Task, NEW a \in {Broker, t},
         NEW to \in {"accepted", "done", "failed"},
         Reported(a, t, to), UNCHANGED <<now, hk>>
  PROVE  LedgerSees({t})
<1> DEFINE out == MoveOutcome(t, eyesRole(t, a), to)
<1>1. a \in Agent /\ a \in Launcher \cup Task
  BY BrokerAssumption DEF Agent
<1>2. CASE ~agents[a].here
  BY <1>2 DEF Reported, LedgerSees, ledgerVars
<1>3. CASE agents[a].here /\ out \in {"moved", "acked"}
  <2>1. TaskReport(a, t, to)
    BY <1>3 DEF Reported, TaskReport
  <2> QED
    BY <1>1, <2>1 DEF LedgerSees
<1>4. CASE agents[a].here /\ out \notin {"moved", "acked"}
  <2>1. Heartbeat(a)
    BY <1>4 DEF Reported, Heartbeat, moveEyesTask
  <2> QED
    BY <1>1, <2>1 DEF LedgerSees
<1> QED
  BY <1>2, <1>3, <1>4

\* An accept that is answered OK means an accepted task.
LEMMA AcceptOK ==
  ASSUME LedgerSide, NEW t \in Task,
         Reported(Broker, t, "accepted"), ReportOK(Broker, t, "accepted")
  PROVE  task'[t].state = "accepted"
<1> DEFINE role == eyesRole(t, Broker)
           out == MoveOutcome(t, role, "accepted")
<1>1. task \in [Task -> TaskRow]
  BY DEF LedgerSide, LedgerInv, TypeOK
<1>2. out # "refused" /\ moveEyesTask(t, role, "accepted")
  BY DEF Reported, ReportOK
<1>3. ~acksCancel(t, role, "accepted")
  BY DEF acksCancel
<1>4. \/ out = "noop" /\ task[t].state = "accepted"
      \/ out = "moved"
  BY <1>2, <1>3 DEF MoveOutcome
<1> QED
  BY <1>1, <1>2, <1>4 DEF moveEyesTask, TaskRow

\* A terminal report that is answered OK means a settled task, whoever made it
\* and whatever had happened to the task: this is why a tombstone may follow.
LEMMA TerminalOK ==
  ASSUME LedgerSide, NEW t \in Task, NEW a, NEW body \in {"done", "failed"},
         Reported(a, t, body), ReportOK(a, t, body)
  PROVE  Settled(t)'
<1> DEFINE role == eyesRole(t, a)
           out == MoveOutcome(t, role, body)
<1>1. task \in [Task -> TaskRow]
  BY DEF LedgerSide, LedgerInv, TypeOK
<1>2. out # "refused" /\ moveEyesTask(t, role, body)
  BY DEF Reported, ReportOK
<1>3. \/ out = "noop" /\ task[t].state = body
      \/ out = "acked" /\ task[t].state = "cancelled"
      \/ out = "moved"
  BY <1>2 DEF MoveOutcome
<1>4. task'[t].state = body \/ (task'[t].state = "cancelled" /\ task'[t].acked)
  BY <1>1, <1>2, <1>3 DEF moveEyesTask, TaskRow
<1> QED
  BY <1>4 DEF Settled, HoldsBroker, Live
-----------------------------------------------------------------------------
(* The broker's own steps *)

\* The broker's part of the type invariant.
BrokerTypeOK ==
  /\ journal \in [Task -> Record]
  /\ main \in Main
  /\ active \subseteq Task
  /\ cancelled \subseteq active
  /\ exec \in [Task -> Exec]
  /\ jobs \in [Who -> [Task -> Job]]
  /\ runs \in [Task -> Nat]
  /\ restarts \in 0..MaxRestarts

\* The parts of the invariant, split for use.
LEMMA Parts ==
  ASSUME BridgeIInv
  PROVE  /\ LedgerSide /\ TypeOK /\ BrokerTypeOK
         /\ MainWorks /\ RecoversAlone /\ OneWorker /\ FreshRecord
         /\ RunsCounted /\ Outcomes /\ Buried /\ WorkAccepted
BY DEF BridgeIInv, BridgeTypeOK, BrokerSide, BrokerTypeOK

\* A journal record is what it was written with.
LEMMA Records ==
  ASSUME NEW c \in BOOLEAN, NEW b \in Body,
         NEW s \in {"none", "received", "accepted", "terminal", "delivered"}
  PROVE  /\ Rec(s, c, b) \in Record
         /\ Rec(s, c, b).st = s /\ Rec(s, c, b).child = c /\ Rec(s, c, b).body = b
BY DEF Rec, Record

\* The records the broker writes.
LEMMA Written ==
  ASSUME NEW rec, NEW s \in {"received", "accepted", "terminal"}, NEW c \in BOOLEAN,
         NEW b \in {"none", "done", "failed"}, rec = Rec(s, c, b)
  PROVE  rec \in Record /\ rec.st = s /\ rec.body = b
BY DEF Rec, Record, Body

\* A write to the journal leaves the other records alone.
LEMMA JournalWrite ==
  ASSUME journal \in [Task -> Record], NEW t \in Task, NEW rec \in Record,
         journal' = [journal EXCEPT ![t] = rec]
  PROVE  /\ journal' \in [Task -> Record] /\ journal'[t] = rec
         /\ \A u \in Task \ {t} : journal'[u] = journal[u]
OBVIOUS

\* A delivery starts with writing its record to the journal.
LEMMA NewJobs ==
  ASSUME NEW rec \in Record
  PROVE  NewJob(rec) \in Job /\ NewJob(rec).step = "put" /\ NewJob(rec).rec = rec
BY DEF NewJob, Job

\* The empty values are well typed.
LEMMA Nothings ==
  /\ NoRecord \in Record /\ NoRecord.st = "none"
  /\ Tombstone \in Record /\ Tombstone.st = "delivered" /\ Tombstone.body = "none"
  /\ NoJob \in Job /\ NoJob.step = "none"
  /\ NoExec \in Exec /\ NoExec.pc = "none"
  /\ Down \in Main /\ Down.pc = "down" /\ Down.recovering
<1>1. NoRecord \in Record /\ NoRecord.st = "none"
  BY Records DEF NoRecord, Body
<1>2. Tombstone \in Record /\ Tombstone.st = "delivered" /\ Tombstone.body = "none"
  BY Records DEF Tombstone, Body
<1>3. NoJob \in Job /\ NoJob.step = "none"
  BY <1>1 DEF NoJob, Job
<1>4. NoExec \in Exec /\ NoExec.pc = "none"
  BY DEF NoExec, Exec
<1>5. Down \in Main /\ Down.pc = "down" /\ Down.recovering
  BY DEF Down, Main, MainPc, Why
<1> QED
  BY <1>1, <1>2, <1>3, <1>4, <1>5

\* Where the two sides meet: what is buried and what is worked on.
LEMMA LedgerMeetsBroker ==
  ASSUME BridgeIInv, NEW S \in SUBSET Task, LedgerSees(S),
         \A t \in Task : journal'[t].st = "delivered" =>
           journal[t].st = "delivered" \/ Settled(t)',
         \A t \in Task, w \in Who : jobs'[w][t].step = "stone" =>
           jobs[w][t].step = "stone" \/ Settled(t)',
         \A t \in Task : exec'[t].pc \in {"run", "provider"} =>
           \/ exec[t].pc \in {"run", "provider"} /\ t \notin S
           \/ task'[t].state = "accepted"
  PROVE  LedgerSide' /\ TypeOK' /\ Buried' /\ WorkAccepted'
<1>1. LedgerSide /\ Buried /\ WorkAccepted
  BY Parts
<1>2. LedgerSide' /\ TaskLasts(S) /\ now' >= now
  BY <1>1, LedgerEffect
<1>3. TypeOK /\ TypeOK'
  BY <1>1, <1>2 DEF LedgerSide, LedgerInv
<1>4. \A t \in Task : Settled(t) => Settled(t)'
  BY <1>2 DEF Settled, TaskLasts
<1>5. Buried'
  BY <1>1, <1>4 DEF Buried
<1>6. ASSUME NEW t \in Task, exec'[t].pc \in {"run", "provider"}
      PROVE  /\ task'[t].state \notin {"none", "queued"}
             /\ ~HoldsBroker(t)' => OutOfTime(t)'
  <2>1. CASE task'[t].state = "accepted"
    BY <2>1 DEF HoldsBroker, Live
  <2>2. CASE exec[t].pc \in {"run", "provider"} /\ t \notin S
    <3>1. /\ task[t].state \notin {"none", "queued"}
          /\ ~HoldsBroker(t) => OutOfTime(t)
      BY <1>1, <2>2 DEF WorkAccepted
    <3>2. /\ task'[t].state \notin {"none", "queued"}
          /\ ~HoldsBroker(t)' => OutOfTime(t)
          /\ task'[t].created = task[t].created
          /\ task'[t].deadline = task[t].deadline
      BY <1>2, <2>2, <3>1 DEF TaskLasts
    <3>3. /\ now \in Nat /\ now' \in Nat
          /\ task[t].created \in Nat /\ task[t].deadline \in Nat
      BY <1>3 DEF TypeOK, TaskRow
    <3> QED
      BY <1>2, <3>2, <3>3 DEF OutOfTime
  <2> QED
    BY <1>6, <2>1, <2>2
<1> QED
  BY <1>2, <1>3, <1>5, <1>6 DEF WorkAccepted

\* A step that moves only the main loop.
LEMMA MainOnly ==
  ASSUME BridgeIInv, LedgerSees({}),
         UNCHANGED <<journal, active, cancelled, exec, jobs, runs, restarts>>,
         main' \in Main, MainWorks', RecoversAlone'
  PROVE  BridgeIInv'
<1>1. LedgerSide' /\ TypeOK' /\ Buried' /\ WorkAccepted'
  BY LedgerMeetsBroker
<1>2. BrokerTypeOK'
  BY Parts DEF BrokerTypeOK
<1>3. OneWorker' /\ FreshRecord' /\ RunsCounted' /\ Outcomes'
  BY Parts DEF OneWorker, FreshRecord, RunsCounted, Outcomes, Idle
<1> QED
  BY <1>1, <1>2, <1>3 DEF BridgeIInv, BridgeTypeOK, BrokerSide, BrokerTypeOK

\* Starting, registering, polling, and the end of the recovery.
LEMMA StartStep ==
  ASSUME BridgeIInv, Start
  PROVE  BridgeIInv'
<1>1. /\ MainWorks /\ RecoversAlone /\ main.pc = "down" /\ main.recovering
      /\ \A t \in Task : jobs["main"][t].step = "none"
  BY Parts DEF Start, MainWorks
<1>2. main' \in Main /\ main'.pc = "boot" /\ main'.recovering
  BY Nothings DEF Start, Main, MainPc
<1>3. LedgerSees({})
  BY DEF Start, LedgerSees
<1>4. MainWorks' /\ RecoversAlone'
  BY <1>1, <1>2 DEF Start, MainWorks, RecoversAlone, Idle
<1> QED
  BY <1>2, <1>3, <1>4, MainOnly DEF Start

\* RegisterLauncher keeps the invariant.
LEMMA RegisterLauncherStep ==
  ASSUME BridgeIInv, NEW heard \in BOOLEAN, RegisterLauncher(heard)
  PROVE  BridgeIInv'
<1>1. /\ MainWorks /\ RecoversAlone /\ main \in Main /\ main.pc = "boot"
      /\ \A t \in Task : jobs["main"][t].step = "none"
  BY Parts DEF RegisterLauncher, MainWorks, BrokerTypeOK
<1>2. /\ main' \in Main /\ main'.recovering = main.recovering
      /\ main'.pc \in {"boot", IF main.recovering THEN "recover" ELSE "loop"}
  BY <1>1 DEF RegisterLauncher, Resume, Main, MainPc
<1>3. LedgerSees({})
  BY DEF RegisterLauncher, LedgerSees
<1>4. main.recovering \in BOOLEAN
  BY <1>1 DEF Main
<1>5. MainWorks' /\ RecoversAlone'
  BY <1>1, <1>2, <1>4 DEF RegisterLauncher, MainWorks, RecoversAlone, Idle
<1> QED
  BY <1>2, <1>3, <1>5, MainOnly DEF RegisterLauncher

\* RecoverDone keeps the invariant.
LEMMA RecoverDoneStep ==
  ASSUME BridgeIInv, RecoverDone
  PROVE  BridgeIInv'
<1>1. /\ MainWorks /\ main \in Main /\ main.pc = "recover"
      /\ \A t \in Task : jobs["main"][t].step = "none"
  BY Parts DEF RecoverDone, MainWorks, BrokerTypeOK
<1>2. main' \in Main /\ main'.pc = "loop" /\ main'.recovering = FALSE
  BY <1>1 DEF RecoverDone, Main, MainPc
<1>3. LedgerSees({})
  BY DEF RecoverDone, LedgerSees
<1>4. MainWorks' /\ RecoversAlone'
  BY <1>1, <1>2 DEF RecoverDone, MainWorks, RecoversAlone
<1> QED
  BY <1>2, <1>3, <1>4, MainOnly DEF RecoverDone

\* Poll keeps the invariant.
LEMMA PollStep ==
  ASSUME BridgeIInv, NEW heard \in BOOLEAN, Poll(heard)
  PROVE  BridgeIInv'
<1>1. /\ MainWorks /\ main \in Main /\ main.pc = "loop" /\ main.recovering = FALSE
      /\ \A t \in Task : jobs["main"][t].step = "none"
  BY Parts DEF Poll, MainWorks, BrokerTypeOK, Main
<1>2. \A s : \A kind \in {"launch", "cancel"} : Owed(kind, s) \subseteq {"launch", "cancel"} \X Task
  BY DEF Owed
<1>3. /\ main' \in Main /\ main'.recovering = FALSE /\ main'.pc \in {"boot", "loop"}
  BY <1>1, <1>2 DEF Poll, Main, MainPc
<1>4. LedgerSees({})
  <2>1. CASE agents[Broker].here
    BY <2>1, BrokerAssumption DEF Poll, LedgerSees, Heartbeat, Agent
  <2>2. CASE ~agents[Broker].here
    BY <2>2 DEF Poll, LedgerSees, Touch, ledgerVars
  <2> QED
    BY <2>1, <2>2
<1>5. MainWorks' /\ RecoversAlone'
  BY <1>1, <1>3 DEF Poll, MainWorks, RecoversAlone
<1> QED
  BY <1>3, <1>4, <1>5, MainOnly DEF Poll

\* The daemon and the requesters leave the broker alone.
LEMMA LedgerEnvStep ==
  ASSUME BridgeIInv, LedgerEnv \/ UNCHANGED ledgerVars, UNCHANGED brokerVars
  PROVE  BridgeIInv'
<1>1. LedgerSees({})
  BY DEF LedgerSees
<1>2. main' \in Main /\ MainWorks' /\ RecoversAlone'
  BY Parts DEF brokerVars, BrokerTypeOK, MainWorks, RecoversAlone, Idle
<1> QED
  BY <1>1, <1>2, MainOnly DEF brokerVars
\* The main loop takes up a task: from the journal, from a launch, or from a
\* cancel of a task it has never heard of.
LEMMA RecoverRecordStep ==
  ASSUME BridgeIInv, NEW t \in Task, RecoverRecord(t)
  PROVE  BridgeIInv'
<1> DEFINE r == journal[t]
           mint == ~r.child /\ r.st # "terminal"
           rec == IF r.st = "terminal" THEN r ELSE Rec("terminal", r.child, "failed")
<1>1. /\ BrokerTypeOK /\ MainWorks /\ RecoversAlone /\ OneWorker
      /\ FreshRecord /\ RunsCounted /\ Outcomes
      /\ main.pc = "recover" /\ r \in Record /\ main \in Main
  BY Parts DEF RecoverRecord, BrokerTypeOK
<1>2. main.recovering /\ (\A u \in Task : Idle(u) /\ jobs["main"][u].step = "none")
  BY <1>1 DEF MainWorks, RecoversAlone
<1>3. rec \in Record /\ rec.st = "terminal" /\ rec.body # "none" /\ (rec.body = "done" => runs[t] = 1)
  BY <1>1, Records DEF Outcomes, Record, Body
<1>4. /\ main' \in Main /\ main'.recovering = main.recovering /\ main'.t = t /\ main'.why = "recover"
      /\ main'.pc = IF mint THEN "mint" ELSE "settle"
  BY <1>1 DEF RecoverRecord, Main, MainPc, Why
<1>5. jobs' = IF mint THEN jobs ELSE [jobs EXCEPT !["main"][t] = NewJob(rec)]
  BY DEF RecoverRecord
<1>6. /\ jobs' \in [Who -> [Task -> Job]]
      /\ \A w \in Who, u \in Task : <<w, u>> # <<"main", t>> => jobs'[w][u] = jobs[w][u]
      /\ mint => jobs'["main"][t] = jobs["main"][t]
      /\ ~mint => jobs'["main"][t].step = "put" /\ jobs'["main"][t].rec = rec
  BY <1>1, <1>3, <1>5, NewJobs DEF BrokerTypeOK, Who
<1>7. UNCHANGED <<ledgerVars, journal, active, cancelled, exec, runs, restarts>>
  BY DEF RecoverRecord
<1>8. BrokerTypeOK'
  BY <1>1, <1>4, <1>6, <1>7 DEF BrokerTypeOK
<1>9. \A u \in Task : Idle(u)'
  BY <1>2, <1>6, <1>7 DEF Idle, Who
<1>10. MainWorks'
  BY <1>1, <1>2, <1>4, <1>6, <1>9 DEF MainWorks, Who
<1>11. RecoversAlone' /\ OneWorker' /\ FreshRecord' /\ RunsCounted'
  BY <1>1, <1>7, <1>9 DEF RecoversAlone, OneWorker, FreshRecord, RunsCounted, Idle
<1>12. Outcomes'
  BY <1>1, <1>3, <1>6, <1>7 DEF Outcomes
<1>13. LedgerSide' /\ TypeOK' /\ Buried' /\ WorkAccepted'
  <2>1. LedgerSees({})
    BY <1>7 DEF LedgerSees
  <2>2. \A u \in Task, w \in Who : jobs'[w][u].step = "stone" => jobs[w][u].step = "stone"
    BY <1>6
  <2> QED
    BY <1>7, <2>1, <2>2, LedgerMeetsBroker
<1> QED
  BY <1>8, <1>10, <1>11, <1>12, <1>13 DEF BridgeIInv, BridgeTypeOK, BrokerSide, BrokerTypeOK

\* HandleLaunch keeps the invariant.
LEMMA HandleLaunchStep ==
  ASSUME BridgeIInv, NEW t \in Task, HandleLaunch(t)
  PROVE  BridgeIInv'
<1>1. /\ BrokerTypeOK /\ MainWorks /\ RecoversAlone /\ OneWorker
      /\ FreshRecord /\ RunsCounted /\ Outcomes
      /\ main.pc = "loop" /\ main.recovering = FALSE
      /\ \A u \in Task : jobs["main"][u].step = "none"
  BY Parts DEF HandleLaunch, MainWorks, BrokerTypeOK, Main
<1>2. UNCHANGED <<ledgerVars, cancelled, exec, runs, restarts>> /\ LedgerSees({})
  BY DEF HandleLaunch, LedgerSees
<1>3. CASE /\ journal[t].st # "none"
           /\ jobs' = IF journal[t].st = "terminal" /\ jobs["redo"][t].step = "none"
                        THEN [jobs EXCEPT !["redo"][t] = NewJob(journal[t])] ELSE jobs
           /\ main' = [main EXCEPT !.inbox = @ \ {<<"launch", t>>}]
           /\ UNCHANGED <<journal, active>>
  <2>1. main' \in Main /\ main'.pc = "loop" /\ main'.recovering = FALSE
    BY <1>1, <1>3 DEF BrokerTypeOK, Main
  <2>2. journal[t] \in Record
    BY <1>1 DEF BrokerTypeOK
  <2>3. /\ jobs' \in [Who -> [Task -> Job]]
        /\ \A w \in Who, u \in Task : jobs'[w][u] # jobs[w][u] =>
             /\ w = "redo" /\ u = t
             /\ journal[t].st = "terminal"
             /\ jobs'[w][u].step = "put" /\ jobs'[w][u].rec = journal[t]
    BY <1>1, <1>3, <2>2, NewJobs DEF BrokerTypeOK, Who
  <2>4. BrokerTypeOK'
    BY <1>1, <1>2, <1>3, <2>1, <2>3 DEF BrokerTypeOK
  <2>5. MainWorks' /\ RecoversAlone'
    BY <1>1, <2>1, <2>3 DEF MainWorks, RecoversAlone, Who
  <2>6. OneWorker'
    BY <1>1, <1>2, <1>3, <2>3 DEF OneWorker, Who
  <2>7. FreshRecord' /\ RunsCounted'
    BY <1>1, <1>2, <1>3, <2>3 DEF FreshRecord, RunsCounted, Idle, Who
  <2>8. Outcomes'
    BY <1>1, <1>2, <1>3, <2>3 DEF Outcomes
  <2>9. LedgerSide' /\ TypeOK' /\ Buried' /\ WorkAccepted'
    <3>1. \A u \in Task, w \in Who : jobs'[w][u].step = "stone" => jobs[w][u].step = "stone"
      BY <2>3
    <3> QED
      BY <1>2, <1>3, <3>1, LedgerMeetsBroker
  <2> QED
    BY <2>4, <2>5, <2>6, <2>7, <2>8, <2>9 DEF BridgeIInv, BridgeTypeOK, BrokerSide, BrokerTypeOK
<1>4. CASE /\ journal[t].st = "none"
           /\ active # {}
           /\ journal' = [journal EXCEPT ![t] = Rec("terminal", FALSE, "failed")]
           /\ main' = [main EXCEPT !.inbox = @ \ {<<"launch", t>>}, !.pc = "mint", !.t = t, !.why = "busy"]
           /\ UNCHANGED <<active, jobs>>
  <2>1. /\ main' \in Main /\ main'.pc = "mint" /\ main'.recovering = FALSE
        /\ main'.t = t /\ main'.why = "busy"
    BY <1>1, <1>4 DEF BrokerTypeOK, Main, MainPc, Why
  <2>2. /\ journal' \in [Task -> Record]
        /\ journal'[t].st = "terminal" /\ journal'[t].body = "failed"
        /\ \A u \in Task \ {t} : journal'[u] = journal[u]
    <3> DEFINE rec == Rec("terminal", FALSE, "failed")
    <3>1. rec \in Record /\ rec.st = "terminal" /\ rec.body = "failed"
      BY Written
    <3>2. journal \in [Task -> Record] /\ journal' = [journal EXCEPT ![t] = rec]
      BY <1>1, <1>4 DEF BrokerTypeOK
    <3> HIDE DEF rec
    <3> QED
      BY <3>1, <3>2, JournalWrite
  <2>3. BrokerTypeOK'
    BY <1>1, <1>2, <1>4, <2>1, <2>2 DEF BrokerTypeOK
  <2>4. Idle(t)
    BY <1>1, <1>4 DEF FreshRecord
  <2>5. MainWorks' /\ RecoversAlone'
    BY <1>1, <1>2, <1>4, <2>1, <2>2, <2>4 DEF MainWorks, RecoversAlone, Idle
  <2>6. OneWorker'
    BY <1>1, <1>2, <1>4, <2>2, <2>4 DEF OneWorker, Idle
  <2>7. FreshRecord' /\ RunsCounted'
    BY <1>1, <1>2, <1>4, <2>2 DEF FreshRecord, RunsCounted, Idle
  <2>8. Outcomes'
    BY <1>1, <1>2, <1>4, <2>2 DEF Outcomes
  <2>9. LedgerSide' /\ TypeOK' /\ Buried' /\ WorkAccepted'
    <3>1. \A u \in Task : journal'[u].st = "delivered" => journal[u].st = "delivered"
      BY <2>2
    <3> QED
      BY <1>2, <1>4, <3>1, LedgerMeetsBroker
  <2> QED
    BY <2>3, <2>5, <2>6, <2>7, <2>8, <2>9 DEF BridgeIInv, BridgeTypeOK, BrokerSide, BrokerTypeOK
<1>5. CASE /\ journal[t].st = "none"
           /\ active = {}
           /\ journal' = [journal EXCEPT ![t] = Rec("received", FALSE, "none")]
           /\ active' = {t}
           /\ main' = [main EXCEPT !.inbox = @ \ {<<"launch", t>>}, !.pc = "mint", !.t = t, !.why = "launch"]
           /\ UNCHANGED jobs
  <2>1. /\ main' \in Main /\ main'.pc = "mint" /\ main'.recovering = FALSE
        /\ main'.t = t /\ main'.why = "launch"
    BY <1>1, <1>5 DEF BrokerTypeOK, Main, MainPc, Why
  <2>2. /\ journal' \in [Task -> Record]
        /\ journal'[t].st = "received" /\ journal'[t].body = "none"
        /\ \A u \in Task \ {t} : journal'[u] = journal[u]
    <3> DEFINE rec == Rec("received", FALSE, "none")
    <3>1. rec \in Record /\ rec.st = "received" /\ rec.body = "none"
      BY Written
    <3>2. journal \in [Task -> Record] /\ journal' = [journal EXCEPT ![t] = rec]
      BY <1>1, <1>5 DEF BrokerTypeOK
    <3> HIDE DEF rec
    <3> QED
      BY <3>1, <3>2, JournalWrite
  <2>3. BrokerTypeOK'
    BY <1>1, <1>2, <1>5, <2>1, <2>2 DEF BrokerTypeOK
  <2>4. Idle(t)
    BY <1>1, <1>5 DEF FreshRecord
  <2>5. MainWorks' /\ RecoversAlone'
    BY <1>1, <1>2, <1>5, <2>1, <2>2, <2>4 DEF MainWorks, RecoversAlone, Idle
  <2>6. OneWorker'
    BY <1>1, <1>2, <1>5, <2>2, <2>4 DEF OneWorker, Idle
  <2>7. FreshRecord' /\ RunsCounted'
    BY <1>1, <1>2, <1>5, <2>2 DEF FreshRecord, RunsCounted, Idle
  <2>8. Outcomes'
    BY <1>1, <1>2, <1>5, <2>2 DEF Outcomes
  <2>9. LedgerSide' /\ TypeOK' /\ Buried' /\ WorkAccepted'
    <3>1. \A u \in Task : journal'[u].st = "delivered" => journal[u].st = "delivered"
      BY <2>2
    <3> QED
      BY <1>2, <1>5, <3>1, LedgerMeetsBroker
  <2> QED
    BY <2>3, <2>5, <2>6, <2>7, <2>8, <2>9 DEF BridgeIInv, BridgeTypeOK, BrokerSide, BrokerTypeOK
<1> QED
  BY <1>3, <1>4, <1>5 DEF HandleLaunch
\* The main loop begins to settle a task nobody else is busy with.
LEMMA SettleStep ==
  ASSUME BridgeIInv, NEW t \in Task, NEW rec \in Record, LedgerSees({}),
         rec.st = "terminal", rec.body = "failed", Idle(t),
         \A u \in Task : jobs["main"][u].step = "none",
         jobs' = [jobs EXCEPT !["main"][t] = NewJob(rec)],
         main' \in Main, main'.pc = "settle", main'.t = t, main'.recovering = main.recovering,
         main.pc # "stop",
         active' \subseteq active, cancelled' \subseteq active',
         \A u \in Task : exec[u].pc # "none" \/ jobs["exec"][u].step # "none" => active' = active,
         UNCHANGED <<journal, exec, runs, restarts>>
  PROVE  BridgeIInv'
<1>1. /\ BrokerTypeOK /\ MainWorks /\ RecoversAlone /\ OneWorker
      /\ FreshRecord /\ RunsCounted /\ Outcomes
  BY Parts
<1>2. /\ jobs' \in [Who -> [Task -> Job]]
      /\ \A w \in Who, u \in Task : <<w, u>> # <<"main", t>> => jobs'[w][u] = jobs[w][u]
      /\ jobs'["main"][t].step = "put" /\ jobs'["main"][t].rec = rec
  BY <1>1, NewJobs DEF BrokerTypeOK, Who
<1>3. BrokerTypeOK'
  BY <1>1, <1>2 DEF BrokerTypeOK
<1>4. \A u \in Task : Idle(u)' <=> Idle(u)
  BY <1>2 DEF Idle, Who
<1>5. MainWorks' /\ RecoversAlone'
  BY <1>1, <1>2, <1>4 DEF MainWorks, RecoversAlone, Who
<1>6. OneWorker'
  BY <1>1, <1>2 DEF OneWorker, Idle, Who
<1>7. FreshRecord' /\ RunsCounted'
  BY <1>1, <1>4 DEF FreshRecord, RunsCounted
<1>8. Outcomes'
  BY <1>1, <1>2 DEF Outcomes
<1>9. LedgerSide' /\ TypeOK' /\ Buried' /\ WorkAccepted'
  <2>1. \A u \in Task, w \in Who : jobs'[w][u].step = "stone" => jobs[w][u].step = "stone"
    BY <1>2
  <2> QED
    BY <2>1, LedgerMeetsBroker
<1> QED
  BY <1>3, <1>5, <1>6, <1>7, <1>8, <1>9 DEF BridgeIInv, BridgeTypeOK, BrokerSide, BrokerTypeOK

\* HandleCancel keeps the invariant.
LEMMA HandleCancelStep ==
  ASSUME BridgeIInv, NEW t \in Task, HandleCancel(t)
  PROVE  BridgeIInv'
<1>1. /\ BrokerTypeOK /\ MainWorks /\ RecoversAlone /\ OneWorker
      /\ FreshRecord /\ RunsCounted /\ Outcomes
      /\ main \in Main /\ main.pc = "loop" /\ main.recovering = FALSE
      /\ \A u \in Task : jobs["main"][u].step = "none"
  BY Parts DEF HandleCancel, MainWorks, BrokerTypeOK, Main
<1>2. UNCHANGED <<ledgerVars, journal, active, exec, runs, restarts>> /\ LedgerSees({})
  BY DEF HandleCancel, LedgerSees
<1>3. CASE journal[t].st = "none"
  <2>1. /\ Rec("terminal", FALSE, "failed") \in Record
        /\ Rec("terminal", FALSE, "failed").st = "terminal"
        /\ Rec("terminal", FALSE, "failed").body = "failed"
    BY Records DEF Body
  <2>2. Idle(t)
    BY <1>1, <1>3 DEF FreshRecord
  <2>3. /\ jobs' = [jobs EXCEPT !["main"][t] = NewJob(Rec("terminal", FALSE, "failed"))]
        /\ main' = [main EXCEPT !.inbox = @ \ {<<"cancel", t>>}, !.pc = "settle", !.t = t]
        /\ cancelled' = cancelled
    BY <1>3 DEF HandleCancel
  <2>4. /\ main' \in Main /\ main'.pc = "settle" /\ main'.t = t
        /\ main'.recovering = main.recovering
    BY <1>1, <2>3 DEF Main, MainPc
  <2>5. active' \subseteq active /\ cancelled' \subseteq active'
    BY <1>1, <1>2, <2>3 DEF BrokerTypeOK
  <2> QED
    BY <1>1, <1>2, <2>1, <2>2, <2>3, <2>4, <2>5, SettleStep
<1>4. CASE journal[t].st # "none"
  <2>1. jobs' = jobs /\ main' = [main EXCEPT !.inbox = @ \ {<<"cancel", t>>}]
    BY <1>4 DEF HandleCancel
  <2>2. cancelled' \subseteq active
    <3>1. cancelled' = cancelled \/ cancelled' = cancelled \cup (active \cap {t})
      BY <1>4 DEF HandleCancel
    <3> QED
      BY <1>1, <3>1 DEF BrokerTypeOK
  <2>3. main' \in Main /\ main'.pc = "loop" /\ main'.recovering = FALSE
    BY <1>1, <2>1 DEF Main
  <2>4. BrokerTypeOK'
    BY <1>1, <1>2, <2>1, <2>2, <2>3 DEF BrokerTypeOK
  <2>5. MainWorks' /\ RecoversAlone'
    BY <1>1, <2>1, <2>3 DEF MainWorks, RecoversAlone
  <2>6. OneWorker' /\ FreshRecord' /\ RunsCounted' /\ Outcomes'
    BY <1>1, <1>2, <2>1 DEF OneWorker, FreshRecord, RunsCounted, Outcomes, Idle
  <2>7. LedgerSide' /\ TypeOK' /\ Buried' /\ WorkAccepted'
    BY <1>2, <2>1, LedgerMeetsBroker
  <2> QED
    BY <2>4, <2>5, <2>6, <2>7 DEF BridgeIInv, BridgeTypeOK, BrokerSide, BrokerTypeOK
<1> QED
  BY <1>3, <1>4

\* A child is minted, or not.
LEMMA RegisterChildSeen ==
  ASSUME BridgeIInv, NEW heard \in BOOLEAN, RegisterChild(heard)
  PROVE  LedgerSees({}) /\ main.t \in Task
<1>1. main.t \in Task
  BY Parts DEF RegisterChild, MainWorks
<1>2. ReissueEyesChild(Broker, main.t) \/ UNCHANGED ledgerVars
  BY DEF RegisterChild
<1> QED
  BY <1>1, <1>2 DEF LedgerSees

\* RegisterChild, when the child is minted, keeps the invariant.
LEMMA MintedStep ==
  ASSUME BridgeIInv, NEW t \in Task, main.pc = "mint", main.t = t, Minted(t),
         LedgerSees({}), UNCHANGED <<runs, restarts>>
  PROVE  BridgeIInv'
<1>1. /\ BrokerTypeOK /\ MainWorks /\ RecoversAlone /\ OneWorker
      /\ FreshRecord /\ RunsCounted /\ Outcomes
      /\ main \in Main /\ main.why \in Why /\ main.recovering \in BOOLEAN
  BY Parts DEF BrokerTypeOK, Main
<1>2. /\ Idle(t) /\ (main.why = "recover" <=> main.recovering)
      /\ \A u \in Task : jobs["main"][u].step = "none"
      /\ main.why = "launch" => journal[t].st = "received" /\ active = {t}
      /\ main.why = "busy" => journal[t].st = "terminal"
  BY <1>1 DEF MainWorks
<1>3. UNCHANGED <<active, cancelled>>
  BY DEF Minted
<1>4. CASE main.why = "launch"
  <2>1. /\ journal' = [journal EXCEPT ![t] = Rec("accepted", TRUE, "none")]
        /\ exec' = [exec EXCEPT ![t].pc = "accept"]
        /\ jobs' = jobs /\ main' = Resume
    BY <1>4 DEF Minted
  <2>2. /\ journal' \in [Task -> Record]
        /\ journal'[t].st = "accepted" /\ journal'[t].body = "none"
        /\ \A u \in Task \ {t} : journal'[u] = journal[u]
    <3> DEFINE rec == Rec("accepted", TRUE, "none")
    <3>1. rec \in Record /\ rec.st = "accepted" /\ rec.body = "none"
      BY Written
    <3>2. journal \in [Task -> Record] /\ journal' = [journal EXCEPT ![t] = rec]
      BY <1>1, <2>1 DEF BrokerTypeOK
    <3> HIDE DEF rec
    <3> QED
      BY <3>1, <3>2, JournalWrite
  <2>3. /\ exec' \in [Task -> Exec] /\ exec'[t].pc = "accept"
        /\ \A u \in Task \ {t} : exec'[u] = exec[u]
    BY <1>1, <2>1 DEF BrokerTypeOK, Exec
  <2>4. main' \in Main /\ main'.pc = "loop" /\ main'.recovering = FALSE
    BY <1>1, <1>2, <1>4, <2>1 DEF Resume, Main, MainPc
  <2>5. BrokerTypeOK'
    BY <1>1, <1>3, <2>1, <2>2, <2>3, <2>4 DEF BrokerTypeOK
  <2>6. MainWorks' /\ RecoversAlone'
    BY <1>2, <2>1, <2>4 DEF MainWorks, RecoversAlone
  <2>7. runs[t] = 0
    BY <1>1, <1>2, <1>4 DEF FreshRecord
  <2>8. OneWorker'
    <3>1. \A w \in Who : jobs[w][t].step = "none"
      BY <1>2 DEF Idle, Who
    <3>2. active = {t} /\ OneWorker
      BY <1>1, <1>2, <1>4
    <3>3. \A u \in Task \ {t} : exec[u].pc = "none" /\ jobs["exec"][u].step = "none"
      BY <3>2 DEF OneWorker
    <3>4. active' = {t} /\ jobs' = jobs
      BY <1>3, <2>1, <3>2
    <3>5. \A u \in Task \ {t} : exec'[u].pc = "none" /\ jobs'["exec"][u].step = "none"
      BY <2>3, <3>3, <3>4
    <3> QED
      BY <2>2, <3>1, <3>4, <3>5 DEF OneWorker
  <2>9. FreshRecord' /\ RunsCounted'
    BY <1>1, <2>1, <2>2, <2>3, <2>7 DEF FreshRecord, RunsCounted, Idle
  <2>10. Outcomes'
    BY <1>1, <2>1, <2>2 DEF Outcomes
  <2>11. LedgerSide' /\ TypeOK' /\ Buried' /\ WorkAccepted'
    <3>1. \A u \in Task : journal'[u].st = "delivered" => journal[u].st = "delivered"
      BY <2>2
    <3>2. \A u \in Task : exec'[u].pc \in {"run", "provider"} => exec[u].pc \in {"run", "provider"}
      BY <2>3
    <3> QED
      BY <2>1, <3>1, <3>2, LedgerMeetsBroker
  <2> QED
    BY <2>5, <2>6, <2>8, <2>9, <2>10, <2>11
    DEF BridgeIInv, BridgeTypeOK, BrokerSide, BrokerTypeOK
<1>5. CASE main.why = "busy"
  <2>1. /\ journal' = [journal EXCEPT ![t].child = TRUE]
        /\ exec' = exec
        /\ jobs' = [jobs EXCEPT !["redo"][t] = NewJob(journal'[t])]
        /\ main' = Resume
    BY <1>5 DEF Minted
  <2>2. /\ journal' \in [Task -> Record]
        /\ journal'[t].st = "terminal" /\ journal'[t].body = journal[t].body
        /\ \A u \in Task \ {t} : journal'[u] = journal[u]
    BY <1>1, <1>2, <1>5, <2>1 DEF BrokerTypeOK, Record
  <2>3. /\ jobs' \in [Who -> [Task -> Job]]
        /\ \A w \in Who, u \in Task : <<w, u>> # <<"redo", t>> => jobs'[w][u] = jobs[w][u]
        /\ jobs'["redo"][t].step = "put" /\ jobs'["redo"][t].rec = journal'[t]
    BY <1>1, <2>1, <2>2, NewJobs DEF BrokerTypeOK, Who
  <2>4. main' \in Main /\ main'.pc = "loop" /\ main'.recovering = FALSE
    BY <1>1, <1>2, <1>5, <2>1 DEF Resume, Main, MainPc
  <2>5. BrokerTypeOK'
    BY <1>1, <1>3, <2>1, <2>2, <2>3, <2>4 DEF BrokerTypeOK
  <2>6. MainWorks' /\ RecoversAlone'
    BY <1>2, <2>3, <2>4 DEF MainWorks, RecoversAlone, Who
  <2>7. OneWorker'
    BY <1>1, <1>2, <1>3, <2>1, <2>2, <2>3 DEF OneWorker, Idle, Who
  <2>8. FreshRecord' /\ RunsCounted'
    BY <1>1, <2>1, <2>2, <2>3 DEF FreshRecord, RunsCounted, Idle, Who
  <2>9. Outcomes'
    BY <1>1, <1>2, <1>5, <2>2, <2>3 DEF Outcomes
  <2>10. LedgerSide' /\ TypeOK' /\ Buried' /\ WorkAccepted'
    <3>1. \A u \in Task : journal'[u].st = "delivered" => journal[u].st = "delivered"
      BY <2>2
    <3>2. \A u \in Task, w \in Who : jobs'[w][u].step = "stone" => jobs[w][u].step = "stone"
      BY <2>3
    <3> QED
      BY <2>1, <3>1, <3>2, LedgerMeetsBroker
  <2> QED
    BY <2>5, <2>6, <2>7, <2>8, <2>9, <2>10
    DEF BridgeIInv, BridgeTypeOK, BrokerSide, BrokerTypeOK
<1>6. CASE main.why = "recover"
  <2>1. /\ Rec("terminal", TRUE, "failed") \in Record
        /\ Rec("terminal", TRUE, "failed").st = "terminal"
        /\ Rec("terminal", TRUE, "failed").body = "failed"
    BY Records DEF Body
  <2>2. /\ journal' = journal /\ exec' = exec
        /\ jobs' = [jobs EXCEPT !["main"][t] = NewJob(Rec("terminal", TRUE, "failed"))]
        /\ main' = [main EXCEPT !.pc = "settle"]
    BY <1>6 DEF Minted
  <2>3. main' \in Main /\ main'.pc = "settle" /\ main'.t = t /\ main'.recovering = main.recovering
    BY <1>1, <2>2 DEF Main, MainPc
  <2>4. active' \subseteq active /\ cancelled' \subseteq active'
    BY <1>1, <1>3 DEF BrokerTypeOK
  <2> QED
    BY <1>2, <1>3, <2>1, <2>2, <2>3, <2>4, SettleStep
<1> QED
  BY <1>1, <1>4, <1>5, <1>6 DEF Why

\* RegisterChild, when no child is minted, keeps the invariant.
LEMMA NotMintedStep ==
  ASSUME BridgeIInv, NEW t \in Task, main.pc = "mint", main.t = t, NotMinted(t),
         LedgerSees({}), UNCHANGED <<runs, restarts>>
  PROVE  BridgeIInv'
<1>1. /\ BrokerTypeOK /\ MainWorks /\ OneWorker /\ main \in Main
  BY Parts DEF BrokerTypeOK
<1>2. /\ Idle(t)
      /\ \A u \in Task : jobs["main"][u].step = "none"
      /\ main.why = "launch" => active = {t}
  BY <1>1 DEF MainWorks
<1>3. /\ Rec("terminal", FALSE, "failed") \in Record
      /\ Rec("terminal", FALSE, "failed").st = "terminal"
      /\ Rec("terminal", FALSE, "failed").body = "failed"
  BY Records DEF Body
<1>4. /\ jobs' = [jobs EXCEPT !["main"][t] = NewJob(Rec("terminal", FALSE, "failed"))]
      /\ main' = [main EXCEPT !.pc = "settle"]
      /\ UNCHANGED <<journal, exec>>
  BY DEF NotMinted
<1>5. main' \in Main /\ main'.pc = "settle" /\ main'.t = t /\ main'.recovering = main.recovering
  BY <1>1, <1>4 DEF Main, MainPc
<1>6. CASE main.why = "launch"
  <2>1. active' = active \ {t} /\ cancelled' = cancelled \ {t}
    BY <1>6 DEF NotMinted, Freed
  <2>2. \A u \in Task : exec[u].pc = "none" /\ jobs["exec"][u].step = "none"
    BY <1>1, <1>2, <1>6 DEF OneWorker, Idle
  <2> QED
    BY <1>1, <1>2, <1>3, <1>4, <1>5, <2>1, <2>2, SettleStep DEF BrokerTypeOK
<1>7. CASE main.why # "launch"
  <2>1. active' = active \ {NoSession} /\ cancelled' = cancelled \ {NoSession}
    BY <1>7 DEF NotMinted, Freed
  <2>2. NoSession \notin active /\ NoSession \notin cancelled
    BY <1>1, SetsAssumption DEF BrokerTypeOK, Agent
  <2>3. active' = active /\ cancelled' = cancelled
    BY <2>1, <2>2
  <2> QED
    BY <1>1, <1>2, <1>3, <1>4, <1>5, <2>3, SettleStep DEF BrokerTypeOK
<1> QED
  BY <1>6, <1>7
\* RegisterChild keeps the invariant.
LEMMA RegisterChildStep ==
  ASSUME BridgeIInv, NEW heard \in BOOLEAN, RegisterChild(heard)
  PROVE  BridgeIInv'
<1>1. LedgerSees({}) /\ main.t \in Task /\ main.pc = "mint" /\ UNCHANGED <<runs, restarts>>
  BY RegisterChildSeen DEF RegisterChild
<1>2. CASE UNCHANGED <<journal, main, active, cancelled, exec, jobs>>
  <2>1. main' \in Main /\ MainWorks' /\ RecoversAlone'
    BY <1>2, Parts DEF BrokerTypeOK, MainWorks, RecoversAlone, Idle
  <2> QED
    BY <1>1, <1>2, <2>1, MainOnly
<1>3. CASE Minted(main.t)
  BY <1>1, <1>3, MintedStep
<1>4. CASE NotMinted(main.t)
  BY <1>1, <1>4, NotMintedStep
<1> QED
  BY <1>2, <1>3, <1>4 DEF RegisterChild

-----------------------------------------------------------------------------
(* The worker *)

\* The facts about a task that is being worked on.
LEMMA AtWork ==
  ASSUME BridgeIInv, NEW t \in Task, exec[t].pc # "none"
  PROVE  /\ active = {t} /\ journal[t].st = "accepted"
         /\ \A w \in Who : jobs[w][t].step = "none"
         /\ \A u \in Task \ {t} : exec[u].pc = "none" /\ jobs["exec"][u].step = "none"
         /\ ~main.recovering \/ main.pc = "stop"
         /\ main.pc = "mint" => main.t # t /\ main.why # "launch"
<1>1. OneWorker /\ RecoversAlone /\ MainWorks
  BY Parts
<1>2. /\ active = {t} /\ journal[t].st = "accepted"
      /\ \A w \in Who : jobs[w][t].step = "none"
  BY <1>1 DEF OneWorker
<1>3. \A u \in Task \ {t} : exec[u].pc = "none" /\ jobs["exec"][u].step = "none"
  BY <1>1, <1>2 DEF OneWorker
<1>4. ~main.recovering \/ main.pc = "stop"
  BY <1>1 DEF RecoversAlone, Idle
<1>5. main.pc = "mint" => main.t # t /\ main.why # "launch"
  BY <1>1, <1>2 DEF MainWorks, Idle
<1> QED
  BY <1>2, <1>3, <1>4, <1>5

\* The worker goes on to its next step: the broker still answers for the task.
LEMMA WorkerGoesOn ==
  ASSUME BridgeIInv, NEW t \in Task, NEW S \in SUBSET {t}, LedgerSees(S),
         exec[t].pc # "none",
         NEW e \in Exec, exec' = [exec EXCEPT ![t] = e], e.pc # "none",
         runs' \in [Task -> Nat], \A u \in Task \ {t} : runs'[u] = runs[u],
         e.pc \in {"accept", "run"} => runs'[t] = 0,
         e.pc = "provider" => runs'[t] = 1,
         e.pc \in {"run", "provider"} =>
           \/ exec[t].pc \in {"run", "provider"} /\ S = {}
           \/ task'[t].state = "accepted",
         journal[t].body # "done",
         UNCHANGED <<journal, main, active, cancelled, jobs, restarts>>
  PROVE  BridgeIInv'
<1>1. /\ BrokerTypeOK /\ MainWorks /\ RecoversAlone /\ OneWorker
      /\ FreshRecord /\ RunsCounted /\ Outcomes
  BY Parts
<1>2. /\ active = {t} /\ journal[t].st = "accepted"
      /\ \A w \in Who : jobs[w][t].step = "none"
      /\ \A u \in Task \ {t} : exec[u].pc = "none" /\ jobs["exec"][u].step = "none"
      /\ ~main.recovering \/ main.pc = "stop"
      /\ main.pc = "mint" => main.t # t /\ main.why # "launch"
  BY AtWork
<1>3. /\ exec' \in [Task -> Exec] /\ exec'[t] = e
      /\ \A u \in Task \ {t} : exec'[u] = exec[u]
  BY <1>1 DEF BrokerTypeOK
<1>4. BrokerTypeOK'
  BY <1>1, <1>3 DEF BrokerTypeOK
<1>5. \A u \in Task \ {t} : Idle(u)' <=> Idle(u)
  BY <1>3 DEF Idle
<1>6. MainWorks'
  BY <1>1, <1>2, <1>5 DEF MainWorks
<1>7. RecoversAlone'
  BY <1>2 DEF RecoversAlone
<1>8. OneWorker'
  BY <1>1, <1>2, <1>3 DEF OneWorker
<1>9. FreshRecord'
  BY <1>1, <1>2, <1>5 DEF FreshRecord
<1>10. RunsCounted'
  <2>1. e.pc \in {"accept", "run", "provider"}
    BY DEF Exec
  <2> QED
    BY <1>1, <1>3, <2>1 DEF RunsCounted
<1>11. Outcomes'
  BY <1>1, <1>2 DEF Outcomes
<1>12. LedgerSide' /\ TypeOK' /\ Buried' /\ WorkAccepted'
  <2>1. \A u \in Task : exec'[u].pc \in {"run", "provider"} =>
          \/ exec[u].pc \in {"run", "provider"} /\ u \notin S
          \/ task'[u].state = "accepted"
    BY <1>2, <1>3
  <2> QED
    BY <2>1, LedgerMeetsBroker
<1> QED
  BY <1>4, <1>6, <1>7, <1>8, <1>9, <1>10, <1>11, <1>12
  DEF BridgeIInv, BridgeTypeOK, BrokerSide, BrokerTypeOK

\* The worker hands the outcome over.
LEMMA ReportStep ==
  ASSUME BridgeIInv, NEW t \in Task, NEW S \in SUBSET {t}, LedgerSees(S),
         exec[t].pc # "none", NEW body \in {"done", "failed"},
         body = "done" => exec[t].pc = "provider", Report(t, body),
         UNCHANGED <<journal, main, active, cancelled, runs, restarts>>
  PROVE  BridgeIInv'
<1>1. /\ BrokerTypeOK /\ MainWorks /\ RecoversAlone /\ OneWorker
      /\ FreshRecord /\ RunsCounted /\ Outcomes
  BY Parts
<1>2. /\ active = {t} /\ journal[t].st = "accepted"
      /\ \A w \in Who : jobs[w][t].step = "none"
      /\ \A u \in Task \ {t} : exec[u].pc = "none" /\ jobs["exec"][u].step = "none"
      /\ ~main.recovering \/ main.pc = "stop"
      /\ main.pc = "mint" => main.t # t /\ main.why # "launch"
  BY AtWork
<1>3. /\ exec' \in [Task -> Exec] /\ \A u \in Task : exec'[u].pc = "none"
  BY <1>1, <1>2, Nothings DEF BrokerTypeOK, Report
<1>4. /\ Rec("terminal", TRUE, body) \in Record
      /\ Rec("terminal", TRUE, body).st = "terminal"
      /\ Rec("terminal", TRUE, body).body = body
  BY Written
<1>5. /\ jobs' \in [Who -> [Task -> Job]]
      /\ \A w \in Who, u \in Task : <<w, u>> # <<"exec", t>> => jobs'[w][u] = jobs[w][u]
      /\ jobs'["exec"][t].step = "put" /\ jobs'["exec"][t].rec = Rec("terminal", TRUE, body)
  BY <1>1, <1>4, NewJobs DEF BrokerTypeOK, Report, Who
<1>6. BrokerTypeOK'
  BY <1>1, <1>3, <1>5 DEF BrokerTypeOK
<1>7. \A u \in Task \ {t} : Idle(u)' <=> Idle(u)
  BY <1>2, <1>3, <1>5 DEF Idle, Who
<1>8. MainWorks'
  BY <1>1, <1>2, <1>5, <1>7 DEF MainWorks, Who
<1>9. RecoversAlone'
  BY <1>2 DEF RecoversAlone
<1>10. OneWorker'
  BY <1>2, <1>3, <1>5 DEF OneWorker, Who
<1>11. FreshRecord'
  BY <1>1, <1>2, <1>7 DEF FreshRecord
<1>12. RunsCounted' /\ (body = "done" => runs[t] = 1)
  BY <1>1, <1>3 DEF RunsCounted
<1>13. Outcomes'
  <2>1. ASSUME NEW w \in Who, NEW u \in Task, jobs'[w][u].step # "none"
        PROVE  /\ jobs'[w][u].rec.st = "terminal" /\ jobs'[w][u].rec.body # "none"
               /\ jobs'[w][u].rec.body = "done" => runs'[u] = 1
    <3>1. CASE <<w, u>> = <<"exec", t>>
      BY <1>4, <1>5, <1>12, <3>1
    <3>2. CASE <<w, u>> # <<"exec", t>>
      <4>1. jobs'[w][u] = jobs[w][u]
        BY <1>5, <3>2
      <4> QED
        BY <1>1, <2>1, <4>1 DEF Outcomes
    <3> QED
      BY <3>1, <3>2
  <2> QED
    BY <1>1, <2>1 DEF Outcomes
<1>14. LedgerSide' /\ TypeOK' /\ Buried' /\ WorkAccepted'
  <2>1. \A u \in Task, w \in Who : jobs'[w][u].step = "stone" => jobs[w][u].step = "stone"
    BY <1>5
  <2>2. \A u \in Task : exec'[u].pc \notin {"run", "provider"}
    BY <1>3
  <2> QED
    BY <2>1, <2>2, LedgerMeetsBroker
<1> QED
  BY <1>6, <1>8, <1>9, <1>10, <1>11, <1>12, <1>13, <1>14
  DEF BridgeIInv, BridgeTypeOK, BrokerSide, BrokerTypeOK
\* SendAccepted keeps the invariant.
LEMMA SendAcceptedStep ==
  ASSUME BridgeIInv, NEW t \in Task, NEW heard \in BOOLEAN, SendAccepted(t, heard)
  PROVE  BridgeIInv'
<1>1. /\ LedgerSide /\ BrokerTypeOK /\ exec[t].pc = "accept" /\ exec[t] \in Exec
      /\ runs[t] = 0 /\ runs \in [Task -> Nat] /\ journal[t].body # "done"
  BY Parts DEF SendAccepted, BrokerTypeOK, RunsCounted, Outcomes
<1>2. UNCHANGED <<now, hk, journal, main, active, cancelled, runs, restarts>>
  BY DEF SendAccepted
<1>3. Reported(Broker, t, "accepted") /\ LedgerSees({t})
  BY <1>1, ReportedSeen DEF SendAccepted
<1>4. CASE UNCHANGED <<exec, jobs>>
  <2>1. exec' = [exec EXCEPT ![t] = exec[t]]
    BY <1>1, <1>4 DEF BrokerTypeOK
  <2> QED
    BY <1>1, <1>2, <1>3, <1>4, <2>1, WorkerGoesOn
<1>5. CASE /\ ReportOK(Broker, t, "accepted")
           /\ exec' = [exec EXCEPT ![t].pc = "run"] /\ UNCHANGED jobs
  <2>1. task'[t].state = "accepted"
    BY <1>1, <1>3, <1>5, AcceptOK
  <2>2. /\ exec' = [exec EXCEPT ![t] = [exec[t] EXCEPT !.pc = "run"]]
        /\ [exec[t] EXCEPT !.pc = "run"] \in Exec
        /\ [exec[t] EXCEPT !.pc = "run"].pc = "run"
    BY <1>1, <1>5 DEF Exec
  <2> QED
    BY <1>1, <1>2, <1>3, <1>5, <2>1, <2>2, WorkerGoesOn
<1>6. CASE Report(t, "failed")
  BY <1>1, <1>2, <1>3, <1>6, ReportStep
<1> QED
  BY <1>4, <1>5, <1>6 DEF SendAccepted

\* AcceptInterrupted keeps the invariant.
LEMMA AcceptInterruptedStep ==
  ASSUME BridgeIInv, NEW t \in Task, AcceptInterrupted(t)
  PROVE  BridgeIInv'
<1>1. LedgerSees({})
  BY DEF AcceptInterrupted, LedgerSees
<1> QED
  BY <1>1, ReportStep DEF AcceptInterrupted

\* RunProvider keeps the invariant.
LEMMA RunProviderStep ==
  ASSUME BridgeIInv, NEW t \in Task, NEW starts \in BOOLEAN, RunProvider(t, starts)
  PROVE  BridgeIInv'
<1>1. /\ exec[t].pc = "run" /\ LedgerSees({})
      /\ UNCHANGED <<journal, main, active, cancelled, restarts>>
  BY DEF RunProvider, LedgerSees
<1>2. CASE starts
  <2>1. /\ runs[t] = 0 /\ runs \in [Task -> Nat] /\ journal[t].body # "done" /\ now \in Nat
    BY <1>1, Parts DEF BrokerTypeOK, RunsCounted, Outcomes, TypeOK
  <2>2. /\ exec' = [exec EXCEPT ![t] = [pc |-> "provider", since |-> now]]
        /\ runs' = [runs EXCEPT ![t] = @ + 1] /\ UNCHANGED jobs
    BY <1>2 DEF RunProvider
  <2>3. [pc |-> "provider", since |-> now] \in Exec
    BY <2>1 DEF Exec
  <2>4. /\ runs' \in [Task -> Nat] /\ runs'[t] = 1
        /\ \A u \in Task \ {t} : runs'[u] = runs[u]
    BY <2>1, <2>2
  <2> QED
    BY <1>1, <2>1, <2>2, <2>3, <2>4, WorkerGoesOn
<1>3. CASE ~starts
  <2>1. Report(t, "failed") /\ UNCHANGED runs
    BY <1>3 DEF RunProvider
  <2> QED
    BY <1>1, <2>1, ReportStep
<1> QED
  BY <1>2, <1>3

\* ProviderEnds keeps the invariant.
LEMMA ProviderEndsStep ==
  ASSUME BridgeIInv, NEW t \in Task, NEW body \in {"done", "failed"}, ProviderEnds(t, body)
  PROVE  BridgeIInv'
<1>1. LedgerSees({})
  BY DEF ProviderEnds, LedgerSees
<1> QED
  BY <1>1, ReportStep DEF ProviderEnds

-----------------------------------------------------------------------------
(* superviseTerminal *)

\* The facts about a task that is being reported on.
LEMMA AtReport ==
  ASSUME BridgeIInv, NEW w \in Who, NEW t \in Task, jobs[w][t].step # "none"
  PROVE  /\ exec[t].pc = "none"
         /\ jobs[w][t].rec.st = "terminal" /\ jobs[w][t].rec \in Record
         /\ jobs[w][t].rec.body \in {"done", "failed"}
         /\ jobs[w][t].rec.body = "done" => runs[t] = 1
         /\ w # "main" => ~main.recovering \/ main.pc = "stop"
         /\ w = "main" => main.pc = "settle" /\ main.t = t
         /\ main.pc = "mint" => main.t # t
<1>1. /\ BrokerTypeOK /\ MainWorks /\ RecoversAlone /\ OneWorker /\ Outcomes
  BY Parts
<1>2. exec[t].pc = "none"
  BY <1>1 DEF OneWorker
<1>3. jobs[w][t] \in Job
  BY <1>1 DEF BrokerTypeOK
<1>4. /\ jobs[w][t].rec.st = "terminal" /\ jobs[w][t].rec \in Record
      /\ jobs[w][t].rec.body \in {"done", "failed"}
      /\ jobs[w][t].rec.body = "done" => runs[t] = 1
  BY <1>1, <1>3 DEF Outcomes, Job, Record, Body
<1>5. w # "main" => ~main.recovering \/ main.pc = "stop"
  BY <1>1 DEF RecoversAlone, Idle, Who
<1>6. w = "main" => main.pc = "settle" /\ main.t = t
  BY <1>1 DEF MainWorks
<1>7. main.pc = "mint" => main.t # t
  BY <1>1, <1>6 DEF MainWorks, Idle, Who
<1> QED
  BY <1>2, <1>4, <1>5, <1>6, <1>7

\* A report takes its next step: it is written down, or sent.
LEMMA JobGoesOn ==
  ASSUME BridgeIInv, NEW w \in Who, NEW t \in Task, NEW S \in SUBSET {t}, LedgerSees(S),
         jobs[w][t].step # "none", NEW s \in {"put", "send", "stone"},
         jobs' = [jobs EXCEPT ![w][t].step = s],
         s = "stone" => Settled(t)',
         journal' \in {journal, [journal EXCEPT ![t] = jobs[w][t].rec]},
         UNCHANGED <<main, active, cancelled, exec, runs, restarts>>
  PROVE  BridgeIInv'
<1>1. /\ BrokerTypeOK /\ MainWorks /\ RecoversAlone /\ OneWorker
      /\ FreshRecord /\ RunsCounted /\ Outcomes
  BY Parts
<1>2. /\ exec[t].pc = "none"
      /\ jobs[w][t].rec.st = "terminal" /\ jobs[w][t].rec \in Record
      /\ jobs[w][t].rec.body \in {"done", "failed"}
      /\ jobs[w][t].rec.body = "done" => runs[t] = 1
      /\ main.pc = "mint" => main.t # t
  BY AtReport
<1>3. /\ jobs' \in [Who -> [Task -> Job]]
      /\ \A v \in Who, u \in Task : <<v, u>> # <<w, t>> => jobs'[v][u] = jobs[v][u]
      /\ jobs'[w][t].step = s /\ jobs'[w][t].rec = jobs[w][t].rec
  BY <1>1 DEF BrokerTypeOK, Job
<1>4. /\ journal' \in [Task -> Record]
      /\ journal'[t] \in {journal[t], jobs[w][t].rec}
      /\ \A u \in Task \ {t} : journal'[u] = journal[u]
  BY <1>1, <1>2 DEF BrokerTypeOK
<1>5. BrokerTypeOK'
  BY <1>1, <1>3, <1>4 DEF BrokerTypeOK
<1>6. \A v \in Who, u \in Task : jobs'[v][u].step = "none" <=> jobs[v][u].step = "none"
  BY <1>3
<1>7. \A u \in Task : Idle(u)' <=> Idle(u)
  BY <1>6 DEF Idle, Who
<1>8. MainWorks'
  BY <1>1, <1>2, <1>4, <1>6, <1>7 DEF MainWorks, Who
<1>9. RecoversAlone'
  BY <1>1, <1>7 DEF RecoversAlone
<1>10. OneWorker'
  BY <1>1, <1>2, <1>4, <1>6 DEF OneWorker, Who
<1>11. FreshRecord'
  BY <1>1, <1>2, <1>4, <1>7 DEF FreshRecord
<1>12. RunsCounted'
  BY <1>1 DEF RunsCounted
<1>13. Outcomes'
  <2>1. \A u \in Task : /\ journal'[u].st = "terminal" => journal'[u].body # "none"
                        /\ journal'[u].body = "done" => runs[u] = 1
    BY <1>1, <1>2, <1>4 DEF Outcomes
  <2>2. \A v \in Who, u \in Task : jobs'[v][u].rec = jobs[v][u].rec
    BY <1>3
  <2> QED
    BY <1>1, <1>6, <2>1, <2>2 DEF Outcomes
<1>14. LedgerSide' /\ TypeOK' /\ Buried' /\ WorkAccepted'
  <2>1. \A v \in Who, u \in Task : jobs'[v][u].step = "stone" =>
          jobs[v][u].step = "stone" \/ Settled(u)'
    BY <1>3
  <2>2. \A u \in Task : journal'[u].st = "delivered" => journal[u].st = "delivered"
    BY <1>2, <1>4
  <2>3. \A u \in Task : exec'[u].pc \in {"run", "provider"} =>
          exec[u].pc \in {"run", "provider"} /\ u \notin S
    BY <1>2
  <2> QED
    BY <2>1, <2>2, <2>3, LedgerMeetsBroker
<1> QED
  BY <1>5, <1>8, <1>9, <1>10, <1>11, <1>12, <1>13, <1>14
  DEF BridgeIInv, BridgeTypeOK, BrokerSide, BrokerTypeOK

\* PutTerminal keeps the invariant.
LEMMA PutTerminalStep ==
  ASSUME BridgeIInv, NEW w \in Who, NEW t \in Task, PutTerminal(w, t)
  PROVE  BridgeIInv'
<1>1. LedgerSees({})
  BY DEF PutTerminal, LedgerSees
<1> QED
  BY <1>1, JobGoesOn DEF PutTerminal

\* SendTerminal keeps the invariant.
LEMMA SendTerminalStep ==
  ASSUME BridgeIInv, NEW w \in Who, NEW t \in Task, NEW heard \in BOOLEAN,
         SendTerminal(w, t, heard)
  PROVE  BridgeIInv'
<1> DEFINE rec == jobs[w][t].rec
           a == IF rec.child THEN t ELSE Broker
<1>1. /\ LedgerSide /\ BrokerTypeOK /\ jobs[w][t].step = "send"
      /\ rec.body \in {"done", "failed"}
  BY Parts, AtReport DEF SendTerminal
<1>2. UNCHANGED <<now, hk, journal, main, active, cancelled, exec, runs, restarts>>
  BY DEF SendTerminal
<1>3. a \in {Broker, t} /\ Reported(a, t, rec.body)
  BY DEF SendTerminal
<1>4. LedgerSees({t})
  BY <1>1, <1>2, <1>3, ReportedSeen
<1>5. CASE jobs' = jobs
  <2>1. jobs' = [jobs EXCEPT ![w][t].step = "send"]
    BY <1>1, <1>5 DEF BrokerTypeOK, Job
  <2> QED
    BY <1>1, <1>2, <1>4, <2>1, JobGoesOn
<1>6. CASE ReportOK(a, t, rec.body) /\ jobs' = [jobs EXCEPT ![w][t].step = "stone"]
  <2>1. Settled(t)'
    BY <1>1, <1>3, <1>6, TerminalOK
  <2> QED
    BY <1>1, <1>2, <1>4, <1>6, <2>1, JobGoesOn
<1> QED
  BY <1>5, <1>6 DEF SendTerminal
\* A report is over: buried, or abandoned by a broker that is going down.
LEMMA JobOverStep ==
  ASSUME BridgeIInv, NEW w \in Who, NEW t \in Task, LedgerSees({}),
         jobs[w][t].step # "none", JobOver(w, t),
         \/ journal' = journal
         \/ journal' = [journal EXCEPT ![t] = Tombstone] /\ jobs[w][t].step = "stone",
         UNCHANGED <<exec, runs, restarts>>
  PROVE  BridgeIInv'
<1>1. /\ BrokerTypeOK /\ MainWorks /\ RecoversAlone /\ OneWorker
      /\ FreshRecord /\ RunsCounted /\ Outcomes /\ Buried /\ LedgerSide
  BY Parts
<1>2. /\ exec[t].pc = "none"
      /\ w # "main" => ~main.recovering \/ main.pc = "stop"
      /\ w = "main" => main.pc = "settle" /\ main.t = t
      /\ main.pc = "mint" => main.t # t
  BY AtReport
<1>3. /\ jobs' \in [Who -> [Task -> Job]]
      /\ \A v \in Who, u \in Task : <<v, u>> # <<w, t>> => jobs'[v][u] = jobs[v][u]
      /\ jobs'[w][t] = NoJob
  BY <1>1, Nothings DEF BrokerTypeOK, JobOver
<1>4. \A v \in Who, u \in Task : jobs'[v][u].step # "none" =>
        jobs'[v][u] = jobs[v][u] /\ <<v, u>> # <<w, t>>
  BY <1>3, Nothings
<1>5. /\ journal' \in [Task -> Record]
      /\ \/ journal'[t] = journal[t]
         \/ /\ journal'[t].st = "delivered" /\ journal'[t].body = "none"
            /\ jobs[w][t].step = "stone"
      /\ \A u \in Task \ {t} : journal'[u] = journal[u]
  BY <1>1, Nothings DEF BrokerTypeOK
<1>6. /\ main' \in Main
      /\ w # "main" => main' = main
      /\ w = "main" => /\ main'.recovering = main.recovering
                       /\ main'.pc = IF main.recovering THEN "recover" ELSE "loop"
  BY <1>1 DEF JobOver, Resume, BrokerTypeOK, Main, MainPc
<1>7. /\ active' \subseteq active /\ cancelled' \subseteq active'
      /\ w # "exec" => active' = active
      /\ w = "exec" => active = {t} /\ active' = {}
  <2>1. CASE w = "exec"
    BY <1>1, <2>1 DEF JobOver, Freed, BrokerTypeOK, OneWorker
  <2>2. CASE w # "exec"
    BY <1>1, <2>2 DEF JobOver, BrokerTypeOK
  <2> QED
    BY <2>1, <2>2
<1>8. BrokerTypeOK'
  BY <1>1, <1>3, <1>5, <1>6, <1>7 DEF BrokerTypeOK
<1>9. \A u \in Task : Idle(u) => Idle(u)'
  BY <1>4 DEF Idle, Who
<1>10. MainWorks'
  <2>1. CASE w = "main"
    <3>1. \A u \in Task : jobs'["main"][u].step = "none"
      BY <1>1, <1>2, <1>4, <2>1 DEF MainWorks, Who
    <3> QED
      BY <1>6, <2>1, <3>1 DEF MainWorks
  <2>2. CASE w # "main"
    <3>1. main.pc = "mint" /\ main.why = "launch" => active' = active
      <4>1. w = "exec" => active = {t}
        BY <1>7
      <4>2. main.pc = "mint" /\ main.why = "launch" => active = {main.t}
        BY <1>1 DEF MainWorks
      <4> QED
        BY <1>2, <1>7, <4>1, <4>2
    <3>2. main' = main
      BY <1>6, <2>2
    <3>3. \A u \in Task : jobs'["main"][u].step # "none" => jobs["main"][u].step # "none"
      BY <1>4 DEF Who
    <3>4. main.pc = "mint" => /\ main.t \in Task /\ Idle(main.t)'
                              /\ journal'[main.t] = journal[main.t]
      BY <1>1, <1>2, <1>5, <1>9, <3>2 DEF MainWorks
    <3> QED
      BY <1>1, <3>1, <3>2, <3>3, <3>4 DEF MainWorks
  <2> QED
    BY <2>1, <2>2
<1>11. RecoversAlone'
  BY <1>1, <1>2, <1>6, <1>9 DEF RecoversAlone
<1>12. OneWorker'
  <2>1. CASE w = "exec"
    <3>1. \A u \in Task : exec[u].pc = "none"
      BY <1>1, <1>2, <1>7, <2>1 DEF OneWorker
    <3>2. \A u \in Task : jobs'["exec"][u].step = "none"
      <4>1. \A u \in Task \ {t} : jobs["exec"][u].step = "none"
        BY <1>1, <1>7, <2>1 DEF OneWorker
      <4>2. jobs'["exec"][t].step = "none"
        BY <1>3, <2>1, Nothings
      <4> QED
        BY <1>4, <4>1, <4>2 DEF Who
    <3> QED
      BY <3>1, <3>2 DEF OneWorker
  <2>2. CASE w # "exec"
    BY <1>1, <1>2, <1>4, <1>5, <1>7, <2>2 DEF OneWorker, Who
  <2> QED
    BY <2>1, <2>2
<1>13. FreshRecord'
  BY <1>1, <1>5, <1>9 DEF FreshRecord
<1>14. RunsCounted'
  BY <1>1 DEF RunsCounted
<1>15. Outcomes'
  <2>1. \A u \in Task : /\ journal'[u].st = "terminal" => journal'[u].body # "none"
                        /\ journal'[u].body = "done" => runs[u] = 1
    BY <1>1, <1>5 DEF Outcomes
  <2> QED
    BY <1>1, <1>4, <2>1 DEF Outcomes
<1>16. LedgerSide' /\ TypeOK' /\ Buried' /\ WorkAccepted'
  <2>1. jobs[w][t].step = "stone" => Settled(t)'
    <3>1. TaskLasts({})
      BY <1>1, LedgerEffect
    <3> QED
      BY <1>1, <3>1 DEF Buried, Settled, TaskLasts
  <2>2. \A v \in Who, u \in Task : jobs'[v][u].step = "stone" => jobs[v][u].step = "stone"
    BY <1>4
  <2>3. \A u \in Task : journal'[u].st = "delivered" => journal[u].st = "delivered" \/ Settled(u)'
    BY <1>5, <2>1
  <2> QED
    BY <2>2, <2>3, LedgerMeetsBroker
<1> QED
  BY <1>8, <1>10, <1>11, <1>12, <1>13, <1>14, <1>15, <1>16
  DEF BridgeIInv, BridgeTypeOK, BrokerSide, BrokerTypeOK

\* BuryTask keeps the invariant.
LEMMA BuryTaskStep ==
  ASSUME BridgeIInv, NEW w \in Who, NEW t \in Task, NEW gone \in BOOLEAN, BuryTask(w, t, gone)
  PROVE  BridgeIInv'
<1>1. LedgerSees({})
  BY DEF BuryTask, LedgerSees, Agent
<1> QED
  BY <1>1, JobOverStep DEF BuryTask

\* AbandonReport keeps the invariant.
LEMMA AbandonReportStep ==
  ASSUME BridgeIInv, NEW w \in Who, NEW t \in Task, AbandonReport(w, t)
  PROVE  BridgeIInv'
<1>1. LedgerSees({})
  BY DEF AbandonReport, LedgerSees
<1> QED
  BY <1>1, JobOverStep DEF AbandonReport

-----------------------------------------------------------------------------
(* Shutdown and crash *)

\* Stop keeps the invariant.
LEMMA StopStep ==
  ASSUME BridgeIInv, Stop
  PROVE  BridgeIInv'
<1>1. /\ BrokerTypeOK /\ MainWorks /\ RecoversAlone /\ OneWorker
      /\ FreshRecord /\ RunsCounted /\ Outcomes
  BY Parts
<1>2. UNCHANGED <<ledgerVars, journal, exec, runs>> /\ LedgerSees({})
  BY DEF Stop, LedgerSees
<1>3. main' \in Main /\ main'.pc = "stop" /\ main'.recovering
  BY Nothings DEF Stop, Main, MainPc
<1>4. /\ jobs' \in [Who -> [Task -> Job]]
      /\ \A u \in Task : jobs'["main"][u].step = "none"
      /\ \A w \in Who \ {"main"} : jobs'[w] = jobs[w]
  BY <1>1, Nothings DEF Stop, BrokerTypeOK, Who
<1>5. /\ active' \subseteq active /\ cancelled' = active'
      /\ \A u \in Task : exec[u].pc # "none" \/ jobs["exec"][u].step # "none" => active' = active
  <2>1. CASE main.pc = "mint" /\ main.why = "launch"
    <3>1. active = {main.t} /\ Idle(main.t) /\ active' = active \ {main.t} /\ cancelled' = active'
      BY <1>1, <2>1 DEF MainWorks, Stop
    <3>2. \A u \in Task : exec[u].pc = "none" /\ jobs["exec"][u].step = "none"
      BY <1>1, <3>1 DEF OneWorker, Idle
    <3> QED
      BY <3>1, <3>2
  <2>2. CASE ~(main.pc = "mint" /\ main.why = "launch")
    BY <2>2 DEF Stop
  <2> QED
    BY <2>1, <2>2
<1>6. restarts' \in 0..MaxRestarts
  BY <1>1, BrokerAssumption DEF Stop, BrokerTypeOK
<1>7. BrokerTypeOK'
  BY <1>1, <1>2, <1>3, <1>4, <1>5, <1>6 DEF BrokerTypeOK
<1>8. \A u \in Task : Idle(u)' <=> Idle(u)
  BY <1>2, <1>4 DEF Idle, Who
<1>9. MainWorks' /\ RecoversAlone'
  BY <1>3, <1>4 DEF MainWorks, RecoversAlone
<1>10. OneWorker'
  BY <1>1, <1>2, <1>4, <1>5 DEF OneWorker, Who
<1>11. FreshRecord' /\ RunsCounted'
  BY <1>1, <1>2, <1>8 DEF FreshRecord, RunsCounted
<1>12. Outcomes'
  BY <1>1, <1>2, <1>4 DEF Outcomes
<1>13. LedgerSide' /\ TypeOK' /\ Buried' /\ WorkAccepted'
  <2>1. \A w \in Who, u \in Task : jobs'[w][u].step = "stone" => jobs[w][u].step = "stone"
    BY <1>4
  <2> QED
    BY <1>2, <2>1, LedgerMeetsBroker
<1> QED
  BY <1>7, <1>9, <1>10, <1>11, <1>12, <1>13 DEF BridgeIInv, BridgeTypeOK, BrokerSide, BrokerTypeOK

\* Stopped keeps the invariant.
LEMMA StoppedStep ==
  ASSUME BridgeIInv, NEW heard \in BOOLEAN, Stopped(heard)
  PROVE  BridgeIInv'
<1>1. LedgerSees({})
  BY BrokerAssumption DEF Stopped, LedgerSees, Agent
<1>2. /\ main' \in Main /\ main'.pc = "down" /\ main'.recovering
      /\ \A u \in Task, w \in Who : jobs[w][u].step = "none"
      /\ \A u \in Task : Idle(u)
      /\ UNCHANGED <<journal, active, cancelled, exec, jobs, runs, restarts>>
  BY Nothings DEF Stopped, Idle, Who
<1>3. MainWorks' /\ RecoversAlone'
  BY <1>2 DEF MainWorks, RecoversAlone, Idle, Who
<1> QED
  BY <1>1, <1>2, <1>3, MainOnly

\* BrokerCrash keeps the invariant.
LEMMA BrokerCrashStep ==
  ASSUME BridgeIInv, BrokerCrash
  PROVE  BridgeIInv'
<1>1. BrokerTypeOK /\ FreshRecord /\ RunsCounted /\ Outcomes
  BY Parts
<1>2. UNCHANGED <<ledgerVars, journal, runs>> /\ LedgerSees({})
  BY DEF BrokerCrash, LedgerSees
<1>3. /\ main' \in Main /\ main'.pc = "down" /\ main'.recovering
      /\ active' = {} /\ cancelled' = {}
      /\ exec' \in [Task -> Exec] /\ \A u \in Task : exec'[u].pc = "none"
      /\ jobs' \in [Who -> [Task -> Job]] /\ \A w \in Who, u \in Task : jobs'[w][u].step = "none"
  BY Nothings DEF BrokerCrash
<1>4. restarts' \in 0..MaxRestarts
  BY <1>1, BrokerAssumption DEF BrokerCrash, BrokerTypeOK
<1>5. BrokerTypeOK'
  BY <1>1, <1>2, <1>3, <1>4 DEF BrokerTypeOK
<1>6. \A u \in Task : Idle(u)'
  BY <1>3 DEF Idle, Who
<1>7. MainWorks' /\ RecoversAlone' /\ OneWorker'
  BY <1>3, <1>6 DEF MainWorks, RecoversAlone, OneWorker, Who
<1>8. FreshRecord' /\ RunsCounted' /\ Outcomes'
  BY <1>1, <1>2, <1>3, <1>6 DEF FreshRecord, RunsCounted, Outcomes
<1>9. LedgerSide' /\ TypeOK' /\ Buried' /\ WorkAccepted'
  BY <1>2, <1>3, LedgerMeetsBroker
<1> QED
  BY <1>5, <1>7, <1>8, <1>9 DEF BridgeIInv, BridgeTypeOK, BrokerSide, BrokerTypeOK

-----------------------------------------------------------------------------
(* The invariant *)

\* A broker that has never run satisfies the invariant.
LEMMA BridgeStarts == BridgeInit => BridgeIInv
<1> SUFFICES ASSUME BridgeInit PROVE BridgeIInv
  OBVIOUS
<1>1. TypeOK
  <2>1. agents \in [Agent -> Row]
    BY DEF BridgeInit, Row, NoRow
  <2>2. NoTask("none") \in TaskRow
    BY DEF NoTask, TaskRow, TaskState
  <2>3. hk \in Hk
    BY DEF BridgeInit, IdleHk, Hk, HkPc
  <2>4. mail \in [Task -> Seq(Mail)]
    BY DEF BridgeInit
  <2> QED
    BY <2>1, <2>2, <2>3, <2>4 DEF BridgeInit, TypeOK
<1>2. \A t \in Task : /\ task[t].state = "none" /\ ~HoldsBroker(t) /\ task[t].acked = FALSE
                      /\ mail[t] = <<>>
  BY DEF BridgeInit, NoTask, HoldsBroker, Live
<1>3. hk.todo = {} /\ hk.at = 0 /\ hk.pc = "idle" /\ now = 0
  BY DEF BridgeInit, IdleHk
<1>4. LedgerInv
  BY <1>1, <1>2, <1>3 DEF LedgerInv, BrokerExclusive, HeldTaskHasLauncher, HeldTaskBounds,
     SnapshotInPast, PurgesAfterSweep, Expired
<1>5. MailMatchesState
  BY <1>2 DEF MailMatchesState, MailFor
<1>6. RequestersHere /\ SweepListed /\ AckedCancel
  BY <1>2, <1>3 DEF BridgeInit, RequestersHere, SweepListed, AckedCancel, Agent
<1>7. BrokerTypeOK
  BY Nothings, BrokerAssumption DEF BridgeInit, BrokerTypeOK
<1>8. /\ main.pc = "down" /\ main.recovering
      /\ \A t \in Task : /\ exec[t].pc = "none" /\ journal[t].st = "none"
                         /\ journal[t].body = "none" /\ runs[t] = 0
                         /\ \A w \in Who : jobs[w][t].step = "none"
  BY Nothings DEF BridgeInit, NoRecord, Rec
<1>9. \A t \in Task : Idle(t)
  BY <1>8 DEF Idle, Who
<1>10. MainWorks /\ RecoversAlone /\ OneWorker /\ FreshRecord
  BY <1>8, <1>9 DEF MainWorks, RecoversAlone, OneWorker, FreshRecord, Who
<1>11. RunsCounted /\ Outcomes /\ Buried /\ WorkAccepted
  BY <1>8 DEF RunsCounted, Outcomes, Buried, WorkAccepted
<1> QED
  BY <1>1, <1>4, <1>5, <1>6, <1>7, <1>10, <1>11
  DEF BridgeIInv, BridgeTypeOK, BrokerTypeOK, LedgerSide, BrokerSide

\* Every step of the main loop keeps the invariant.
LEMMA MainLoopStep ==
  ASSUME BridgeIInv, NEW heard \in BOOLEAN, MainLoop(heard)
  PROVE  BridgeIInv'
<1>1. CASE Start \/ RecoverDone
  BY <1>1, StartStep, RecoverDoneStep
<1>2. CASE RegisterLauncher(heard) \/ Poll(heard) \/ RegisterChild(heard) \/ Stopped(heard)
  BY <1>2, RegisterLauncherStep, PollStep, RegisterChildStep, StoppedStep
<1>3. CASE \E t \in Task : RecoverRecord(t) \/ HandleLaunch(t) \/ HandleCancel(t)
  BY <1>3, RecoverRecordStep, HandleLaunchStep, HandleCancelStep
<1>4. CASE \E t \in Task : PutTerminal("main", t) \/ SendTerminal("main", t, heard)
                           \/ \E gone \in BOOLEAN : BuryTask("main", t, gone)
  BY <1>4, PutTerminalStep, SendTerminalStep, BuryTaskStep DEF Who
<1> QED
  BY <1>1, <1>2, <1>3, <1>4 DEF MainLoop

\* Every step of a worker or of a redelivery keeps the invariant.
LEMMA GoroutineStep ==
  ASSUME BridgeIInv, NEW heard \in BOOLEAN, NEW t \in Task,
         Worker(t, heard) \/ Redelivery(t, heard)
  PROVE  BridgeIInv'
<1>1. CASE SendAccepted(t, heard) \/ AcceptInterrupted(t)
  BY <1>1, SendAcceptedStep, AcceptInterruptedStep
<1>2. CASE \E starts \in BOOLEAN : RunProvider(t, starts)
  BY <1>2, RunProviderStep
<1>3. CASE \E body \in {"done", "failed"} : ProviderEnds(t, body)
  BY <1>3, ProviderEndsStep
<1>4. CASE \E w \in {"exec", "redo"} : \/ PutTerminal(w, t) \/ SendTerminal(w, t, heard)
                                       \/ AbandonReport(w, t)
                                       \/ \E gone \in BOOLEAN : BuryTask(w, t, gone)
  BY <1>4, PutTerminalStep, SendTerminalStep, BuryTaskStep, AbandonReportStep DEF Who
<1> QED
  BY <1>1, <1>2, <1>3, <1>4 DEF Worker, Redelivery

\* Every step keeps the invariant.
LEMMA BridgeStep == BridgeIInv /\ [BridgeNext]_bridgeVars => BridgeIInv'
<1> SUFFICES ASSUME BridgeIInv, [BridgeNext]_bridgeVars PROVE BridgeIInv'
  OBVIOUS
<1>1. CASE \E heard \in {TRUE, ~Lossy} :
             MainLoop(heard) \/ \E t \in Task : Worker(t, heard) \/ Redelivery(t, heard)
  <2>1. PICK heard \in {TRUE, ~Lossy} :
          MainLoop(heard) \/ \E t \in Task : Worker(t, heard) \/ Redelivery(t, heard)
    BY <1>1
  <2>2. heard \in BOOLEAN
    BY BrokerAssumption
  <2> QED
    BY <2>1, <2>2, MainLoopStep, GoroutineStep
<1>2. CASE Stop \/ BrokerCrash
  BY <1>2, StopStep, BrokerCrashStep
<1>3. CASE (LedgerEnv \/ UNCHANGED ledgerVars) /\ UNCHANGED brokerVars
  BY <1>3, LedgerEnvStep
<1> QED
  BY <1>1, <1>2, <1>3 DEF BridgeNext, bridgeVars

\* The inductive invariant holds throughout.
THEOREM BridgeInvariant == BridgeSpec => []BridgeIInv
BY BridgeStarts, BridgeStep, PTL DEF BridgeSpec

\* A brief runs at most once: RunProvider needs a worker that has not run yet,
\* a worker is made only for a record that is received, and a record is made
\* received only once, by the first launch.  Recovery never makes a worker.
THEOREM RunOnce == BridgeSpec => []BridgeInv
<1>1. BridgeIInv => BridgeInv
  BY Parts DEF BridgeIInv, BridgeInv, RunsCounted, RunsAtMostOnce
<1> QED
  BY <1>1, BridgeInvariant, PTL

\* A tombstone means a settled task: SendTerminal waits for an OK, the daemon
\* says OK only to a report that finds or leaves the task settled, and what is
\* settled stays settled.
THEOREM BuriedSettled == BridgeSpec => []TombstoneMeansSettled
<1>1. BridgeIInv => TombstoneMeansSettled
  BY Parts DEF Buried, Settled, TombstoneMeansSettled
<1> QED
  BY <1>1, BridgeInvariant, PTL

\* A running provider keeps its broker reserved until the deadline: nobody
\* else reports on a task that is being worked on, a cancel leaves the hold
\* until it is answered, and the sweep takes only what has run out.
THEOREM RunningReserved == BridgeSpec => []ReservedWhileRunning
<1>1. BridgeIInv => ReservedWhileRunning
  BY Parts DEF WorkAccepted, OutOfTime, ReservedWhileRunning
<1> QED
  BY <1>1, BridgeInvariant, PTL
-----------------------------------------------------------------------------
(* The service the requesters see *)

\* The state of EyesService, as ServiceProvided maps it.
StatusSeen == [t \in Task |-> task[t].state]
BrowserSeen == {t \in Task : exec[t].pc = "provider"}
WorkedSeen == {t \in Task : runs[t] > 0}
ToldSeen == [t \in Task |-> ToRequester(mail[t])]

\* A sequence without its first element, up to its n-th.
LEMMA SkipFirst ==
  ASSUME NEW S, NEW s \in Seq(S), NEW n \in 1..Len(s)
  PROVE  /\ SubSeq(s, 2, n) \in Seq(S)
         /\ Len(SubSeq(s, 2, n)) = n - 1
         /\ \A i \in 1..(n - 1) : SubSeq(s, 2, n)[i] = s[i + 1]
<1>1. n \in Int /\ \A i \in 2..n : s[i] \in S
  BY ElementOfSeq
<1>2. /\ SubSeq(s, 2, n) \in Seq(S)
      /\ Len(SubSeq(s, 2, n)) = IF 2 <= n THEN n - 2 + 1 ELSE 0
      /\ \A i \in 1..(n - 2 + 1) : SubSeq(s, 2, n)[i] = s[2 + i - 1]
  BY <1>1, SubSeqProperties
<1>3. n - 2 + 1 = n - 1 /\ \A i \in 1..(n - 1) : 2 + i - 1 = i + 1
  BY <1>1
<1> QED
  BY <1>1, <1>2, <1>3

\* ... and how it grows with the sequence.
LEMMA SkipFirstAppend ==
  ASSUME NEW S, NEW m \in Seq(S), NEW k \in S, Len(m) > 0
  PROVE  /\ SubSeq(Append(m, k), 2, Len(m) + 1) = Append(SubSeq(m, 2, Len(m)), k)
         /\ SubSeq(Append(m, k), 2, Len(m)) = SubSeq(m, 2, Len(m))
<1> DEFINE n == Len(m)
           mk == Append(m, k)
           r == SubSeq(m, 2, n)
           a == SubSeq(mk, 2, n + 1)
           b == Append(r, k)
           c == SubSeq(mk, 2, n)
<1>1. n \in Nat /\ n >= 1
  OBVIOUS
<1>2. mk \in Seq(S) /\ Len(mk) = n + 1 /\ mk[n + 1] = k /\ \A i \in 1..n : mk[i] = m[i]
  OBVIOUS
<1> HIDE DEF mk
<1>3. n \in 1..Len(m) /\ n \in 1..Len(mk) /\ n + 1 \in 1..Len(mk)
  BY <1>1, <1>2
<1> HIDE DEF n
<1>4. r \in Seq(S) /\ Len(r) = n - 1 /\ \A i \in 1..(n - 1) : r[i] = m[i + 1]
  BY <1>3, SkipFirst
<1>5. a \in Seq(S) /\ Len(a) = n /\ \A i \in 1..n : a[i] = mk[i + 1]
  BY <1>1, <1>2, <1>3, SkipFirst
<1>6. c \in Seq(S) /\ Len(c) = n - 1 /\ \A i \in 1..(n - 1) : c[i] = mk[i + 1]
  BY <1>2, <1>3, SkipFirst
<1> HIDE DEF r
<1>7. b \in Seq(S) /\ Len(b) = n /\ b[n] = k /\ \A i \in 1..(n - 1) : b[i] = r[i]
  BY <1>1, <1>4
<1> HIDE DEF a, b, c
<1>8. a = b
  <2>1. ASSUME NEW i \in 1..n PROVE a[i] = b[i]
    <3>1. CASE i = n
      BY <1>1, <1>2, <1>5, <1>7, <3>1
    <3>2. CASE i # n
      <4>1. i \in 1..(n - 1) /\ i + 1 \in 1..n
        BY <1>1, <3>2
      <4>2. mk[i + 1] = m[i + 1]
        BY <1>2, <4>1
      <4> QED
        BY <1>4, <1>5, <1>7, <4>1, <4>2
    <3> QED
      BY <3>1, <3>2
  <2> QED
    BY <1>5, <1>7, <2>1, SeqEqual
<1>9. c = r
  <2>1. ASSUME NEW i \in 1..(n - 1) PROVE c[i] = r[i]
    <3>1. i + 1 \in 1..n
      BY <1>1
    <3>2. mk[i + 1] = m[i + 1]
      BY <1>2, <3>1
    <3> QED
      BY <1>4, <1>6, <3>2
  <2> QED
    BY <1>4, <1>6, <2>1, SeqEqual
<1> QED
  BY <1>8, <1>9 DEF a, b, c, mk, r, n

\* What the requester is told grows by every message but the cancel.
LEMMA ToldGrows ==
  ASSUME NEW m \in Seq(Mail), Len(m) > 0, m[Len(m)] # "cancel", NEW k \in Mail
  PROVE  ToRequester(Append(m, k)) =
           IF k = "cancel" THEN ToRequester(m) ELSE Append(ToRequester(m), k)
<1> DEFINE mk == Append(m, k)
<1>1. /\ mk # <<>> /\ Len(mk) = Len(m) + 1 /\ mk[Len(mk)] = k /\ Len(m) \in Nat /\ m # <<>>
  OBVIOUS
<1>2. Len(mk) - 1 = Len(m)
  BY <1>1
<1> HIDE DEF mk
<1>3. ToRequester(m) = SubSeq(m, 2, Len(m))
  BY <1>1 DEF ToRequester
<1>4. ToRequester(mk) = IF k = "cancel" THEN SubSeq(mk, 2, Len(m)) ELSE SubSeq(mk, 2, Len(m) + 1)
  BY <1>1, <1>2 DEF ToRequester
<1> QED
  BY <1>3, <1>4, SkipFirstAppend DEF mk

\* A launch by itself tells the requester nothing.
LEMMA ToldNothing == ToRequester(<<>>) = <<>> /\ ToRequester(<<"launch">>) = <<>>
BY DEF ToRequester

\* A step that changes nothing of it is none of EyesService's.
LEMMA ServiceStutters ==
  ASSUME UNCHANGED <<StatusSeen, BrowserSeen, WorkedSeen, ToldSeen>>
  PROVE  [Service!ServiceNext]_(Service!serviceVars)
BY DEF StatusSeen, BrowserSeen, WorkedSeen, ToldSeen, Service!serviceVars

\* The initial state maps to an initial state of EyesService.
LEMMA ServiceStarts == BridgeInit => Service!ServiceInit
<1> SUFFICES ASSUME BridgeInit PROVE Service!ServiceInit
  OBVIOUS
<1>1. StatusSeen = [t \in Task |-> "none"]
  BY DEF BridgeInit, StatusSeen, NoTask
<1>2. BrowserSeen = {} /\ WorkedSeen = {}
  BY Nothings DEF BridgeInit, BrowserSeen, WorkedSeen
<1>3. ToldSeen = [t \in Task |-> <<>>]
  BY ToldNothing DEF BridgeInit, ToldSeen
<1> QED
  BY <1>1, <1>2, <1>3 DEF Service!ServiceInit, StatusSeen, BrowserSeen, WorkedSeen, ToldSeen
\* The mail of a live task is what has begun.
LEMMA LiveMail ==
  ASSUME LedgerSide, NEW t \in Task, task[t].state \in Live
  PROVE  /\ mail[t] \in Seq(Mail) /\ Len(mail[t]) > 0 /\ mail[t][Len(mail[t])] # "cancel"
<1>1. mail[t] \in Seq(Mail) /\ mail[t] \in MailFor(task[t].state)
  BY DEF LedgerSide, LedgerInv, TypeOK, MailMatchesState
<1>2. mail[t] \in {<<"launch">>, <<"launch", "accepted">>}
  BY <1>1 DEF MailFor, Live
<1>3. Len(mail[t]) > 0 /\ mail[t][Len(mail[t])] # "cancel"
  <2>1. CASE mail[t] = <<"launch">>
    BY <2>1
  <2>2. CASE mail[t] = <<"launch", "accepted">>
    BY <2>2
  <2> QED
    BY <1>2, <2>1, <2>2
<1> QED
  BY <1>1, <1>3

\* Nobody is missing to hear of a move: the requester is registered and the
\* launcher of a live task is where the task recorded it.
LEMMA MoveIsMailed ==
  ASSUME LedgerSide, NEW t \in Task, NEW role, task[t].state \in Live
  PROVE  MailDelivers(t, role)
<1>1. LauncherHere(t) /\ RequesterHere(t)
  BY DEF LedgerSide, LedgerInv, HeldTaskHasLauncher, HoldsBroker, RequestersHere, RequesterHere, Live
<1> QED
  BY <1>1 DEF MailDelivers

\* What a move looks like from outside: an accept, a result, a failure, a
\* cancel, or nothing.
LEMMA MoveServed ==
  ASSUME LedgerSide, NEW t \in Task, NEW role, NEW to \in Target, moveEyesTask(t, role, to),
         to = "done" => t \in WorkedSeen \ BrowserSeen,
         UNCHANGED <<BrowserSeen, WorkedSeen>>
  PROVE  [Service!ServiceNext]_(Service!serviceVars)
<1> DEFINE out == MoveOutcome(t, role, to)
<1>1. /\ task \in [Task -> TaskRow] /\ mail \in [Task -> Seq(Mail)]
  BY DEF LedgerSide, LedgerInv, TypeOK
<1>2. CASE out # "moved"
  <2>1. mail' = mail /\ (task' = task \/ task' = [task EXCEPT ![t].acked = TRUE])
    BY <1>2 DEF moveEyesTask
  <2>2. \A u \in Task : task'[u].state = task[u].state
    <3>1. CASE task' = task
      BY <3>1
    <3>2. CASE task' = [task EXCEPT ![t].acked = TRUE]
      BY <1>1, <3>2 DEF TaskRow
    <3> QED
      BY <2>1, <3>1, <3>2
  <2>3. UNCHANGED <<StatusSeen, ToldSeen>>
    BY <2>1, <2>2 DEF StatusSeen, ToldSeen
  <2> QED
    BY <2>3, ServiceStutters
<1>3. CASE out = "moved"
  <2>1. task[t].state \in Live /\ task[t].state \in eyesEdges(to, role)
    BY <1>3, OutcomeCases DEF MoveOutcome
  <2>2. MailDelivers(t, role)
    BY <2>1, MoveIsMailed
  <2>3. /\ task' = [task EXCEPT ![t].state = to, ![t].updated = now]
        /\ mail' = [mail EXCEPT ![t] = Append(@, MailOf(to))]
    BY <1>3, <2>2 DEF moveEyesTask
  <2>4. StatusSeen' = [StatusSeen EXCEPT ![t] = to]
    BY <1>1, <2>3 DEF StatusSeen, TaskRow
  <2>5. MailOf(to) \in Mail /\ (MailOf(to) = "cancel" <=> to = "cancelled")
    BY DEF MailOf, Mail, Target
  <2>6. ToRequester(Append(mail[t], MailOf(to))) =
          IF to = "cancelled" THEN ToRequester(mail[t])
          ELSE Append(ToRequester(mail[t]), MailOf(to))
    BY <2>1, <2>5, LiveMail, ToldGrows
  <2>7. ToldSeen' = IF to = "cancelled" THEN ToldSeen
                    ELSE [ToldSeen EXCEPT ![t] = Append(@, to)]
    <3>1. \A u \in Task \ {t} : mail'[u] = mail[u]
      BY <1>1, <2>3
    <3>2. mail'[t] = Append(mail[t], MailOf(to))
      BY <1>1, <2>3
    <3>3. CASE to = "cancelled"
      BY <2>6, <3>1, <3>2, <3>3 DEF ToldSeen
    <3>4. CASE to # "cancelled"
      <4>1. MailOf(to) = to
        BY <3>4 DEF MailOf
      <4>2. ToRequester(mail'[t]) = Append(ToRequester(mail[t]), to)
        BY <2>6, <3>2, <3>4, <4>1
      <4> QED
        BY <3>1, <3>4, <4>2 DEF ToldSeen
    <3> QED
      BY <3>3, <3>4
  <2>8. StatusSeen[t] = task[t].state
    BY DEF StatusSeen
  <2>9. CASE to = "accepted"
    <3>1. StatusSeen[t] = "queued"
      BY <2>1, <2>8, <2>9 DEF eyesEdges
    <3>2. Service!Accept(t)
      BY <2>4, <2>7, <2>9, <3>1
      DEF Service!Accept, Service!Answer, StatusSeen, ToldSeen, BrowserSeen, WorkedSeen
    <3> QED
      BY <3>2 DEF Service!ServiceNext
  <2>10. CASE to = "done"
    <3>1. StatusSeen[t] = "accepted"
      BY <2>1, <2>8, <2>10 DEF eyesEdges
    <3>2. Service!Finish(t)
      BY <2>4, <2>7, <2>10, <3>1
      DEF Service!Finish, Service!Answer, StatusSeen, ToldSeen, BrowserSeen, WorkedSeen
    <3> QED
      BY <3>2 DEF Service!ServiceNext
  <2>11. CASE to = "failed"
    <3>1. StatusSeen[t] \in {"queued", "accepted"}
      BY <2>1, <2>8 DEF Live
    <3>2. Service!Fail(t)
      BY <2>4, <2>7, <2>11, <3>1
      DEF Service!Fail, Service!Answer, StatusSeen, ToldSeen, BrowserSeen, WorkedSeen
    <3> QED
      BY <3>2 DEF Service!ServiceNext
  <2>12. CASE to = "cancelled"
    <3>1. StatusSeen[t] \in {"queued", "accepted"}
      BY <2>1, <2>8 DEF Live
    <3>2. Service!Cancel(t)
      BY <2>4, <2>7, <2>12, <3>1
      DEF Service!Cancel, StatusSeen, ToldSeen, BrowserSeen, WorkedSeen
    <3> QED
      BY <3>2 DEF Service!ServiceNext
  <2> QED
    BY <2>9, <2>10, <2>11, <2>12 DEF Target
<1> QED
  BY <1>2, <1>3
\* A report by the broker or a child.
LEMMA ReportServed ==
  ASSUME LedgerSide, NEW t \in Task, NEW a, NEW to \in {"accepted", "done", "failed"},
         Reported(a, t, to),
         to = "done" => t \in WorkedSeen \ BrowserSeen,
         UNCHANGED <<BrowserSeen, WorkedSeen>>
  PROVE  [Service!ServiceNext]_(Service!serviceVars)
<1>1. CASE agents[a].here
  <2>1. moveEyesTask(t, eyesRole(t, a), to) /\ to \in Target
    BY <1>1 DEF Reported, Target
  <2> QED
    BY <2>1, MoveServed
<1>2. CASE ~agents[a].here
  <2>1. UNCHANGED <<StatusSeen, ToldSeen>>
    BY <1>2 DEF Reported, StatusSeen, ToldSeen
  <2> QED
    BY <2>1, ServiceStutters
<1> QED
  BY <1>1, <1>2

\* What the daemon and the requesters do.
LEMMA LedgerEnvServed ==
  ASSUME LedgerSide, LedgerEnv, UNCHANGED <<BrowserSeen, WorkedSeen>>
  PROVE  [Service!ServiceNext]_(Service!serviceVars)
<1>1. CASE UNCHANGED <<task, mail>>
  BY <1>1, ServiceStutters DEF StatusSeen, ToldSeen
<1>2. CASE \E r \in Requester, t \in Task : CancelEyes(r, r, t)
  <2>1. PICK r \in Requester, t \in Task : moveEyesTask(t, eyesRole(t, r), "cancelled")
    BY <1>2 DEF CancelEyes
  <2> QED
    BY <2>1, MoveServed DEF Target
<1>3. CASE \E t \in Task : SweepTask(t)
  <2>1. PICK t \in Task : moveEyesTask(t, "system", "failed")
    BY <1>3 DEF SweepTask
  <2> QED
    BY <2>1, MoveServed DEF Target
<1>4. CASE \E r \in Requester, rt \in Runtime, d \in DeadlineAsk, t \in Task :
             RequestEyes(r, r, rt, d, t)
  <2>1. PICK r \in Requester, d \in DeadlineAsk, t \in Task, l \in Launcher :
          AssignEyesTask(r, t, l, d)
    BY <1>4 DEF RequestEyes, pickLauncher
  <2>2. /\ task \in [Task -> TaskRow] /\ mail \in [Task -> Seq(Mail)]
        /\ task[t].state = "none" /\ mail[t] \in MailFor("none")
    BY <2>1 DEF LedgerSide, LedgerInv, TypeOK, MailMatchesState, AssignEyesTask
  <2>3. mail[t] = <<>>
    BY <2>2 DEF MailFor
  <2>4. /\ task'[t].state = "queued" /\ mail'[t] = <<"launch">>
        /\ \A u \in Task \ {t} : task'[u] = task[u] /\ mail'[u] = mail[u]
    BY <2>1, <2>2, <2>3 DEF AssignEyesTask
  <2>5. StatusSeen' = [StatusSeen EXCEPT ![t] = "queued"] /\ StatusSeen[t] = "none"
    BY <2>2, <2>4 DEF StatusSeen
  <2>6. ToldSeen' = ToldSeen
    <3>1. \A u \in Task : ToRequester(mail'[u]) = ToRequester(mail[u])
      BY <2>3, <2>4, ToldNothing
    <3> QED
      BY <3>1 DEF ToldSeen
  <2>7. Service!Ask(t)
    BY <2>5, <2>6 DEF Service!Ask, StatusSeen, ToldSeen, BrowserSeen, WorkedSeen
  <2> QED
    BY <2>7 DEF Service!ServiceNext
<1>5. CASE Tick \/ StartSweep(FALSE) \/ EndSweep
  BY <1>1, <1>5 DEF Tick, StartSweep, EndSweep
<1> QED
  BY <1>2, <1>3, <1>4, <1>5 DEF LedgerEnv

\* The worker's steps: it starts work in a free browser on a task that has not
\* been worked on, and it leaves the browser free.
LEMMA StartServed ==
  ASSUME BridgeIInv, NEW t \in Task, NEW starts \in BOOLEAN, RunProvider(t, starts)
  PROVE  [Service!ServiceNext]_(Service!serviceVars)
<1>1. /\ BrokerTypeOK /\ RunsCounted /\ WorkAccepted /\ exec[t].pc = "run"
  BY Parts DEF RunProvider
<1>2. UNCHANGED <<StatusSeen, ToldSeen>>
  BY DEF RunProvider, ledgerVars, StatusSeen, ToldSeen
<1>3. CASE starts
  <2>1. /\ exec' = [exec EXCEPT ![t] = [pc |-> "provider", since |-> now]]
        /\ runs' = [runs EXCEPT ![t] = @ + 1]
    BY <1>3 DEF RunProvider
  <2>2. \A u \in Task \ {t} : exec[u].pc = "none"
    BY <1>1, AtWork
  <2>3. BrowserSeen = {} /\ BrowserSeen' = {t}
    BY <1>1, <2>1, <2>2 DEF BrowserSeen, BrokerTypeOK
  <2>4. runs[t] = 0 /\ runs \in [Task -> Nat]
    BY <1>1 DEF RunsCounted, BrokerTypeOK
  <2>5. t \notin WorkedSeen /\ WorkedSeen' = WorkedSeen \cup {t}
    BY <2>1, <2>4 DEF WorkedSeen
  <2>6. StatusSeen[t] \notin {"none", "queued"}
    BY <1>1 DEF WorkAccepted, StatusSeen
  <2>7. Service!Work(t)
    BY <1>2, <2>3, <2>5, <2>6 DEF Service!Work, StatusSeen, ToldSeen, BrowserSeen, WorkedSeen
  <2> QED
    BY <2>7 DEF Service!ServiceNext
<1>4. CASE ~starts
  <2>1. exec' = [exec EXCEPT ![t] = NoExec] /\ runs' = runs
    BY <1>4 DEF RunProvider, Report
  <2>2. UNCHANGED <<BrowserSeen, WorkedSeen>>
    BY <1>1, <2>1, Nothings DEF BrowserSeen, WorkedSeen, BrokerTypeOK
  <2> QED
    BY <1>2, <2>2, ServiceStutters
<1> QED
  BY <1>3, <1>4

\* A step that ends with an idle browser and changes nothing a requester sees
\* is a Rest of EyesService, or a stutter.
LEMMA RestServed ==
  ASSUME UNCHANGED <<StatusSeen, WorkedSeen, ToldSeen>>, BrowserSeen' = {}
  PROVE  [Service!ServiceNext]_(Service!serviceVars)
<1>1. CASE BrowserSeen = {}
  BY <1>1, ServiceStutters
<1>2. CASE BrowserSeen # {}
  <2>1. Service!Rest
    BY <1>2 DEF Service!Rest, StatusSeen, ToldSeen, BrowserSeen, WorkedSeen
  <2> QED
    BY <2>1 DEF Service!ServiceNext
<1> QED
  BY <1>1, <1>2

\* The end of a provider is a Rest of EyesService, or a stutter.
LEMMA EndServed ==
  ASSUME BridgeIInv, NEW t \in Task, NEW body, ProviderEnds(t, body)
  PROVE  [Service!ServiceNext]_(Service!serviceVars)
<1>1. BrokerTypeOK /\ exec[t].pc = "provider"
  BY Parts DEF ProviderEnds
<1>2. \A u \in Task \ {t} : exec[u].pc = "none"
  BY <1>1, AtWork
<1>3. exec' = [exec EXCEPT ![t] = NoExec] /\ UNCHANGED <<task, mail, runs>>
  BY DEF ProviderEnds, Report, ledgerVars
<1>4. BrowserSeen' = {}
  BY <1>1, <1>2, <1>3, Nothings DEF BrowserSeen, BrokerTypeOK
<1> QED
  BY <1>3, <1>4, RestServed DEF StatusSeen, ToldSeen, WorkedSeen

\* So is a crash of the broker.
LEMMA CrashServed ==
  ASSUME BrokerCrash
  PROVE  [Service!ServiceNext]_(Service!serviceVars)
<1>1. UNCHANGED <<task, mail, runs>> /\ BrowserSeen' = {}
  BY Nothings DEF BrokerCrash, BrowserSeen, ledgerVars
<1> QED
  BY <1>1, RestServed DEF StatusSeen, ToldSeen, WorkedSeen

\* The acceptance of a task is a step of EyesService.
LEMMA AcceptServed ==
  ASSUME BridgeIInv, NEW t \in Task, NEW heard \in BOOLEAN, SendAccepted(t, heard)
  PROVE  [Service!ServiceNext]_(Service!serviceVars)
<1>1. /\ LedgerSide /\ BrokerTypeOK /\ exec[t].pc = "accept" /\ exec[t] \in Exec
      /\ runs' = runs /\ Reported(Broker, t, "accepted")
  BY Parts DEF SendAccepted, BrokerTypeOK
<1>2. \/ exec' = exec
      \/ exec' = [exec EXCEPT ![t].pc = "run"]
      \/ exec' = [exec EXCEPT ![t] = NoExec]
  BY DEF SendAccepted, Report
<1>3. \A u \in Task : exec'[u].pc = "provider" <=> exec[u].pc = "provider"
  <2>1. exec \in [Task -> Exec]
    BY <1>1 DEF BrokerTypeOK
  <2>2. \A u \in Task \ {t} : exec'[u] = exec[u]
    BY <1>2, <2>1
  <2>3. exec'[t].pc # "provider"
    <3>1. CASE exec' = exec
      BY <1>1, <3>1
    <3>2. CASE exec' = [exec EXCEPT ![t].pc = "run"]
      BY <2>1, <3>2 DEF Exec
    <3>3. CASE exec' = [exec EXCEPT ![t] = NoExec]
      BY <2>1, <3>3, Nothings
    <3> QED
      BY <1>2, <3>1, <3>2, <3>3
  <2> QED
    BY <1>1, <2>2, <2>3
<1>4. UNCHANGED <<BrowserSeen, WorkedSeen>>
  BY <1>1, <1>3 DEF BrowserSeen, WorkedSeen
<1> QED
  BY <1>1, <1>4, ReportServed

\* A terminal report, first or repeated, is a step of EyesService.
LEMMA SendServed ==
  ASSUME BridgeIInv, NEW w \in Who, NEW t \in Task, NEW heard \in BOOLEAN,
         SendTerminal(w, t, heard)
  PROVE  [Service!ServiceNext]_(Service!serviceVars)
<1> DEFINE rec == jobs[w][t].rec
           a == IF rec.child THEN t ELSE Broker
<1>1. /\ LedgerSide /\ Reported(a, t, rec.body) /\ UNCHANGED <<exec, runs>>
      /\ exec[t].pc = "none" /\ rec.body \in {"done", "failed"}
      /\ rec.body = "done" => runs[t] = 1
  BY Parts, AtReport DEF SendTerminal
<1>2. rec.body = "done" => t \in WorkedSeen \ BrowserSeen
  BY <1>1 DEF WorkedSeen, BrowserSeen
<1>3. UNCHANGED <<BrowserSeen, WorkedSeen>>
  BY <1>1 DEF WorkedSeen, BrowserSeen
<1> QED
  BY <1>1, <1>2, <1>3, ReportServed

\* The other steps are the broker's own business.
LEMMA QuietServed ==
  ASSUME UNCHANGED <<task, mail, runs>>,
         \A u \in Task : exec'[u].pc = "provider" <=> exec[u].pc = "provider"
  PROVE  [Service!ServiceNext]_(Service!serviceVars)
BY ServiceStutters DEF StatusSeen, BrowserSeen, WorkedSeen, ToldSeen
\* Every step of the main loop is a step or a stutter of EyesService.
LEMMA MainLoopServed ==
  ASSUME BridgeIInv, NEW heard \in BOOLEAN, MainLoop(heard)
  PROVE  [Service!ServiceNext]_(Service!serviceVars)
<1>1. BrokerTypeOK
  BY Parts
<1>2. CASE RegisterChild(heard)
  <2>1. main.t \in Task /\ main.pc = "mint"
    BY <1>2, Parts DEF RegisterChild, MainWorks
  <2>2. UNCHANGED <<task, mail, runs>>
    BY <1>2 DEF RegisterChild, ReissueEyesChild, ledgerVars
  <2>3. exec' = exec \/ (exec' = [exec EXCEPT ![main.t].pc = "accept"] /\ exec[main.t].pc = "none")
    <3>1. Idle(main.t)
      BY <2>1, Parts DEF MainWorks
    <3>2. exec' = exec \/ exec' = [exec EXCEPT ![main.t].pc = "accept"]
      BY <1>2 DEF RegisterChild, Minted, NotMinted
    <3> QED
      BY <3>1, <3>2 DEF Idle
  <2>4. \A u \in Task : exec'[u].pc = "provider" <=> exec[u].pc = "provider"
    BY <1>1, <2>1, <2>3 DEF BrokerTypeOK, Exec
  <2> QED
    BY <2>2, <2>4, QuietServed
<1>3. CASE \E t \in Task : SendTerminal("main", t, heard)
  BY <1>3, SendServed DEF Who
<1>4. CASE \/ Start \/ RegisterLauncher(heard) \/ RecoverDone \/ Poll(heard) \/ Stopped(heard)
           \/ \E t \in Task : RecoverRecord(t) \/ HandleLaunch(t) \/ HandleCancel(t)
           \/ \E t \in Task : \/ PutTerminal("main", t)
                              \/ \E gone \in BOOLEAN : BuryTask("main", t, gone)
  <2>1. UNCHANGED <<task, mail, runs, exec>>
    BY <1>4 DEF Start, RegisterLauncher, RegisterRelay, RecoverDone, Poll, Stopped, Deregister,
       RecoverRecord, HandleLaunch, HandleCancel, PutTerminal, BuryTask, ledgerVars
  <2> QED
    BY <2>1, QuietServed
<1> QED
  BY <1>2, <1>3, <1>4 DEF MainLoop

\* Every step of a worker or of a redelivery is a step or a stutter of
\* EyesService.
LEMMA GoroutineServed ==
  ASSUME BridgeIInv, NEW heard \in BOOLEAN, NEW t \in Task,
         Worker(t, heard) \/ Redelivery(t, heard)
  PROVE  [Service!ServiceNext]_(Service!serviceVars)
<1>1. CASE SendAccepted(t, heard)
  BY <1>1, AcceptServed
<1>2. CASE AcceptInterrupted(t)
  <2>1. /\ exec[t].pc = "accept" /\ exec' = [exec EXCEPT ![t] = NoExec]
        /\ UNCHANGED <<task, mail, runs>>
    BY <1>2 DEF AcceptInterrupted, Report, ledgerVars
  <2>2. \A u \in Task : exec'[u].pc = "provider" <=> exec[u].pc = "provider"
    BY <2>1, Parts, Nothings DEF BrokerTypeOK
  <2> QED
    BY <2>1, <2>2, QuietServed
<1>3. CASE \E starts \in BOOLEAN : RunProvider(t, starts)
  BY <1>3, StartServed
<1>4. CASE \E body \in {"done", "failed"} : ProviderEnds(t, body)
  BY <1>4, EndServed
<1>5. CASE \E w \in {"exec", "redo"} : SendTerminal(w, t, heard)
  BY <1>5, SendServed DEF Who
<1>6. CASE \E w \in {"exec", "redo"} : \/ PutTerminal(w, t) \/ AbandonReport(w, t)
                                       \/ \E gone \in BOOLEAN : BuryTask(w, t, gone)
  <2>1. UNCHANGED <<task, mail, runs, exec>>
    BY <1>6 DEF PutTerminal, AbandonReport, BuryTask, Deregister, ledgerVars
  <2> QED
    BY <2>1, QuietServed
<1> QED
  BY <1>1, <1>2, <1>3, <1>4, <1>5, <1>6 DEF Worker, Redelivery

\* Every step of the bridge is a step or a stutter of EyesService.
LEMMA ServiceStep ==
  ASSUME BridgeIInv, [BridgeNext]_bridgeVars
  PROVE  [Service!ServiceNext]_(Service!serviceVars)
<1>1. CASE \E heard \in {TRUE, ~Lossy} :
             MainLoop(heard) \/ \E t \in Task : Worker(t, heard) \/ Redelivery(t, heard)
  <2>1. PICK heard \in {TRUE, ~Lossy} :
          MainLoop(heard) \/ \E t \in Task : Worker(t, heard) \/ Redelivery(t, heard)
    BY <1>1
  <2>2. heard \in BOOLEAN
    BY BrokerAssumption
  <2> QED
    BY <2>1, <2>2, MainLoopServed, GoroutineServed
<1>2. CASE Stop
  <2>1. UNCHANGED <<task, mail, runs, exec>>
    BY <1>2 DEF Stop, ledgerVars
  <2> QED
    BY <2>1, QuietServed
<1>3. CASE BrokerCrash
  BY <1>3, CrashServed
<1>4. CASE LedgerEnv /\ UNCHANGED brokerVars
  <2>1. LedgerSide /\ UNCHANGED <<BrowserSeen, WorkedSeen>>
    BY <1>4, Parts DEF brokerVars, BrowserSeen, WorkedSeen
  <2> QED
    BY <1>4, <2>1, LedgerEnvServed
<1>5. CASE UNCHANGED bridgeVars
  <2>1. UNCHANGED <<task, mail, runs, exec>>
    BY <1>5 DEF bridgeVars, brokerVars, ledgerVars
  <2> QED
    BY <2>1, QuietServed
<1> QED
  BY <1>1, <1>2, <1>3, <1>4, <1>5 DEF BridgeNext

\* The broker and the ledger implement the service: initial states map to
\* initial states, and every step to a step of EyesService or to none.  That a
\* result is the result of a run comes from Outcomes, that the browser is free
\* when work begins from OneWorker, and that no failure is silent from the
\* requesters and launchers that are still there.
THEOREM BridgeServes == BridgeSpec => ServiceProvided
<1>1. BridgeIInv /\ [BridgeNext]_bridgeVars => [Service!ServiceNext]_(Service!serviceVars)
  BY ServiceStep
<1> QED
  BY <1>1, ServiceStarts, BridgeInvariant, PTL DEF BridgeSpec, ServiceProvided, Service!ServiceSpec
=============================================================================
