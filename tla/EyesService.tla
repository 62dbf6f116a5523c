---------------------------- MODULE EyesService ----------------------------
(***************************************************************************)
(* What host eyes promise to the agents that ask for them, without the     *)
(* broker, its journal, the relay, retries or crashes: a task is asked     *)
(* for, accepted, worked on in the one browser, and answered once.         *)
(* EyesBridge implements this specification (EyesBridge!ServiceProvided).  *)
(***************************************************************************)
EXTENDS Sequences, FiniteSets

CONSTANT Task

VARIABLES
  status,   \* what the ledger says of a task
  browser,  \* the tasks at work in the browser
  worked,   \* the tasks that have been at work
  told      \* what the requester of a task was told, in order

serviceVars == <<status, browser, worked, told>>

Told == {"accepted", "done", "failed"}

ServiceInit ==
  /\ status = [t \in Task |-> "none"]
  /\ browser = {}
  /\ worked = {}
  /\ told = [t \in Task |-> <<>>]

Ask(t) ==
  /\ status[t] = "none"
  /\ status' = [status EXCEPT ![t] = "queued"]
  /\ UNCHANGED <<browser, worked, told>>

\* A requester hears of every change it did not make itself, once.
Answer(t, s) ==
  /\ status' = [status EXCEPT ![t] = s]
  /\ told' = [told EXCEPT ![t] = Append(@, s)]
  /\ UNCHANGED <<browser, worked>>

Accept(t) == status[t] = "queued" /\ Answer(t, "accepted")

\* One task at a time is at work, no task twice, and none that is not yet
\* accepted; one that has been cancelled or has run out of time may be.
Work(t) ==
  /\ status[t] \notin {"none", "queued"}
  /\ browser = {} /\ t \notin worked
  /\ browser' = {t}
  /\ worked' = worked \cup {t}
  /\ UNCHANGED <<status, told>>

Rest ==
  /\ browser # {}
  /\ browser' = {}
  /\ UNCHANGED <<status, worked, told>>

\* A result is the result of work that is over.
Finish(t) == status[t] = "accepted" /\ t \in worked \ browser /\ Answer(t, "done")

Fail(t) == status[t] \in {"queued", "accepted"} /\ Answer(t, "failed")

Cancel(t) ==
  /\ status[t] \in {"queued", "accepted"}
  /\ status' = [status EXCEPT ![t] = "cancelled"]
  /\ UNCHANGED <<browser, worked, told>>

ServiceNext ==
  \/ \E t \in Task : Ask(t) \/ Accept(t) \/ Work(t) \/ Finish(t) \/ Fail(t) \/ Cancel(t)
  \/ Rest

ServiceSpec == ServiceInit /\ [][ServiceNext]_serviceVars
=============================================================================
