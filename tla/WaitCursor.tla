----------------------------- MODULE WaitCursor -----------------------------
(***************************************************************************)
(* The wait command (cmd/agent-coordinator/wait.go) and the mailbox it     *)
(* polls (read, peekMail and sendToScope in internal/store/store.go).      *)
(*                                                                         *)
(* Waiters for one agent are processes that share a cursor file and        *)
(* nothing else.  They may run at once, be killed anywhere, time out and   *)
(* be started again; a peek is two SQL statements, between which mail may  *)
(* arrive or be read.                                                      *)
(*                                                                         *)
(* Abstracted: senders and bodies; the clock (a cursor may expire whenever *)
(* nobody waits); errors that end a wait at once, which leave the file as  *)
(* a kill does.  Message ids are never reused (AUTOINCREMENT), so the      *)
(* messages delivered to the agent are taken to be 1..sent.                *)
(***************************************************************************)
EXTENDS Naturals

CONSTANTS
  Waiter,          \* processes waiting for the same agent in the same scope
  MaxMail,         \* bound: messages sent
  MaxFaults,        \* bound: kills, failed polls and expiries
  ConcurrentArms   \* may a waiter find no cursor while another creates one?

ASSUME WaitAssumption ==
  /\ MaxMail \in Nat
  /\ MaxFaults \in Nat
  /\ ConcurrentArms \in BOOLEAN

VARIABLES
  sent,      \* the highest message id delivered to the agent
  unread,    \* the messages without read_at
  file,      \* the cursor file: {} when missing, corrupt or expired, or {afterID}
  wait,      \* [Waiter -> WaitState]
  base,      \* history: the mail there was when the cursor was created
  woken,     \* history: the messages some wake has reported
  faults      \* history: kills, failed polls and expiries

waitVars == <<sent, unread, file, wait, base, woken, faults>>

-----------------------------------------------------------------------------
(* State *)

\* "arm" and "baseline": first arm, before and after its peek; "poll" and
\* "peek": before the two statements of a poll; "save": after a quiet poll;
\* "rest": between polls.
Pc == {"idle", "arm", "baseline", "poll", "peek", "save", "rest"}
WaitState == [pc: Pc, after: Nat, high: Nat]
At(pc, after, high) == [pc |-> pc, after |-> after, high |-> high]
NotWaiting == At("idle", 0, 0)

Init ==
  /\ sent = 0
  /\ unread = {}
  /\ file = {}
  /\ wait = [w \in Waiter |-> NotWaiting]
  /\ base = 0
  /\ woken = {}
  /\ faults = 0

\* The type invariant; the cursor is one number, whoever writes it.
WaitTypeOK ==
  /\ sent \in Nat
  /\ unread \subseteq 1..sent
  /\ file \subseteq Nat
  /\ \A m, n \in file : m = n
  /\ wait \in [Waiter -> WaitState]
  /\ base \in Nat
  /\ woken \subseteq 1..sent
  /\ faults \in Nat

-----------------------------------------------------------------------------
(* The mailbox *)

\* sendToScope: a message and its delivery in one transaction.
Send ==
  /\ sent < MaxMail
  /\ sent' = sent + 1
  /\ unread' = unread \cup {sent + 1}
  /\ UNCHANGED <<file, wait, base, woken, faults>>

\* read: collect and mark everything unread in one transaction.
Read ==
  /\ unread' = {}
  /\ UNCHANGED <<sent, file, wait, base, woken, faults>>

-----------------------------------------------------------------------------
(* A waiter *)

FirstArming(w) == wait[w].pc \in {"arm", "baseline"}

\* loadWaitState: resume a cursor (and refresh its age), or arm for the first
\* time.
Load(w) ==
  /\ wait[w].pc = "idle"
  /\ \/ /\ file = {}
        /\ ConcurrentArms \/ \A v \in Waiter : ~FirstArming(v)
        /\ wait' = [wait EXCEPT ![w] = At("arm", 0, 0)]
     \/ \E n \in file :
          wait' = [wait EXCEPT ![w] = At("poll", n, 0)]
  /\ UNCHANGED <<sent, unread, file, base, woken, faults>>

\* The baseline is the high-water id, or 0 if the daemon does not answer.
ArmPeek(w, answered) ==
  /\ wait[w].pc = "arm"
  /\ wait' = [wait EXCEPT ![w] = At("baseline", IF answered THEN sent ELSE 0, 0)]
  /\ UNCHANGED <<sent, unread, file, base, woken, faults>>

\* Mutant of Save: the high-water id is read again for the file.
SaveLatest(w) ==
  /\ wait[w].pc \in {"baseline", "save"}
  /\ file' = {sent}
  /\ base' = IF file = {} THEN sent ELSE base
  /\ wait' = [wait EXCEPT ![w] =
       At(IF wait[w].pc = "baseline" THEN "poll" ELSE "rest", wait[w].after, 0)]
  /\ UNCHANGED <<sent, unread, woken, faults>>

\* saveWaitState: an atomic rename, after the first peek or a quiet poll.
Save(w) ==
  /\ wait[w].pc \in {"baseline", "save"}
  /\ file' = {wait[w].after}
  /\ base' = IF file = {} THEN sent ELSE base
  /\ wait' = [wait EXCEPT ![w] =
       At(IF wait[w].pc = "baseline" THEN "poll" ELSE "rest", wait[w].after, 0)]
  /\ UNCHANGED <<sent, unread, woken, faults>>

\* peekMail, first statement: the high-water id.
PeekHigh(w) ==
  /\ wait[w].pc = "poll"
  /\ wait' = [wait EXCEPT ![w] = At("peek", wait[w].after, sent)]
  /\ UNCHANGED <<sent, unread, file, base, woken, faults>>

\* Second statement: the unread mail above the cursor.  Some is a wake, which
\* leaves the cursor behind it; none means the cursor may go up to what the
\* first statement saw.
PeekUnread(w) ==
  /\ wait[w].pc = "peek"
  /\ LET fresh == {m \in unread : m > wait[w].after}
     IN  \/ /\ fresh # {}
            /\ woken' = woken \cup fresh
            /\ wait' = [wait EXCEPT ![w] = NotWaiting]
         \/ /\ fresh = {}
            /\ wait[w].high > wait[w].after
            /\ wait' = [wait EXCEPT ![w] = At("save", wait[w].high, 0)]
            /\ UNCHANGED woken
         \/ /\ fresh = {}
            /\ wait[w].high <= wait[w].after
            /\ wait' = [wait EXCEPT ![w] = At("rest", wait[w].after, 0)]
            /\ UNCHANGED woken
  /\ UNCHANGED <<sent, unread, file, base, faults>>

\* Mutant of Rest: the next poll starts from the mail there is by then.
RestResyncs(w, timeout) ==
  /\ wait[w].pc = "rest"
  /\ wait' = [wait EXCEPT ![w] = IF timeout THEN NotWaiting ELSE At("poll", sent, 0)]
  /\ UNCHANGED <<sent, unread, file, base, woken, faults>>

\* The next poll, or the timeout.
Rest(w, timeout) ==
  /\ wait[w].pc = "rest"
  /\ wait' = [wait EXCEPT ![w] = IF timeout THEN NotWaiting ELSE At("poll", wait[w].after, 0)]
  /\ UNCHANGED <<sent, unread, file, base, woken, faults>>

\* A failure of the transport is a miss: the daemon may be restarting.
PollFails(w) ==
  /\ wait[w].pc \in {"poll", "peek"}
  /\ faults < MaxFaults
  /\ faults' = faults + 1
  /\ wait' = [wait EXCEPT ![w] = At("rest", wait[w].after, 0)]
  /\ UNCHANGED <<sent, unread, file, base, woken>>

\* The process is killed.
Kill(w) ==
  /\ wait[w].pc # "idle"
  /\ faults < MaxFaults
  /\ faults' = faults + 1
  /\ wait' = [wait EXCEPT ![w] = NotWaiting]
  /\ UNCHANGED <<sent, unread, file, base, woken>>

\* A day without a wait: the file no longer counts.
Expire ==
  /\ \A w \in Waiter : wait[w].pc = "idle"
  /\ faults < MaxFaults
  /\ faults' = faults + 1
  /\ file' = {}
  /\ UNCHANGED <<sent, unread, wait, base, woken>>

-----------------------------------------------------------------------------
Step(w) ==
  \/ Load(w)
  \/ \E answered \in BOOLEAN : ArmPeek(w, answered)
  \/ Save(w)
  \/ PeekHigh(w)
  \/ PeekUnread(w)
  \/ \E timeout \in BOOLEAN : Rest(w, timeout)

Next ==
  \/ Send
  \/ Read
  \/ \E w \in Waiter : Step(w) \/ PollFails(w) \/ Kill(w)
  \/ Expire

WaitSpec == Init /\ [][Next]_waitVars

\* A waiter runs, polls every other second, and is started again promptly
\* when it is killed or times out.
FairWaitSpec == WaitSpec /\ \A w \in Waiter : WF_waitVars(Step(w))

-----------------------------------------------------------------------------
(* Properties *)

\* The cursor never passes unread mail that came after it was created: such
\* mail wakes this waiter or the next, whatever is killed in between.
\* (docs/reference.md: "Concurrent waiters may both report the same mail, but
\* cannot checkpoint past it.")
CursorBehindUnread ==
  \A n \in file : \A m \in unread : m > base => m > n

\* Mail that arrives once the cursor exists wakes the agent, unless it is read
\* first or the cursor expires: also when it arrives between a kill and the
\* re-arm, or between the two statements of a peek.
MailWakes ==
  \A m \in 1..MaxMail :
    (file # {} /\ m > base /\ m \in unread) ~> (m \in woken \/ m \notin unread \/ file = {})
=============================================================================
