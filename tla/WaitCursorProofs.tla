-------------------------- MODULE WaitCursorProofs --------------------------
(***************************************************************************)
(* The wait cursor never passes unread mail, for any number of concurrent  *)
(* waiters and messages, as long as no two of them create the cursor at    *)
(* the same time.  TLC refutes the statement without that assumption.      *)
(***************************************************************************)
EXTENDS WaitCursor, TLAPS

-----------------------------------------------------------------------------
(* The inductive invariant *)

\* Everything up to n that arrived after the cursor was created has been read.
Cleared(n) == \A m \in unread : m > base => m > n

\* No cursor, in the file or in a process, is ahead of the mailbox: the next
\* message is above all of them.
CursorsBehindMail ==
  /\ \A n \in file : n <= sent
  /\ \A w \in Waiter : wait[w].after <= sent /\ wait[w].high <= sent

\* The cursor a process works with is as good as the one in the file.
PollersCleared ==
  \A w \in Waiter : wait[w].pc \in {"poll", "peek", "save", "rest"} =>
    Cleared(wait[w].after) /\ file # {}

\* Only one process creates the cursor, and there is none until it has.
OneFirstArm ==
  \A w \in Waiter : FirstArming(w) =>
    file = {} /\ \A v \in Waiter : FirstArming(v) => v = w

FileCleared == \A n \in file : Cleared(n)

WaitInv ==
  WaitTypeOK /\ CursorsBehindMail /\ PollersCleared /\ OneFirstArm /\ FileCleared

-----------------------------------------------------------------------------
\* An empty mailbox and no file.
LEMMA WaitInvInit == Init => WaitInv
  BY DEF Init, WaitInv, WaitTypeOK, CursorsBehindMail, PollersCleared, OneFirstArm, FileCleared,
     NotWaiting, At, WaitState, Pc, FirstArming

\* New mail is above every cursor; reading only helps; no file, no claim.
LEMMA MailboxKeeps ==
  ASSUME WaitInv, Send \/ Read \/ Expire
  PROVE  WaitInv'
<1>1. CASE Send
  <2>1. WaitTypeOK'
    BY <1>1 DEF Send, WaitInv, WaitTypeOK
  <2>2. \A n \in Nat : n <= sent /\ Cleared(n) => Cleared(n)'
    BY <1>1 DEF Send, WaitInv, WaitTypeOK, Cleared
  <2>3. CursorsBehindMail' /\ OneFirstArm'
    BY <1>1 DEF Send, WaitInv, WaitTypeOK, WaitState, CursorsBehindMail, OneFirstArm, FirstArming
  <2>4. PollersCleared' /\ FileCleared'
    BY <1>1, <2>2 DEF Send, WaitInv, WaitTypeOK, WaitState, CursorsBehindMail, PollersCleared, FileCleared
  <2> QED BY <2>1, <2>3, <2>4 DEF WaitInv
<1>2. CASE Read
  BY <1>2 DEF Read, WaitInv, WaitTypeOK, CursorsBehindMail, PollersCleared, OneFirstArm, FileCleared,
     Cleared, FirstArming
<1>3. CASE Expire
  BY <1>3 DEF Expire, WaitInv, WaitTypeOK, CursorsBehindMail, PollersCleared, OneFirstArm, FileCleared,
     Cleared, FirstArming
<1> QED BY <1>1, <1>2, <1>3

\* Process w leaves the file alone and goes on in an orderly state.
Goes(w, pc, n, h) ==
  /\ wait' = [wait EXCEPT ![w] = At(pc, n, h)]
  /\ UNCHANGED <<sent, unread, file, base>>
  /\ woken' \subseteq 1..sent
  /\ faults' \in Nat
  /\ n <= sent
  /\ h <= sent
  /\ pc \in {"poll", "peek", "save", "rest"} => Cleared(n) /\ file # {}
  /\ pc \in {"arm", "baseline"} => file = {} /\ \A v \in Waiter : FirstArming(v) => v = w

\* Such a step keeps the invariant.
LEMMA WaiterKeeps ==
  ASSUME WaitInv, NEW w \in Waiter, NEW pc \in Pc, NEW n \in Nat, NEW h \in Nat, Goes(w, pc, n, h)
  PROVE  WaitInv'
<1> USE DEF Goes
<1>1. WaitTypeOK' /\ CursorsBehindMail' /\ FileCleared'
  BY DEF At, WaitInv, WaitTypeOK, WaitState, CursorsBehindMail, FileCleared, Cleared
<1>2. PollersCleared'
  BY DEF At, WaitInv, WaitTypeOK, PollersCleared, Cleared
<1>3. OneFirstArm'
  BY DEF At, WaitInv, WaitTypeOK, OneFirstArm, FirstArming
<1> QED BY <1>1, <1>2, <1>3 DEF WaitInv

\* The cursor is created by the only process arming, or moved by one that
\* found everything below its new value read.
LEMMA SaveKeeps ==
  ASSUME WaitInv, NEW w \in Waiter, Save(w)
  PROVE  WaitInv'
<1> DEFINE n == wait[w].after
<1>1. n \in Nat /\ n <= sent
  BY DEF WaitInv, WaitTypeOK, WaitState, CursorsBehindMail
<1>2. /\ file' = {n}
      /\ base' \in Nat
      /\ base' = base \/ (base' = sent /\ file = {})
      /\ UNCHANGED <<sent, unread, woken, faults>>
      /\ \E q \in {"poll", "rest"} : wait' = [wait EXCEPT ![w] = At(q, n, 0)]
  BY DEF Save, WaitInv, WaitTypeOK
<1>3. WaitTypeOK' /\ CursorsBehindMail'
  BY <1>1, <1>2 DEF At, WaitInv, WaitTypeOK, WaitState, Pc, CursorsBehindMail
<1>4. \A k \in Nat : Cleared(k) => Cleared(k)'
  BY <1>2 DEF Cleared, WaitInv, WaitTypeOK
<1>5. \A k \in Nat : k = n => Cleared(k)'
  <2>1. CASE wait[w].pc = "save"
    BY <1>1, <1>4, <2>1 DEF WaitInv, PollersCleared
  <2>2. CASE wait[w].pc = "baseline"
    <3>1. file = {} /\ base' = sent
      BY <2>2 DEF Save, WaitInv, OneFirstArm, FirstArming
    <3> QED BY <1>2, <3>1 DEF Cleared, WaitInv, WaitTypeOK
  <2> QED BY <2>1, <2>2 DEF Save
<1>6. PollersCleared' /\ FileCleared'
  BY <1>1, <1>2, <1>4, <1>5 DEF At, WaitInv, WaitTypeOK, WaitState, PollersCleared, FileCleared
<1>7. OneFirstArm'
  <2>1. \A v \in Waiter : v # w => ~FirstArming(v)
    <3>1. CASE wait[w].pc = "save"
      BY <3>1 DEF WaitInv, PollersCleared, OneFirstArm
    <3>2. CASE wait[w].pc = "baseline"
      BY <3>2 DEF WaitInv, OneFirstArm, FirstArming
    <3> QED BY <3>1, <3>2 DEF Save
  <2> QED BY <1>2, <2>1 DEF At, WaitInv, WaitTypeOK, OneFirstArm, FirstArming
<1> QED BY <1>3, <1>6, <1>7 DEF WaitInv

\* Every step of a process.
LEMMA StepKeeps ==
  ASSUME ~ConcurrentArms, WaitInv, NEW w \in Waiter, Step(w) \/ PollFails(w) \/ Kill(w)
  PROVE  WaitInv'
<1> DEFINE n == wait[w].after
           h == wait[w].high
           polling == wait[w].pc \in {"poll", "peek", "save", "rest"}
<1>0. /\ sent \in Nat /\ woken \subseteq 1..sent /\ faults \in Nat
      /\ n \in Nat /\ n <= sent /\ h \in Nat /\ h <= sent
      /\ polling => Cleared(n) /\ file # {}
  BY DEF WaitInv, WaitTypeOK, WaitState, CursorsBehindMail, PollersCleared
<1>00. \A pc \in Pc : \A k, g \in Nat : Goes(w, pc, k, g) => WaitInv'
  BY WaiterKeeps
<1> USE DEF Pc, NotWaiting
<1>1. CASE Load(w)
  <2>1. CASE file = {} /\ wait' = [wait EXCEPT ![w] = At("arm", 0, 0)]
    <3>1. Goes(w, "arm", 0, 0)
      BY <1>0, <1>1, <2>1 DEF Goes, Load
    <3> QED BY <1>00, <3>1
  <2>2. ASSUME NEW k \in file, wait' = [wait EXCEPT ![w] = At("poll", k, 0)]
        PROVE  WaitInv'
    <3>1. k \in Nat /\ k <= sent /\ Cleared(k)
      BY <2>2 DEF WaitInv, WaitTypeOK, CursorsBehindMail, FileCleared
    <3>2. Goes(w, "poll", k, 0)
      BY <1>0, <1>1, <2>2, <3>1 DEF Goes, Load
    <3> QED BY <1>00, <3>1, <3>2
  <2> QED BY <1>1, <2>1, <2>2 DEF Load
<1>2. ASSUME NEW answered \in BOOLEAN, ArmPeek(w, answered) PROVE WaitInv'
  <2>1. file = {} /\ \A v \in Waiter : FirstArming(v) => v = w
    BY <1>2 DEF ArmPeek, WaitInv, OneFirstArm, FirstArming
  <2>0. UNCHANGED <<sent, unread, file, base, woken, faults>>
    BY <1>2 DEF ArmPeek
  <2>2. CASE answered
    <3>1. wait' = [wait EXCEPT ![w] = At("baseline", sent, 0)]
      BY <1>2, <2>2 DEF ArmPeek
    <3>2. Goes(w, "baseline", sent, 0)
      BY <1>0, <2>0, <2>1, <3>1 DEF Goes
    <3> QED BY <1>0, <1>00, <3>2
  <2>3. CASE ~answered
    <3>1. wait' = [wait EXCEPT ![w] = At("baseline", 0, 0)]
      BY <1>2, <2>3 DEF ArmPeek
    <3>2. Goes(w, "baseline", 0, 0)
      BY <1>0, <2>0, <2>1, <3>1 DEF Goes
    <3> QED BY <1>00, <3>2
  <2> QED BY <2>2, <2>3
<1>3. CASE Save(w)
  BY <1>3, SaveKeeps
<1>4. CASE PeekHigh(w)
  <2>1. Goes(w, "peek", n, sent)
    BY <1>0, <1>4 DEF Goes, PeekHigh
  <2> QED BY <1>0, <1>00, <2>1
<1>5. CASE PeekUnread(w)
  <2> DEFINE fresh == {m \in unread : m > n}
  <2>1. CASE fresh # {}
    <3>1. woken' \subseteq 1..sent
      BY <1>0, <1>5, <2>1 DEF PeekUnread, WaitInv, WaitTypeOK
    <3>2. Goes(w, "idle", 0, 0)
      BY <1>0, <1>5, <2>1, <3>1 DEF Goes, PeekUnread
    <3> QED BY <1>00, <3>2
  <2>2. CASE fresh = {} /\ h > n
    <3>1. Cleared(h)
      BY <1>0, <1>5, <2>2 DEF PeekUnread, Cleared
    <3>2. wait' = [wait EXCEPT ![w] = At("save", h, 0)] /\ UNCHANGED woken
      BY <1>0, <1>5, <2>2 DEF PeekUnread
    <3>3. UNCHANGED <<sent, unread, file, base, faults>> /\ polling
      BY <1>5 DEF PeekUnread
    <3>4. Goes(w, "save", h, 0)
      BY <1>0, <3>1, <3>2, <3>3 DEF Goes
    <3> QED BY <1>0, <1>00, <3>4
  <2>3. CASE fresh = {} /\ ~(h > n)
    <3>1. wait' = [wait EXCEPT ![w] = At("rest", n, 0)] /\ UNCHANGED woken
      BY <1>0, <1>5, <2>3 DEF PeekUnread
    <3>2. UNCHANGED <<sent, unread, file, base, faults>> /\ polling
      BY <1>5 DEF PeekUnread
    <3>3. Goes(w, "rest", n, 0)
      BY <1>0, <3>1, <3>2 DEF Goes
    <3> QED BY <1>0, <1>00, <3>3
  <2> QED BY <2>1, <2>2, <2>3
<1>6. ASSUME NEW timeout \in BOOLEAN, Rest(w, timeout) PROVE WaitInv'
  <2>0. UNCHANGED <<sent, unread, file, base, woken, faults>> /\ polling
    BY <1>6 DEF Rest
  <2>1. CASE timeout
    <3>1. Goes(w, "idle", 0, 0)
      BY <1>0, <1>6, <2>1 DEF Goes, Rest
    <3> QED BY <1>00, <3>1
  <2>2. CASE ~timeout
    <3>1. wait' = [wait EXCEPT ![w] = At("poll", n, 0)]
      BY <1>6, <2>2 DEF Rest
    <3>2. Goes(w, "poll", n, 0)
      BY <1>0, <2>0, <3>1 DEF Goes
    <3> QED BY <1>0, <1>00, <3>2
  <2> QED BY <2>1, <2>2
<1>7. CASE PollFails(w)
  <2>1. Goes(w, "rest", n, 0)
    BY <1>0, <1>7 DEF Goes, PollFails
  <2> QED BY <1>0, <1>00, <2>1
<1>8. CASE Kill(w)
  <2>1. Goes(w, "idle", 0, 0)
    BY <1>0, <1>8 DEF Goes, Kill
  <2> QED BY <1>00, <2>1
<1> QED BY <1>1, <1>2, <1>3, <1>4, <1>5, <1>6, <1>7, <1>8 DEF Step

-----------------------------------------------------------------------------
\* Waiters that share a cursor never checkpoint past unread mail: peekMail
\* reads the high-water id before it looks for unread mail, and a quiet look
\* is what entitles waitForMail to save it.
THEOREM CursorNeverSkips == ~ConcurrentArms => (WaitSpec => []CursorBehindUnread)
<1> SUFFICES ASSUME ~ConcurrentArms PROVE WaitSpec => []CursorBehindUnread
  OBVIOUS
<1>1. Init => WaitInv
  BY WaitInvInit
<1>2. WaitInv /\ [Next]_waitVars => WaitInv'
  <2> SUFFICES ASSUME WaitInv, [Next]_waitVars PROVE WaitInv'
    OBVIOUS
  <2>1. CASE UNCHANGED waitVars
    BY <2>1 DEF waitVars, WaitInv, WaitTypeOK, CursorsBehindMail, PollersCleared, OneFirstArm,
       FileCleared, Cleared, FirstArming
  <2>2. CASE Next
    BY <2>2, MailboxKeeps, StepKeeps DEF Next
  <2> QED BY <2>1, <2>2
<1>3. WaitInv => CursorBehindUnread
  BY DEF WaitInv, FileCleared, Cleared, CursorBehindUnread
<1> QED BY <1>1, <1>2, <1>3, PTL DEF WaitSpec
=============================================================================
