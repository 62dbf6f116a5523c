---------------------------- MODULE MailboxProofs ----------------------------
(***************************************************************************)
(* Proofs about Mailbox for any number of sessions, requests and messages: *)
(* unread mail is not lost, every registration is answered with the name   *)
(* the row has, and nobody drains another agent's inbox.                   *)
(*                                                                         *)
(* A request knows its agent by name from one statement to the next.  The  *)
(* invariant says what it knows at each phase, and that names are unique   *)
(* and stay with their rows as long as a request relies on them.  The last *)
(* is what PurgesMidCall would break, so all but the first theorem assume  *)
(* that Housekeep purges no row that a request in progress relies on.      *)
(***************************************************************************)
EXTENDS Mailbox, SequenceTheorems, TLAPS

-----------------------------------------------------------------------------
(* The inductive invariant *)

\* The names of sessions that are no subagents.
TopName == {<<Base[s], n>> : s \in Session, n \in 1..MaxSuffix}
SubName == {<<Base[s], n, k>> : s \in Session, n \in 1..MaxSuffix, k \in 1..MaxSuffix}

RegPhase == {"register", "child", "parent", "name"}
LastPhase == {"register", "child", "name", "notices", "gone", "drain", "send", "broadcast"}

\* The phases that may come after p.
After(p) ==
  CASE p = "parent" -> {"name"}
    [] p \in {"child", "name"} -> {"register", "idle", "resolve"}
    [] p \in {"register", "idle"} -> {"notices"}
    [] p = "resolve" -> {"touch"}
    [] p = "touch" -> {"lookup", "send", "broadcast"}
    [] p = "lookup" -> {"drain"}
    [] OTHER -> {}

ProgOK(prog) ==
  /\ prog \in Seq(Phase) /\ prog # <<>>
  /\ \A i \in 1..Len(prog) - 1 : prog[i + 1] \in After(prog[i])
  /\ prog[Len(prog)] \in LastPhase

\* The row the current phase of the request k is about.
SubjectOf(k) == IF Head(k.prog) = "parent" THEN Parent[k.who] ELSE k.who

\* What a request knows at its phase, with the agents table r.
CallOK(k, r) ==
  k.op # "none" =>
    /\ k.caller \in Session /\ Parent[k.caller] = NoSession /\ k.who \in Session
    /\ k.who = k.caller \/ Parent[k.who] = k.caller
    /\ ProgOK(k.prog)
    /\ k.op = "register" => \A i \in 1..Len(k.prog) : k.prog[i] \in RegPhase
    /\ Head(k.prog) \in {"child", "parent", "name"} => Parent[k.who] = k.caller
    /\ Head(k.prog) = "name" => k.step \in {"count", "insert", "reselect"}
    /\ Head(k.prog) \in RegPhase /\ k.step = "update" =>
         r[SubjectOf(k)].here /\ k.name = r[SubjectOf(k)].name
    /\ Head(k.prog) \in RegPhase /\ k.step \in {"count", "insert", "reselect"} =>
         k.name \in IF Head(k.prog) = "name" THEN SubName ELSE TopName
    /\ Head(k.prog) \in {"touch", "lookup"} => r[k.who].here /\ k.name = r[k.who].name

\* Names are unique, and what a registration was told has a row.
RowsOK(r, t) ==
  /\ \A s \in Session : /\ r[s].here => r[s].name \in Name
                        /\ r[s].here /\ Parent[s] = NoSession => r[s].name \in TopName
                        /\ t[s] # {} => r[s].here
                        /\ t[s] \subseteq {r[s].name}
  /\ \A s \in Session, u \in Session :
       r[s].here /\ r[u].here /\ r[s].name = r[u].name => s = u

CallsOK == \A c \in Call : CallOK(call[c], row)

\* Messages that are not sent have no deliveries.
UnsentNotDelivered ==
  /\ msg \in [Msg -> MsgState]
  /\ dlv \in [Msg -> [Session -> Delivery]]
  /\ \A m \in Msg, s \in Session : msg[m] = "unsent" => dlv[m][s] = "none"

\* Housekeep and the history of reads.
HandedOK ==
  /\ hk \in HkPc
  /\ handed \in [Msg -> [Session -> SUBSET Session]]
  /\ OwnMailOnly

MailIInv ==
  /\ UnsentNotDelivered
  /\ HandedOK
  /\ row \in [Session -> Row] /\ told \in [Session -> SUBSET Name] /\ RowsOK(row, told)
  /\ call \in [Call -> CallState] /\ CallsOK
-----------------------------------------------------------------------------
(* Programs *)

\* What is left of a program after its first phase.
LEMMA ProgTail ==
  ASSUME NEW prog, ProgOK(prog)
  PROVE  /\ Head(prog) \in Phase /\ Head(prog) = prog[1]
         /\ Tail(prog) = <<>> => Head(prog) \in LastPhase
         /\ Tail(prog) # <<>> => ProgOK(Tail(prog)) /\ Head(Tail(prog)) \in After(Head(prog))
         /\ \A S : (\A i \in 1..Len(prog) : prog[i] \in S) =>
                     Head(prog) \in S /\ \A i \in 1..Len(Tail(prog)) : Tail(prog)[i] \in S
<1>1. prog \in Seq(Phase) /\ prog # <<>> /\ Len(prog) \in Nat \ {0}
  BY DEF ProgOK
<1>2. Head(prog) = prog[1] /\ Head(prog) \in Phase
  BY <1>1
<1>3. /\ Tail(prog) \in Seq(Phase) /\ Len(Tail(prog)) = Len(prog) - 1
      /\ \A i \in 1..Len(prog) - 1 : Tail(prog)[i] = prog[i + 1]
  BY <1>1
<1>4. ASSUME Tail(prog) = <<>> PROVE Head(prog) \in LastPhase
  <2>1. Len(prog) = 1
    <3> DEFINE t == Tail(prog)
    <3>1. t = <<>> /\ Len(t) = Len(prog) - 1
      BY <1>3, <1>4
    <3> HIDE DEF t
    <3>2. QED
      BY <1>1, <3>1
  <2>2. QED
    BY <1>2, <2>1 DEF ProgOK
<1>5. ASSUME Tail(prog) # <<>>
      PROVE  ProgOK(Tail(prog)) /\ Head(Tail(prog)) \in After(Head(prog))
  <2>1. Len(Tail(prog)) \in Nat \ {0}
    BY <1>3, <1>5
  <2>2. \A i \in 1..Len(Tail(prog)) - 1 : Tail(prog)[i + 1] \in After(Tail(prog)[i])
    <3> SUFFICES ASSUME NEW i \in 1..Len(Tail(prog)) - 1
                 PROVE  Tail(prog)[i + 1] \in After(Tail(prog)[i])
      OBVIOUS
    <3>1. i + 1 \in 1..Len(prog) - 1 /\ i \in 1..Len(prog) - 1
      BY <1>1, <1>3
    <3>2. Tail(prog)[i + 1] = prog[i + 1 + 1] /\ Tail(prog)[i] = prog[i + 1]
      BY <1>3, <3>1
    <3>3. prog[i + 1 + 1] \in After(prog[i + 1])
      BY <3>1 DEF ProgOK
    <3>4. QED
      BY <3>2, <3>3
  <2>3. Tail(prog)[Len(Tail(prog))] \in LastPhase
    BY <1>1, <1>3, <2>1 DEF ProgOK
  <2>4. Head(Tail(prog)) = Tail(prog)[1] /\ Tail(prog)[1] = prog[1 + 1]
    BY <1>1, <1>3, <2>1
  <2>5. prog[1 + 1] \in After(prog[1])
    <3>1. 1 \in 1..Len(prog) - 1
      BY <1>1, <1>3, <2>1
    <3>2. QED
      BY <3>1 DEF ProgOK
  <2>6. QED
    BY <1>2, <1>3, <1>5, <2>2, <2>3, <2>4, <2>5 DEF ProgOK
<1>6. ASSUME NEW S, \A i \in 1..Len(prog) : prog[i] \in S
      PROVE  Head(prog) \in S /\ \A i \in 1..Len(Tail(prog)) : Tail(prog)[i] \in S
  BY <1>1, <1>2, <1>3, <1>6
<1>7. QED
  BY <1>2, <1>4, <1>5, <1>6

\* Two programs one after the other.
LEMMA ProgConcat ==
  ASSUME NEW p, ProgOK(p), NEW q, ProgOK(q), Head(q) \in After(p[Len(p)])
  PROVE  ProgOK(p \o q) /\ Head(p \o q) = Head(p)
<1>1. /\ p \in Seq(Phase) /\ q \in Seq(Phase) /\ Len(p) \in Nat \ {0} /\ Len(q) \in Nat \ {0}
      /\ Head(q) = q[1]
  BY DEF ProgOK
<1>2. /\ p \o q \in Seq(Phase) /\ Len(p \o q) = Len(p) + Len(q)
      /\ \A i \in 1..Len(p) + Len(q) :
           (p \o q)[i] = IF i <= Len(p) THEN p[i] ELSE q[i - Len(p)]
  BY <1>1, ConcatProperties
<1>3. ASSUME NEW i \in 1..Len(p \o q) - 1
      PROVE  (p \o q)[i + 1] \in After((p \o q)[i])
  <2>1. i \in 1..Len(p) + Len(q) /\ i + 1 \in 1..Len(p) + Len(q)
    BY <1>1, <1>2
  <2>2. CASE i < Len(p)
    BY <1>1, <1>2, <2>1, <2>2 DEF ProgOK
  <2>3. CASE i = Len(p)
    <3>1. (p \o q)[i] = p[Len(p)] /\ (p \o q)[i + 1] = q[1]
      BY <1>1, <1>2, <2>1, <2>3
    <3>2. QED
      BY <1>1, <3>1
  <2>4. CASE i > Len(p)
    <3>1. (p \o q)[i] = q[i - Len(p)] /\ (p \o q)[i + 1] = q[i + 1 - Len(p)]
      BY <1>1, <1>2, <2>1, <2>4
    <3>2. i - Len(p) \in 1..Len(q) - 1 /\ i + 1 - Len(p) = (i - Len(p)) + 1
      BY <1>1, <1>2, <2>1, <2>4
    <3>3. q[(i - Len(p)) + 1] \in After(q[i - Len(p)])
      BY <3>2 DEF ProgOK
    <3>4. QED
      BY <3>1, <3>2, <3>3
  <2>5. QED
    BY <1>1, <2>1, <2>2, <2>3, <2>4
<1>4. (p \o q)[Len(p \o q)] \in LastPhase
  BY <1>1, <1>2 DEF ProgOK
<1>5. p \o q # <<>> /\ Head(p \o q) = p[1] /\ Head(p) = p[1]
  BY <1>1, <1>2
<1>6. QED
  BY <1>2, <1>3, <1>4, <1>5 DEF ProgOK
\* The programs the calls begin with are well formed.
LEMMA PlainProgs ==
  /\ ProgOK(<<"register">>) /\ ProgOK(<<"child">>) /\ ProgOK(<<"gone">>)
  /\ ProgOK(<<"register", "notices">>) /\ ProgOK(<<"idle", "notices">>)
  /\ ProgOK(<<"resolve", "touch", "lookup", "drain">>)
  /\ ProgOK(<<"resolve", "touch", "send">>) /\ ProgOK(<<"resolve", "touch", "broadcast">>)
  /\ ProgOK(<<"parent", "name">>)
<1>1. ProgOK(<<"register">>) /\ ProgOK(<<"child">>) /\ ProgOK(<<"gone">>)
  BY DEF ProgOK, LastPhase, Phase
<1>2. ProgOK(<<"register", "notices">>) /\ ProgOK(<<"idle", "notices">>) /\ ProgOK(<<"parent", "name">>)
  BY DEF ProgOK, LastPhase, Phase, After
<1>3. ProgOK(<<"resolve", "touch", "send">>) /\ ProgOK(<<"resolve", "touch", "broadcast">>)
  BY DEF ProgOK, LastPhase, Phase, After
<1>4. ProgOK(<<"resolve", "touch", "lookup", "drain">>)
  BY DEF ProgOK, LastPhase, Phase, After
<1>5. QED
  BY <1>1, <1>2, <1>3, <1>4

\* The program of a request, and the phases a new subagent takes instead.
LEMMA ProgramFacts ==
  ASSUME NEW op \in Op, NEW s \in Session
  PROVE  /\ ProgOK(Program(op, s))
         /\ op = "register" => \A i \in 1..Len(Program(op, s)) : Program(op, s)[i] \in RegPhase
         /\ Head(Program(op, s)) \in {"child", "parent", "name"} => Parent[s] # NoSession
         /\ Head(Program(op, s)) \notin {"touch", "lookup", "name"}
<1>1. ASSUME NEW q, ProgOK(q), Head(q) \in {"register", "idle", "resolve"}
      PROVE  ProgOK(<<"child">> \o q) /\ Head(<<"child">> \o q) = "child"
  <2>1. ProgOK(<<"child">>) /\ Len(<<"child">>) = 1 /\ <<"child">>[1] = "child" /\ Head(<<"child">>) = "child"
    BY PlainProgs
  <2>2. Head(q) \in After("child")
    BY <1>1 DEF After
  <2>3. QED
    BY <1>1, <2>1, <2>2, ProgConcat
<1>2. <<"child">> # <<>> /\ \A q \in Seq(Phase) : <<>> \o q = q
  BY ConcatEmptySeq
<1>3. CASE op = "register"
  <2>1. CASE Parent[s] # NoSession
    <3>1. Program(op, s) = <<"child">>
      BY <1>2, <1>3, <2>1 DEF Program
    <3>2. QED
      BY <2>1, <3>1, PlainProgs DEF RegPhase
  <2>2. CASE Parent[s] = NoSession
    <3>1. Program(op, s) = <<"register">>
      BY <1>3, <2>2 DEF Program
    <3>2. QED
      BY <3>1, PlainProgs DEF RegPhase
  <2>3. QED
    BY <2>1, <2>2
<1>4. ASSUME NEW q, ProgOK(q), Head(q) \in {"register", "idle", "resolve"}, op # "register",
             Program(op, s) = (IF Parent[s] # NoSession THEN <<"child">> ELSE <<>>) \o q
      PROVE  /\ ProgOK(Program(op, s))
             /\ Head(Program(op, s)) \in {"child", "parent", "name"} => Parent[s] # NoSession
             /\ Head(Program(op, s)) \notin {"touch", "lookup", "name"}
  <2>1. CASE Parent[s] # NoSession
    <3>1. Program(op, s) = <<"child">> \o q
      BY <1>4, <2>1
    <3>2. ProgOK(<<"child">> \o q) /\ Head(<<"child">> \o q) = "child"
      BY <1>1, <1>4
    <3>3. QED
      BY <2>1, <3>1, <3>2
  <2>2. CASE Parent[s] = NoSession
    <3>1. Program(op, s) = q
      BY <1>2, <1>4, <2>2 DEF ProgOK
    <3>2. QED
      BY <1>4, <3>1
  <2>3. QED
    BY <2>1, <2>2
<1>5. CASE op = "event"
  <2>1. Program(op, s) = (IF Parent[s] # NoSession THEN <<"child">> ELSE <<>>) \o <<"register", "notices">>
    BY <1>5 DEF Program
  <2>2. Head(<<"register", "notices">>) = "register"
    OBVIOUS
  <2>3. QED
    BY <1>4, <1>5, <2>1, <2>2, PlainProgs
<1>6. CASE op = "idle"
  <2>1. Program(op, s) = (IF Parent[s] # NoSession THEN <<"child">> ELSE <<>>) \o <<"idle", "notices">>
    BY <1>6 DEF Program
  <2>2. Head(<<"idle", "notices">>) = "idle"
    OBVIOUS
  <2>3. QED
    BY <1>4, <1>6, <2>1, <2>2, PlainProgs
<1>7. CASE op = "broadcast"
  <2>1. Program(op, s) = (IF Parent[s] # NoSession THEN <<"child">> ELSE <<>>)
                           \o <<"resolve", "touch", "broadcast">>
    BY <1>7 DEF Program
  <2>2. Head(<<"resolve", "touch", "broadcast">>) = "resolve"
    OBVIOUS
  <2>3. QED
    BY <1>4, <1>7, <2>1, <2>2, PlainProgs
<1>8. CASE op = "deregister"
  BY <1>8, PlainProgs DEF Program
<1>9. CASE op = "read"
  BY <1>9, PlainProgs DEF Program
<1>10. CASE op = "send"
  BY <1>10, PlainProgs DEF Program
<1>11. QED
  BY <1>3, <1>5, <1>6, <1>7, <1>8, <1>9, <1>10 DEF Op

\* A new subagent's parent comes first.
LEMMA ParentFirst ==
  ASSUME NEW prog, ProgOK(prog), Head(prog) = "child"
  PROVE  /\ ProgOK(<<"parent", "name">> \o Tail(prog))
         /\ Head(<<"parent", "name">> \o Tail(prog)) = "parent"
         /\ (\A i \in 1..Len(prog) : prog[i] \in RegPhase) =>
              \A i \in 1..Len(<<"parent", "name">> \o Tail(prog)) :
                (<<"parent", "name">> \o Tail(prog))[i] \in RegPhase
<1> DEFINE p == <<"parent", "name">>
<1>1. /\ ProgOK(p) /\ Len(p) = 2 /\ p[2] = "name" /\ Head(p) = "parent" /\ p \in Seq(Phase)
      /\ p[1] = "parent"
  BY PlainProgs DEF ProgOK
<1> HIDE DEF p
<1>2. prog \in Seq(Phase) /\ prog # <<>>
  BY DEF ProgOK
<1>3. Tail(prog) \in Seq(Phase)
  BY <1>2, HeadTailProperties
<1>4. ProgOK(p \o Tail(prog)) /\ Head(p \o Tail(prog)) = "parent"
  <2>1. CASE Tail(prog) = <<>>
    <3>1. p \o Tail(prog) = p
      BY <1>1, <2>1, ConcatEmptySeq
    <3>2. QED
      BY <1>1, <3>1
  <2>2. CASE Tail(prog) # <<>>
    <3>1. ProgOK(Tail(prog)) /\ Head(Tail(prog)) \in After("child")
      BY <2>2, ProgTail
    <3>2. Head(Tail(prog)) \in After(p[Len(p)])
      BY <1>1, <3>1 DEF After
    <3>3. QED
      BY <1>1, <3>1, <3>2, ProgConcat
  <2>3. QED
    BY <2>1, <2>2
<1>5. ASSUME \A i \in 1..Len(prog) : prog[i] \in RegPhase,
             NEW i \in 1..Len(p \o Tail(prog))
      PROVE  (p \o Tail(prog))[i] \in RegPhase
  <2>1. \A j \in 1..Len(Tail(prog)) : Tail(prog)[j] \in RegPhase
    BY <1>5, ProgTail
  <2>2. /\ Len(p \o Tail(prog)) = Len(p) + Len(Tail(prog)) /\ Len(Tail(prog)) \in Nat
        /\ (p \o Tail(prog))[i] = IF i <= Len(p) THEN p[i] ELSE Tail(prog)[i - Len(p)]
    <3> DEFINE t == Tail(prog)
    <3>1. t \in Seq(Phase) /\ Len(t) \in Nat
      BY <1>3
    <3> HIDE DEF t
    <3>2. /\ Len(p \o t) = Len(p) + Len(t)
          /\ \A j \in 1..Len(p) + Len(t) : (p \o t)[j] = IF j <= Len(p) THEN p[j] ELSE t[j - Len(p)]
      BY <1>1, <3>1, ConcatProperties
    <3>3. QED
      BY <1>5, <3>1, <3>2 DEF t
  <2>3. CASE i <= 2
    <3>1. i = 1 \/ i = 2
      BY <1>1, <2>2, <2>3
    <3>2. QED
      BY <1>1, <2>2, <3>1 DEF RegPhase
  <2>4. CASE i > 2
    BY <1>1, <2>1, <2>2, <2>4
  <2>5. QED
    BY <1>1, <2>2, <2>3, <2>4
<1>6. QED
  BY <1>4, <1>5 DEF p
-----------------------------------------------------------------------------
(* Names *)

\* What Append does.
LEMMA Appended ==
  ASSUME NEW S, NEW q \in Seq(S), NEW e \in S
  PROVE  /\ Append(q, e) \in Seq(S) /\ Len(Append(q, e)) = Len(q) + 1
         /\ \A j \in 1..Len(q) : Append(q, e)[j] = q[j]
         /\ Append(q, e)[Len(q) + 1] = e
  OBVIOUS

\* Names of agents and of subagents, and what is none.
LEMMA NameFacts ==
  /\ Name = TopName \cup SubName
  /\ NoName \notin Name
  /\ \A s \in Session : <<Base[s], 1>> \in TopName
  /\ \A n \in TopName : Append(n, 1) \in SubName
<1>1. Name = TopName \cup SubName
  BY DEF Name, TopName, SubName
<1>2. NoName \notin Name
  BY DEF Name, NoName
<1>3. 1 \in 1..MaxSuffix
  BY MailboxAssumption
<1>4. \A s \in Session : <<Base[s], 1>> \in TopName
  BY <1>3 DEF TopName
<1>5. ASSUME NEW n \in TopName PROVE Append(n, 1) \in SubName
  <2>1. PICK s \in Session, i \in 1..MaxSuffix : n = <<Base[s], i>>
    BY DEF TopName
  <2>2. Append(n, 1) = <<Base[s], i, 1>>
    <3> DEFINE S == {Base[s], i, 1}
               t == <<Base[s], i, 1>>
               a == Append(n, 1)
    <3>1. n \in Seq(S) /\ 1 \in S /\ Len(n) = 2 /\ n[1] = Base[s] /\ n[2] = i
      BY <2>1
    <3>2. /\ a \in Seq(S) /\ Len(a) = 3 /\ \A j \in 1..2 : a[j] = n[j]
          /\ a[3] = 1
      <4>1. n \in Seq(S) /\ 1 \in S
        BY <3>1
      <4> HIDE DEF S, t
      <4>2. /\ a \in Seq(S) /\ Len(a) = Len(n) + 1 /\ \A j \in 1..Len(n) : a[j] = n[j]
            /\ a[Len(n) + 1] = 1
        BY <4>1, Appended
      <4> HIDE DEF a
      <4>3. QED
        BY <3>1, <4>2
    <3>3. t \in Seq(S) /\ Len(t) = 3 /\ t[1] = Base[s] /\ t[2] = i /\ t[3] = 1
      OBVIOUS
    <3> HIDE DEF S, t, a
    <3>4. \A j \in 1..Len(a) : a[j] = t[j]
      BY <3>1, <3>2, <3>3
    <3>5. a = t
      BY <3>2, <3>3, <3>4, SeqEqual
    <3>6. QED
      BY <3>5 DEF a, t
  <2>3. QED
    BY <1>3, <2>2 DEF SubName
<1>6. QED
  BY <1>1, <1>2, <1>4, <1>5

\* The next suffix keeps the kind of a name.
LEMMA BumpedFacts ==
  /\ \A n \in TopName : ~LastSuffix(n) => Bumped(n) \in TopName
  /\ \A n \in SubName : ~LastSuffix(n) => Bumped(n) \in SubName
<1>1. ASSUME NEW n \in TopName, ~LastSuffix(n) PROVE Bumped(n) \in TopName
  <2>1. PICK s \in Session, i \in 1..MaxSuffix : n = <<Base[s], i>>
    BY DEF TopName
  <2>2. Len(n) = 2 /\ n[2] = i
    BY <2>1
  <2>3. Bumped(n) = <<Base[s], i + 1>>
    BY <2>1, <2>2 DEF Bumped
  <2>4. i + 1 \in 1..MaxSuffix
    BY <1>1, <2>2, MailboxAssumption DEF LastSuffix
  <2>5. QED
    BY <2>3, <2>4 DEF TopName
<1>2. ASSUME NEW n \in SubName, ~LastSuffix(n) PROVE Bumped(n) \in SubName
  <2>1. PICK s \in Session, i \in 1..MaxSuffix, j \in 1..MaxSuffix : n = <<Base[s], i, j>>
    BY DEF SubName
  <2>2. Len(n) = 3 /\ n[3] = j
    BY <2>1
  <2>3. Bumped(n) = <<Base[s], i, j + 1>>
    BY <2>1, <2>2 DEF Bumped
  <2>4. j + 1 \in 1..MaxSuffix
    BY <1>2, <2>2, MailboxAssumption DEF LastSuffix
  <2>5. QED
    BY <2>3, <2>4 DEF SubName
<1>3. QED
  BY <1>1, <1>2
-----------------------------------------------------------------------------
(* Unread mail *)

\* What a step may do to unread mail.
KeepsUnread ==
  \A m \in Msg, s \in Session :
    /\ dlv[m][s] \in {"new", "noticed"} /\ dlv'[m][s] = "none"
       => ~row[s].here \/ msg[m] = "deleted"
    /\ msg[m] \in {"new", "week"} /\ msg'[m] = "deleted"
       => dlv[m][s] \in {"none", "read"}

\* A new message takes an id that had no deliveries.
LEMMA PostKeeps ==
  ASSUME UnsentNotDelivered, NEW targets, Post(targets)
  PROVE  UnsentNotDelivered' /\ KeepsUnread
<1>1. PICK m \in Msg :
        /\ msg[m] = "unsent"
        /\ msg' = [msg EXCEPT ![m] = "new"]
        /\ dlv' = [dlv EXCEPT ![m] = [s \in Session |-> IF s \in targets THEN "new" ELSE "none"]]
  BY DEF Post
<1>2. /\ msg' \in [Msg -> MsgState] /\ dlv' \in [Msg -> [Session -> Delivery]]
      /\ msg'[m] = "new"
      /\ \A k \in Msg \ {m} : msg'[k] = msg[k] /\ dlv'[k] = dlv[k]
  BY <1>1 DEF UnsentNotDelivered, MsgState, Delivery
<1>3. UnsentNotDelivered'
  BY <1>2 DEF UnsentNotDelivered
<1>4. KeepsUnread
  BY <1>1, <1>2 DEF UnsentNotDelivered, KeepsUnread
<1>5. QED
  BY <1>3, <1>4

\* Reading and announcing change the deliveries of sent messages of one agent.
LEMMA MarkKeeps ==
  ASSUME UnsentNotDelivered, NEW s, NEW states, NEW to \in {"read", "noticed"},
         dlv' = [m \in Msg |-> IF m \in Shown(s, states) THEN [dlv[m] EXCEPT ![s] = to] ELSE dlv[m]],
         msg' = msg
  PROVE  UnsentNotDelivered' /\ KeepsUnread
<1>1. /\ dlv' \in [Msg -> [Session -> Delivery]]
      /\ \A m \in Msg, u \in Session : dlv'[m][u] = dlv[m][u] \/ (dlv'[m][u] = to /\ msg[m] # "unsent")
  <2>1. ASSUME NEW m \in Msg
        PROVE  /\ dlv'[m] \in [Session -> Delivery]
               /\ \A u \in Session : dlv'[m][u] = dlv[m][u] \/ (dlv'[m][u] = to /\ msg[m] # "unsent")
    <3>1. dlv[m] \in [Session -> Delivery] /\ to \in Delivery
      BY DEF UnsentNotDelivered, Delivery
    <3>2. CASE m \in Shown(s, states)
      <4>1. dlv'[m] = [dlv[m] EXCEPT ![s] = to] /\ msg[m] # "unsent"
        BY <3>2 DEF Shown
      <4>2. QED
        BY <3>1, <4>1
    <3>3. CASE m \notin Shown(s, states)
      BY <3>1, <3>3
    <3>4. QED
      BY <3>2, <3>3
  <2>2. QED
    BY <2>1
<1>2. UnsentNotDelivered'
  BY <1>1 DEF UnsentNotDelivered
<1>3. KeepsUnread
  BY <1>1 DEF KeepsUnread
<1>4. QED
  BY <1>2, <1>3

\* Housekeep deletes no unread mail.
LEMMA HousekeepKeeps ==
  ASSUME UnsentNotDelivered, Housekeep
  PROVE  UnsentNotDelivered' /\ KeepsUnread
<1> USE DEF UnsentNotDelivered, MsgState, Delivery
<1>1. CASE PurgeRead
  <2>1. /\ dlv' = dlv
        /\ \A m \in Msg : \/ msg'[m] = msg[m]
                          \/ /\ msg'[m] = "deleted" /\ msg[m] # "unsent"
                             /\ \A s \in Delivered(m) : dlv[m][s] = "read"
    BY <1>1 DEF PurgeRead
  <2>2. msg' \in [Msg -> MsgState]
    BY <1>1 DEF PurgeRead
  <2>3. QED
    BY <2>1, <2>2 DEF KeepsUnread, Delivered
<1>2. CASE PurgeMonth
  <2>1. /\ dlv' = dlv /\ msg' \in [Msg -> MsgState]
        /\ \A m \in Msg : msg'[m] = msg[m] \/ (msg'[m] = "deleted" /\ msg[m] = "month")
    BY <1>2 DEF PurgeMonth
  <2>2. QED
    BY <2>1 DEF KeepsUnread
<1>3. CASE PurgeOrphans
  <2>1. /\ msg' = msg /\ dlv' \in [Msg -> [Session -> Delivery]]
        /\ \A m \in Msg, s \in Session :
             dlv'[m][s] = dlv[m][s] \/ (dlv'[m][s] = "none" /\ msg[m] = "deleted")
    BY <1>3 DEF PurgeOrphans
  <2>2. QED
    BY <2>1 DEF KeepsUnread
<1>4. CASE \E S \in SUBSET Ages : PurgeAgents(S)
  BY <1>4 DEF PurgeAgents, KeepsUnread
<1>5. CASE PurgeRecipients
  <2>1. /\ msg' = msg /\ dlv' \in [Msg -> [Session -> Delivery]]
        /\ \A m \in Msg, s \in Session :
             dlv'[m][s] = dlv[m][s] \/ (dlv'[m][s] = "none" /\ ~row[s].here)
    BY <1>5 DEF PurgeRecipients
  <2>2. QED
    BY <2>1 DEF KeepsUnread
<1>6. QED
  BY <1>1, <1>2, <1>3, <1>4, <1>5 DEF Housekeep

\* No step delivers mail that was not sent, and none drops unread mail.
LEMMA UnreadStep ==
  ASSUME UnsentNotDelivered, [Next]_mailVars
  PROVE  UnsentNotDelivered' /\ (KeepsUnread \/ UNCHANGED mailVars)
<1>1. ASSUME UNCHANGED <<msg, dlv>> PROVE UnsentNotDelivered' /\ KeepsUnread
  BY <1>1 DEF UnsentNotDelivered, KeepsUnread
<1>2. ASSUME NEW c \in Call, Statement(c) PROVE UnsentNotDelivered' /\ KeepsUnread
  <2>1. CASE \/ RegisterSelect(c) \/ RegisterUpdate(c) \/ RegisterCount(c) \/ RegisterInsert(c)
             \/ RegisterReselect(c) \/ SetStatus(c) \/ ResolveActor(c) \/ TouchCaller(c)
             \/ ReadLookup(c)
    <3>1. UNCHANGED <<msg, dlv>>
      BY <2>1 DEF RegisterSelect, RegisterUpdate, RegisterCount, RegisterInsert,
                  RegisterReselect, SetStatus, ResolveActor, TouchCaller, ReadLookup
    <3>2. QED
      BY <1>1, <3>1
  <2>2. CASE SendTo(c)
    <3>1. UNCHANGED <<msg, dlv>> \/ Post(Named(call[c].to))
      BY <2>2 DEF SendTo
    <3>2. QED
      BY <1>1, <3>1, PostKeeps
  <2>3. CASE Broadcast(c)
    <3>1. UNCHANGED <<msg, dlv>> \/ Post({s \in Session : live(s)} \ Named(call[c].name))
      BY <2>3 DEF Broadcast
    <3>2. QED
      BY <1>1, <3>1, PostKeeps
  <2>4. CASE ReadDrain(c)
    <3>1. /\ msg' = msg
          /\ dlv' = [m \in Msg |-> IF m \in Shown(call[c].who, {"new", "noticed"})
                                     THEN [dlv[m] EXCEPT ![call[c].who] = "read"] ELSE dlv[m]]
      BY <2>4 DEF ReadDrain
    <3>2. QED
      BY <3>1, MarkKeeps
  <2>5. CASE Notices(c)
    <3>1. /\ msg' = msg
          /\ dlv' = [m \in Msg |-> IF m \in Shown(call[c].who, {"new"})
                                     THEN [dlv[m] EXCEPT ![call[c].who] = "noticed"] ELSE dlv[m]]
      BY <2>5 DEF Notices
    <3>2. QED
      BY <3>1, MarkKeeps
  <2>6. QED
    BY <1>2, <2>1, <2>2, <2>3, <2>4, <2>5 DEF Statement
<1>3. ASSUME NEW m \in Msg, AgeMessage(m) PROVE UnsentNotDelivered' /\ KeepsUnread
  BY <1>3 DEF AgeMessage, UnsentNotDelivered, MsgState, KeepsUnread
<1>4. CASE Housekeep
  BY <1>4, HousekeepKeeps
<1>5. ASSUME NEW c, NEW caller, NEW who, NEW op, NEW to, Dispatch(c, caller, who, op, to)
      PROVE  UNCHANGED <<msg, dlv>>
  BY <1>5 DEF Dispatch
<1>6. ASSUME NEW s, FallSilent(s) PROVE UNCHANGED <<msg, dlv>>
  BY <1>6 DEF FallSilent
<1>7. CASE DaemonCrash \/ DaemonStart
  BY <1>1, <1>7 DEF DaemonCrash, DaemonStart
<1>8. CASE UNCHANGED mailVars
  BY <1>1, <1>8 DEF mailVars
<1>9. QED
  BY <1>1, <1>2, <1>3, <1>4, <1>5, <1>6, <1>7, <1>8 DEF Next

\* Housekeep, reading and notices, on any interleaving and across crashes:
\* unread mail is lost only with its recipient's row or after a month.
THEOREM UnreadMailKept == MailboxSpec => UnreadKept
<1>1. Init => UnsentNotDelivered
  BY DEF Init, UnsentNotDelivered, MsgState, Delivery
<1>2. UnsentNotDelivered /\ [Next]_mailVars => UnsentNotDelivered' /\ [KeepsUnread]_mailVars
  BY UnreadStep
<1>3. QED
  BY <1>1, <1>2, PTL DEF MailboxSpec, UnreadKept, KeepsUnread
-----------------------------------------------------------------------------
(* Requests: frames *)

\* What the invariant says of a request that is being served.
LEMMA CallFacts ==
  ASSUME MailIInv, NEW c \in Call
  PROVE  /\ call[c] \in CallState /\ CallOK(call[c], row)
         /\ call[c].op # "none" =>
              /\ Head(call[c].prog) \in Phase
              /\ Subject(c) = SubjectOf(call[c]) /\ Subject(c) \in Session
              /\ call[c].who \in Session /\ call[c].caller \in Session
              /\ Head(call[c].prog) = "parent" => Parent[Subject(c)] = NoSession
              /\ Head(call[c].prog) # "parent" => Subject(c) = call[c].who
              /\ Head(call[c].prog) = "name" => Parent[Subject(c)] # NoSession
<1>1. call[c] \in CallState /\ CallOK(call[c], row)
  BY DEF MailIInv, CallsOK
<1>2. ASSUME call[c].op # "none" PROVE Head(call[c].prog) \in Phase
  BY <1>1, <1>2, ProgTail DEF CallOK
<1>3. QED
  BY <1>1, <1>2, MailboxAssumption DEF CallOK, Subject, SubjectOf

\* Rows that keep their names keep what requests know.
LEMMA CallFrame ==
  ASSUME NEW k, NEW r, NEW r2, CallOK(k, r),
         \A s \in Session : s \in {k.caller, k.who} /\ r[s].here =>
                              r2[s].here /\ r2[s].name = r[s].name
  PROVE  CallOK(k, r2)
<1> SUFFICES ASSUME k.op # "none" PROVE CallOK(k, r2)
  BY DEF CallOK
<1>1. SubjectOf(k) \in {k.caller, k.who} /\ SubjectOf(k) \in Session
  BY DEF CallOK, SubjectOf
<1>2. QED
  BY <1>1 DEF CallOK

\* A step of one request, the rows of the others kept.
LEMMA StepFrame ==
  ASSUME MailIInv, NEW c \in Call, NEW k \in CallState,
         call' = [call EXCEPT ![c] = k],
         UnsentNotDelivered', HandedOK',
         row' \in [Session -> Row], told' \in [Session -> SUBSET Name], RowsOK(row', told'),
         \A s \in Session : row[s].here => row'[s].here /\ row'[s].name = row[s].name,
         CallOK(k, row')
  PROVE  MailIInv'
<1>1. call \in [Call -> CallState]
  BY DEF MailIInv
<1>2. call' \in [Call -> CallState] /\ call'[c] = k /\ \A d \in Call \ {c} : call'[d] = call[d]
  BY <1>1
<1>3. ASSUME NEW d \in Call PROVE CallOK(call'[d], row')
  <2>1. CASE d = c
    BY <1>2, <2>1
  <2>2. CASE d # c
    <3>1. CallOK(call[d], row) /\ call'[d] = call[d]
      BY <1>2, <2>2 DEF MailIInv, CallsOK
    <3>2. QED
      BY <3>1, CallFrame
  <2>3. QED
    BY <2>1, <2>2
<1>4. CallsOK'
  BY <1>3 DEF CallsOK
<1>5. QED
  BY <1>2, <1>4 DEF MailIInv

\* Rows whose names and presence stay.
LEMMA RowsSame ==
  ASSUME NEW r, NEW r2, NEW t, RowsOK(r, t),
         \A s \in Session : r2[s].here = r[s].here /\ r2[s].name = r[s].name
  PROVE  RowsOK(r2, t)
  BY DEF RowsOK

\* Heartbeats and status change neither.
LEMMA FreshFacts ==
  ASSUME MailIInv, NEW s \in Session, NEW g \in BOOLEAN,
         row' \in {row, Fresh(s), [Fresh(s) EXCEPT ![s].gone = g]}
  PROVE  /\ row' \in [Session -> Row] /\ RowsOK(row', told)
         /\ \A u \in Session : row'[u].here = row[u].here /\ row'[u].name = row[u].name
<1>1. row \in [Session -> Row]
  BY DEF MailIInv
<1>2. /\ row' \in [Session -> Row]
      /\ \A u \in Session : row'[u].here = row[u].here /\ row'[u].name = row[u].name
  <2>1. /\ Fresh(s) \in [Session -> Row]
        /\ \A u \in Session : Fresh(s)[u].here = row[u].here /\ Fresh(s)[u].name = row[u].name
    <3> DEFINE x == [row[s] EXCEPT !.gone = FALSE, !.silent = FALSE]
    <3>1. x \in Row /\ x.here = row[s].here /\ x.name = row[s].name
      BY <1>1 DEF Row
    <3>2. Fresh(s) = [row EXCEPT ![s] = x]
      BY <1>1 DEF Fresh, Row
    <3> HIDE DEF x
    <3>3. QED
      BY <1>1, <3>1, <3>2
  <2> DEFINE f == Fresh(s)
  <2> HIDE DEF f
  <2>2. /\ [f EXCEPT ![s].gone = g] \in [Session -> Row]
        /\ \A u \in Session : /\ [f EXCEPT ![s].gone = g][u].here = row[u].here
                               /\ [f EXCEPT ![s].gone = g][u].name = row[u].name
    BY <2>1 DEF f, Row
  <2>3. QED
    BY <1>1, <2>1, <2>2 DEF f
<1>3. RowsOK(row', told)
  BY <1>2, RowsSame DEF MailIInv
<1>4. QED
  BY <1>2, <1>3

\* A connection without a call asks nothing of its row.
LEMMA NoCallFacts ==
  NoCall \in CallState /\ \A r : CallOK(NoCall, r)
<1>1. <<>> \in Seq(Phase)
  OBVIOUS
<1>2. QED
  BY <1>1 DEF NoCall, CallState, CallOK, Op, Step

\* A request that ends without a name.
LEMMA AnswerNoName ==
  ASSUME MailIInv, NEW c \in Call, Answer(c, NoName), row' = row, UnsentNotDelivered', HandedOK'
  PROVE  MailIInv'
<1>1. call' = [call EXCEPT ![c] = NoCall] /\ told' = told
  BY DEF Answer
<1>2. QED
  BY <1>1, NoCallFacts, StepFrame DEF MailIInv

\* A phase that ends, knowing what the next one relies on.
LEMMA PhaseDoneStep ==
  ASSUME MailIInv, NEW c \in Call, call[c].op # "none", NEW nm \in Name \cup {NoName},
         PhaseDone(c, nm),
         UnsentNotDelivered', HandedOK',
         row' \in [Session -> Row], RowsOK(row', told),
         \A s \in Session : row[s].here => row'[s].here /\ row'[s].name = row[s].name,
         Head(call[c].prog) \in RegPhase => row'[Subject(c)].here /\ nm = row'[Subject(c)].name,
         Head(call[c].prog) \in {"resolve", "touch"} =>
           row'[call[c].who].here /\ nm = row'[call[c].who].name
  PROVE  MailIInv'
<1> DEFINE prog == call[c].prog
           rest == Tail(prog)
           who == call[c].who
<1>1. /\ call[c] \in CallState /\ CallOK(call[c], row) /\ ProgOK(prog) /\ who \in Session
      /\ told \in [Session -> SUBSET Name]
  BY CallFacts DEF MailIInv, CallOK
<1>2. CASE rest = <<>>
  <2>1. call' = [call EXCEPT ![c] = NoCall] /\ Answer(c, nm)
    BY <1>2 DEF PhaseDone, Answer
  <2>2. CASE ~(call[c].op = "register" /\ nm # NoName)
    <3>1. told' = told
      BY <2>1, <2>2 DEF Answer
    <3>2. QED
      BY <1>1, <2>1, <3>1, NoCallFacts, StepFrame
  <2>3. CASE call[c].op = "register" /\ nm # NoName
    <3>1. told' = [told EXCEPT ![who] = told[who] \cup {nm}]
      BY <2>1, <2>3 DEF Answer
    <3>2. Head(prog) \in LastPhase /\ Head(prog) \in RegPhase
      BY <1>1, <1>2, <2>3, ProgTail DEF CallOK
    <3>3. row'[who].here /\ nm = row'[who].name
      BY <3>2, CallFacts DEF LastPhase
    <3>4. told' \in [Session -> SUBSET Name] /\ told'[who] = told[who] \cup {nm}
          /\ \A s \in Session \ {who} : told'[s] = told[s]
      BY <1>1, <2>3, <3>1
    <3>5. RowsOK(row', told')
      BY <3>3, <3>4 DEF RowsOK
    <3>6. QED
      BY <2>1, <3>4, <3>5, NoCallFacts, StepFrame
  <2>4. QED
    BY <2>2, <2>3
<1>3. CASE rest # <<>>
  <2> DEFINE nx == Head(rest)
             n == CASE nx = "name" -> Append(nm, 1)
                    [] nx \in Acting -> nm
                    [] OTHER -> NoName
             k == [call[c] EXCEPT !.prog = rest, !.name = n,
                                  !.step = IF nx = "name" THEN "count" ELSE "select"]
  <2>1. call' = [call EXCEPT ![c] = k] /\ told' = told
    BY <1>3 DEF PhaseDone
  <2>2. ProgOK(rest) /\ nx \in After(Head(prog)) /\ rest \in Seq(Phase) /\ Head(rest) = nx
    BY <1>1, <1>3, ProgTail DEF ProgOK
  <2>3. /\ nx \notin {"child", "parent"}
        /\ nx = "name" => Head(prog) = "parent"
        /\ nx \in {"touch", "lookup"} => Head(prog) \in {"resolve", "touch"}
    BY <2>2 DEF After
  <2> HIDE DEF nx
  <2>4. nx = "name" => n \in SubName /\ Parent[who] = call[c].caller
    <3> SUFFICES ASSUME nx = "name" PROVE n \in SubName /\ Parent[who] = call[c].caller
      OBVIOUS
    <3>1. Head(prog) = "parent"
      BY <2>3
    <3>2. Parent[Subject(c)] = NoSession /\ Subject(c) \in Session
      BY <3>1, CallFacts
    <3>3. row'[Subject(c)].here /\ nm = row'[Subject(c)].name
      BY <3>1 DEF RegPhase
    <3>4. nm \in TopName
      BY <3>2, <3>3 DEF RowsOK
    <3>5. n = Append(nm, 1)
      BY DEF Acting
    <3>6. QED
      BY <1>1, <3>1, <3>4, <3>5, NameFacts DEF CallOK
  <2>5. nx \in {"touch", "lookup"} => n = nm
    BY DEF Acting
  <2>6. n \in Name \cup {NoName}
    BY <2>4, NameFacts
  <2> HIDE DEF n
  <2>7. /\ k \in CallState /\ k.op = call[c].op /\ k.caller = call[c].caller /\ k.who = who
        /\ k.prog = rest /\ k.name = n
        /\ k.step = IF nx = "name" THEN "count" ELSE "select"
    BY <1>1, <2>2, <2>6 DEF CallState, Step
  <2>8. call[c].op = "register" => \A i \in 1..Len(rest) : rest[i] \in RegPhase
    BY <1>1, ProgTail DEF CallOK
  <2> HIDE DEF k, rest
  <2>9. CallOK(k, row')
    <3>1. CASE nx = "name"
      BY <1>1, <2>2, <2>3, <2>4, <2>7, <2>8, <3>1 DEF CallOK
    <3>2. CASE nx # "name"
      BY <1>1, <2>2, <2>3, <2>5, <2>7, <2>8, <3>2 DEF CallOK
    <3>3. QED
      BY <3>1, <3>2
  <2>10. QED
    BY <1>1, <2>1, <2>7, <2>9, StepFrame DEF k, rest, nx
<1>4. QED
  BY <1>2, <1>3
\* What was handed out stays right while nothing is handed out or purged.
LEMMA HandedSame ==
  ASSUME MailIInv, UNCHANGED <<hk, handed>>
  PROVE  HandedOK'
  BY DEF MailIInv, HandedOK, OwnMailOnly
-----------------------------------------------------------------------------
(* register and RegisterChild *)

\* RegisterSelect keeps the invariant.
LEMMA RegisterSelectStep ==
  ASSUME MailIInv, NEW c \in Call, RegisterSelect(c), UnsentNotDelivered'
  PROVE  MailIInv'
<1> DEFINE s == Subject(c)
           prog == call[c].prog
<1>1. /\ call[c].op # "none" /\ Head(prog) \in RegPhase /\ call[c].step = "select"
      /\ UNCHANGED <<row, told, hk, handed>>
  BY DEF RegisterSelect, Registering, At, RegPhase
<1>2. /\ call[c] \in CallState /\ CallOK(call[c], row) /\ ProgOK(prog)
      /\ s \in Session /\ s = SubjectOf(call[c])
      /\ row \in [Session -> Row] /\ told \in [Session -> SUBSET Name] /\ RowsOK(row, told)
      /\ Head(prog) # "parent" => s = call[c].who
      /\ Head(prog) # "name"
  BY <1>1, CallFacts DEF MailIInv, CallOK
<1>3. HandedOK'
  BY <1>1, HandedSame
<1>4. ASSUME NEW k \in CallState, CallOK(k, row), call' = [call EXCEPT ![c] = k]
      PROVE  MailIInv'
  BY <1>1, <1>2, <1>3, <1>4, StepFrame
<1>5. CASE row[s].here
  <2> DEFINE k == [call[c] EXCEPT !.step = "update", !.name = row[s].name]
  <2>1. call' = [call EXCEPT ![c] = k]
    BY <1>5 DEF RegisterSelect
  <2>2. row[s].name \in Name
    BY <1>2, <1>5 DEF RowsOK
  <2>3. /\ k \in CallState /\ k.op = call[c].op /\ k.caller = call[c].caller /\ k.who = call[c].who
        /\ k.prog = prog /\ k.step = "update" /\ k.name = row[s].name
    BY <1>2, <2>2 DEF CallState, Step
  <2> HIDE DEF k
  <2>4. SubjectOf(k) = s
    BY <1>2, <2>3 DEF SubjectOf
  <2>5. CallOK(k, row)
    BY <1>1, <1>2, <1>5, <2>3, <2>4 DEF CallOK, RegPhase
  <2>6. QED
    BY <1>4, <2>1, <2>3, <2>5 DEF k
<1>6. CASE ~row[s].here /\ Head(prog) = "child"
  <2> DEFINE p == <<"parent", "name">> \o Tail(prog)
             k == [call[c] EXCEPT !.prog = p]
  <2>1. call' = [call EXCEPT ![c] = k]
    BY <1>6 DEF RegisterSelect
  <2>2. /\ ProgOK(p) /\ Head(p) = "parent"
        /\ call[c].op = "register" => \A i \in 1..Len(p) : p[i] \in RegPhase
    BY <1>1, <1>2, <1>6, ParentFirst DEF CallOK
  <2>3. p \in Seq(Phase)
    BY <2>2 DEF ProgOK
  <2> HIDE DEF p
  <2>4. /\ k \in CallState /\ k.op = call[c].op /\ k.caller = call[c].caller /\ k.who = call[c].who
        /\ k.prog = p /\ k.step = "select"
    BY <1>1, <1>2, <2>3 DEF CallState
  <2> HIDE DEF k
  <2>5. CallOK(k, row)
    BY <1>1, <1>2, <1>6, <2>2, <2>4 DEF CallOK
  <2>6. QED
    BY <1>4, <2>1, <2>4, <2>5 DEF k
<1>7. CASE ~row[s].here /\ Head(prog) # "child"
  <2> DEFINE n == <<Base[s], 1>>
             k == [call[c] EXCEPT !.step = "count", !.name = n]
  <2>1. call' = [call EXCEPT ![c] = k]
    BY <1>7 DEF RegisterSelect
  <2>2. n \in TopName /\ n \in Name
    BY <1>2, NameFacts
  <2> HIDE DEF n
  <2>3. /\ k \in CallState /\ k.op = call[c].op /\ k.caller = call[c].caller /\ k.who = call[c].who
        /\ k.prog = prog /\ k.step = "count" /\ k.name = n
    BY <1>2, <2>2 DEF CallState, Step
  <2> HIDE DEF k
  <2>4. CallOK(k, row)
    BY <1>1, <1>2, <2>2, <2>3 DEF CallOK, RegPhase
  <2>5. QED
    BY <1>4, <2>1, <2>3, <2>4 DEF k
<1>8. QED
  BY <1>5, <1>6, <1>7
\* RegisterUpdate keeps the invariant.
LEMMA RegisterUpdateStep ==
  ASSUME MailIInv, NEW c \in Call, RegisterUpdate(c), UnsentNotDelivered'
  PROVE  MailIInv'
<1>1. /\ call[c].op # "none" /\ Head(call[c].prog) \in RegPhase /\ call[c].step = "update"
      /\ PhaseDone(c, call[c].name) /\ UNCHANGED <<hk, handed>>
      /\ row' \in {row, Fresh(Subject(c))}
  BY DEF RegisterUpdate, Registering, At, RegPhase
<1>2. /\ Subject(c) \in Session /\ call[c].name \in Name \cup {NoName}
      /\ row[Subject(c)].here /\ call[c].name = row[Subject(c)].name
  BY <1>1, CallFacts DEF CallOK, CallState
<1>3. /\ row' \in [Session -> Row] /\ RowsOK(row', told)
      /\ \A u \in Session : row'[u].here = row[u].here /\ row'[u].name = row[u].name
  BY <1>1, <1>2, FreshFacts
<1>4. Head(call[c].prog) \notin {"resolve", "touch"} /\ HandedOK'
  BY <1>1, HandedSame DEF RegPhase
<1>5. QED
  BY <1>1, <1>2, <1>3, <1>4, PhaseDoneStep

\* Another step of the same registration, with a name to try.
LEMMA TriesName ==
  ASSUME MailIInv, NEW c \in Call, call[c].op # "none", Head(call[c].prog) \in RegPhase,
         NEW n, n \in IF Head(call[c].prog) = "name" THEN SubName ELSE TopName,
         NEW st \in {"count", "insert", "reselect"},
         call' = [call EXCEPT ![c].name = n, ![c].step = st],
         UNCHANGED <<row, told, hk, handed>>, UnsentNotDelivered'
  PROVE  MailIInv'
<1> DEFINE k == [call[c] EXCEPT !.name = n, !.step = st]
<1>1. call[c] \in CallState /\ CallOK(call[c], row) /\ call \in [Call -> CallState]
  BY CallFacts DEF MailIInv
<1>2. call' = [call EXCEPT ![c] = k]
  BY <1>1
<1>3. n \in Name
  BY NameFacts
<1>4. /\ k \in CallState /\ k.op = call[c].op /\ k.caller = call[c].caller /\ k.who = call[c].who
      /\ k.prog = call[c].prog /\ k.step = st /\ k.name = n
  BY <1>1, <1>3 DEF CallState, Step
<1> HIDE DEF k
<1>5. CallOK(k, row)
  BY <1>1, <1>4 DEF CallOK, RegPhase
<1>6. QED
  BY <1>2, <1>4, <1>5, HandedSame, StepFrame DEF MailIInv

\* The request c tries the name it has.
LEMMA TriedName ==
  ASSUME MailIInv, NEW c \in Call, call[c].op # "none", Head(call[c].prog) \in RegPhase,
         call[c].step \in {"count", "insert", "reselect"}
  PROVE  /\ call[c].name \in IF Head(call[c].prog) = "name" THEN SubName ELSE TopName
         /\ call[c].name \in Name
  BY CallFacts, NameFacts DEF CallOK

\* NextName keeps the invariant.
LEMMA NextNameStep ==
  ASSUME MailIInv, NEW c \in Call, call[c].op # "none", Head(call[c].prog) \in RegPhase,
         call[c].step \in {"count", "insert", "reselect"},
         NextName(c), UNCHANGED <<row, hk, handed>>, UnsentNotDelivered'
  PROVE  MailIInv'
<1>1. CASE LastSuffix(call[c].name)
  BY <1>1, AnswerNoName, HandedSame DEF NextName
<1>2. CASE ~LastSuffix(call[c].name)
  <2>1. /\ call' = [call EXCEPT ![c].name = Bumped(call[c].name), ![c].step = "count"]
        /\ told' = told
    BY <1>2 DEF NextName, MailIInv
  <2>2. Bumped(call[c].name) \in IF Head(call[c].prog) = "name" THEN SubName ELSE TopName
    BY <1>2, TriedName, BumpedFacts
  <2>3. QED
    BY <2>1, <2>2, TriesName
<1>3. QED
  BY <1>1, <1>2

\* RegisterCount keeps the invariant.
LEMMA RegisterCountStep ==
  ASSUME MailIInv, NEW c \in Call, RegisterCount(c), UnsentNotDelivered'
  PROVE  MailIInv'
<1>1. /\ call[c].op # "none" /\ Head(call[c].prog) \in RegPhase /\ call[c].step = "count"
      /\ UNCHANGED <<row, hk, handed>>
  BY DEF RegisterCount, Registering, At, RegPhase
<1>2. CASE NextName(c)
  BY <1>1, <1>2, NextNameStep
<1>3. CASE call' = [call EXCEPT ![c].step = "insert"] /\ told' = told
  <2>1. call[c] \in CallState /\ call \in [Call -> CallState]
    BY DEF MailIInv
  <2>2. call' = [call EXCEPT ![c].name = call[c].name, ![c].step = "insert"]
    BY <1>3, <2>1 DEF CallState
  <2>3. QED
    BY <1>1, <1>3, <2>2, TriedName, TriesName
<1>4. QED
  BY <1>2, <1>3 DEF RegisterCount

\* RegisterInsert keeps the invariant.
LEMMA RegisterInsertStep ==
  ASSUME MailIInv, NEW c \in Call, RegisterInsert(c), UnsentNotDelivered'
  PROVE  MailIInv'
<1> DEFINE s == Subject(c)
           nm == call[c].name
           x == [here |-> TRUE, name |-> nm, gone |-> FALSE, silent |-> FALSE]
<1>1. /\ call[c].op # "none" /\ Head(call[c].prog) \in RegPhase /\ call[c].step = "insert"
      /\ UNCHANGED <<hk, handed>>
  BY DEF RegisterInsert, Registering, At, RegPhase
<1>2. /\ s \in Session /\ nm \in Name
      /\ nm \in IF Head(call[c].prog) = "name" THEN SubName ELSE TopName
      /\ Head(call[c].prog) = "name" => Parent[s] # NoSession
  BY <1>1, CallFacts, TriedName
<1>3. /\ row \in [Session -> Row] /\ told \in [Session -> SUBSET Name] /\ RowsOK(row, told)
  BY DEF MailIInv
<1>4. CASE ~row[s].here /\ Named(nm) = {}
  <2>1. row' = [row EXCEPT ![s] = x] /\ PhaseDone(c, nm)
    BY <1>4 DEF RegisterInsert
  <2>2. x \in Row /\ x.here /\ x.name = nm
    BY <1>2 DEF Row
  <2> HIDE DEF x
  <2>3. row' \in [Session -> Row] /\ row'[s] = x /\ \A u \in Session \ {s} : row'[u] = row[u]
    BY <1>2, <1>3, <2>1, <2>2
  <2>4. \A u \in Session : row[u].here => row[u].name # nm
    BY <1>4 DEF Named
  <2> HIDE DEF s, nm
  <2>5. RowsOK(row', told)
    <3>1. told[s] = {}
      BY <1>2, <1>3, <1>4 DEF RowsOK
    <3>2. ASSUME NEW u \in Session
          PROVE  /\ row'[u].here => row'[u].name \in Name
                 /\ row'[u].here /\ Parent[u] = NoSession => row'[u].name \in TopName
                 /\ told[u] # {} => row'[u].here
                 /\ told[u] \subseteq {row'[u].name}
      <4>1. CASE u = s
        BY <1>2, <2>2, <2>3, <3>1, <4>1
      <4>2. CASE u # s
        BY <1>3, <2>3, <4>2 DEF RowsOK
      <4>3. QED
        BY <4>1, <4>2
    <3>3. ASSUME NEW u \in Session, NEW v \in Session, row'[u].here, row'[v].here,
                 row'[u].name = row'[v].name
          PROVE  u = v
      <4>1. CASE u = s /\ v # s
        BY <2>2, <2>3, <2>4, <3>3, <4>1
      <4>2. CASE v = s /\ u # s
        BY <2>2, <2>3, <2>4, <3>3, <4>2
      <4>3. CASE u # s /\ v # s
        BY <1>3, <2>3, <3>3, <4>3 DEF RowsOK
      <4>4. QED
        BY <4>1, <4>2, <4>3
    <3>4. QED
      BY <3>2, <3>3 DEF RowsOK
  <2>6. \A u \in Session : row[u].here => row'[u].here /\ row'[u].name = row[u].name
    BY <1>4, <2>3 DEF s
  <2>7. row'[s].here /\ nm = row'[s].name
    BY <2>2, <2>3
  <2>8. Head(call[c].prog) \notin {"resolve", "touch"} /\ HandedOK'
    BY <1>1, HandedSame DEF RegPhase
  <2>9. QED
    BY <1>1, <1>2, <2>1, <2>3, <2>5, <2>6, <2>7, <2>8, PhaseDoneStep DEF s, nm
<1>5. CASE call' = [call EXCEPT ![c].step = "reselect"] /\ UNCHANGED <<row, told>>
  <2>1. call[c] \in CallState /\ call \in [Call -> CallState]
    BY DEF MailIInv
  <2>2. call' = [call EXCEPT ![c].name = call[c].name, ![c].step = "reselect"]
    BY <1>5, <2>1 DEF CallState
  <2>3. QED
    BY <1>1, <1>5, <2>2, TriedName, TriesName
<1>6. QED
  BY <1>4, <1>5 DEF RegisterInsert

\* RegisterReselect keeps the invariant.
LEMMA RegisterReselectStep ==
  ASSUME MailIInv, NEW c \in Call, RegisterReselect(c), UnsentNotDelivered'
  PROVE  MailIInv'
<1>1. /\ call[c].op # "none" /\ Head(call[c].prog) \in RegPhase /\ call[c].step = "reselect"
      /\ UNCHANGED <<row, hk, handed>>
  BY DEF RegisterReselect, Registering, At, RegPhase
<1>2. CASE row[Subject(c)].here /\ PhaseDone(c, row[Subject(c)].name)
  <2>1. /\ Subject(c) \in Session /\ row \in [Session -> Row] /\ RowsOK(row, told)
        /\ Head(call[c].prog) \notin {"resolve", "touch"} /\ HandedOK'
    BY <1>1, CallFacts, HandedSame DEF MailIInv, RegPhase
  <2>2. row[Subject(c)].name \in Name \cup {NoName}
    BY <1>2, <2>1 DEF RowsOK
  <2>3. QED
    BY <1>1, <1>2, <2>1, <2>2, PhaseDoneStep
<1>3. CASE NextName(c)
  BY <1>1, <1>3, NextNameStep
<1>4. QED
  BY <1>2, <1>3 DEF RegisterReselect
-----------------------------------------------------------------------------
(* The other statements *)

\* SetStatus keeps the invariant.
LEMMA SetStatusStep ==
  ASSUME MailIInv, NEW c \in Call, SetStatus(c), UnsentNotDelivered'
  PROVE  MailIInv'
<1> DEFINE g == (Head(call[c].prog) = "gone")
<1>1. /\ call[c].op # "none" /\ Head(call[c].prog) \in {"gone", "idle"}
      /\ PhaseDone(c, NoName) /\ UNCHANGED <<hk, handed>>
      /\ row' \in {row, [Fresh(call[c].who) EXCEPT ![call[c].who].gone = g]}
  BY DEF SetStatus, At
<1>2. call[c].who \in Session /\ g \in BOOLEAN
  BY <1>1, CallFacts
<1> HIDE DEF g
<1>3. /\ row' \in [Session -> Row] /\ RowsOK(row', told)
      /\ \A u \in Session : row'[u].here = row[u].here /\ row'[u].name = row[u].name
  BY <1>1, <1>2, FreshFacts
<1>4. Head(call[c].prog) \notin {"resolve", "touch"} /\ Head(call[c].prog) \notin RegPhase /\ HandedOK'
  BY <1>1, HandedSame DEF RegPhase
<1>5. QED
  BY <1>1, <1>3, <1>4, PhaseDoneStep

\* ResolveActor keeps the invariant.
LEMMA ResolveActorStep ==
  ASSUME MailIInv, NEW c \in Call, ResolveActor(c), UnsentNotDelivered'
  PROVE  MailIInv'
<1>1. /\ call[c].op # "none" /\ Head(call[c].prog) = "resolve" /\ UNCHANGED <<row, hk, handed>>
  BY DEF ResolveActor, At
<1>2. CASE row[call[c].who].here /\ PhaseDone(c, row[call[c].who].name)
  <2>1. /\ call[c].who \in Session /\ row \in [Session -> Row] /\ RowsOK(row, told)
        /\ Head(call[c].prog) \notin RegPhase /\ HandedOK'
    BY <1>1, CallFacts, HandedSame DEF MailIInv, RegPhase
  <2>2. row[call[c].who].name \in Name \cup {NoName}
    BY <1>2, <2>1 DEF RowsOK
  <2>3. QED
    BY <1>1, <1>2, <2>1, <2>2, PhaseDoneStep
<1>3. CASE Answer(c, NoName)
  BY <1>1, <1>3, AnswerNoName, HandedSame
<1>4. QED
  BY <1>2, <1>3 DEF ResolveActor

\* TouchCaller keeps the invariant.
LEMMA TouchCallerStep ==
  ASSUME MailIInv, NEW c \in Call, TouchCaller(c), UnsentNotDelivered'
  PROVE  MailIInv'
<1>1. /\ call[c].op # "none" /\ Head(call[c].prog) = "touch"
      /\ PhaseDone(c, call[c].name) /\ UNCHANGED <<hk, handed>>
      /\ row' \in {row, Fresh(call[c].caller)}
  BY DEF TouchCaller, At
<1>2. /\ call[c].caller \in Session /\ call[c].who \in Session /\ call[c].name \in Name \cup {NoName}
      /\ row[call[c].who].here /\ call[c].name = row[call[c].who].name
  BY <1>1, CallFacts DEF CallOK, CallState
<1>3. /\ row' \in [Session -> Row] /\ RowsOK(row', told)
      /\ \A u \in Session : row'[u].here = row[u].here /\ row'[u].name = row[u].name
  BY <1>1, <1>2, FreshFacts
<1>4. Head(call[c].prog) \notin RegPhase /\ HandedOK'
  BY <1>1, HandedSame DEF RegPhase
<1>5. QED
  BY <1>1, <1>2, <1>3, <1>4, PhaseDoneStep

\* The statements on messages and deliveries leave the agents table alone.
LEMMA MailStatementStep ==
  ASSUME MailIInv, NEW c \in Call, SendTo(c) \/ Broadcast(c) \/ Notices(c), UnsentNotDelivered'
  PROVE  MailIInv'
<1>1. /\ call[c].op # "none" /\ Head(call[c].prog) \in {"send", "broadcast", "notices"}
      /\ PhaseDone(c, NoName) /\ UNCHANGED <<row, hk, handed>>
  BY DEF SendTo, Broadcast, Notices, At
<1>2. /\ Head(call[c].prog) \notin {"resolve", "touch"} /\ Head(call[c].prog) \notin RegPhase /\ HandedOK'
      /\ row \in [Session -> Row] /\ RowsOK(row, told)
  BY <1>1, HandedSame DEF RegPhase, MailIInv
<1>3. QED
  BY <1>1, <1>2, PhaseDoneStep

\* The name a read looks up is still its agent's.
LEMMA ReadLookupStep ==
  ASSUME MailIInv, NEW c \in Call, ReadLookup(c), UnsentNotDelivered'
  PROVE  MailIInv'
<1> DEFINE S == Named(call[c].name)
           rest == Tail(call[c].prog)
<1>1. /\ call[c].op # "none" /\ Head(call[c].prog) = "lookup" /\ UNCHANGED <<row, hk, handed>>
  BY DEF ReadLookup, At
<1>2. /\ call[c].who \in Session /\ row[call[c].who].here /\ call[c].name = row[call[c].who].name
      /\ call[c] \in CallState /\ CallOK(call[c], row) /\ ProgOK(call[c].prog)
      /\ row \in [Session -> Row] /\ told \in [Session -> SUBSET Name] /\ RowsOK(row, told)
  BY <1>1, CallFacts DEF CallOK, MailIInv
<1>3. S = {call[c].who}
  BY <1>2 DEF Named, RowsOK
<1>4. (CHOOSE x \in S : TRUE) = call[c].who
  BY <1>3
<1> DEFINE k == [call[c] EXCEPT !.prog = rest, !.name = NoName, !.who = call[c].who]
<1>5. call' = [call EXCEPT ![c] = k] /\ told' = told
  BY <1>3, <1>4 DEF ReadLookup
<1>6. rest # <<>> /\ ProgOK(rest) /\ Head(rest) = "drain" /\ rest \in Seq(Phase)
  <2>1. rest # <<>>
    BY <1>1, <1>2, ProgTail DEF LastPhase
  <2>2. ProgOK(rest) /\ Head(rest) \in After("lookup")
    BY <1>1, <1>2, <2>1, ProgTail
  <2>3. QED
    BY <2>1, <2>2 DEF After, ProgOK
<1>7. call[c].op = "register" => \A i \in 1..Len(rest) : rest[i] \in RegPhase
  BY <1>1, <1>2, ProgTail DEF CallOK
<1> HIDE DEF rest
<1>8. /\ k \in CallState /\ k.op = call[c].op /\ k.caller = call[c].caller /\ k.who = call[c].who
      /\ k.prog = rest
  BY <1>2, <1>6 DEF CallState
<1> HIDE DEF k
<1>9. CallOK(k, row)
  BY <1>1, <1>2, <1>6, <1>7, <1>8 DEF CallOK, RegPhase
<1>10. QED
  BY <1>1, <1>2, <1>5, <1>8, <1>9, HandedSame, StepFrame DEF k

\* ReadDrain keeps the invariant.
LEMMA ReadDrainStep ==
  ASSUME MailIInv, NEW c \in Call, ReadDrain(c), UnsentNotDelivered'
  PROVE  MailIInv'
<1> DEFINE s == call[c].who
           shown == Shown(s, {"new", "noticed"})
<1>1. /\ call[c].op # "none" /\ Head(call[c].prog) = "drain"
      /\ PhaseDone(c, NoName) /\ UNCHANGED <<row, msg, hk>>
      /\ handed' = [m \in Msg |-> IF m \in shown
           THEN [handed[m] EXCEPT ![s] = handed[m][s] \cup {call[c].caller}] ELSE handed[m]]
  BY DEF ReadDrain, At
<1>2. s \in Session /\ call[c].caller \in Session /\ call[c].caller \in {s, Parent[s]}
  BY <1>1, CallFacts DEF CallOK
<1> HIDE DEF shown, s
<1>3. ASSUME NEW m \in Msg
      PROVE  /\ handed'[m] \in [Session -> SUBSET Session]
             /\ \A u \in Session : handed'[m][u] \subseteq {u, Parent[u]}
  <2>1. /\ handed[m] \in [Session -> SUBSET Session]
        /\ \A u \in Session : handed[m][u] \subseteq {u, Parent[u]}
    BY DEF MailIInv, HandedOK, OwnMailOnly
  <2>2. CASE m \in shown
    <3>1. handed'[m] = [handed[m] EXCEPT ![s] = handed[m][s] \cup {call[c].caller}]
      BY <1>1, <2>2
    <3>2. QED
      BY <1>2, <2>1, <3>1
  <2>3. CASE m \notin shown
    <3>1. handed'[m] = handed[m]
      BY <1>1, <2>3
    <3>2. QED
      BY <2>1, <3>1
  <2>4. QED
    BY <2>2, <2>3
<1>4. HandedOK'
  <2>1. handed' \in [Msg -> [Session -> SUBSET Session]]
    BY <1>1, <1>3
  <2>2. QED
    BY <1>1, <1>3, <2>1 DEF MailIInv, HandedOK, OwnMailOnly
<1>5. /\ Head(call[c].prog) \notin {"resolve", "touch"} /\ Head(call[c].prog) \notin RegPhase
      /\ row \in [Session -> Row] /\ RowsOK(row, told)
  BY <1>1 DEF RegPhase, MailIInv
<1>6. QED
  BY <1>1, <1>4, <1>5, PhaseDoneStep

\* Dispatch keeps the invariant.
LEMMA DispatchStep ==
  ASSUME MailIInv, NEW c \in Call, NEW caller \in Session, NEW who \in Session, NEW op \in Op,
         NEW to \in {row[t].name : t \in Session} \cup {NoName},
         Dispatch(c, caller, who, op, to), UnsentNotDelivered'
  PROVE  MailIInv'
<1> DEFINE p == Program(op, who)
           k == [op |-> op, caller |-> caller, who |-> who, prog |-> p,
                 step |-> "select", name |-> NoName, to |-> to]
<1>1. /\ call' = [call EXCEPT ![c] = k] /\ UNCHANGED <<row, told, hk, handed>>
      /\ who = caller \/ Parent[who] = caller
      /\ Parent[caller] = NoSession
  BY DEF Dispatch
<1>2. /\ ProgOK(p)
      /\ op = "register" => \A i \in 1..Len(p) : p[i] \in RegPhase
      /\ Head(p) \in {"child", "parent", "name"} => Parent[who] # NoSession
      /\ Head(p) \notin {"touch", "lookup", "name"}
  BY ProgramFacts
<1> HIDE DEF p
<1>3. to \in Name \cup {NoName} /\ p \in Seq(Phase)
  BY <1>2 DEF MailIInv, Row, ProgOK
<1>4. /\ k \in CallState /\ k.op = op /\ k.caller = caller /\ k.who = who /\ k.prog = p
      /\ k.step = "select"
  BY <1>3 DEF CallState, Step
<1> HIDE DEF k
<1>5. CallOK(k, row)
  BY <1>1, <1>2, <1>4 DEF CallOK
<1>6. QED
  BY <1>1, <1>4, <1>5, HandedSame, StepFrame DEF MailIInv
-----------------------------------------------------------------------------
(* Time, Housekeep, crashes *)

\* A step between requests that keeps the rows they rely on.
LEMMA OutsideFrame ==
  ASSUME MailIInv, UNCHANGED <<call, handed>>, hk' \in HkPc, UnsentNotDelivered',
         row' \in [Session -> Row], told' \in [Session -> SUBSET Name], RowsOK(row', told'),
         \A s \in Session : row[s].here /\ InUse(s) => row'[s].here /\ row'[s].name = row[s].name
  PROVE  MailIInv'
<1>1. ASSUME NEW c \in Call PROVE CallOK(call[c], row')
  <2>1. CallOK(call[c], row)
    BY DEF MailIInv, CallsOK
  <2>2. \A s \in Session : s \in {call[c].caller, call[c].who} /\ row[s].here =>
                             row'[s].here /\ row'[s].name = row[s].name
    BY DEF InUse, Uses
  <2>3. QED
    BY <2>1, <2>2, CallFrame
<1>2. CallsOK'
  BY <1>1 DEF CallsOK
<1>3. HandedOK'
  BY DEF MailIInv, HandedOK, OwnMailOnly
<1>4. QED
  BY <1>2, <1>3 DEF MailIInv

\* FallSilent keeps the invariant.
LEMMA FallSilentStep ==
  ASSUME MailIInv, NEW s \in Session, FallSilent(s), UnsentNotDelivered'
  PROVE  MailIInv'
<1>1. row' = [row EXCEPT ![s].silent = TRUE] /\ UNCHANGED <<call, handed, hk, told>>
  BY DEF FallSilent
<1>2. row \in [Session -> Row] /\ RowsOK(row, told) /\ told \in [Session -> SUBSET Name] /\ hk \in HkPc
  BY DEF MailIInv, HandedOK
<1>3. /\ row' \in [Session -> Row]
      /\ \A u \in Session : row'[u].here = row[u].here /\ row'[u].name = row[u].name
  <2> DEFINE new == [row[s] EXCEPT !.silent = TRUE]
  <2>1. new \in Row /\ new.here = row[s].here /\ new.name = row[s].name
    BY <1>2 DEF Row
  <2>2. row' = [row EXCEPT ![s] = new]
    BY <1>1
  <2> HIDE DEF new
  <2>3. QED
    BY <1>2, <2>1, <2>2
<1>4. RowsOK(row', told')
  <2>1. told' = told
    BY <1>1
  <2>2. QED
    BY <1>2, <1>3, <2>1, RowsSame
<1>5. QED
  BY <1>1, <1>2, <1>3, <1>4, OutsideFrame

\* PurgeAgents keeps the invariant.
LEMMA PurgeAgentsStep ==
  ASSUME ~PurgesMidCall, MailIInv, NEW S, PurgeAgents(S), UnsentNotDelivered'
  PROVE  MailIInv'
<1>1. /\ row' = [s \in Session |-> IF s \in S THEN NoRow ELSE row[s]]
      /\ told' = [s \in Session |-> IF s \in S THEN {} ELSE told[s]]
      /\ hk' = "recipients" /\ UNCHANGED <<call, handed>>
      /\ \A s \in S : ~InUse(s)
  BY DEF PurgeAgents
<1>2. row \in [Session -> Row] /\ RowsOK(row, told) /\ told \in [Session -> SUBSET Name]
  BY DEF MailIInv
<1>3. NoRow \in Row /\ ~NoRow.here
  BY DEF NoRow, Row
<1>4. /\ row' \in [Session -> Row] /\ told' \in [Session -> SUBSET Name] /\ hk' \in HkPc
      /\ \A s \in Session : \/ s \notin S /\ row'[s] = row[s] /\ told'[s] = told[s]
                            \/ s \in S /\ ~row'[s].here /\ told'[s] = {}
  BY <1>1, <1>2, <1>3 DEF HkPc
<1>5. RowsOK(row', told')
  BY <1>2, <1>4 DEF RowsOK
<1>6. \A s \in Session : row[s].here /\ InUse(s) => row'[s].here /\ row'[s].name = row[s].name
  BY <1>1, <1>4
<1>7. QED
  BY <1>1, <1>4, <1>5, <1>6, OutsideFrame

\* DaemonCrash keeps the invariant.
LEMMA DaemonCrashStep ==
  ASSUME MailIInv, DaemonCrash, UnsentNotDelivered'
  PROVE  MailIInv'
<1>1. call' = [c \in Call |-> NoCall] /\ hk' = "down" /\ UNCHANGED <<row, told, handed>>
  BY DEF DaemonCrash
<1>2. call' \in [Call -> CallState] /\ CallsOK'
  BY <1>1, NoCallFacts DEF CallsOK
<1>3. HandedOK'
  BY <1>1 DEF MailIInv, HandedOK, OwnMailOnly, HkPc
<1>4. QED
  BY <1>1, <1>2, <1>3 DEF MailIInv

\* Every step keeps the invariant.
LEMMA MailStep ==
  ASSUME ~PurgesMidCall, MailIInv, [Next]_mailVars
  PROVE  MailIInv'
<1>1. UnsentNotDelivered'
  BY UnreadStep DEF MailIInv
<1>2. ASSUME NEW c \in Call, Statement(c) PROVE MailIInv'
  BY <1>1, <1>2, RegisterSelectStep, RegisterUpdateStep, RegisterCountStep, RegisterInsertStep,
     RegisterReselectStep, SetStatusStep, ResolveActorStep, TouchCallerStep, MailStatementStep,
     ReadLookupStep, ReadDrainStep DEF Statement
<1>3. ASSUME NEW c \in Call, NEW caller \in Session, NEW who \in Session, NEW op \in Op,
             NEW to \in {row[t].name : t \in Session} \cup {NoName},
             Dispatch(c, caller, who, op, to)
      PROVE  MailIInv'
  BY <1>1, <1>3, DispatchStep
<1>4. ASSUME NEW s \in Ages, FallSilent(s) PROVE MailIInv'
  BY <1>1, <1>4, FallSilentStep, MailboxAssumption
<1>5. ASSUME UNCHANGED <<row, told, call, handed>>, hk' \in HkPc PROVE MailIInv'
  BY <1>1, <1>5, OutsideFrame DEF MailIInv
<1>6. ASSUME NEW m \in Msg, AgeMessage(m) PROVE MailIInv'
  BY <1>5, <1>6 DEF AgeMessage, MailIInv, HandedOK
<1>7. CASE Housekeep
  <2>1. CASE \E S \in SUBSET Ages : PurgeAgents(S)
    BY <1>1, <2>1, PurgeAgentsStep
  <2>2. CASE PurgeRead \/ PurgeMonth \/ PurgeOrphans \/ PurgeRecipients
    BY <1>5, <2>2 DEF PurgeRead, PurgeMonth, PurgeOrphans, PurgeRecipients, HkPc
  <2>3. QED
    BY <1>7, <2>1, <2>2 DEF Housekeep
<1>8. CASE DaemonCrash
  BY <1>1, <1>8, DaemonCrashStep
<1>9. CASE DaemonStart
  BY <1>5, <1>9 DEF DaemonStart, HkPc
<1>10. CASE UNCHANGED mailVars
  BY <1>5, <1>10 DEF mailVars, MailIInv, HandedOK
<1>11. QED
  BY <1>2, <1>3, <1>4, <1>6, <1>7, <1>8, <1>9, <1>10 DEF Next

\* An empty store satisfies the invariant.
LEMMA MailInit ==
  ASSUME Init PROVE MailIInv
<1>1. UnsentNotDelivered
  BY DEF Init, UnsentNotDelivered, MsgState, Delivery
<1>2. HandedOK
  BY DEF Init, HandedOK, HkPc, OwnMailOnly
<1>3. NoRow \in Row /\ ~NoRow.here
  BY DEF NoRow, Row
<1>4. row \in [Session -> Row] /\ told \in [Session -> SUBSET Name] /\ RowsOK(row, told)
  BY <1>3 DEF Init, RowsOK
<1>5. call \in [Call -> CallState] /\ CallsOK
  BY NoCallFacts DEF Init, CallsOK
<1>6. QED
  BY <1>1, <1>2, <1>4, <1>5 DEF MailIInv

\* As long as Housekeep purges no row a request relies on, however
\* registrations race with each other, with rivals for the name and with
\* crashes: the state is well typed, and every registration is answered with
\* the name its row has.
THEOREM NamesStay == ASSUME ~PurgesMidCall PROVE MailboxSpec => []MailboxInv
<1>1. Init => MailIInv
  BY MailInit
<1>2. MailIInv /\ [Next]_mailVars => MailIInv'
  BY MailStep
<1>3. MailIInv => MailboxInv
  BY DEF MailIInv, UnsentNotDelivered, HandedOK, RowsOK, MailboxInv, MailboxTypeOK, NamesAgree
<1>4. QED
  BY <1>1, <1>2, <1>3, PTL DEF MailboxSpec

\* ResolveActor's "no session can ... drain the inbox of another agent",
\* although a read finds its agent by name three statements long: only the
\* agent itself or its parent session is handed its mail.
THEOREM InboxPrivate == ASSUME ~PurgesMidCall PROVE MailboxSpec => []OwnMailOnly
<1>1. Init => MailIInv
  BY MailInit
<1>2. MailIInv /\ [Next]_mailVars => MailIInv'
  BY MailStep
<1>3. MailIInv => OwnMailOnly
  BY DEF MailIInv, HandedOK
<1>4. QED
  BY <1>1, <1>2, <1>3, PTL DEF MailboxSpec
=============================================================================
