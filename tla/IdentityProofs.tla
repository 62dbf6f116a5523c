--------------------------- MODULE IdentityProofs ---------------------------
(***************************************************************************)
(* Proofs about Identity for any number of hosts, sessions and servers:    *)
(* servers never retire a hook's row, a minted row among the live is       *)
(* somebody's, a server that is not bound yet adopts its own session, and  *)
(* no server acts under the identity of another host.                      *)
(*                                                                         *)
(* Most of the invariant is local to a host: it relates its process, its   *)
(* bind file, its hook and its MCP server.  Only minted ids travel, by way *)
(* of bind files, so Traces follows them.                                  *)
(***************************************************************************)
EXTENDS Identity, TLAPS

-----------------------------------------------------------------------------
(* The inductive invariant *)

HookSess(h, n) == [by |-> "hook", of |-> h, num |-> n]

\* Host h with its process x, its hook k and its server m.  A hook works for
\* the current session, and the hook of an end runs when that session is over.
\* A server that is not bound acts under the id it has minted.
HostOK(h, x, k, m) ==
  /\ x.open => x.alive /\ x.num \in 1 .. MaxSess[h]
  /\ k.todo # <<>> => k.sess = HookSess(h, x.num) /\ x.num \in 1 .. MaxSess[h]
  /\ k.todo \in {Work("end"), <<"retire">>} => ~x.open
  /\ m.up /\ ~m.bound => m.sess = Minted(h, m.num) /\ m.num \in 1 .. MaxServers[h]

\* The bind b of a call that is due to the current session stays until the
\* server has looked for it, and from then on the server is that session.
DueOK(h, x, b, m) ==
  /\ m.due # None => m.due.num <= x.num
  /\ m.fresh /\ m.pc = "match" => ~m.bound
  /\ m.fresh /\ x.open /\ m.due = HookSess(h, x.num) =>
       /\ m.pc = "match" => b = m.due
       /\ m.pc \in {"check", "register", "file", "act"} => m.sess = m.due

\* A minted id that is in a bind file or that a server of another host has
\* taken belongs to a server that is bound, or has been left.
Traces ==
  \A s \in MintId :
    (\E g \in Host : bind[g] = s \/ (g # s.of /\ mcp[g].sess = s)) =>
      s \in left \/ (mcp[s.of].sess = s /\ mcp[s.of].bound)

HostsOK == \A h \in Host : HostOK(h, host[h], hook[h], mcp[h])
DuesOK == \A h \in Host : DueOK(h, host[h], bind[h], mcp[h])

IdentityIInv == IdentityTypeOK /\ HostsOK /\ DuesOK /\ Traces /\ NoGhosts

\* Bind files and servers keep to their own host.
OwnBinds ==
  \A h \in Host : /\ bind[h] # None => bind[h].of = h
                  /\ mcp[h].up => mcp[h].sess.of = h
-----------------------------------------------------------------------------
(* Session ids, hooks' work and servers *)

\* A hook's session id tells its host and its number.
LEMMA HookIds ==
  /\ \A h \in Host : \A n \in 1 .. MaxSess[h] : HookSess(h, n) \in HookId
  /\ \A s \in HookId : /\ s.by = "hook" /\ s.of \in Host /\ s.num \in 1 .. MaxSess[s.of]
                       /\ s = HookSess(s.of, s.num) /\ s.num \in Nat
<1>1. ASSUME NEW h \in Host, NEW n \in 1 .. MaxSess[h] PROVE HookSess(h, n) \in HookId
  <2>1. HookSess(h, n) \in [by: {"hook"}, of: {h}, num: 1 .. MaxSess[h]]
    BY DEF HookSess
  <2>2. QED
    BY <2>1 DEF HookId
<1>2. ASSUME NEW s \in HookId
      PROVE  /\ s.by = "hook" /\ s.of \in Host /\ s.num \in 1 .. MaxSess[s.of]
             /\ s = HookSess(s.of, s.num) /\ s.num \in Nat
  <2>1. PICK h \in Host : s \in [by: {"hook"}, of: {h}, num: 1 .. MaxSess[h]]
    BY DEF HookId
  <2>2. MaxSess[h] \in Nat
    BY IdentityAssumption
  <2>3. QED
    BY <2>1, <2>2 DEF HookSess
<1>3. QED
  BY <1>1, <1>2

\* A minted session id tells its host.
LEMMA MintIds ==
  /\ \A h \in Host : \A n \in 1 .. MaxServers[h] : Minted(h, n) \in MintId
  /\ \A s \in MintId : s.by = "mcp" /\ s.of \in Host
  /\ \A h \in Host : \A n \in Nat : Minted(h, n).of = h /\ Minted(h, n).by = "mcp"
<1>1. ASSUME NEW h \in Host, NEW n \in 1 .. MaxServers[h] PROVE Minted(h, n) \in MintId
  <2>1. Minted(h, n) \in [by: {"mcp"}, of: {h}, num: 1 .. MaxServers[h]]
    BY DEF Minted
  <2>2. QED
    BY <2>1 DEF MintId
<1>2. ASSUME NEW s \in MintId PROVE s.by = "mcp" /\ s.of \in Host
  <2>1. PICK h \in Host : s \in [by: {"mcp"}, of: {h}, num: 1 .. MaxServers[h]]
    BY DEF MintId
  <2>2. QED
    BY <2>1
<1>3. ASSUME NEW h \in Host, NEW n \in Nat PROVE Minted(h, n).of = h /\ Minted(h, n).by = "mcp"
  BY DEF Minted
<1>4. QED
  BY <1>1, <1>2, <1>3

\* The two kinds of ids are different, and None is neither.
LEMMA IdKinds ==
  /\ HookId \subseteq Id /\ MintId \subseteq Id
  /\ \A s \in HookId : s \notin MintId /\ s # None
  /\ \A s \in MintId : s # None
<1>1. \A s \in HookId : s \notin MintId
  BY HookIds, MintIds
<1>2. QED
  BY <1>1, NoneAssumption DEF Id

\* What is left of a hook's work after its first step.
LEMMA TodoFacts ==
  ASSUME NEW t \in Todo, t # <<>>
  PROVE  /\ DOMAIN t = 1 .. 2 => <<t[2]>> \in Todo /\ <<t[2]>> # <<>>
         /\ t[1] = "remove" => t = Work("end")
         /\ t[1] = "retire" => t = <<"retire">>
         /\ DOMAIN t = 1 .. 2 /\ t[2] = "retire" => t = Work("end")
<1>1. CASE \E w \in {"write", "retire", "event", "refresh"} : t = <<w>>
  <2>1. PICK w \in {"write", "retire", "event", "refresh"} : t = <<w>>
    BY <1>1
  <2>2. DOMAIN t # 1 .. 2 /\ t[1] = w
    BY <2>1
  <2>3. QED
    BY <2>1, <2>2
<1>2. CASE t = Work("start")
  BY <1>2 DEF Work, Todo
<1>3. CASE t = Work("end")
  BY <1>3 DEF Work, Todo
<1>4. CASE t = Work("event")
  BY <1>4 DEF Work, Todo
<1>5. CASE t = Work("tool")
  BY <1>5 DEF Work, Todo
<1>6. QED
  BY <1>1, <1>2, <1>3, <1>4, <1>5 DEF Todo

\* What a server that is up is.
LEMMA ServerFacts ==
  ASSUME IdentityTypeOK, NEW h \in Host
  PROVE  /\ mcp[h].up \in BOOLEAN /\ mcp[h].bound \in BOOLEAN /\ mcp[h].named \in BOOLEAN
         /\ mcp[h].explicit \in BOOLEAN /\ mcp[h].fresh \in BOOLEAN
         /\ mcp[h].num \in Nat /\ mcp[h].sess \in Id \cup {None}
         /\ mcp[h].due \in HookId \cup {None}
         /\ mcp[h].up <=> mcp[h] \in Server
         /\ mcp[h].up => mcp[h].sess \in Id
         /\ mcp[h].pc # "idle" => mcp[h].up
         /\ mcp[h].bound => mcp[h].up
         /\ ~mcp[h].up => mcp[h] \in DownServer
<1>1. mcp[h] \in Server \/ mcp[h] \in DownServer
  BY DEF IdentityTypeOK
<1>2. CASE mcp[h] \in Server
  BY <1>2 DEF Server
<1>3. CASE mcp[h] \in DownServer
  BY <1>3 DEF DownServer, Server
<1>4. QED
  BY <1>1, <1>2, <1>3

\* A server that is down is one of DownServer.
LEMMA DownIsDown ==
  ASSUME NEW k \in Nat PROVE Down(k) \in DownServer
  BY DEF Down, DownServer

-----------------------------------------------------------------------------
(* Frames *)

\* A step of one host keeps the others' part of the invariant.
LEMMA HostFrame ==
  ASSUME IdentityIInv, NEW h \in Host,
         \A g \in Host \ {h} : /\ host'[g] = host[g] /\ bind'[g] = bind[g]
                               /\ hook'[g] = hook[g] /\ mcp'[g] = mcp[g],
         HostOK(h, host'[h], hook'[h], mcp'[h]),
         DueOK(h, host'[h], bind'[h], mcp'[h])
  PROVE  HostsOK' /\ DuesOK'
<1>1. ASSUME NEW g \in Host
      PROVE  HostOK(g, host'[g], hook'[g], mcp'[g]) /\ DueOK(g, host'[g], bind'[g], mcp'[g])
  <2>1. CASE g = h
    BY <2>1
  <2>2. CASE g # h
    <3>1. host'[g] = host[g] /\ bind'[g] = bind[g] /\ hook'[g] = hook[g] /\ mcp'[g] = mcp[g]
      BY <2>2
    <3>2. QED
      BY <3>1 DEF IdentityIInv, HostsOK, DuesOK
  <2>3. QED
    BY <2>1, <2>2
<1>2. QED
  BY <1>1 DEF HostsOK, DuesOK

\* A step that gives no minted id away and makes no minted row live.
LEMMA GhostFrame ==
  ASSUME IdentityIInv,
         left \subseteq left',
         \A g \in Host : bind'[g] = bind[g] \/ bind'[g] \notin MintId,
         \A g \in Host : mcp'[g].sess = mcp[g].sess /\ (mcp[g].bound => mcp'[g].bound),
         \A s \in MintId : row'[s] = "live" => row[s] = "live"
  PROVE  Traces' /\ NoGhosts'
<1>1. \A s \in MintId : s.of \in Host
  BY MintIds
<1>2. Traces'
  <2> SUFFICES ASSUME NEW s \in MintId, NEW g \in Host,
                      bind'[g] = s \/ (g # s.of /\ mcp'[g].sess = s)
               PROVE  s \in left' \/ (mcp'[s.of].sess = s /\ mcp'[s.of].bound)
    BY DEF Traces
  <2>1. bind[g] = s \/ (g # s.of /\ mcp[g].sess = s)
    OBVIOUS
  <2>2. s \in left \/ (mcp[s.of].sess = s /\ mcp[s.of].bound)
    BY <2>1 DEF IdentityIInv, Traces
  <2>3. QED
    BY <1>1, <2>2
<1>3. NoGhosts'
  BY <1>1 DEF IdentityIInv, NoGhosts
<1>4. QED
  BY <1>2, <1>3
-----------------------------------------------------------------------------
(* Hooks *)

\* What the invariant says of one host.
LEMMA HostFacts ==
  ASSUME IdentityIInv, NEW h \in Host
  PROVE  /\ IdentityTypeOK
         /\ host[h] \in [alive: BOOLEAN, num: Nat, open: BOOLEAN]
         /\ hook[h] \in [todo: Todo, sess: HookId \cup {None}]
         /\ bind[h] \in Id \cup {None}
         /\ HostOK(h, host[h], hook[h], mcp[h])
         /\ DueOK(h, host[h], bind[h], mcp[h])
  BY DEF IdentityIInv, IdentityTypeOK, HostsOK, DuesOK

\* HookRun keeps the invariant.
LEMMA HookRunStep ==
  ASSUME IdentityIInv, NEW h \in Host, NEW ev \in {"start", "end", "event", "tool"}, HookRun(h, ev)
  PROVE  IdentityIInv'
<1> USE DEF HookRun
<1>1. /\ host[h] \in [alive: BOOLEAN, num: Nat, open: BOOLEAN]
      /\ HostOK(h, host[h], hook[h], mcp[h]) /\ DueOK(h, host[h], bind[h], mcp[h])
      /\ hook[h].todo = <<>> /\ host[h].alive
  BY HostFacts
<1>2. /\ host \in [Host -> [alive: BOOLEAN, num: Nat, open: BOOLEAN]]
      /\ MaxSess[h] \in Nat
  BY IdentityAssumption DEF IdentityIInv, IdentityTypeOK
<1>3. \/ ev \in {"start", "event", "tool"} /\ host[h].open /\ host' = host
      \/ /\ ev = "start" /\ ~host[h].open /\ host[h].num < MaxSess[h]
         /\ host' = [host EXCEPT ![h].num = host[h].num + 1, ![h].open = TRUE]
      \/ ev = "end" /\ host[h].open /\ host' = [host EXCEPT ![h].open = FALSE]
  OBVIOUS
<1>4. /\ host' \in [Host -> [alive: BOOLEAN, num: Nat, open: BOOLEAN]]
      /\ \A g \in Host \ {h} : host'[g] = host[g]
      /\ host'[h].alive /\ host'[h].num \in 1 .. MaxSess[h]
      /\ ev = "end" <=> ~host'[h].open
      /\ host'[h].num = host[h].num \/ ~host[h].open
  <2>1. CASE ev \in {"start", "event", "tool"} /\ host[h].open /\ host' = host
    BY <1>1, <1>2, <2>1 DEF HostOK
  <2>2. CASE /\ ev = "start" /\ ~host[h].open /\ host[h].num < MaxSess[h]
             /\ host' = [host EXCEPT ![h].num = host[h].num + 1, ![h].open = TRUE]
    BY <1>1, <1>2, <2>2
  <2>3. CASE ev = "end" /\ host[h].open /\ host' = [host EXCEPT ![h].open = FALSE]
    BY <1>1, <1>2, <2>3 DEF HostOK
  <2>4. QED
    BY <1>3, <2>1, <2>2, <2>3
<1>5. HookSess(h, host'[h].num) \in HookId /\ Work(ev) \in Todo
  BY <1>4, HookIds DEF Todo
<1>6. /\ hook' \in [Host -> [todo: Todo, sess: HookId \cup {None}]]
      /\ \A g \in Host \ {h} : hook'[g] = hook[g]
      /\ hook'[h] = [todo |-> Work(ev), sess |-> HookSess(h, host'[h].num)]
  BY <1>5 DEF IdentityIInv, IdentityTypeOK, HookSess
<1>7. IdentityTypeOK'
  BY <1>4, <1>6 DEF IdentityIInv, IdentityTypeOK
<1>8. Work(ev) \in {Work("end"), <<"retire">>} => ev = "end"
  BY DEF Work
<1>9. HostOK(h, host'[h], hook'[h], mcp'[h])
  BY <1>1, <1>4, <1>6, <1>8 DEF HostOK
<1>10. DueOK(h, host'[h], bind'[h], mcp'[h])
  <2>1. CASE host'[h].open /\ host[h].open
    BY <1>1, <1>4, <2>1 DEF DueOK
  <2>2. CASE ~host'[h].open
    BY <1>1, <1>3, <1>4, <2>2 DEF DueOK
  <2>3. CASE host'[h].open /\ ~host[h].open
    <3>1. HookSess(h, host'[h].num) # None /\ HookSess(h, host'[h].num).num = host[h].num + 1
      BY <1>1, <1>2, <1>3, <1>5, <2>3, IdKinds DEF HookSess
    <3>2. mcp[h].due # HookSess(h, host'[h].num)
      BY <1>1, <3>1 DEF DueOK
    <3>3. mcp[h].due # None => mcp[h].due.num \in Nat
      BY HookIds, ServerFacts, HostFacts
    <3>4. QED
      BY <1>1, <1>2, <1>3, <2>3, <3>2, <3>3 DEF DueOK
  <2>4. QED
    BY <2>1, <2>2, <2>3
<1>11. HostsOK' /\ DuesOK'
  BY <1>4, <1>6, <1>9, <1>10, HostFrame
<1>12. Traces' /\ NoGhosts'
  BY GhostFrame
<1>13. QED
  BY <1>7, <1>11, <1>12 DEF IdentityIInv
\* A hook's next step belongs to the same session, or the hook is over.
LEMMA HookGoesOnFacts ==
  ASSUME IdentityIInv, NEW h \in Host, hook[h].todo # <<>>, HookGoesOn(h)
  PROVE  /\ hook' \in [Host -> [todo: Todo, sess: HookId \cup {None}]]
         /\ \A g \in Host \ {h} : hook'[g] = hook[g]
         /\ HostOK(h, host[h], hook'[h], mcp[h])
<1>1. /\ hook[h] \in [todo: Todo, sess: HookId \cup {None}]
      /\ HostOK(h, host[h], hook[h], mcp[h])
      /\ hook \in [Host -> [todo: Todo, sess: HookId \cup {None}]]
  BY HostFacts DEF IdentityTypeOK
<1> DEFINE t == hook[h].todo
           k == IF DOMAIN t = 1 .. 2 THEN [hook[h] EXCEPT !.todo = <<t[2]>>]
                                     ELSE [todo |-> <<>>, sess |-> None]
<1>2. hook' = [hook EXCEPT ![h] = k]
  BY DEF HookGoesOn
<1>3. k \in [todo: Todo, sess: HookId \cup {None}] /\ HostOK(h, host[h], k, mcp[h])
  <2>1. CASE DOMAIN t = 1 .. 2
    <3>1. k = [hook[h] EXCEPT !.todo = <<t[2]>>] /\ <<t[2]>> \in Todo
      BY <1>1, <2>1, TodoFacts
    <3>2. /\ k \in [todo: Todo, sess: HookId \cup {None}] /\ k.todo = <<t[2]>>
          /\ k.sess = hook[h].sess
      BY <1>1, <3>1
    <3>3. k.todo \in {Work("end"), <<"retire">>} => t = Work("end")
      <4>1. <<t[2]>> # Work("end")
        BY DEF Work
      <4>2. <<t[2]>> = <<"retire">> => t[2] = "retire"
        OBVIOUS
      <4>3. QED
        BY <1>1, <2>1, <3>2, <4>1, <4>2, TodoFacts
    <3>4. QED
      BY <1>1, <3>2, <3>3 DEF HostOK
  <2>2. CASE DOMAIN t # 1 .. 2
    <3>1. k = [todo |-> <<>>, sess |-> None]
      BY <2>2
    <3>2. k.todo = <<>> /\ <<>> \notin {Work("end"), <<"retire">>} /\ <<>> \in Todo
      BY <3>1 DEF Work, Todo
    <3>3. QED
      BY <1>1, <3>1, <3>2 DEF HostOK
  <2>3. QED
    BY <2>1, <2>2
<1> HIDE DEF k
<1>4. QED
  BY <1>1, <1>2, <1>3

\* A hook that has ended, or was killed.
LEMMA HookEnds ==
  ASSUME IdentityIInv, NEW h \in Host, NEW x, x.open => x = host[h],
         hook' = [hook EXCEPT ![h] = [todo |-> <<>>, sess |-> None]]
  PROVE  /\ hook' \in [Host -> [todo: Todo, sess: HookId \cup {None}]]
         /\ \A g \in Host \ {h} : hook'[g] = hook[g]
         /\ HostOK(h, x, hook'[h], mcp[h])
<1>1. /\ HostOK(h, host[h], hook[h], mcp[h])
      /\ hook \in [Host -> [todo: Todo, sess: HookId \cup {None}]]
  BY HostFacts DEF IdentityTypeOK
<1>2. <<>> \notin {Work("end"), <<"retire">>} /\ <<>> \in Todo
  BY DEF Work, Todo
<1>3. hook'[h].todo = <<>>
  BY <1>1
<1>4. QED
  BY <1>1, <1>2, <1>3 DEF HostOK

\* HookTrip keeps the invariant.
LEMMA HookTripStep ==
  ASSUME IdentityIInv, NEW h \in Host, HookTrip(h)
  PROVE  IdentityIInv'
<1>1. hook[h].todo # <<>> /\ HookGoesOn(h) /\ UNCHANGED <<host, bind, mcp, left>>
  BY DEF HookTrip, Doing
<1>2. hook[h].sess \in HookId
  BY <1>1, HookIds, HostFacts DEF HostOK
<1>3. row' \in [Id -> {"none", "live", "gone"}] /\ \A s \in MintId : row'[s] = row[s]
  <2>1. hook[h].sess \in Id \ MintId /\ row \in [Id -> {"none", "live", "gone"}] /\ MintId \subseteq Id
    BY <1>2, IdKinds DEF IdentityIInv, IdentityTypeOK
  <2>2. QED
    BY <2>1 DEF HookTrip, Registered, SetStatus
<1>4. IdentityTypeOK'
  BY <1>1, <1>3, HookGoesOnFacts DEF IdentityIInv, IdentityTypeOK
<1>5. HostsOK' /\ DuesOK'
  BY <1>1, HookGoesOnFacts, HostFacts, HostFrame
<1>6. Traces' /\ NoGhosts'
  BY <1>1, <1>3, GhostFrame
<1>7. QED
  BY <1>4, <1>5, <1>6 DEF IdentityIInv

\* HookTripFails keeps the invariant.
LEMMA HookTripFailsStep ==
  ASSUME IdentityIInv, NEW h \in Host, HookTripFails(h)
  PROVE  IdentityIInv'
<1>1. hook[h].todo # <<>> /\ UNCHANGED <<host, row, bind, mcp, left>>
  BY DEF HookTripFails, Doing
<1>2. /\ hook' \in [Host -> [todo: Todo, sess: HookId \cup {None}]]
      /\ \A g \in Host \ {h} : hook'[g] = hook[g]
      /\ HostOK(h, host[h], hook'[h], mcp[h])
  <2>1. CASE Doing(h, "register")
    BY <2>1, HookEnds DEF HookTripFails
  <2>2. CASE ~Doing(h, "register")
    BY <1>1, <2>2, HookGoesOnFacts DEF HookTripFails
  <2>3. QED
    BY <2>1, <2>2
<1>3. IdentityTypeOK'
  BY <1>1, <1>2 DEF IdentityIInv, IdentityTypeOK
<1>4. HostsOK' /\ DuesOK'
  BY <1>1, <1>2, HostFacts, HostFrame
<1>5. Traces' /\ NoGhosts'
  BY <1>1, GhostFrame
<1>6. QED
  BY <1>3, <1>4, <1>5 DEF IdentityIInv

\* While a session goes on, its hooks leave its bind in place.
LEMMA HookFileStep ==
  ASSUME IdentityIInv, NEW h \in Host, HookFile(h)
  PROVE  IdentityIInv'
<1>1. hook[h].todo # <<>> /\ HookGoesOn(h) /\ UNCHANGED <<host, row, mcp, left>>
  BY DEF HookFile, Doing
<1>2. /\ hook[h].sess \in HookId /\ hook[h].sess = HookSess(h, host[h].num)
      /\ HostOK(h, host[h], hook[h], mcp[h]) /\ DueOK(h, host[h], bind[h], mcp[h])
      /\ bind \in [Host -> Id \cup {None}] /\ hook[h].todo \in Todo
  BY <1>1, HookIds, HostFacts DEF HostOK, IdentityTypeOK
<1>3. /\ bind' \in [Host -> Id \cup {None}]
      /\ \A g \in Host : bind'[g] = bind[g] \/ bind'[g] \notin MintId
      /\ \A g \in Host \ {h} : bind'[g] = bind[g]
  <2>1. hook[h].sess \in Id /\ hook[h].sess \notin MintId /\ None \notin MintId
    BY <1>2, IdKinds
  <2>2. QED
    BY <1>2, <2>1 DEF HookFile, WriteBind
<1>4. \/ bind'[h] = hook[h].sess
      \/ bind'[h] = bind[h]
      \/ bind'[h] = None /\ ~host[h].open
  <2>1. Doing(h, "remove") => ~host[h].open
    BY <1>1, <1>2, TodoFacts DEF Doing, HostOK
  <2>2. QED
    BY <1>2, <2>1 DEF HookFile, WriteBind
<1>5. DueOK(h, host'[h], bind'[h], mcp'[h])
  BY <1>1, <1>2, <1>4 DEF DueOK
<1>6. IdentityTypeOK'
  BY <1>1, <1>3, HookGoesOnFacts DEF IdentityIInv, IdentityTypeOK
<1>7. HostsOK' /\ DuesOK'
  BY <1>1, <1>3, <1>5, HookGoesOnFacts, HostFrame
<1>8. Traces' /\ NoGhosts'
  BY <1>1, <1>3, GhostFrame
<1>9. QED
  BY <1>6, <1>7, <1>8 DEF IdentityIInv

\* HostExits keeps the invariant.
LEMMA HostExitsStep ==
  ASSUME IdentityIInv, NEW h \in Host, HostExits(h)
  PROVE  IdentityIInv'
<1>1. UNCHANGED <<row, bind, mcp, left>> /\ hook' = [hook EXCEPT ![h] = [todo |-> <<>>, sess |-> None]]
  BY DEF HostExits
<1>2. /\ host' \in [Host -> [alive: BOOLEAN, num: Nat, open: BOOLEAN]]
      /\ \A g \in Host \ {h} : host'[g] = host[g]
      /\ ~host'[h].open /\ host'[h].num = host[h].num
  BY DEF HostExits, IdentityIInv, IdentityTypeOK
<1>3. /\ hook' \in [Host -> [todo: Todo, sess: HookId \cup {None}]]
      /\ \A g \in Host \ {h} : hook'[g] = hook[g]
      /\ HostOK(h, host'[h], hook'[h], mcp[h])
  BY <1>1, <1>2, HookEnds
<1>4. DueOK(h, host'[h], bind'[h], mcp'[h])
  BY <1>1, <1>2, HostFacts DEF DueOK
<1>5. IdentityTypeOK'
  BY <1>1, <1>2, <1>3 DEF IdentityIInv, IdentityTypeOK
<1>6. HostsOK' /\ DuesOK'
  BY <1>1, <1>2, <1>3, <1>4, HostFrame
<1>7. Traces' /\ NoGhosts'
  BY <1>1, GhostFrame
<1>8. QED
  BY <1>5, <1>6, <1>7 DEF IdentityIInv
-----------------------------------------------------------------------------
(* The MCP server: its life *)

\* A server that changes by itself, its host and hook unchanged.
LEMMA ServerFrame ==
  ASSUME IdentityIInv, NEW h \in Host, NEW m \in Server \cup DownServer,
         mcp' = [mcp EXCEPT ![h] = m],
         UNCHANGED <<host, hook>>,
         row' \in [Id -> {"none", "live", "gone"}],
         bind' \in [Host -> Id \cup {None}],
         \A g \in Host \ {h} : bind'[g] = bind[g],
         left' \subseteq MintId,
         m.up /\ ~m.bound => m.sess = Minted(h, m.num) /\ m.num \in 1 .. MaxServers[h],
         DueOK(h, host[h], bind'[h], m)
  PROVE  IdentityTypeOK' /\ HostsOK' /\ DuesOK'
<1>1. mcp \in [Host -> Server \cup DownServer]
  BY DEF IdentityIInv, IdentityTypeOK
<1>2. mcp'[h] = m /\ \A g \in Host \ {h} : mcp'[g] = mcp[g]
  BY <1>1
<1>3. IdentityTypeOK'
  BY <1>1 DEF IdentityIInv, IdentityTypeOK
<1>4. HostOK(h, host'[h], hook'[h], mcp'[h])
  BY <1>2, HostFacts DEF HostOK
<1>5. DueOK(h, host'[h], bind'[h], mcp'[h])
  BY <1>2
<1>6. QED
  BY <1>2, <1>3, <1>4, <1>5, HostFrame

\* A server that acts under another id than before, or under none: its minted
\* id is retired or left, and what it takes has been traced.
LEMMA SwitchFrame ==
  ASSUME IdentityIInv, NEW h \in Host,
         \A g \in Host \ {h} : mcp'[g] = mcp[g],
         bind' = bind, left \subseteq left',
         mcp[h].bound => mcp[h].sess \notin MintId \/ mcp[h].sess \in left',
         \A s \in MintId : row'[s] = "live" => row[s] = "live",
         mcp[h].sess \in MintId => row'[mcp[h].sess] # "live" \/ mcp[h].sess \in left',
         \A s \in MintId : mcp'[h].sess = s /\ s.of # h => \E g \in Host : bind[g] = s
  PROVE  Traces' /\ NoGhosts'
<1>1. \A g \in Host \ {h} : mcp'[g] = mcp[g]
  OBVIOUS
<1>2. \A s \in MintId : s.of \in Host
  BY MintIds
<1>3. Traces'
  <2> SUFFICES ASSUME NEW s \in MintId, NEW g \in Host,
                      bind'[g] = s \/ (g # s.of /\ mcp'[g].sess = s)
               PROVE  s \in left' \/ (mcp'[s.of].sess = s /\ mcp'[s.of].bound)
    BY DEF Traces
  <2>1. \E f \in Host : bind[f] = s \/ (f # s.of /\ mcp[f].sess = s)
    <3>1. CASE g = h /\ g # s.of /\ mcp'[g].sess = s
      BY <1>1, <3>1
    <3>2. CASE bind'[g] = s \/ g # h
      BY <1>1, <3>2
    <3>3. QED
      BY <3>1, <3>2
  <2>2. s \in left \/ (mcp[s.of].sess = s /\ mcp[s.of].bound)
    BY <2>1 DEF IdentityIInv, Traces
  <2>3. CASE s.of = h
    BY <2>2, <2>3
  <2>4. CASE s.of # h
    BY <1>1, <1>2, <2>2, <2>4
  <2>5. QED
    BY <2>3, <2>4
<1>4. NoGhosts'
  <2> SUFFICES ASSUME NEW s \in MintId, row'[s] = "live"
               PROVE  mcp'[s.of].sess = s \/ s \in left'
    BY DEF NoGhosts
  <2>1. mcp[s.of].sess = s \/ s \in left
    BY DEF IdentityIInv, NoGhosts
  <2>2. CASE s.of = h
    BY <2>1, <2>2
  <2>3. CASE s.of # h
    BY <1>1, <1>2, <2>1, <2>3
  <2>4. QED
    BY <2>2, <2>3
<1>5. QED
  BY <1>3, <1>4

\* ServerStarts keeps the invariant.
LEMMA ServerStartsStep ==
  ASSUME IdentityIInv, NEW h \in Host, ServerStarts(h)
  PROVE  IdentityIInv'
<1> DEFINE k == mcp[h].num + 1
           m == [Down(k) EXCEPT !.up = TRUE, !.sess = Minted(h, k)]
<1>1. mcp' = [mcp EXCEPT ![h] = m] /\ UNCHANGED <<host, row, bind, hook, left>>
  BY DEF ServerStarts
<1>2. mcp[h] \in DownServer /\ mcp[h].num \in Nat /\ mcp[h].num < MaxServers[h] /\ MaxServers[h] \in Nat
  BY ServerFacts, HostFacts, IdentityAssumption DEF ServerStarts
<1>3. k \in 1 .. MaxServers[h] /\ k \in Nat
  BY <1>2
<1>4. Minted(h, k) \in MintId /\ Minted(h, k).of = h
  BY <1>3, MintIds
<1> HIDE DEF k
<1>5. /\ m.up /\ ~m.bound /\ m.sess = Minted(h, k) /\ m.num = k /\ ~m.fresh /\ m.due = None
      /\ m \in Server
  BY <1>3, <1>4 DEF Down, Server, Id
<1> HIDE DEF m
<1>6. DueOK(h, host[h], bind[h], m)
  BY <1>5 DEF DueOK
<1>7. IdentityTypeOK' /\ HostsOK' /\ DuesOK'
  BY <1>1, <1>3, <1>5, <1>6, ServerFrame DEF IdentityIInv, IdentityTypeOK
<1>8. mcp[h].sess = None /\ ~mcp[h].bound
  BY <1>2 DEF DownServer
<1>9. /\ left \subseteq left' /\ bind' = bind /\ mcp[h].sess \notin MintId
      /\ \A s \in MintId : row'[s] = "live" => row[s] = "live"
      /\ \A s \in MintId : mcp'[h].sess = s /\ s.of # h => \E g \in Host : bind[g] = s
      /\ \A g \in Host \ {h} : mcp'[g] = mcp[g]
  BY <1>1, <1>4, <1>5, <1>8, IdKinds DEF IdentityIInv, IdentityTypeOK
<1>10. Traces' /\ NoGhosts'
  BY <1>1, <1>9, SwitchFrame
<1>11. QED
  BY <1>7, <1>10 DEF IdentityIInv

\* The server is down: what it minted is retired or left.
LEMMA ServerDownStep ==
  ASSUME IdentityIInv, NEW h \in Host, ServerStops(h) \/ ServerKilled(h)
  PROVE  IdentityIInv'
<1>1. /\ mcp[h].up /\ mcp' = [mcp EXCEPT ![h] = Down(mcp[h].num)] /\ UNCHANGED <<host, bind, hook>>
      /\ \/ /\ mcp[h].named /\ ~mcp[h].bound
            /\ row' = SetStatus(mcp[h].sess, "gone") /\ left' = left
         \/ row' = row /\ Leave(mcp[h].sess)
  BY DEF ServerStops, ServerKilled
<1>2. /\ mcp[h].sess \in Id /\ mcp[h].num \in Nat /\ left \subseteq MintId
      /\ row \in [Id -> {"none", "live", "gone"}]
  BY <1>1, ServerFacts, HostFacts DEF IdentityTypeOK
<1>3. /\ row' \in [Id -> {"none", "live", "gone"}]
      /\ \A s \in Id : row'[s] = "live" => row[s] = "live"
      /\ left \subseteq left' /\ left' \subseteq MintId
      /\ mcp[h].sess \in MintId => row'[mcp[h].sess] # "live" \/ mcp[h].sess \in left'
      /\ mcp[h].bound => mcp[h].sess \notin MintId \/ mcp[h].sess \in left'
  BY <1>1, <1>2 DEF SetStatus, Leave
<1> DEFINE m == Down(mcp[h].num)
<1>4. /\ m \in DownServer /\ ~m.up /\ m.sess = None /\ ~m.fresh /\ m.due = None
  BY <1>2, DownIsDown DEF DownServer
<1> HIDE DEF m
<1>5. DueOK(h, host[h], bind[h], m)
  BY <1>4 DEF DueOK
<1>6. IdentityTypeOK' /\ HostsOK' /\ DuesOK'
  BY <1>1, <1>3, <1>4, <1>5, ServerFrame DEF m, IdentityIInv, IdentityTypeOK
<1>7. /\ \A s \in MintId : row'[s] = "live" => row[s] = "live"
      /\ \A s \in MintId : mcp'[h].sess = s /\ s.of # h => \E g \in Host : bind[g] = s
      /\ \A g \in Host \ {h} : mcp'[g] = mcp[g]
      /\ bind' = bind
  BY <1>1, <1>3, <1>4, IdKinds DEF m, IdentityIInv, IdentityTypeOK
<1>8. Traces' /\ NoGhosts'
  BY <1>3, <1>7, SwitchFrame
<1>9. QED
  BY <1>6, <1>8 DEF IdentityIInv
-----------------------------------------------------------------------------
(* The MCP server: its calls *)

\* CallTool keeps the invariant.
LEMMA CallToolStep ==
  ASSUME IdentityIInv, NEW h \in Host, NEW explicit \in BOOLEAN, CallTool(h, explicit)
  PROVE  IdentityIInv'
<1> DEFINE m == [mcp[h] EXCEPT !.pc = "match", !.explicit = explicit,
                               !.due = Due(h), !.fresh = ~mcp[h].bound]
<1>1. mcp' = [mcp EXCEPT ![h] = m] /\ UNCHANGED <<host, row, bind, hook, left>>
  BY DEF CallTool
<1>2. /\ mcp[h] \in Server /\ mcp[h].bound \in BOOLEAN
      /\ host[h] \in [alive: BOOLEAN, num: Nat, open: BOOLEAN]
      /\ HostOK(h, host[h], hook[h], mcp[h]) /\ mcp[h].up
  BY ServerFacts, HostFacts DEF CallTool
<1>3. /\ Due(h) \in HookId \cup {None}
      /\ Due(h) # None => Due(h) = HookSess(h, host[h].num) /\ bind[h] = Due(h)
      /\ host[h].open => HookSess(h, host[h].num) # None
  <2>1. host[h].open => HookSess(h, host[h].num) \in HookId
    BY <1>2, HookIds DEF HostOK
  <2>2. QED
    BY <2>1, IdKinds DEF Due, Current, HookSess
<1>4. /\ m \in Server /\ m.up /\ m.bound = mcp[h].bound /\ m.sess = mcp[h].sess
      /\ m.num = mcp[h].num /\ m.pc = "match" /\ m.fresh = ~mcp[h].bound /\ m.due = Due(h)
  BY <1>2, <1>3 DEF Server
<1> HIDE DEF m
<1>5. DueOK(h, host[h], bind[h], m)
  <2>1. m.due # None => m.due.num <= host[h].num
    BY <1>2, <1>3, <1>4 DEF HookSess
  <2>2. QED
    BY <1>2, <1>3, <1>4, <2>1 DEF DueOK
<1>6. m.up /\ ~m.bound => m.sess = Minted(h, m.num) /\ m.num \in 1 .. MaxServers[h]
  BY <1>2, <1>4 DEF HostOK
<1>7. IdentityTypeOK' /\ HostsOK' /\ DuesOK'
  BY <1>1, <1>4, <1>5, <1>6, ServerFrame DEF IdentityIInv, IdentityTypeOK
<1>8. \A g \in Host : mcp'[g].sess = mcp[g].sess /\ (mcp[g].bound => mcp'[g].bound)
  BY <1>1, <1>4 DEF IdentityIInv, IdentityTypeOK
<1>9. Traces' /\ NoGhosts'
  BY <1>1, <1>8, GhostFrame
<1>10. QED
  BY <1>7, <1>9 DEF IdentityIInv

\* A step of the call that keeps the identity and changes no table.
LEMMA CallMoves ==
  ASSUME IdentityIInv, NEW h \in Host, NEW m \in Server,
         mcp[h].up,
         mcp' = [mcp EXCEPT ![h] = m],
         UNCHANGED <<host, row, bind, hook, left>>,
         m.sess = mcp[h].sess, m.bound = mcp[h].bound, m.num = mcp[h].num,
         DueOK(h, host[h], bind[h], m)
  PROVE  IdentityIInv'
<1>1. m.up /\ ~m.bound => m.sess = Minted(h, m.num) /\ m.num \in 1 .. MaxServers[h]
  BY HostFacts DEF HostOK
<1>2. IdentityTypeOK' /\ HostsOK' /\ DuesOK'
  BY <1>1, ServerFrame DEF IdentityIInv, IdentityTypeOK
<1>3. \A g \in Host : mcp'[g].sess = mcp[g].sess /\ (mcp[g].bound => mcp'[g].bound)
  BY DEF IdentityIInv, IdentityTypeOK
<1>4. Traces' /\ NoGhosts'
  BY <1>3, GhostFrame
<1>5. QED
  BY <1>2, <1>4 DEF IdentityIInv

\* A call that is over is due to nobody.
LEMMA ReturnedFacts ==
  ASSUME IdentityIInv, NEW h \in Host, mcp[h].up
  PROVE  /\ Returned(mcp[h]) \in Server
         /\ Returned(mcp[h]).sess = mcp[h].sess /\ Returned(mcp[h]).bound = mcp[h].bound
         /\ Returned(mcp[h]).num = mcp[h].num
         /\ DueOK(h, host[h], bind[h], Returned(mcp[h]))
<1>1. mcp[h] \in Server
  BY ServerFacts, HostFacts
<1>2. /\ Returned(mcp[h]) \in Server
      /\ Returned(mcp[h]).sess = mcp[h].sess /\ Returned(mcp[h]).bound = mcp[h].bound
      /\ Returned(mcp[h]).num = mcp[h].num
      /\ ~Returned(mcp[h]).fresh /\ Returned(mcp[h]).due = None
  BY <1>1 DEF Returned, Server
<1>3. QED
  BY <1>2 DEF DueOK

\* The nearest bind of a host with a bind of its own is that one.
LEMMA OwnBindNearest ==
  ASSUME NEW h \in Host, bind[h] # None, host[h].alive
  PROVE  MatchBind(h) = {h}
<1>1. Distance[h][h] = 0 /\ Distance[h][h] < matchDepth
  BY IdentityAssumption
<1>2. \A g \in Host : Distance[h][g] \in Nat
  BY IdentityAssumption
<1>3. \A g \in Host : Distance[h][h] <= Distance[h][g]
  BY <1>1, <1>2
<1>4. \A g \in Host : Distance[h][g] <= Distance[h][h] => g = h
  BY <1>1, <1>2, IdentityAssumption
<1>5. QED
  BY <1>1, <1>3, <1>4 DEF MatchBind

\* KeepIdentity keeps the invariant.
LEMMA KeepIdentityStep ==
  ASSUME IdentityIInv, NEW h \in Host, KeepIdentity(h)
  PROVE  IdentityIInv'
<1> DEFINE m == [mcp[h] EXCEPT !.pc = AfterMatch(mcp[h])]
<1>1. mcp' = [mcp EXCEPT ![h] = m] /\ UNCHANGED <<host, row, bind, hook, left>>
  BY DEF KeepIdentity
<1>2. /\ mcp[h].up /\ mcp[h] \in Server /\ mcp[h].pc = "match"
      /\ HostOK(h, host[h], hook[h], mcp[h]) /\ DueOK(h, host[h], bind[h], mcp[h])
      /\ mcp[h].bound \/ MatchBind(h) = {}
  BY ServerFacts, HostFacts DEF KeepIdentity
<1>3. AfterMatch(mcp[h]) \in {"act", "register", "check"}
  BY DEF AfterMatch
<1>4. /\ m \in Server /\ m.sess = mcp[h].sess /\ m.bound = mcp[h].bound /\ m.num = mcp[h].num
      /\ m.fresh = mcp[h].fresh /\ m.due = mcp[h].due /\ m.pc = AfterMatch(mcp[h])
  BY <1>2, <1>3 DEF Server
<1> HIDE DEF m
<1>5. ~(mcp[h].fresh /\ host[h].open /\ mcp[h].due = HookSess(h, host[h].num))
  <2> SUFFICES ASSUME mcp[h].fresh, host[h].open, mcp[h].due = HookSess(h, host[h].num)
               PROVE  FALSE
    OBVIOUS
  <2>1. ~mcp[h].bound /\ bind[h] = HookSess(h, host[h].num) /\ host[h].alive
    BY <1>2 DEF DueOK, HostOK
  <2>2. bind[h] # None
    BY <1>2, <2>1, HookIds, IdKinds DEF HostOK
  <2>3. QED
    BY <1>2, <2>1, <2>2, OwnBindNearest
<1>6. DueOK(h, host[h], bind[h], m)
  BY <1>2, <1>3, <1>4, <1>5 DEF DueOK
<1>7. QED
  BY <1>1, <1>2, <1>4, <1>6, CallMoves

\* CheckNoLiveHook keeps the invariant.
LEMMA CheckStep ==
  ASSUME IdentityIInv, NEW h \in Host, CheckNoLiveHook(h)
  PROVE  IdentityIInv'
<1>1. /\ mcp[h].up /\ mcp[h] \in Server /\ mcp[h].pc = "check"
      /\ DueOK(h, host[h], bind[h], mcp[h])
      /\ UNCHANGED <<host, row, bind, hook, left>>
  BY ServerFacts, HostFacts DEF CheckNoLiveHook
<1>2. CASE mcp' = [mcp EXCEPT ![h] = Returned(mcp[h])]
  BY <1>1, <1>2, ReturnedFacts, CallMoves
<1>3. CASE mcp' = [mcp EXCEPT ![h] = [mcp[h] EXCEPT !.pc = "register"]]
  <2> DEFINE m == [mcp[h] EXCEPT !.pc = "register"]
  <2>1. /\ m \in Server /\ m.sess = mcp[h].sess /\ m.bound = mcp[h].bound /\ m.num = mcp[h].num
        /\ m.fresh = mcp[h].fresh /\ m.due = mcp[h].due /\ m.pc = "register"
    BY <1>1 DEF Server
  <2> HIDE DEF m
  <2>2. DueOK(h, host[h], bind[h], m)
    BY <1>1, <2>1 DEF DueOK
  <2>3. QED
    BY <1>1, <1>3, <2>1, <2>2, CallMoves DEF m
<1>4. QED
  BY <1>2, <1>3 DEF CheckNoLiveHook

\* A call that ends, by its action or for want of an answer, keeps the
\* invariant.
LEMMA CallEndsStep ==
  ASSUME IdentityIInv, NEW h \in Host, ServerTripFails(h) \/ Act(h)
  PROVE  IdentityIInv'
<1>1. /\ mcp[h].up
      /\ mcp' = [mcp EXCEPT ![h] = Returned(mcp[h])]
      /\ UNCHANGED <<host, row, bind, hook, left>>
  BY ServerFacts, HostFacts DEF ServerTripFails, Act
<1>2. QED
  BY <1>1, ReturnedFacts, CallMoves
\* Adopt keeps the invariant.
LEMMA AdoptStep ==
  ASSUME IdentityIInv, NEW h \in Host, NEW g \in Host, Adopt(h, g)
  PROVE  IdentityIInv'
<1> DEFINE n == [mcp[h] EXCEPT !.sess = bind[g], !.named = FALSE, !.bound = TRUE]
           m == [n EXCEPT !.pc = AfterMatch(n)]
<1>1. /\ mcp[h].pc = "match" /\ ~mcp[h].bound /\ g \in MatchBind(h)
      /\ mcp' = [mcp EXCEPT ![h] = m] /\ UNCHANGED <<host, bind, hook>>
      /\ \/ row' = SetStatus(mcp[h].sess, "gone") /\ left' = left
         \/ row' = row /\ Leave(mcp[h].sess)
  BY DEF Adopt
<1>2. /\ mcp[h].up /\ mcp[h] \in Server
      /\ HostOK(h, host[h], hook[h], mcp[h]) /\ DueOK(h, host[h], bind[h], mcp[h])
      /\ bind[g] \in Id
  <2>1. bind[g] # None
    BY <1>1 DEF MatchBind
  <2>2. QED
    BY <1>1, <2>1, ServerFacts, HostFacts
<1>3. AfterMatch(n) \in {"act", "register", "check"}
  BY DEF AfterMatch
<1>4. /\ m \in Server /\ m.sess = bind[g] /\ m.bound
      /\ m.fresh = mcp[h].fresh /\ m.due = mcp[h].due /\ m.pc \in {"act", "register", "check"}
  BY <1>2, <1>3 DEF Server
<1> HIDE DEF m
<1>5. mcp[h].sess \in MintId
  BY <1>1, <1>2, MintIds DEF HostOK
<1>6. /\ row' \in [Id -> {"none", "live", "gone"}]
      /\ \A s \in MintId : row'[s] = "live" => row[s] = "live"
      /\ left \subseteq left' /\ left' \subseteq MintId
      /\ row'[mcp[h].sess] # "live" \/ mcp[h].sess \in left'
  <2>1. row \in [Id -> {"none", "live", "gone"}] /\ left \subseteq MintId /\ MintId \subseteq Id
    BY IdKinds DEF IdentityIInv, IdentityTypeOK
  <2>2. QED
    BY <1>1, <1>5, <2>1 DEF SetStatus, Leave
<1>7. DueOK(h, host[h], bind[h], m)
  <2>1. ASSUME mcp[h].fresh, host[h].open, mcp[h].due = HookSess(h, host[h].num)
        PROVE  bind[g] = mcp[h].due
    <3>1. bind[h] = mcp[h].due /\ host[h].alive
      BY <1>1, <1>2, <2>1 DEF DueOK, HostOK
    <3>2. bind[h] # None
      BY <1>2, <2>1, <3>1, HookIds, IdKinds DEF HostOK
    <3>3. QED
      BY <1>1, <3>1, <3>2, OwnBindNearest
  <2>2. QED
    BY <1>2, <1>4, <2>1 DEF DueOK
<1>8. IdentityTypeOK' /\ HostsOK' /\ DuesOK'
  BY <1>1, <1>4, <1>6, <1>7, ServerFrame DEF IdentityIInv, IdentityTypeOK
<1>9. /\ bind' = bind
      /\ \A s \in MintId : mcp'[h].sess = s /\ s.of # h => \E f \in Host : bind[f] = s
      /\ \A f \in Host \ {h} : mcp'[f] = mcp[f]
  BY <1>1, <1>4 DEF IdentityIInv, IdentityTypeOK
<1>10. Traces' /\ NoGhosts'
  BY <1>1, <1>6, <1>9, SwitchFrame
<1>11. QED
  BY <1>8, <1>10 DEF IdentityIInv

\* ServerRegisters keeps the invariant.
LEMMA ServerRegistersStep ==
  ASSUME IdentityIInv, NEW h \in Host, ServerRegisters(h)
  PROVE  IdentityIInv'
<1> DEFINE m == [mcp[h] EXCEPT !.named = TRUE, !.pc = IF mcp[h].explicit THEN "file" ELSE "act"]
<1>1. /\ mcp' = [mcp EXCEPT ![h] = m] /\ UNCHANGED <<host, bind, hook, left>>
      /\ row' = [row EXCEPT ![mcp[h].sess] = "live"]
  BY DEF ServerRegisters, Registered
<1>2. /\ mcp[h].up /\ mcp[h] \in Server /\ mcp[h].pc = "register" /\ mcp[h].sess \in Id
      /\ HostOK(h, host[h], hook[h], mcp[h]) /\ DueOK(h, host[h], bind[h], mcp[h])
  BY ServerFacts, HostFacts DEF ServerRegisters
<1>3. /\ m \in Server /\ m.sess = mcp[h].sess /\ m.bound = mcp[h].bound /\ m.num = mcp[h].num
      /\ m.fresh = mcp[h].fresh /\ m.due = mcp[h].due /\ m.pc \in {"file", "act"}
  BY <1>2 DEF Server
<1> HIDE DEF m
<1>4. DueOK(h, host[h], bind[h], m)
  BY <1>2, <1>3 DEF DueOK
<1>5. m.up /\ ~m.bound => m.sess = Minted(h, m.num) /\ m.num \in 1 .. MaxServers[h]
  BY <1>2, <1>3 DEF HostOK
<1>6. row' \in [Id -> {"none", "live", "gone"}]
  BY <1>1, <1>2 DEF IdentityIInv, IdentityTypeOK
<1>7. IdentityTypeOK' /\ HostsOK' /\ DuesOK'
  BY <1>1, <1>3, <1>4, <1>5, <1>6, ServerFrame DEF IdentityIInv, IdentityTypeOK
<1>8. \A g \in Host : mcp'[g].sess = mcp[g].sess /\ mcp'[g].bound = mcp[g].bound
  BY <1>1, <1>3 DEF IdentityIInv, IdentityTypeOK
<1>9. \A s \in MintId : s.of \in Host /\ s \in Id
  BY MintIds, IdKinds
<1>10. Traces'
  BY <1>1, <1>8, <1>9 DEF IdentityIInv, Traces
<1>11. NoGhosts'
  <2> SUFFICES ASSUME NEW s \in MintId, row'[s] = "live"
               PROVE  mcp[s.of].sess = s \/ s \in left
    BY <1>1, <1>8, <1>9 DEF NoGhosts
  <2>1. CASE s = mcp[h].sess
    BY <2>1 DEF IdentityIInv, Traces
  <2>2. CASE s # mcp[h].sess
    BY <1>1, <1>9, <2>2 DEF IdentityIInv, IdentityTypeOK, NoGhosts
  <2>3. QED
    BY <2>1, <2>2
<1>12. QED
  BY <1>7, <1>10, <1>11 DEF IdentityIInv

\* BindConnection keeps the invariant.
LEMMA BindConnectionStep ==
  ASSUME IdentityIInv, NEW h \in Host, BindConnection(h)
  PROVE  IdentityIInv'
<1> DEFINE m == [mcp[h] EXCEPT !.bound = TRUE, !.pc = "act"]
<1>1. /\ mcp' = [mcp EXCEPT ![h] = m] /\ UNCHANGED <<host, row, hook, left>>
      /\ bind' = [bind EXCEPT ![h] = mcp[h].sess]
  BY DEF BindConnection, WriteBind
<1>2. /\ mcp[h].up /\ mcp[h] \in Server /\ mcp[h].pc = "file" /\ mcp[h].sess \in Id
      /\ DueOK(h, host[h], bind[h], mcp[h])
  BY ServerFacts, HostFacts DEF BindConnection
<1>3. /\ m \in Server /\ m.sess = mcp[h].sess /\ m.bound
      /\ m.fresh = mcp[h].fresh /\ m.due = mcp[h].due /\ m.pc = "act"
  BY <1>2 DEF Server
<1> HIDE DEF m
<1>4. /\ bind' \in [Host -> Id \cup {None}] /\ bind'[h] = mcp[h].sess
      /\ \A g \in Host \ {h} : bind'[g] = bind[g]
  BY <1>1, <1>2 DEF IdentityIInv, IdentityTypeOK
<1>5. DueOK(h, host[h], bind'[h], m)
  BY <1>2, <1>3 DEF DueOK
<1>6. IdentityTypeOK' /\ HostsOK' /\ DuesOK'
  BY <1>1, <1>3, <1>4, <1>5, ServerFrame DEF IdentityIInv, IdentityTypeOK
<1>7. /\ mcp'[h].bound
      /\ \A g \in Host : mcp'[g].sess = mcp[g].sess /\ (mcp[g].bound => mcp'[g].bound)
  BY <1>1, <1>3 DEF IdentityIInv, IdentityTypeOK
<1>8. \A s \in MintId : s.of \in Host
  BY MintIds
<1>9. Traces'
  <2> SUFFICES ASSUME NEW s \in MintId, NEW g \in Host,
                      bind'[g] = s \/ (g # s.of /\ mcp'[g].sess = s)
               PROVE  s \in left \/ (mcp'[s.of].sess = s /\ mcp'[s.of].bound)
    BY <1>1 DEF Traces
  <2>1. CASE bind[g] = s \/ (g # s.of /\ mcp[g].sess = s)
    BY <1>7, <1>8, <2>1 DEF IdentityIInv, Traces
  <2>2. CASE g = h /\ mcp[h].sess = s /\ s.of = h
    BY <1>7, <2>2
  <2>3. QED
    BY <1>4, <1>7, <2>1, <2>2
<1>10. NoGhosts'
  BY <1>1, <1>7, <1>8 DEF IdentityIInv, NoGhosts
<1>11. QED
  BY <1>6, <1>9, <1>10 DEF IdentityIInv

\* Decay keeps the invariant.
LEMMA DecayStep ==
  ASSUME IdentityIInv, NEW s \in Id, Decay(s)
  PROVE  IdentityIInv'
<1>1. UNCHANGED <<host, bind, hook, mcp, left>>
  BY DEF Decay
<1>2. /\ row' \in [Id -> {"none", "live", "gone"}]
      /\ \A t \in MintId : row'[t] = "live" => row[t] = "live"
  BY IdKinds DEF Decay, IdentityIInv, IdentityTypeOK
<1>3. IdentityTypeOK' /\ HostsOK' /\ DuesOK'
  BY <1>1, <1>2 DEF IdentityIInv, IdentityTypeOK, HostsOK, DuesOK
<1>4. Traces' /\ NoGhosts'
  BY <1>1, <1>2, GhostFrame
<1>5. QED
  BY <1>3, <1>4 DEF IdentityIInv
-----------------------------------------------------------------------------
(* The invariant *)

\* Before any hook or server has run the invariant holds.
LEMMA IdentityInit ==
  ASSUME Init PROVE IdentityIInv
<1>1. \A h \in Host : /\ host[h] = [alive |-> TRUE, num |-> 0, open |-> FALSE] /\ bind[h] = None
                      /\ hook[h] = [todo |-> <<>>, sess |-> None] /\ mcp[h] = Down(0)
  BY DEF Init
<1>2. /\ ~Down(0).up /\ ~Down(0).fresh /\ Down(0).due = None /\ Down(0).sess = None
      /\ Down(0) \in DownServer /\ 0 \in Nat
  BY DownIsDown DEF Down
<1>3. <<>> \in Todo /\ <<>> \notin {Work("end"), <<"retire">>}
  BY DEF Todo, Work
<1>4. IdentityTypeOK
  BY <1>2, <1>3 DEF Init, IdentityTypeOK
<1>5. HostsOK
  BY <1>1, <1>2, <1>3 DEF HostsOK, HostOK
<1>6. DuesOK
  BY <1>1, <1>2 DEF DuesOK, DueOK
<1>7. Traces
  BY <1>1, <1>2, IdKinds DEF Traces
<1>8. NoGhosts
  BY IdKinds DEF Init, NoGhosts
<1>9. QED
  BY <1>4, <1>5, <1>6, <1>7, <1>8 DEF IdentityIInv

\* Every step keeps the invariant.
LEMMA IdentityStep ==
  ASSUME IdentityIInv, [Next]_idVars
  PROVE  IdentityIInv'
<1>1. ASSUME NEW h \in Host, NEW ev \in {"start", "end", "event", "tool"}, HookRun(h, ev)
      PROVE  IdentityIInv'
  BY <1>1, HookRunStep
<1>2. ASSUME NEW h \in Host, HookStep(h) PROVE IdentityIInv'
  BY <1>2, HookTripStep, HookTripFailsStep, HookFileStep DEF HookStep
<1>3. ASSUME NEW h \in Host, HostExits(h) PROVE IdentityIInv'
  BY <1>3, HostExitsStep
<1>4. ASSUME NEW h \in Host, ServerStarts(h) PROVE IdentityIInv'
  BY <1>4, ServerStartsStep
<1>5. ASSUME NEW h \in Host, ServerStops(h) \/ ServerKilled(h) PROVE IdentityIInv'
  BY <1>5, ServerDownStep
<1>6. ASSUME NEW h \in Host, NEW explicit \in BOOLEAN, CallTool(h, explicit) PROVE IdentityIInv'
  BY <1>6, CallToolStep
<1>7. ASSUME NEW h \in Host, CallStep(h) PROVE IdentityIInv'
  BY <1>7, AdoptStep, KeepIdentityStep, CheckStep, ServerRegistersStep, CallEndsStep,
     BindConnectionStep DEF CallStep
<1>8. ASSUME NEW s \in Id, Decay(s) PROVE IdentityIInv'
  BY <1>8, DecayStep
<1>9. CASE UNCHANGED idVars
  BY <1>9 DEF idVars, IdentityIInv, IdentityTypeOK, HostsOK, DuesOK, Traces, NoGhosts
<1>10. QED
  BY <1>1, <1>2, <1>3, <1>4, <1>5, <1>6, <1>7, <1>8, <1>9 DEF Next

\* IdentityIInv is an invariant of hooks, bind files and servers.
LEMMA IdentityInvariant == IdentitySpec => []IdentityIInv
<1>1. Init => IdentityIInv
  BY IdentityInit
<1>2. IdentityIInv /\ [Next]_idVars => IdentityIInv'
  BY IdentityStep
<1>3. QED
  BY <1>1, <1>2, PTL DEF IdentitySpec

\* "late adoption then retires the minted row": however hooks, calls, kills
\* and failed requests interleave, a minted row among the live has a server
\* that acts under it or was left on purpose.
THEOREM NoAgentNobodyIs == IdentitySpec => []NoGhosts
<1>1. IdentityIInv => NoGhosts
  BY DEF IdentityIInv
<1>2. QED
  BY <1>1, IdentityInvariant, PTL

\* "one session stays one inbox": a call on a server that is not bound yet,
\* made when its session's bind is in place, acts as that session.
THEOREM FreshAdopts == IdentitySpec => []FreshServerAdopts
<1>1. IdentityIInv => FreshServerAdopts
  BY DEF IdentityIInv, DuesOK, DueOK, FreshServerAdopts, StillDue, Current, HookSess
<1>2. QED
  BY <1>1, IdentityInvariant, PTL
-----------------------------------------------------------------------------
(* A hook's row *)

\* A step that retires a live hook row is its own session's, or finds it unused.
LEMMA HookRowStep ==
  ASSUME IdentityIInv, Next, NEW s \in HookId, row[s] = "live", row'[s] # "live"
  PROVE  Unused(s) \/ (Doing(s.of, "retire") /\ hook[s.of].sess = s)
<1>1. s \in Id /\ s \notin MintId /\ row \in [Id -> {"none", "live", "gone"}]
  BY IdKinds DEF IdentityIInv, IdentityTypeOK
<1>2. \A h \in Host : mcp[h].up /\ ~mcp[h].bound => mcp[h].sess # s
  BY <1>1, HostFacts, MintIds DEF HostOK
<1>3. ASSUME NEW h \in Host, HookTrip(h)
      PROVE  Doing(s.of, "retire") /\ hook[s.of].sess = s
  <2>1. hook[h].todo # <<>> /\ hook[h].sess = HookSess(h, host[h].num) /\ hook[h].sess \in Id
    <3>1. hook[h].todo # <<>>
      BY <1>3 DEF HookTrip, Doing
    <3>2. QED
      BY <3>1, HostFacts, HookIds, IdKinds DEF HostOK
  <2>2. hook[h].sess = s /\ Doing(h, "retire")
    BY <1>1, <1>3, <2>1 DEF HookTrip, Registered, SetStatus
  <2>3. s.of = h
    BY <2>1, <2>2 DEF HookSess
  <2>4. QED
    BY <2>2, <2>3
<1>4. ASSUME NEW h \in Host, ServerStops(h) \/ ServerKilled(h) PROVE FALSE
  BY <1>1, <1>2, <1>4 DEF ServerStops, ServerKilled, SetStatus
<1>5. ASSUME NEW h \in Host, NEW g \in Host, Adopt(h, g) PROVE FALSE
  <2>1. mcp[h].up
    BY <1>5, ServerFacts, HostFacts DEF Adopt
  <2>2. QED
    BY <1>1, <1>2, <1>5, <2>1 DEF Adopt, SetStatus
<1>6. ASSUME NEW h \in Host, ServerRegisters(h) PROVE FALSE
  BY <1>1, <1>6 DEF ServerRegisters, Registered
<1>7. ASSUME NEW t \in Id, Decay(t) PROVE Unused(s)
  BY <1>1, <1>7 DEF Decay
<1>8. QED
  <2>1. ASSUME NEW h \in Host, HookTripFails(h) \/ HookFile(h) \/ HostExits(h) \/ ServerStarts(h)
               \/ (\E explicit \in BOOLEAN : CallTool(h, explicit))
               \/ (\E ev \in {"start", "end", "event", "tool"} : HookRun(h, ev))
        PROVE  row' = row
    BY <2>1 DEF HookTripFails, HookFile, HostExits, ServerStarts, CallTool, HookRun
  <2>2. ASSUME NEW h \in Host, KeepIdentity(h) \/ CheckNoLiveHook(h) \/ ServerTripFails(h)
               \/ BindConnection(h) \/ Act(h)
        PROVE  row' = row
    BY <2>2 DEF KeepIdentity, CheckNoLiveHook, ServerTripFails, BindConnection, Act
  <2>3. QED
    BY <1>3, <1>4, <1>5, <1>6, <1>7, <2>1, <2>2 DEF Next, HookStep, CallStep

\* "never deregister it": servers that stop, are killed or switch identities
\* do not retire the row of a session that goes on.
THEOREM SessionRowKept == IdentitySpec => HookRowKept
<1> DEFINE Kept == \A s \in HookId : row[s] = "live" /\ row'[s] # "live" =>
                     Unused(s) \/ (Doing(s.of, "retire") /\ hook[s.of].sess = s)
<1>1. IdentityIInv /\ [Next]_idVars => [Kept]_idVars
  <2> SUFFICES ASSUME IdentityIInv, Next PROVE Kept
    OBVIOUS
  <2>1. QED
    BY HookRowStep
<1>2. QED
  BY <1>1, IdentityInvariant, PTL DEF IdentitySpec, HookRowKept
-----------------------------------------------------------------------------
(* Servers keep to their host *)

\* No harness is an ancestor of another within matchDepth.
HostsApart == \A g \in Host, h \in Host : g # h => Distance[h][g] >= matchDepth

\* Such a server finds no bind but its host's.
LEMMA MatchesOwn ==
  ASSUME HostsApart, NEW h \in Host, NEW g \in MatchBind(h)
  PROVE  g = h /\ bind[h] # None
<1>1. g \in Host /\ bind[g] # None /\ Distance[h][g] < matchDepth
  BY DEF MatchBind
<1>2. Distance[h][g] \in Nat /\ matchDepth \in Nat
  BY <1>1, IdentityAssumption
<1>3. QED
  BY <1>1, <1>2 DEF HostsApart

\* What one host's step puts into its bind file and its server is its own.
LEMMA OwnFrame ==
  ASSUME OwnBinds, NEW h \in Host,
         \A g \in Host \ {h} : bind'[g] = bind[g] /\ mcp'[g] = mcp[g],
         bind'[h] # None => bind'[h].of = h,
         mcp'[h].up => mcp'[h].sess.of = h
  PROVE  OwnBinds'
  BY DEF OwnBinds

\* Every step keeps OwnBinds.
LEMMA OwnStep ==
  ASSUME HostsApart, IdentityIInv, OwnBinds, [Next]_idVars
  PROVE  OwnBinds'
<1>1. /\ bind \in [Host -> Id \cup {None}] /\ mcp \in [Host -> Server \cup DownServer]
      /\ \A h \in Host : bind[h] # None => bind[h].of = h
      /\ \A h \in Host : mcp[h].up => mcp[h].sess.of = h
      /\ \A h \in Host : mcp[h].pc # "idle" => mcp[h].up
  BY ServerFacts DEF OwnBinds, IdentityIInv, IdentityTypeOK
<1>2. ASSUME NEW h \in Host, HookFile(h) PROVE OwnBinds'
  <2>1. hook[h].todo # <<>>
    BY <1>2 DEF HookFile, Doing
  <2>2. hook[h].sess.of = h
    <3>1. hook[h].sess = HookSess(h, host[h].num)
      BY <2>1, HostFacts DEF HostOK
    <3>2. QED
      BY <3>1 DEF HookSess
  <2>3. /\ \A g \in Host \ {h} : bind'[g] = bind[g]
        /\ bind'[h] # None => bind'[h].of = h
        /\ mcp' = mcp
    BY <1>1, <1>2, <2>2 DEF HookFile, WriteBind
  <2>4. QED
    BY <1>1, <2>3, OwnFrame
<1>3. ASSUME NEW h \in Host, ServerStarts(h) PROVE OwnBinds'
  <2>1. mcp[h].num + 1 \in Nat
    BY ServerFacts, HostFacts
  <2>2. Minted(h, mcp[h].num + 1).of = h
    BY <2>1, MintIds
  <2>3. bind' = bind /\ mcp'[h].sess = Minted(h, mcp[h].num + 1) /\ \A g \in Host \ {h} : mcp'[g] = mcp[g]
    BY <1>1, <1>3 DEF ServerStarts, Down
  <2>4. QED
    BY <1>1, <2>2, <2>3, OwnFrame
<1>4. ASSUME NEW h \in Host, ServerStops(h) \/ ServerKilled(h) PROVE OwnBinds'
  <2>1. bind' = bind /\ ~mcp'[h].up /\ \A g \in Host \ {h} : mcp'[g] = mcp[g]
    BY <1>1, <1>4 DEF ServerStops, ServerKilled, Down
  <2>2. QED
    BY <1>1, <2>1, OwnFrame
<1>5. ASSUME NEW h \in Host, NEW g \in Host, Adopt(h, g) PROVE OwnBinds'
  <2>1. g = h /\ bind[h] # None
    BY <1>5, MatchesOwn DEF Adopt
  <2>2. bind' = bind /\ mcp'[h].sess = bind[g] /\ \A f \in Host \ {h} : mcp'[f] = mcp[f]
    <3>1. mcp[h] \in Server
      BY <1>5, ServerFacts, HostFacts DEF Adopt
    <3>2. QED
      BY <1>1, <1>5, <3>1 DEF Adopt, Server
  <2>3. QED
    BY <1>1, <2>1, <2>2, OwnFrame
<1>6. ASSUME NEW h \in Host, BindConnection(h) PROVE OwnBinds'
  <2>1. mcp[h] \in Server /\ mcp[h].sess.of = h
    BY <1>1, <1>6, ServerFacts, HostFacts DEF BindConnection
  <2>2. /\ bind'[h] = mcp[h].sess /\ mcp'[h].sess = mcp[h].sess
        /\ \A g \in Host \ {h} : bind'[g] = bind[g] /\ mcp'[g] = mcp[g]
    BY <1>1, <1>6, <2>1 DEF BindConnection, WriteBind, Server
  <2>3. QED
    BY <2>1, <2>2, OwnFrame
<1>7. ASSUME NEW h \in Host,
             \/ \E explicit \in BOOLEAN : CallTool(h, explicit)
             \/ KeepIdentity(h) \/ CheckNoLiveHook(h) \/ ServerRegisters(h)
             \/ ServerTripFails(h) \/ Act(h)
      PROVE  OwnBinds'
  <2>1. mcp[h] \in Server /\ bind' = bind
    BY <1>7, ServerFacts, HostFacts
    DEF CallTool, KeepIdentity, CheckNoLiveHook, ServerRegisters, ServerTripFails, Act
  <2>2. mcp'[h].sess = mcp[h].sess /\ mcp[h].up /\ \A g \in Host \ {h} : mcp'[g] = mcp[g]
    <3>1. mcp[h].up
      BY <2>1 DEF Server
    <3>2. CASE \E explicit \in BOOLEAN : CallTool(h, explicit)
      BY <1>1, <2>1, <3>1, <3>2 DEF CallTool, Server
    <3>3. CASE KeepIdentity(h)
      BY <1>1, <2>1, <3>1, <3>3 DEF KeepIdentity, Server
    <3>4. Returned(mcp[h]).sess = mcp[h].sess
      BY <2>1 DEF Returned, Server
    <3>5. CASE CheckNoLiveHook(h)
      <4>1. \/ mcp' = [mcp EXCEPT ![h] = Returned(mcp[h])]
            \/ mcp' = [mcp EXCEPT ![h] = [mcp[h] EXCEPT !.pc = "register"]]
        BY <3>5 DEF CheckNoLiveHook
      <4>2. QED
        BY <1>1, <2>1, <3>1, <3>4, <4>1 DEF Server
    <3>6. CASE ServerRegisters(h)
      BY <1>1, <2>1, <3>1, <3>6 DEF ServerRegisters, Server
    <3>7. CASE ServerTripFails(h) \/ Act(h)
      <4>1. mcp' = [mcp EXCEPT ![h] = Returned(mcp[h])]
        BY <3>7 DEF ServerTripFails, Act
      <4>2. QED
        BY <1>1, <3>1, <3>4, <4>1
    <3>8. QED
      BY <1>7, <3>2, <3>3, <3>5, <3>6, <3>7
  <2>3. QED
    BY <1>1, <2>1, <2>2, OwnFrame
<1>8. ASSUME UNCHANGED <<bind, mcp>> PROVE OwnBinds'
  BY <1>1, <1>8 DEF OwnBinds
<1>9. ASSUME NEW h \in Host, HookTrip(h) \/ HookTripFails(h) \/ HostExits(h)
             \/ (\E ev \in {"start", "end", "event", "tool"} : HookRun(h, ev))
      PROVE  UNCHANGED <<bind, mcp>>
  BY <1>9 DEF HookTrip, HookTripFails, HostExits, HookRun
<1>10. ASSUME NEW s \in Id, Decay(s) PROVE UNCHANGED <<bind, mcp>>
  BY <1>10 DEF Decay
<1>11. CASE UNCHANGED idVars
  BY <1>8, <1>11 DEF idVars
<1>12. QED
  BY <1>2, <1>3, <1>4, <1>5, <1>6, <1>7, <1>8, <1>9, <1>10, <1>11 DEF Next, HookStep, CallStep

\* "a sibling ... session must not be adopted": where no harness runs within
\* matchDepth of another, the state stays well typed and every server acts
\* under an identity of its own host, whatever bind files the others leave.
THEOREM ActsForOwnHost == ASSUME HostsApart PROVE IdentitySpec => []IdentityInv
<1>1. Init => OwnBinds
  BY DEF Init, OwnBinds, Down
<1>2. IdentityIInv /\ OwnBinds /\ [Next]_idVars => OwnBinds'
  BY OwnStep
<1>3. IdentityIInv /\ OwnBinds => IdentityInv
  BY DEF IdentityIInv, OwnBinds, IdentityInv, OwnIdentity
<1>4. QED
  BY <1>1, <1>2, <1>3, IdentityInvariant, PTL DEF IdentitySpec
=============================================================================
