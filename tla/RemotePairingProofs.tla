------------------------ MODULE RemotePairingProofs ------------------------
(***************************************************************************)
(* Proofs about RemotePairing, for every set of pairings, handlers and     *)
(* ports: the type invariant, however operations overlap; and as long as   *)
(* they do not, that visitors keep apart, that what was taken back buys no *)
(* session, and that what an operation answered holds.                     *)
(*                                                                         *)
(*   ShapeInv   what a handler writes has an id, and ids never run out     *)
(*   AloneInv   one operation at a time; a pass has read the rows as they  *)
(*              are                                                        *)
(*   ApartInv   the port of an acceptance is free until its row is written *)
(*   VoidInv    no row, stored or in hand, is opened by a voided key       *)
(*   ShutInv    the row is revoked last, when tunnel and proxy are gone    *)
(*   OpenInv    a key that was handed out opens its pairing, or an         *)
(*              operation is at work that takes it back                    *)
(***************************************************************************)
EXTENDS RemotePairing, FiniteSetTheorems, WellFoundedInduction, TLAPS

\* The calls that an operation goes through.
Places(op) ==
  CASE op = "create" -> {"idle", "add node", "sign", "add tunnel", "link", "push", "mark",
                         "answer", "drop tunnel", "drop node"}
    [] op = "accept" -> {"find endpoint", "add endpoint", "port", "add tunnel", "add node",
                         "push", "mark", "answer", "drop tunnel"}
    [] op = "refresh" -> {"retune", "unserve", "push", "mark", "save", "answer"}
    [] op = "revoke" -> {"unserve", "drop tunnel", "save"}
    [] OTHER -> {"save"}

Issues(t) == t.pc # "idle" /\ t.op \in {"create", "refresh", "accept"}

\* A thread that is to make a row of a pairing, and has no id yet.
Unplaced(t) ==
  \/ t.op = "create" /\ t.pc = "add node"
  \/ t.op = "accept" /\ t.pc \in {"find endpoint", "add endpoint", "port", "add tunnel"}

Shape(t) ==
  /\ t.pc = "idle" => t = Idle
  /\ t.pc \in Places(t.op)
  /\ t.id = NoKey <=> t.pc = "idle" \/ Unplaced(t)
  /\ Issues(t) => t.key \in 1 .. issued

\* f tells which issuance used up an id.
Room(f) ==
  /\ \A m, n \in Pairings : f[m] = f[n] /\ f[m] # NoKey => m = n
  /\ \A n \in Pairings : f[n] <= issued
  /\ \A n \in Pairings : nodes[n].status # "unborn" \/ tunnels[n].status # "absent" =>
       f[n] # NoKey
  /\ \A h \in Handlers : threads[h].id # NoKey => f[threads[h].id] # NoKey
  /\ \A v \in pass : f[v.id] # NoKey
  /\ \A h \in Handlers : Unplaced(threads[h]) =>
       /\ \A n \in Pairings : f[n] # threads[h].key
       /\ \A g \in Handlers \ {h} :
            Unplaced(threads[g]) => threads[g].key # threads[h].key

ShapeInv ==
  /\ TypeOK
  /\ \A h \in Handlers : Shape(threads[h])
  /\ \A v \in pass : v.node.status \in {"pending", "active"}
  /\ \E f \in [Pairings -> Keys \cup {NoKey}] : Room(f)

\* A set of numbers has a least element.
LEMMA LeastExists ==
  ASSUME NEW S \in SUBSET Nat, S # {}
  PROVE  \E m \in S : \A k \in S : m <= k
<1> DEFINE R == OpToRel(<, Nat)
<1>1. IsWellFoundedOn(R, Nat)
  BY NatLessThanWellFounded
<1>2. \A k, m \in Nat : k < m => <<k, m>> \in R
  BY DEF OpToRel
<1> HIDE DEF R
<1>3. PICK m \in S : \A k \in S : <<k, m>> \notin R
  BY <1>1, WFMin
<1>4. \A k \in S : ~(k < m) /\ k \in Nat /\ m \in Nat
  BY <1>2, <1>3
<1> QED
  BY <1>4

\* There is an id left for each issuance that has none yet.
LEMMA NextIdIs ==
  ASSUME ShapeInv, NEW h \in Handlers, Unplaced(threads[h])
  PROVE  /\ NextId \in Pairings
         /\ nodes[NextId].status = "unborn" /\ tunnels[NextId].status = "absent"
<1>1. PICK f \in [Pairings -> Keys \cup {NoKey}] : Room(f)
  BY DEF ShapeInv
<1> DEFINE Fresh(n) == nodes[n].status = "unborn" /\ tunnels[n].status = "absent"
           k == threads[h].key
<1>2. k \in Keys /\ MaxKey \in Nat
  <2>1. k \in 1 .. issued /\ issued \in 0 .. MaxKey
    BY DEF ShapeInv, Shape, Unplaced, Issues, TypeOK
  <2> QED
    BY <2>1, RoomAssumption DEF Keys
<1>3. \E n \in Pairings : Fresh(n)
  <2> SUFFICES ASSUME \A n \in Pairings : ~Fresh(n) PROVE FALSE
    OBVIOUS
  <2>1. \A n \in Pairings : f[n] \in Keys \ {k}
    BY <1>1, <1>2 DEF Room
  <2>2. f \in [Pairings -> Keys \ {k}]
    BY <2>1
  <2>3. \A m, n \in Pairings : f[m] = f[n] => m = n
    BY <1>1, <2>1 DEF Room, Keys, NoKey
  <2>4. f \in Injection(Pairings, Keys \ {k})
    BY <2>2, <2>3 DEF Injection, IsInjective
  <2>5. /\ IsFiniteSet(Keys) /\ Cardinality(Keys) = MaxKey
    BY <1>2, FS_Interval DEF Keys
  <2>6. /\ IsFiniteSet(Keys \ {k}) /\ Cardinality(Keys \ {k}) = MaxKey - 1
    BY <1>2, <2>5, FS_RemoveElement
  <2>7. IsFiniteSet(Pairings) /\ Cardinality(Pairings) <= MaxKey - 1
    BY <2>4, <2>6, FS_Injection
  <2>8. Cardinality(Pairings) \in Nat
    BY <2>7, FS_CardinalityType
  <2> QED
    BY <1>2, <2>7, <2>8, RoomAssumption
<1>4. \E n \in Pairings : Fresh(n) /\ \A m \in Pairings : m < n => ~Fresh(m)
  <2> DEFINE S == {n \in Pairings : Fresh(n)}
  <2>1. S \in SUBSET Nat /\ S # {}
    BY <1>3, IdsAssumption
  <2>2. \A n \in S : Fresh(n) /\ n \in Pairings
    OBVIOUS
  <2>3. \A n \in Pairings : Fresh(n) => n \in S
    OBVIOUS
  <2> HIDE DEF S
  <2>4. PICK n \in S : \A m \in S : n <= m
    BY <2>1, LeastExists
  <2> QED
    BY <2>1, <2>2, <2>3, <2>4, IdsAssumption
<1> QED
  BY <1>4 DEF NextId

\* A thread that moves on keeps its shape, and the others theirs.
LEMMA GoesOn ==
  ASSUME ShapeInv, issued' = issued, NEW h \in Handlers, NEW u \in Thread,
         threads' = [threads EXCEPT ![h] = u], Shape(u)
  PROVE  threads' \in [Handlers -> Thread] /\ \A g \in Handlers : Shape(threads[g])'
BY DEF ShapeInv, TypeOK, Shape, Issues, Unplaced

\* It does when it goes to another call of its operation,
LEMMA StepsOn ==
  ASSUME ShapeInv, issued' = issued, NEW h \in Handlers, threads[h].pc # "idle",
         NEW pc \in Places(threads[h].op), pc \in PC \ {"idle"}, Goto(h, pc),
         Unplaced(threads[h]) <=> Unplaced([threads[h] EXCEPT !.pc = pc])
  PROVE  threads' \in [Handlers -> Thread] /\ \A g \in Handlers : Shape(threads[g])'
<1> DEFINE t == threads[h]
           u == [t EXCEPT !.pc = pc]
<1>1. t \in Thread /\ Shape(t)
  BY DEF ShapeInv, TypeOK
<1>2. u \in Thread /\ u.pc = pc /\ u.op = t.op /\ u.id = t.id /\ u.key = t.key
  BY <1>1 DEF Thread
<1>3. Shape(u)
  BY <1>1, <1>2 DEF Shape, Issues
<1>4. threads' = [threads EXCEPT ![h] = u]
  BY DEF Goto
<1> QED
  BY <1>2, <1>3, <1>4, GoesOn

\* and when it is done.
LEMMA Returns ==
  ASSUME ShapeInv, issued' = issued, NEW h \in Handlers, Return(h)
  PROVE  threads' \in [Handlers -> Thread] /\ \A g \in Handlers : Shape(threads[g])'
<1>1. Idle \in Thread
  BY DEF Idle, Thread, PC, Ops, NoNode, NoTunnel, Node, Tunnel, NoKey
<1>2. Shape(Idle)
  BY DEF Shape, Idle, Places, Unplaced, Issues
<1> QED
  BY <1>1, <1>2, GoesOn DEF Return

\* A row that is written is a row, and at an id.
LEMMA PutType ==
  ASSUME ShapeInv, NEW n \in Pairings, NEW node \in Node, Put(n, node)
  PROVE  nodes' \in [Pairings -> Node]
BY DEF Put, ShapeInv, TypeOK

LEMMA TroubleType ==
  ASSUME TypeOK
  PROVE  /\ Fails => /\ faults' \in 0 .. MaxTrouble /\ mishaps' \in 0 .. MaxTrouble
         /\ Mishap => /\ faults' \in 0 .. MaxTrouble /\ mishaps' \in 0 .. MaxTrouble
BY BoundAssumption DEF TypeOK, Fails, Mishap, Trouble

\* The threads, when one goes on with its operation.
LEMMA ProceedShape ==
  ASSUME ShapeInv, NEW h \in Handlers, Proceed(h)
  PROVE  threads' \in [Handlers -> Thread] /\ \A g \in Handlers : Shape(threads[g])'
<1> DEFINE t == threads[h]
<1>1. t \in Thread /\ Shape(t) /\ issued' = issued
  BY DEF ShapeInv, TypeOK, Proceed
<1> USE DEF At, Places, Unplaced, PC
<1>2. CASE FindEndpoint(h)
  BY <1>1, <1>2, StepsOn DEF FindEndpoint, Shape, Thread, Ops
<1>3. CASE AddEndpoint(h)
  BY <1>1, <1>3, StepsOn, Returns DEF AddEndpoint, Shape, Thread, Ops
<1>4. CASE AllocatePort(h)
  <2>1. t.op = "accept" /\ t.pc = "port"
    BY <1>1, <1>4 DEF AllocatePort, Shape, Thread, Ops
  <2>2. ASSUME NEW p \in Ports,
               threads' = [threads EXCEPT ![h].pc = "add tunnel", ![h].node.port = p]
        PROVE  threads' \in [Handlers -> Thread] /\ \A g \in Handlers : Shape(threads[g])'
    <3> DEFINE u == [t EXCEPT !.pc = "add tunnel", !.node.port = p]
    <3>1. /\ u \in Thread /\ u.pc = "add tunnel" /\ u.op = t.op /\ u.id = t.id
          /\ u.key = t.key
      BY <1>1 DEF Thread, Node
    <3>2. Shape(u)
      BY <1>1, <2>1, <3>1 DEF Shape, Issues
    <3>3. threads' = [threads EXCEPT ![h] = u]
      BY <2>2
    <3> QED
      BY <1>1, <3>1, <3>2, <3>3, GoesOn
  <2> QED
    BY <1>1, <1>4, <2>2, Returns DEF AllocatePort
<1>5. CASE AddNode(h)
  <2> DEFINE n == IF t.op = "accept" THEN t.id ELSE NextId
             u == [t EXCEPT !.id = n,
                            !.pc = IF t.op = "accept" THEN "push" ELSE "sign"]
  <2>1. t.pc = "add node" /\ t.op \in {"create", "accept"}
    BY <1>1, <1>5 DEF AddNode, Shape, Thread, Ops
  <2>2. n \in Pairings /\ n # NoKey
    BY <1>1, <2>1, NextIdIs, IdsAssumption DEF Shape, Thread, NoKey
  <2>3. CASE threads' = [threads EXCEPT ![h] = u]
    <3>1. u \in Thread /\ Shape(u)
      BY <1>1, <2>1, <2>2 DEF Thread, Shape, Issues
    <3> QED
      BY <1>1, <2>3, <3>1, GoesOn
  <2>4. CASE IF t.op = "accept" THEN Goto(h, "drop tunnel") ELSE Return(h)
    BY <1>1, <2>1, <2>4, StepsOn, Returns DEF Thread, Ops
  <2> QED
    BY <1>5, <2>3, <2>4 DEF AddNode
<1>6. CASE AddTunnel(h)
  <2> DEFINE n == IF t.op = "accept" THEN NextId ELSE t.id
             u == [t EXCEPT !.id = n,
                            !.pc = IF t.op = "accept" THEN "add node" ELSE "link"]
  <2>1. t.pc = "add tunnel" /\ t.op \in {"create", "accept"}
    BY <1>1, <1>6 DEF AddTunnel, Shape, Thread, Ops
  <2>2. n \in Pairings /\ n # NoKey
    BY <1>1, <2>1, NextIdIs, IdsAssumption DEF Shape, Thread, NoKey
  <2>3. CASE threads' = [threads EXCEPT ![h] = u]
    <3>1. u \in Thread /\ Shape(u)
      BY <1>1, <2>1, <2>2 DEF Thread, Shape, Issues
    <3> QED
      BY <1>1, <2>3, <3>1, GoesOn
  <2>4. CASE IF t.op = "accept" THEN Return(h) ELSE Goto(h, "drop node")
    BY <1>1, <2>1, <2>4, StepsOn, Returns DEF Thread, Ops
  <2> QED
    BY <1>6, <2>3, <2>4 DEF AddTunnel
<1>7. CASE Sign(h)
  BY <1>1, <1>7, StepsOn DEF Sign, Shape, Thread, Ops
<1>8. CASE Link(h)
  <2> DEFINE linked == [t.node EXCEPT !.linked = TRUE]
             u == [t EXCEPT !.pc = "push", !.node = linked]
  <2>1. t.op = "create" /\ t.pc = "link"
    BY <1>1, <1>8 DEF Link, Shape, Thread, Ops
  <2>2. u \in Thread /\ Shape(u)
    <3>1. linked \in Node
      BY <1>1 DEF Thread, Node
    <3> QED
      BY <1>1, <2>1, <3>1 DEF Thread, Shape, Issues
  <2>3. CASE threads' = [threads EXCEPT ![h].pc = "push", ![h].node = linked]
    <3>1. threads' = [threads EXCEPT ![h] = u]
      BY <2>3
    <3> QED
      BY <1>1, <2>2, <3>1, GoesOn
  <2>4. CASE Goto(h, "drop tunnel")
    BY <1>1, <2>1, <2>4, StepsOn DEF Thread, Ops
  <2> QED
    BY <1>8, <2>3, <2>4 DEF Link
<1>9. CASE Retune(h)
  BY <1>1, <1>9, StepsOn, Returns DEF Retune, Shape, Thread, Ops
<1>10. CASE Unserve(h)
  BY <1>1, <1>10, StepsOn DEF Unserve, Shape, Thread, Ops, AfterUnserve
<1>11. CASE Push(h)
  <2>1. t.pc = "push" /\ t.op \in {"create", "accept", "refresh"}
    BY <1>1, <1>11 DEF Push, Shape, Thread, Ops
  <2>2. ASSUME NEW pc \in {"mark", "answer"}, pc = "answer" => t.op # "refresh",
               NEW status \in {"active", "failed"},
               threads' = [threads EXCEPT ![h].pc = pc, ![h].tunnel.status = status]
        PROVE  threads' \in [Handlers -> Thread] /\ \A g \in Handlers : Shape(threads[g])'
    <3> DEFINE u == [t EXCEPT !.pc = pc, !.tunnel.status = status]
    <3>1. /\ u \in Thread /\ u.pc = pc /\ u.op = t.op /\ u.id = t.id
          /\ u.key = t.key
      BY <1>1 DEF Thread, Tunnel
    <3> HIDE DEF u
    <3>2. Shape(u)
      BY <1>1, <2>1, <2>2, <3>1 DEF Shape, Issues
    <3>3. threads' = [threads EXCEPT ![h] = u]
      BY <2>2 DEF u
    <3> QED
      BY <1>1, <3>1, <3>2, <3>3, GoesOn
  <2>3. CASE Goto(h, AfterPush(h))
    BY <1>1, <2>1, <2>3, StepsOn DEF AfterPush, Thread, Ops
  <2>4. CASE threads' = [threads EXCEPT ![h].tunnel.status = "failed",
                           ![h].pc = IF t.op = "refresh" THEN "mark" ELSE "answer"]
    <3>1. threads' = [threads EXCEPT ![h].pc = IF t.op = "refresh" THEN "mark" ELSE "answer",
                                     ![h].tunnel.status = "failed"]
      BY <2>4
    <3> QED
      BY <2>2, <3>1
  <2> QED
    BY <1>11, <2>2, <2>3, <2>4 DEF Push
<1>12. CASE Mark(h)
  BY <1>1, <1>12, StepsOn DEF Mark, Shape, Thread, Ops, AfterPush
<1>13. CASE Save(h)
  BY <1>1, <1>13, StepsOn, Returns DEF Save, Shape, Thread, Ops
<1>14. CASE DropTunnel(h)
  BY <1>1, <1>14, StepsOn, Returns DEF DropTunnel, Shape, Thread, Ops
<1>15. CASE DropNode(h) \/ Answer(h)
  BY <1>15, <1>1, Returns DEF DropNode, Answer
<1> QED
  BY <1>2, <1>3, <1>4, <1>5, <1>6, <1>7, <1>8, <1>9, <1>10, <1>11, <1>12, <1>13, <1>14,
     <1>15 DEF Proceed

\* The operations that begin.
Begin(h) ==
  \/ BeginCreate(h) \/ BeginAccept(h)
  \/ \E n \in Pairings :
       \/ BeginRefresh(h, n) \/ BeginRevokeToken(h, n) \/ BeginRevoke(h, n)
       \/ \E k \in Keys : BeginExchange(h, n, k)

\* What an operation has read and will write.
Reads(u) ==
  /\ u.op = "create" => /\ u.pc = "add node"
                        /\ u.node = NewInvitation(u.key).node
                        /\ u.tunnel = NewInvitation(u.key).tunnel
  /\ u.op = "accept" => /\ u.pc = "find endpoint"
                        /\ u.node = NewVisitor(u.key).node
                        /\ u.tunnel = NewVisitor(u.key).tunnel
  /\ u.op = "refresh" =>
       /\ Refreshable(u.id) /\ u.pc = "retune"
       /\ u.node = [nodes[u.id] EXCEPT !.jti = u.key, !.expiry = u.key, !.status = "pending"]
       /\ u.tunnel = [tunnels[u.id] EXCEPT !.sk = u.key]
  /\ u.op = "revoke token" =>
       HasToken(u.id) /\ u.node = [nodes[u.id] EXCEPT !.jti = NoKey, !.expiry = NoKey]
  /\ u.op = "revoke" => /\ IsRow(nodes[u.id])
                        /\ u.pc = (IF Served(u.id) THEN "unserve" ELSE "save")
                        /\ u.node = [nodes[u.id] EXCEPT !.status = "revoked"]
  /\ u.op = "exchange" => /\ Bears(u.id, u.key) /\ Accepted(u.id, u.key)
                          /\ u.node = [nodes[u.id] EXCEPT !.status = "active"]

\* What it will write, when it makes a new pairing.
LEMMA NewNode ==
  ASSUME NEW u, Reads(u)
  PROVE  /\ u.op = "create" => /\ u.node.status = "pending"
                              /\ u.node.jti = u.key /\ u.node.expiry = u.key
         /\ u.op = "accept" => u.node.status = "active"
<1>1. u.op = "create" => u.node = NewInvitation(u.key).node
  BY DEF Reads
<1>2. u.op = "accept" => u.node = NewVisitor(u.key).node
  BY DEF Reads
<1>3. u.op = "create" => /\ u.node.status = "pending"
                         /\ u.node.jti = u.key /\ u.node.expiry = u.key
  BY <1>1 DEF NewInvitation, NoNode
<1>4. u.op = "accept" => u.node.status = "active"
  BY <1>2 DEF NewVisitor, NoNode
<1> QED
  BY <1>3, <1>4

LEMMA NewTunnel ==
  ASSUME NEW u, Reads(u), u.op \in {"create", "accept"}
  PROVE  u.tunnel.status = "pending" /\ u.tunnel.sk = u.key
<1>1. u.op = "create" => u.tunnel = NewInvitation(u.key).tunnel
  BY DEF Reads
<1>2. u.op = "accept" => u.tunnel = NewVisitor(u.key).tunnel
  BY DEF Reads
<1>3. u.op = "create" => u.tunnel.status = "pending" /\ u.tunnel.sk = u.key
  BY <1>1 DEF NewInvitation
<1>4. u.op = "accept" => u.tunnel.status = "pending" /\ u.tunnel.sk = u.key
  BY <1>2 DEF NewVisitor
<1> QED
  BY <1>3, <1>4

\* A thread as an operation begins it.
Started(u) ==
  /\ Reads(u)
  /\ u \in Thread /\ u.pc # "idle"
  /\ u.pc \in Places(u.op)
  /\ u.id = NoKey <=> Unplaced(u)
  /\ u.id # NoKey => nodes[u.id].status # "unborn"
  /\ IF Issues(u) THEN u.key = issued' /\ Issue ELSE UNCHANGED issued

\* What enters is such a thread.
LEMMA Begins ==
  ASSUME ShapeInv, NEW h \in Handlers, Begin(h)
  PROVE  \E u \in Thread : Enter(h, u) /\ Started(u)
<1>1. /\ NoKey \notin Pairings /\ NoKey \notin Keys
      /\ nodes \in [Pairings -> Node] /\ tunnels \in [Pairings -> Tunnel]
  BY IdsAssumption DEF NoKey, Keys, ShapeInv, TypeOK
<1>2. Issue => issued' \in Keys
  BY RoomAssumption DEF Issue, Keys, ShapeInv, TypeOK
<1>3. NoNode \in Node /\ NoTunnel \in Tunnel
  BY DEF NoNode, NoTunnel, Node, Tunnel
<1>4. CASE BeginCreate(h)
  <2> DEFINE u == [Idle EXCEPT !.op = "create", !.pc = "add node", !.key = issued',
                           !.node = NewInvitation(issued').node,
                           !.tunnel = NewInvitation(issued').tunnel]
  <2>1. Enter(h, u) /\ Issue
    BY <1>4 DEF BeginCreate
  <2>2. /\ u \in Thread /\ u.pc = "add node" /\ u.op = "create" /\ u.id = NoKey
        /\ u.key = issued' /\ u.node = NewInvitation(issued').node
        /\ u.tunnel = NewInvitation(issued').tunnel
    BY <1>1, <1>2, <1>3, <2>1
       DEF Thread, Idle, NoNode, NoTunnel, PC, Ops, NewInvitation, Node, Tunnel
  <2> HIDE DEF u
  <2>3. Reads(u)
    BY <1>1, <2>1, <2>2 DEF Reads
  <2>4. Started(u)
    BY <1>1, <2>1, <2>2, <2>3, IdsAssumption DEF Started, Places, Unplaced, Issues, NoKey
  <2> QED
    BY <2>1, <2>2, <2>4
<1>5. CASE BeginAccept(h)
  <2> DEFINE u == [Idle EXCEPT !.op = "accept", !.pc = "find endpoint", !.key = issued',
                           !.node = NewVisitor(issued').node,
                           !.tunnel = NewVisitor(issued').tunnel]
  <2>1. Enter(h, u) /\ Issue
    BY <1>5 DEF BeginAccept
  <2>2. /\ u \in Thread /\ u.pc = "find endpoint" /\ u.op = "accept" /\ u.id = NoKey
        /\ u.key = issued' /\ u.node = NewVisitor(issued').node
        /\ u.tunnel = NewVisitor(issued').tunnel
    BY <1>1, <1>2, <1>3, <2>1
       DEF Thread, Idle, NoNode, NoTunnel, PC, Ops, NewVisitor, Node, Tunnel
  <2> HIDE DEF u
  <2>3. Reads(u)
    BY <1>1, <2>1, <2>2 DEF Reads
  <2>4. Started(u)
    BY <1>1, <2>1, <2>2, <2>3, IdsAssumption DEF Started, Places, Unplaced, Issues, NoKey
  <2> QED
    BY <2>1, <2>2, <2>4
<1>6. ASSUME NEW n \in Pairings, BeginRefresh(h, n)
      PROVE  \E v \in Thread : Enter(h, v) /\ Started(v)
  <2> DEFINE u == [pc |-> "retune", op |-> "refresh", id |-> n, key |-> issued',
                   node |-> [nodes[n] EXCEPT !.jti = issued', !.expiry = issued',
                                             !.status = "pending"],
                   tunnel |-> [tunnels[n] EXCEPT !.sk = issued']]
  <2>1. Enter(h, u) /\ Issue /\ nodes[n].status # "unborn" /\ Refreshable(n)
    BY <1>6 DEF BeginRefresh, Refreshable, IsRow
  <2>2. /\ [nodes[n] EXCEPT !.jti = issued', !.expiry = issued', !.status = "pending"] \in Node
        /\ [tunnels[n] EXCEPT !.sk = issued'] \in Tunnel
    <3>1. nodes[n] \in Node /\ tunnels[n] \in Tunnel /\ issued' \in Keys
      BY <1>1, <1>2, <2>1
    <3>2. [nodes[n] EXCEPT !.jti = issued', !.expiry = issued', !.status = "pending"] \in Node
      BY <3>1 DEF Node
    <3>3. [tunnels[n] EXCEPT !.sk = issued'] \in Tunnel
      BY <3>1 DEF Tunnel
    <3> QED
      BY <3>2, <3>3
  <2>5. u \in Thread /\ u.pc = "retune" /\ u.op = "refresh" /\ u.id = n /\ u.key = issued'
        /\ u.node = [nodes[n] EXCEPT !.jti = issued', !.expiry = issued', !.status = "pending"]
        /\ u.tunnel = [tunnels[n] EXCEPT !.sk = issued']
    BY <1>2, <2>1, <2>2 DEF Thread, PC, Ops
  <2> HIDE DEF u
  <2>3. Reads(u)
    BY <2>1, <2>5 DEF Reads
  <2>4. Started(u)
    BY <1>1, <2>1, <2>3, <2>5, IdsAssumption DEF Started, Places, Unplaced, Issues, NoKey
  <2> QED
    BY <2>1, <2>4, <2>5
<1>7. ASSUME NEW n \in Pairings, BeginRevokeToken(h, n)
      PROVE  \E v \in Thread : Enter(h, v) /\ Started(v)
  <2> DEFINE u == [Idle EXCEPT !.op = "revoke token", !.pc = "save", !.id = n,
                           !.node = [nodes[n] EXCEPT !.jti = NoKey, !.expiry = NoKey]]
  <2>1. Enter(h, u) /\ UNCHANGED issued /\ nodes[n].status # "unborn" /\ HasToken(n)
    BY <1>7 DEF BeginRevokeToken, HasToken, IsRow
  <2>2. u \in Thread /\ u.pc = "save" /\ u.op = "revoke token" /\ u.id = n
        /\ u.node = [nodes[n] EXCEPT !.jti = NoKey, !.expiry = NoKey]
    BY ZenonT(40), <1>1, <1>2, <1>3, <2>1 DEF Thread, Idle, NoNode, NoTunnel, PC, Ops, Node, Tunnel
  <2> HIDE DEF u
  <2>3. Reads(u)
    BY <1>1, <2>1, <2>2 DEF Reads
  <2>4. Started(u)
    BY <1>1, <2>1, <2>2, <2>3, IdsAssumption DEF Started, Places, Unplaced, Issues, NoKey
  <2> QED
    BY <2>1, <2>2, <2>4
<1>8. ASSUME NEW n \in Pairings, BeginRevoke(h, n)
      PROVE  \E v \in Thread : Enter(h, v) /\ Started(v)
  <2> DEFINE u == [Idle EXCEPT !.op = "revoke", !.id = n,
                           !.pc = IF Served(n) THEN "unserve" ELSE "save",
                           !.node = [nodes[n] EXCEPT !.status = "revoked"]]
  <2>1. Enter(h, u) /\ UNCHANGED issued /\ nodes[n].status # "unborn" /\ IsRow(nodes[n])
    BY <1>8 DEF BeginRevoke, IsRow
  <2>2. u \in Thread /\ u.pc \in {"unserve", "save"} /\ u.op = "revoke" /\ u.id = n
        /\ u.pc = (IF Served(n) THEN "unserve" ELSE "save")
        /\ u.node = [nodes[n] EXCEPT !.status = "revoked"]
    BY ZenonT(40), <1>1, <1>2, <1>3, <2>1 DEF Thread, Idle, NoNode, NoTunnel, PC, Ops, Node, Tunnel
  <2> HIDE DEF u
  <2>3. Reads(u)
    BY <1>1, <2>1, <2>2 DEF Reads
  <2>4. Started(u)
    BY <1>1, <2>1, <2>2, <2>3, IdsAssumption DEF Started, Places, Unplaced, Issues, NoKey
  <2> QED
    BY <2>1, <2>2, <2>4
<1>9. ASSUME NEW n \in Pairings, NEW k \in Keys, BeginExchange(h, n, k)
      PROVE  \E v \in Thread : Enter(h, v) /\ Started(v)
  <2> DEFINE u == [Idle EXCEPT !.op = "exchange", !.pc = "save", !.id = n, !.key = k,
                           !.node = [nodes[n] EXCEPT !.status = "active"]]
  <2>1. /\ Enter(h, u) /\ UNCHANGED issued /\ nodes[n].status # "unborn"
        /\ Bears(n, k) /\ Accepted(n, k)
    BY <1>9 DEF BeginExchange, Accepted
  <2>2. u \in Thread /\ u.pc = "save" /\ u.op = "exchange" /\ u.id = n /\ u.key = k
        /\ u.node = [nodes[n] EXCEPT !.status = "active"]
    BY ZenonT(40), <1>1, <1>2, <1>3, <2>1 DEF Thread, Idle, NoNode, NoTunnel, PC, Ops, Node, Tunnel
  <2> HIDE DEF u
  <2>3. Reads(u)
    BY <1>1, <2>1, <2>2 DEF Reads
  <2>4. Started(u)
    BY <1>1, <2>1, <2>2, <2>3, IdsAssumption DEF Started, Places, Unplaced, Issues, NoKey
  <2> QED
    BY <2>1, <2>2, <2>4
<1> QED
  BY <1>4, <1>5, <1>6, <1>7, <1>8, <1>9 DEF Begin

LEMMA BeginShape ==
  ASSUME ShapeInv, NEW h \in Handlers, NEW u \in Thread, Enter(h, u), Started(u)
  PROVE  /\ threads' \in [Handlers -> Thread] /\ \A g \in Handlers : Shape(threads[g])'
         /\ issued' \in 0 .. MaxKey /\ issued <= issued'
<1>1. issued' \in 0 .. MaxKey /\ issued <= issued'
  BY RoomAssumption DEF Started, Issue, ShapeInv, TypeOK
<1>2. threads' = [threads EXCEPT ![h] = u]
  BY DEF Enter
<1>3. Shape(u)'
  BY RoomAssumption DEF Shape, Started, Issues, Issue, ShapeInv, TypeOK
<1>4. \A g \in Handlers : Shape(threads[g]) => (g # h => Shape(threads[g])')
  <2> SUFFICES ASSUME NEW g \in Handlers, g # h, Shape(threads[g]) PROVE Shape(threads[g])'
    OBVIOUS
  <2>1. threads'[g] = threads[g]
    BY <1>2 DEF ShapeInv, TypeOK
  <2> QED
    BY <1>1, <2>1, RoomAssumption DEF Shape, ShapeInv, TypeOK
<1>5. threads'[h] = u
  BY <1>2 DEF ShapeInv, TypeOK
<1> QED
  BY <1>1, <1>2, <1>3, <1>4, <1>5 DEF ShapeInv, TypeOK

\* A thread at a call that writes has an id, and one that answers its key.
LEMMA Placed ==
  ASSUME ShapeInv, NEW h \in Handlers, threads[h].pc # "idle", ~Unplaced(threads[h])
  PROVE  /\ threads[h] \in Thread
         /\ threads[h].id \in Pairings
         /\ threads[h].op \in {"create", "refresh", "accept"} => threads[h].key \in Keys
BY RoomAssumption DEF ShapeInv, TypeOK, Shape, Thread, Issues, Keys

LEMMA ProceedType ==
  ASSUME ShapeInv, NEW h \in Handlers, Proceed(h)
  PROVE  TypeOK'
<1> DEFINE t == threads[h]
<1>1. t \in Thread /\ Shape(t)
  BY DEF ShapeInv, TypeOK
<1>2. threads' \in [Handlers -> Thread]
  BY ProceedShape
<1>3. UNCHANGED <<enabled, pass, issued, lapsed, overlapped>>
  BY DEF Proceed
<1>4. t.pc \notin {"idle", "find endpoint", "add endpoint", "port"} /\ ~Unplaced(t) =>
         t.id \in Pairings /\ (t.pc = "answer" => t.key \in Keys)
  BY <1>1, Placed DEF Shape, Places, Thread, Ops
<1> USE <1>1, <1>2, <1>3, TroubleType DEF TypeOK, ShapeInv, tables, counts
<1>5. CASE FindEndpoint(h) \/ AddEndpoint(h) \/ AllocatePort(h)
  <2>1. /\ UNCHANGED <<nodes, tunnels, live, invitations, voided>>
        /\ peers' = peers \/ peers' = peers + 1
        /\ UNCHANGED <<faults, mishaps>> \/ Fails
    BY <1>5 DEF FindEndpoint, AddEndpoint, AllocatePort
  <2> QED
    BY <2>1
<1>6. CASE AddNode(h)
  <2>1. t.pc = "add node" /\ t.op \in {"create", "accept"}
    BY <1>6 DEF AddNode, At, Shape, Places, Thread, Ops
  <2>2. (IF t.op = "accept" THEN t.id ELSE NextId) \in Pairings
    BY <1>4, <2>1, NextIdIs DEF Unplaced
  <2> QED
    BY <1>6, <2>2, PutType DEF AddNode, Thread
<1>7. CASE AddTunnel(h)
  <2>1. t.pc = "add tunnel" /\ t.op \in {"create", "accept"}
    BY <1>7 DEF AddTunnel, At, Shape, Places, Thread, Ops
  <2>2. (IF t.op = "accept" THEN NextId ELSE t.id) \in Pairings
    BY <1>4, <2>1, NextIdIs DEF Unplaced
  <2> QED
    BY <1>7, <2>2 DEF AddTunnel, Thread
<1>8. CASE Sign(h)
  BY <1>4, <1>8, PutType DEF Sign, At, Unplaced, Thread
<1>9. CASE Link(h)
  <2>1. [t.node EXCEPT !.linked = TRUE] \in Node
    BY DEF Thread, Node
  <2> QED
    BY <1>4, <1>9, <2>1, PutType DEF Link, At, Unplaced
<1>10. CASE Retune(h) \/ Mark(h)
  BY <1>4, <1>10 DEF Retune, Mark, At, Unplaced, Thread
<1>11. CASE Unserve(h)
  BY <1>4, <1>11 DEF Unserve, At, Unplaced
<1>12. CASE Push(h)
  BY <1>4, <1>12 DEF Push, At, Unplaced, Thread
<1>13. CASE Save(h)
  <2>1. KeysOf(t.id) \subseteq Keys /\ t.id \in Pairings /\ t.node \in Node
    BY <1>4, <1>13 DEF Save, At, Unplaced, Thread, KeysOf
  <2>2. nodes' \in [Pairings -> Node]
    BY <1>13, <2>1, PutType DEF Save
  <2>3. voided' \subseteq Keys
    BY <1>13, <2>1 DEF Save
  <2>4. UNCHANGED <<faults, mishaps>> \/ Fails
    BY <1>13 DEF Save
  <2>5. UNCHANGED <<tunnels, live, peers, invitations>>
    BY <1>13 DEF Save
  <2> QED
    BY <2>2, <2>3, <2>4, <2>5
<1>14. CASE DropTunnel(h)
  <2>1. t.id \in Pairings /\ NoTunnel \in Tunnel
    BY <1>4, <1>14 DEF DropTunnel, At, Unplaced, NoTunnel, Tunnel
  <2>2. tunnels' \in [Pairings -> Tunnel] /\ (UNCHANGED <<faults, mishaps>> \/ Fails)
    BY <1>14, <2>1 DEF DropTunnel
  <2>3. UNCHANGED <<nodes, live, peers, invitations, voided>>
    BY <1>14 DEF DropTunnel
  <2> QED
    BY <2>2, <2>3
<1>15. CASE DropNode(h)
  <2>1. [NoNode EXCEPT !.status = "gone"] \in Node
    BY DEF NoNode, Node
  <2> QED
    BY <1>4, <1>15, <2>1, PutType DEF DropNode, At, Unplaced
<1>16. CASE Answer(h)
  BY <1>4, <1>16 DEF Answer, At, Unplaced, KeysOf
<1> QED
  BY <1>5, <1>6, <1>7, <1>8, <1>9, <1>10, <1>11, <1>12, <1>13, <1>14, <1>15, <1>16
     DEF Proceed

\* What is no step of an operation.
Outside ==
  \/ Reconcile
  \/ \E n \in Pairings : Repush(n) \/ Meddle(n)
  \/ \E k \in Keys : Lapse(k)
  \/ Disable \/ Restart \/ Crash

LEMMA NextIs == Next <=> (\E h \in Handlers : Begin(h) \/ Proceed(h)) \/ Outside
BY DEF Next, Begin, Outside

LEMMA OutsideType ==
  ASSUME ShapeInv, Outside
  PROVE  /\ TypeOK' /\ \A h \in Handlers : Shape(threads[h])'
         /\ UNCHANGED issued
<1> USE TroubleType DEF TypeOK, ShapeInv, tables, counts, history
<1>1. Idle \in Thread
  BY DEF Idle, Thread, PC, Ops, NoNode, NoTunnel, Node, Tunnel, NoKey
<1>2. Boot => live' \in [Pairings -> Keys \cup {NoKey}]
  BY DEF Boot, Tunnel
<1>3. UNCHANGED <<threads, issued>> => \A h \in Handlers : Shape(threads[h])'
  BY DEF Shape, Issues, Unplaced
<1>4. CASE ListNodes
  <2>1. pass' \subseteq [id : Pairings, node : Node]
    BY <1>4 DEF ListNodes
  <2> QED
    BY <1>3, <1>4, <2>1 DEF ListNodes
<1>5. ASSUME NEW v \in pass, Visit(v)
      PROVE  TypeOK' /\ UNCHANGED <<threads, issued>>
  <2>1. v.id \in Pairings /\ v.node \in Node
    OBVIOUS
  <2>2. ASSUME NextStatus(v) # v.node.status, Put(v.id, [v.node EXCEPT !.status = NextStatus(v)])
        PROVE  nodes' \in [Pairings -> Node]
    <3>1. v.node.status \in {"pending", "active"}
          => [v.node EXCEPT !.status = NextStatus(v)] \in Node
      BY <2>1 DEF Node, NextStatus
    <3> QED
      BY <2>1, <2>2, <3>1, PutType
  <2> QED
    BY <1>5, <2>2 DEF Visit
<1>6. ASSUME NEW n \in Pairings, Repush(n) \/ Meddle(n)
      PROVE  TypeOK' /\ UNCHANGED <<threads, issued>>
  <2>1. CASE Repush(n)
    BY <2>1 DEF Repush, Tunnel
  <2>2. CASE Meddle(n)
    <3>1. /\ NoTunnel \in Tunnel /\ NoKey \in Keys \cup {NoKey}
          /\ [tunnels[n] EXCEPT !.status = "stopped"] \in Tunnel
      BY DEF NoTunnel, Tunnel
    <3>2. tunnels' \in [Pairings -> Tunnel] /\ live' \in [Pairings -> Keys \cup {NoKey}]
      BY <2>2, <3>1 DEF Meddle
    <3> QED
      BY <2>2, <3>2 DEF Meddle
  <2> QED
    BY <1>6, <2>1, <2>2
<1>7. ASSUME NEW k \in Keys, Lapse(k)
      PROVE  TypeOK' /\ UNCHANGED <<threads, issued>>
  BY <1>7 DEF Lapse
<1>8. CASE Disable \/ Restart
  BY <1>2, <1>3, <1>8 DEF Disable, Restart
<1>9. CASE Crash
  <2>1. \A h \in Handlers : Shape(threads[h])'
    BY <1>9 DEF Crash, Shape, Idle, Places, Unplaced, Issues
  <2> QED
    BY <1>1, <1>2, <1>9, <2>1 DEF Crash
<1> QED
  BY <1>3, <1>4, <1>5, <1>6, <1>7, <1>8, <1>9 DEF Outside, Reconcile

\* The ids that are used up, when a step uses up no other and nothing begins.
LEMMA RoomStays ==
  ASSUME ShapeInv, UNCHANGED issued, NEW f \in [Pairings -> Keys \cup {NoKey}], Room(f),
         \A n \in Pairings : nodes'[n].status # "unborn" \/ tunnels'[n].status # "absent"
                               => f[n] # NoKey,
         \A h \in Handlers : threads'[h].id # NoKey => f[threads'[h].id] # NoKey,
         \A v \in pass' : f[v.id] # NoKey,
         \A h \in Handlers : Unplaced(threads'[h]) =>
           Unplaced(threads[h]) /\ threads'[h].key = threads[h].key
  PROVE  Room(f)'
<1>1. \A h \in Handlers : Unplaced(threads'[h]) =>
        /\ \A n \in Pairings : f[n] # threads'[h].key
        /\ \A g \in Handlers \ {h} :
             Unplaced(threads'[g]) => threads'[g].key # threads'[h].key
  BY DEF Room
<1> QED
  BY <1>1 DEF Room, Unplaced

\* An idle handler has neither an id nor a row to make.
LEMMA IdleIs ==
  /\ Idle.pc = "idle" /\ Idle.op = "create" /\ Idle.id = NoKey /\ Idle.key = NoKey
  /\ Idle.node = NoNode /\ Idle.tunnel = NoTunnel
  /\ ~Unplaced(Idle) /\ ~Issues(Idle)
BY DEF Idle, Unplaced, Issues

\* The thread that an operation goes on with, and the row it may have made.
Moved(h, u) ==
  /\ threads' = [threads EXCEPT ![h] = u]
  /\ \/ u = Idle
     \/ u.op = threads[h].op /\ u.id = threads[h].id /\ u.key = threads[h].key
  /\ Unplaced(u) => Unplaced(threads[h])
  /\ \A n \in Pairings \ {threads[h].id} :
       nodes'[n] = nodes[n] /\ tunnels'[n] = tunnels[n]

Made(h, u) ==
  /\ threads' = [threads EXCEPT ![h] = u]
  /\ Unplaced(threads[h]) /\ ~Unplaced(u)
  /\ u.op = threads[h].op /\ u.id = NextId
  /\ \A n \in Pairings \ {NextId} : nodes'[n] = nodes[n] /\ tunnels'[n] = tunnels[n]

\* A thread that goes on, and one that is done: nothing else of it changes.
LEMMA Going ==
  ASSUME threads \in [Handlers -> Thread], NEW h \in Handlers, NEW pc, Goto(h, pc)
  PROVE  /\ threads' = [threads EXCEPT ![h] = threads'[h]]
         /\ threads'[h].pc = pc /\ threads'[h].op = threads[h].op
         /\ threads'[h].id = threads[h].id /\ threads'[h].key = threads[h].key
         /\ threads'[h].node = threads[h].node /\ threads'[h].tunnel = threads[h].tunnel
BY DEF Goto, Thread

LEMMA Returning ==
  ASSUME threads \in [Handlers -> Thread], NEW h \in Handlers, Return(h)
  PROVE  threads' = [threads EXCEPT ![h] = threads'[h]] /\ threads'[h] = Idle
BY DEF Return

LEMMA MovedOrMade ==
  ASSUME ShapeInv, NEW h \in Handlers, Proceed(h)
  PROVE  \E u \in Thread : Moved(h, u) \/ Made(h, u)
<1> DEFINE t == threads[h]
           u == threads'[h]
<1>1. /\ t \in Thread /\ Shape(t) /\ u \in Thread
      /\ nodes \in [Pairings -> Node] /\ tunnels \in [Pairings -> Tunnel]
      /\ threads \in [Handlers -> Thread]
  BY ProceedShape DEF ShapeInv, TypeOK
<1> SUFFICES Moved(h, u) \/ Made(h, u)
  BY <1>1
<1>2. ASSUME NEW pc, Goto(h, pc),
             \/ Unplaced(t)
             \/ /\ pc \notin {"find endpoint", "add endpoint", "port", "add node"}
                /\ pc = "add tunnel" => t.op = "create",
             \A n \in Pairings \ {t.id} : nodes'[n] = nodes[n] /\ tunnels'[n] = tunnels[n]
      PROVE  Moved(h, u)
  <2>1. u.pc = pc /\ u.op = t.op /\ u.id = t.id /\ u.key = t.key
        /\ threads' = [threads EXCEPT ![h] = u]
    BY <1>1, <1>2, Going
  <2>2. Unplaced(u) => Unplaced(t)
    BY <1>2, <2>1 DEF Unplaced
  <2> QED
    BY <1>2, <2>1, <2>2 DEF Moved
<1>3. ASSUME Return(h),
             \A n \in Pairings \ {t.id} : nodes'[n] = nodes[n] /\ tunnels'[n] = tunnels[n]
      PROVE  Moved(h, u)
  BY <1>1, <1>3, Returning, IdleIs DEF Moved
<1> USE DEF At, Put, tables
<1>4. UNCHANGED <<nodes, tunnels>> =>
        \A n \in Pairings \ {t.id} : nodes'[n] = nodes[n] /\ tunnels'[n] = tunnels[n]
  OBVIOUS
<1>5. CASE FindEndpoint(h)
  <2>1. Unplaced(t)
    BY <1>1, <1>5 DEF FindEndpoint, Shape, Places, Thread, Ops, Unplaced
  <2> QED
    BY <1>2, <1>4, <1>5, <2>1 DEF FindEndpoint
<1>6. CASE AddEndpoint(h)
  <2>1. Unplaced(t)
    BY <1>1, <1>6 DEF AddEndpoint, Shape, Places, Thread, Ops, Unplaced
  <2> QED
    BY <1>2, <1>3, <1>4, <1>6, <2>1 DEF AddEndpoint
<1>7. CASE AllocatePort(h)
  <2>1. t.op = "accept"
    BY <1>1, <1>7 DEF AllocatePort, Shape, Places, Thread, Ops
  <2>2. ASSUME NEW p \in Ports,
               threads' = [threads EXCEPT ![h].pc = "add tunnel", ![h].node.port = p]
        PROVE  /\ threads' = [threads EXCEPT ![h] = u]
               /\ u.op = t.op /\ u.id = t.id /\ u.key = t.key
    BY <1>1, <2>2 DEF Thread
  <2> QED
    BY <1>1, <1>3, <1>7, <2>1, <2>2 DEF AllocatePort, Moved, Unplaced
<1>8. CASE AddNode(h)
  <2>1. t.op \in {"create", "accept"}
    BY <1>1, <1>8 DEF AddNode, Shape, Places, Thread, Ops
  <2> DEFINE n == IF t.op = "accept" THEN t.id ELSE NextId
             pc == IF t.op = "accept" THEN "push" ELSE "sign"
  <2>2. CASE threads' = [threads EXCEPT ![h].id = n, ![h].pc = pc] /\ Put(n, t.node)
    <3>1. /\ threads' = [threads EXCEPT ![h] = u]
          /\ u.id = n /\ u.key = t.key /\ u.op = t.op /\ u.pc = pc
      BY <1>1, <2>2 DEF Thread
    <3>2. \A m \in Pairings \ {n} : nodes'[m] = nodes[m] /\ tunnels'[m] = tunnels[m]
      BY <1>1, <1>8, <2>2 DEF AddNode
    <3> HIDE DEF u, pc
    <3>3. CASE t.op = "accept"
      <4>1. ~Unplaced(u) /\ n = t.id
        BY <3>1, <3>3 DEF Unplaced, pc
      <4> QED
        BY <3>1, <3>2, <4>1 DEF Moved
    <3>4. CASE t.op = "create"
      <4>1. ~Unplaced(u) /\ Unplaced(t) /\ n = NextId
        BY <1>8, <3>1, <3>4 DEF Unplaced, pc, AddNode
      <4> QED
        BY <3>1, <3>2, <4>1 DEF Made
    <3> QED
      BY <2>1, <3>3, <3>4 DEF u
  <2>3. CASE UNCHANGED nodes /\ IF t.op = "accept" THEN Goto(h, "drop tunnel") ELSE Return(h)
    BY <1>2, <1>3, <1>4, <1>8, <2>3 DEF AddNode
  <2> QED
    BY <1>8, <2>2, <2>3 DEF AddNode
<1>9. CASE AddTunnel(h)
  <2>1. t.op \in {"create", "accept"}
    BY <1>1, <1>9 DEF AddTunnel, Shape, Places, Thread, Ops
  <2> DEFINE n == IF t.op = "accept" THEN NextId ELSE t.id
             pc == IF t.op = "accept" THEN "add node" ELSE "link"
  <2>2. CASE threads' = [threads EXCEPT ![h].id = n, ![h].pc = pc]
             /\ tunnels' = [tunnels EXCEPT ![n] = t.tunnel]
    <3>1. /\ threads' = [threads EXCEPT ![h] = u]
          /\ u.id = n /\ u.key = t.key /\ u.op = t.op /\ u.pc = pc
      BY <1>1, <2>2 DEF Thread
    <3>2. \A m \in Pairings \ {n} : nodes'[m] = nodes[m] /\ tunnels'[m] = tunnels[m]
      BY <1>1, <1>9, <2>2 DEF AddTunnel
    <3> HIDE DEF u, pc
    <3>3. CASE t.op = "accept"
      <4>1. ~Unplaced(u) /\ Unplaced(t) /\ n = NextId
        BY <1>9, <3>1, <3>3 DEF Unplaced, pc, AddTunnel
      <4> QED
        BY <3>1, <3>2, <4>1 DEF Made
    <3>4. CASE t.op = "create"
      <4>1. ~Unplaced(u) /\ n = t.id
        BY <3>1, <3>4 DEF Unplaced, pc
      <4> QED
        BY <3>1, <3>2, <4>1 DEF Moved
    <3> QED
      BY <2>1, <3>3, <3>4 DEF u
  <2>3. CASE UNCHANGED tunnels /\ IF t.op = "accept" THEN Return(h) ELSE Goto(h, "drop node")
    BY <1>2, <1>3, <1>4, <1>9, <2>3 DEF AddTunnel
  <2> QED
    BY <1>9, <2>2, <2>3 DEF AddTunnel
<1>10. CASE Link(h)
  <2> DEFINE linked == [t.node EXCEPT !.linked = TRUE]
  <2>1. t.op = "create"
    BY <1>1, <1>10 DEF Link, Shape, Places, Thread, Ops
  <2>2. \A m \in Pairings \ {t.id} : nodes'[m] = nodes[m] /\ tunnels'[m] = tunnels[m]
    BY <1>1, <1>10 DEF Link
  <2>3. CASE threads' = [threads EXCEPT ![h].pc = "push", ![h].node = linked]
    <3>1. /\ threads' = [threads EXCEPT ![h] = u]
          /\ u.id = t.id /\ u.key = t.key /\ u.op = t.op /\ u.pc = "push"
      BY <1>1, <2>3 DEF Thread
    <3> QED
      BY <2>1, <2>2, <3>1 DEF Unplaced, Moved
  <2> QED
    BY <1>2, <1>10, <2>2, <2>3 DEF Link
<1>11. CASE Push(h)
  <2>1. UNCHANGED <<nodes, tunnels>>
    BY <1>11 DEF Push
  <2>2. ASSUME NEW pc \in {"mark", "answer"}, NEW status,
               threads' = [threads EXCEPT ![h].pc = pc, ![h].tunnel.status = status]
        PROVE  Moved(h, u)
    <3>1. /\ threads' = [threads EXCEPT ![h] = u]
          /\ u.id = t.id /\ u.key = t.key /\ u.op = t.op /\ u.pc = pc
      BY <1>1, <2>2 DEF Thread
    <3> QED
      BY <2>1, <3>1 DEF Unplaced, Moved
  <2>3. CASE Goto(h, AfterPush(h))
    BY <1>2, <1>4, <2>1, <2>3 DEF AfterPush
  <2>4. CASE threads' = [threads EXCEPT ![h].tunnel.status = "failed",
                           ![h].pc = IF t.op = "refresh" THEN "mark" ELSE "answer"]
    <3>1. threads' = [threads EXCEPT ![h].pc = IF t.op = "refresh" THEN "mark" ELSE "answer",
                                     ![h].tunnel.status = "failed"]
      BY <2>4
    <3> QED
      BY <2>2, <3>1
  <2> QED
    BY <1>11, <2>2, <2>3, <2>4 DEF Push
<1>12. CASE Sign(h)
  <2>1. t.op = "create"
    BY <1>1, <1>12 DEF Sign, Shape, Places, Thread, Ops
  <2>2. \A n \in Pairings \ {t.id} : nodes'[n] = nodes[n] /\ tunnels'[n] = tunnels[n]
    BY <1>1, <1>12 DEF Sign
  <2> QED
    BY <1>2, <1>12, <2>1, <2>2 DEF Sign
<1>13. CASE Retune(h)
  <2>1. \A n \in Pairings \ {t.id} : nodes'[n] = nodes[n] /\ tunnels'[n] = tunnels[n]
    BY <1>1, <1>13 DEF Retune
  <2> QED
    BY <1>2, <1>3, <1>13, <2>1 DEF Retune
<1>14. CASE Unserve(h)
  BY <1>2, <1>4, <1>14 DEF Unserve, AfterUnserve
<1>15. CASE Mark(h)
  <2>1. \A n \in Pairings \ {t.id} : nodes'[n] = nodes[n] /\ tunnels'[n] = tunnels[n]
    BY <1>1, <1>15 DEF Mark
  <2> QED
    BY <1>2, <1>15, <2>1 DEF Mark, AfterPush
<1>16. CASE Save(h)
  <2>1. \A n \in Pairings \ {t.id} : nodes'[n] = nodes[n] /\ tunnels'[n] = tunnels[n]
    BY <1>1, <1>16 DEF Save
  <2>2. Goto(h, "answer") \/ Return(h)
    BY <1>16 DEF Save
  <2> QED
    BY <1>2, <1>3, <2>1, <2>2
<1>17. CASE DropTunnel(h)
  <2>1. Return(h) \/ Goto(h, "save") \/ Goto(h, "drop node")
    BY <1>17 DEF DropTunnel
  <2>2. \A n \in Pairings \ {t.id} : nodes'[n] = nodes[n] /\ tunnels'[n] = tunnels[n]
    BY <1>1, <1>17 DEF DropTunnel
  <2> QED
    BY <1>2, <1>3, <2>1, <2>2
<1>18. CASE DropNode(h) \/ Answer(h)
  BY <1>1, <1>3, <1>18 DEF DropNode, Answer
<1> QED
  BY <1>5, <1>6, <1>7, <1>8, <1>9, <1>10, <1>11, <1>12, <1>13, <1>14, <1>15, <1>16, <1>17,
     <1>18 DEF Proceed

LEMMA ProceedRoom ==
  ASSUME ShapeInv, NEW h \in Handlers, Proceed(h)
  PROVE  \E f \in [Pairings -> Keys \cup {NoKey}] : Room(f)'
<1>1. PICK f \in [Pairings -> Keys \cup {NoKey}] : Room(f)
  BY DEF ShapeInv
<1>2. PICK u \in Thread : Moved(h, u) \/ Made(h, u)
  BY MovedOrMade
<1>3. /\ TypeOK /\ TypeOK' /\ threads[h] \in Thread
      /\ UNCHANGED <<issued, pass>>
  BY ProceedType DEF ShapeInv, TypeOK, Proceed
<1>4. CASE Moved(h, u)
  <2>1. \A n \in Pairings : nodes'[n].status # "unborn" \/ tunnels'[n].status # "absent"
                              => f[n] # NoKey
    BY <1>1, <1>3, <1>4, IdsAssumption DEF Moved, Room, NoKey
  <2>2. \A g \in Handlers : threads'[g].id # NoKey => f[threads'[g].id] # NoKey
    BY <1>1, <1>3, <1>4, IdleIs DEF Moved, Room, TypeOK
  <2>3. \A g \in Handlers : Unplaced(threads'[g]) =>
          Unplaced(threads[g]) /\ threads'[g].key = threads[g].key
    BY <1>3, <1>4, IdleIs DEF Moved, TypeOK
  <2>4. \A v \in pass' : f[v.id] # NoKey
    BY <1>1, <1>3 DEF Room
  <2> QED
    BY <1>1, <1>3, <2>1, <2>2, <2>3, <2>4, RoomStays
<1>5. CASE Made(h, u)
  <2> DEFINE n == NextId
             k == threads[h].key
  <2>1. n \in Pairings /\ k \in Keys /\ k <= issued /\ k # NoKey /\ Unplaced(threads[h])
    <3>1. Shape(threads[h]) /\ Issues(threads[h])
      BY <1>5 DEF ShapeInv, Made, Unplaced, Issues
    <3> QED
      BY <1>3, <1>5, <3>1, NextIdIs, RoomAssumption
         DEF Made, Shape, Keys, TypeOK, NoKey
  <2>2. PICK e \in [Pairings -> Keys \cup {NoKey}] :
            e[n] = k /\ \A m \in Pairings \ {n} : e[m] = f[m]
    <3>1. [f EXCEPT ![n] = k] \in [Pairings -> Keys \cup {NoKey}]
      BY <2>1
    <3> QED
      BY <2>1, <3>1
  <2>3. \A m \in Pairings : f[m] # k
    BY <1>1, <2>1 DEF Room
  <2>4. threads' = [threads EXCEPT ![h] = u] /\ u.id = n /\ ~Unplaced(u)
        /\ \A m \in Pairings \ {n} : nodes'[m] = nodes[m] /\ tunnels'[m] = tunnels[m]
    BY <1>5 DEF Made
  <2> HIDE DEF n, k
  <2>5. \A m1, m2 \in Pairings : e[m1] = e[m2] /\ e[m1] # NoKey => m1 = m2
    BY <1>1, <2>1, <2>2, <2>3 DEF Room
  <2>6. \A m \in Pairings : e[m] <= issued
    BY <1>1, <2>1, <2>2 DEF Room
  <2>7. \A m \in Pairings : f[m] # NoKey => e[m] # NoKey
    BY <2>1, <2>2
  <2>8. \A m \in Pairings : nodes'[m].status # "unborn" \/ tunnels'[m].status # "absent" =>
          e[m] # NoKey
    BY <1>1, <2>1, <2>2, <2>4, <2>7 DEF Room
  <2>9. \A g \in Handlers : threads'[g].id # NoKey => e[threads'[g].id] # NoKey
    BY <1>1, <1>3, <2>1, <2>2, <2>4, <2>7 DEF Room, TypeOK, Thread
  <2>10. \A v \in pass' : e[v.id] # NoKey
    BY <1>1, <1>3, <2>7 DEF Room, TypeOK
  <2>11. ASSUME NEW g \in Handlers, Unplaced(threads'[g])
         PROVE  /\ \A m \in Pairings : e[m] # threads'[g].key
                /\ \A i \in Handlers \ {g} :
                     Unplaced(threads'[i]) => threads'[i].key # threads'[g].key
    <3>1. \A i \in Handlers : Unplaced(threads'[i]) => i # h /\ threads'[i] = threads[i]
      BY <1>3, <2>4 DEF TypeOK
    <3>2. g # h /\ threads'[g] = threads[g] /\ Unplaced(threads[g])
      BY <2>11, <3>1
    <3>3. k # threads[g].key
      BY <1>1, <2>1, <3>2 DEF Room, k
    <3> QED
      BY <1>1, <2>1, <2>2, <3>1, <3>2, <3>3 DEF Room
  <2>12. Room(e)'
    BY <1>3, <2>5, <2>6, <2>8, <2>9, <2>10, <2>11 DEF Room, Unplaced
  <2> QED
    BY <2>12
<1> QED
  BY <1>2, <1>4, <1>5

LEMMA BeginRoom ==
  ASSUME ShapeInv, NEW h \in Handlers, Begin(h)
  PROVE  \E f \in [Pairings -> Keys \cup {NoKey}] : Room(f)'
<1>1. PICK f \in [Pairings -> Keys \cup {NoKey}] : Room(f)
  BY DEF ShapeInv
<1>2. PICK u \in Thread : Enter(h, u) /\ Started(u)
  BY Begins
<1>3. TypeOK /\ issued <= issued' /\ UNCHANGED <<nodes, tunnels, pass>>
  BY <1>2, BeginShape DEF ShapeInv, Enter, tables
<1>4. threads'[h] = u /\ \A g \in Handlers \ {h} : threads'[g] = threads[g]
  BY <1>2, <1>3 DEF Enter, TypeOK
<1>5. \A n \in Pairings : f[n] <= issued'
  BY <1>1, <1>3, BeginShape, <1>2, RoomAssumption DEF Room, TypeOK, Keys, NoKey
<1>6. \A g \in Handlers : threads'[g].id # NoKey => f[threads'[g].id] # NoKey
  BY <1>1, <1>2, <1>3, <1>4 DEF Room, Started, Thread
<1>7. ASSUME NEW g \in Handlers, Unplaced(threads[g])
      PROVE  threads[g].key <= issued
  <2>1. Shape(threads[g]) /\ Issues(threads[g])
    BY <1>7 DEF ShapeInv, Issues, Unplaced
  <2> QED
    BY <1>3, <2>1, RoomAssumption DEF Shape, TypeOK
<1>8. Unplaced(u) => u.key = issued' /\ issued' = issued + 1
  BY <1>2 DEF Started, Unplaced, Issues, Issue
<1>9. ASSUME NEW g \in Handlers, Unplaced(threads'[g])
      PROVE  /\ \A n \in Pairings : f[n] # threads'[g].key
             /\ \A i \in Handlers \ {g} :
                  Unplaced(threads'[i]) => threads'[i].key # threads'[g].key
  <2>1. \A n \in Pairings : f[n] <= issued /\ f[n] \in Nat
    BY <1>1, RoomAssumption DEF Room, Keys, NoKey
  <2>2. issued \in Nat
    BY <1>3 DEF TypeOK
  <2>3. \A i \in Handlers : Unplaced(threads[i]) => threads[i].key \in Nat
    BY <1>3 DEF TypeOK, Thread, Keys, NoKey
  <2>4. CASE g = h
    BY <1>4, <1>7, <1>8, <1>9, <2>1, <2>2, <2>3, <2>4
  <2>5. CASE g # h
    BY <1>1, <1>4, <1>7, <1>8, <1>9, <2>1, <2>2, <2>3, <2>5 DEF Room
  <2> QED
    BY <2>4, <2>5
<1>10. Room(f)'
  BY <1>1, <1>3, <1>5, <1>6, <1>9 DEF Room, Unplaced
<1> QED
  BY <1>10

LEMMA OutsideRoom ==
  ASSUME ShapeInv, Outside
  PROVE  /\ \A v \in pass' : v.node.status \in {"pending", "active"}
         /\ \E f \in [Pairings -> Keys \cup {NoKey}] : Room(f)'
<1>1. PICK f \in [Pairings -> Keys \cup {NoKey}] : Room(f)
  BY DEF ShapeInv
<1>2. TypeOK /\ UNCHANGED issued
  BY OutsideType DEF ShapeInv
<1>3. threads' = threads \/ \A h \in Handlers : threads'[h] = Idle
  BY DEF Outside, Reconcile, ListNodes, Visit, Repush, Meddle, Lapse, Disable, Restart, Crash
<1>4. /\ \A h \in Handlers : threads'[h].id # NoKey => f[threads'[h].id] # NoKey
      /\ \A h \in Handlers : Unplaced(threads'[h]) =>
           Unplaced(threads[h]) /\ threads'[h].key = threads[h].key
  <2>1. CASE threads' = threads
    BY <1>1, <2>1 DEF Room
  <2>2. CASE \A h \in Handlers : threads'[h] = Idle
    BY <2>2, IdleIs
  <2> QED
    BY <1>3, <2>1, <2>2
<1>5. \A n \in Pairings : nodes'[n].status # "unborn" \/ tunnels'[n].status # "absent" =>
        f[n] # NoKey
  <2>1. CASE UNCHANGED <<nodes, tunnels>>
    BY <1>1, <2>1 DEF Room
  <2>2. ASSUME NEW v \in pass, Visit(v)
        PROVE  \A n \in Pairings : nodes'[n].status # "unborn" \/ tunnels'[n].status # "absent"
                 => f[n] # NoKey
    <3>1. f[v.id] # NoKey /\ UNCHANGED tunnels
      BY <1>1, <2>2 DEF Room, Visit
    <3>2. \A n \in Pairings \ {v.id} : nodes'[n] = nodes[n]
      BY <1>2, <2>2 DEF Visit, Put, TypeOK
    <3> QED
      BY <1>1, <3>1, <3>2 DEF Room
  <2>3. ASSUME NEW m \in Pairings, Meddle(m)
        PROVE  \A n \in Pairings : nodes'[n].status # "unborn" \/ tunnels'[n].status # "absent"
                 => f[n] # NoKey
    <3>1. UNCHANGED nodes /\ \A n \in Pairings \ {m} : tunnels'[n] = tunnels[n]
      BY <1>2, <2>3 DEF Meddle, TypeOK
    <3>2. f[m] # NoKey
      BY <1>1, <2>3 DEF Meddle, Room
    <3> QED
      BY <1>1, <3>1, <3>2 DEF Room
  <2> QED
    BY <2>1, <2>2, <2>3 DEF Outside, Reconcile, ListNodes, Repush, Lapse, Disable, Restart,
       Crash, tables
<1>6. \A v \in pass' : v.node.status \in {"pending", "active"} /\ f[v.id] # NoKey
  <2>1. \A v \in pass : v.node.status \in {"pending", "active"} /\ f[v.id] # NoKey
    BY <1>1 DEF Room, ShapeInv
  <2>2. CASE ListNodes
    <3>1. \A v \in pass' : v.id \in Pairings /\ v.node = nodes[v.id] /\ Due(nodes[v.id])
      BY <2>2 DEF ListNodes
    <3> QED
      BY <1>1, <3>1 DEF Due, Room
  <2> QED
    BY <2>1, <2>2 DEF Outside, Reconcile, Visit, Repush, Meddle, Lapse, Disable, Restart,
       Crash
<1> QED
  BY <1>1, <1>2, <1>4, <1>5, <1>6, RoomStays

LEMMA ShapeInit == Init => ShapeInv
<1> SUFFICES ASSUME Init PROVE ShapeInv
  OBVIOUS
<1>1. NoNode \in Node /\ NoTunnel \in Tunnel
  BY DEF NoNode, NoTunnel, Node, Tunnel
<1>2. Idle \in Thread /\ Shape(Idle) /\ ~Unplaced(Idle)
  BY <1>1 DEF Idle, Thread, PC, Ops, Shape, Places, Unplaced, Issues
<1>3. TypeOK
  <2>1. /\ nodes \in [Pairings -> Node] /\ tunnels \in [Pairings -> Tunnel]
        /\ live \in [Pairings -> Keys \cup {NoKey}] /\ threads \in [Handlers -> Thread]
    BY <1>1, <1>2 DEF Init
  <2>2. 0 \in 0 .. MaxKey /\ 0 \in 0 .. MaxTrouble
    BY RoomAssumption, BoundAssumption
  <2> QED
    BY <2>1, <2>2 DEF Init, TypeOK
<1>4. \A h \in Handlers : Shape(threads[h])
  BY <1>2 DEF Init
<1> DEFINE f == [n \in Pairings |-> NoKey]
<1>5. f \in [Pairings -> Keys \cup {NoKey}]
  OBVIOUS
<1>6. Room(f)
  BY <1>2, RoomAssumption DEF Room, Init, NoNode, NoTunnel, Idle, NoKey
<1> QED
  BY <1>3, <1>4, <1>5, <1>6 DEF ShapeInv, Init

LEMMA ShapeStep == ShapeInv /\ [Next]_vars => ShapeInv'
<1> SUFFICES ASSUME ShapeInv, [Next]_vars PROVE ShapeInv'
  OBVIOUS
<1>1. ASSUME NEW h \in Handlers, Begin(h)
      PROVE  ShapeInv'
  <2>1. PICK u \in Thread : Enter(h, u) /\ Started(u)
    BY <1>1, Begins
  <2>2. TypeOK'
    BY <2>1, BeginShape DEF Enter, ShapeInv, TypeOK, tables, counts
  <2> QED
    BY <1>1, <2>1, <2>2, BeginShape, BeginRoom DEF ShapeInv, Enter
<1>2. ASSUME NEW h \in Handlers, Proceed(h)
      PROVE  ShapeInv'
  BY <1>2, ProceedShape, ProceedType, ProceedRoom DEF ShapeInv, Proceed
<1>3. CASE Outside
  BY <1>3, OutsideType, OutsideRoom DEF ShapeInv
<1>4. CASE UNCHANGED vars
  <2> USE DEF vars, tables, counts, history
  <2>1. TypeOK' /\ \A h \in Handlers : Shape(threads[h])'
    BY <1>4 DEF ShapeInv, TypeOK, Shape, Issues, Unplaced
  <2>2. ASSUME NEW f \in [Pairings -> Keys \cup {NoKey}], Room(f)
        PROVE  Room(f)'
    BY <1>4, <2>2 DEF Room, Unplaced
  <2> QED
    BY <1>4, <2>1, <2>2 DEF ShapeInv
<1> QED
  BY <1>1, <1>2, <1>3, <1>4, NextIs

\* The variables keep their shape, however operations overlap, fail or crash: in
\* particular an id is left for every row that is to be added.
THEOREM PairingTypeCorrect == Spec => []TypeOK
<1>1. ShapeInv => TypeOK
  BY DEF ShapeInv
<1> QED
  BY <1>1, ShapeInit, ShapeStep, PTL DEF Spec

-----------------------------------------------------------------------------
(***************************************************************************)
(* What each call does: to the thread, whose operation and place it has,   *)
(* and to the rows.                                                        *)
(***************************************************************************)
\* The operation that a thread is in, and what it has read.
Same(u, t) ==
  u.op = t.op /\ u.id = t.id /\ u.key = t.key /\ u.node = t.node /\ u.tunnel = t.tunnel

GoesTo(h, pc) == threads'[h].pc = pc /\ Same(threads'[h], threads[h])
Ends(h) == threads'[h] = Idle

LEMMA GoingOn ==
  ASSUME ShapeInv, NEW h \in Handlers
  PROVE  /\ \A pc : Goto(h, pc) => GoesTo(h, pc)
         /\ Return(h) => Ends(h)
         /\ nodes \in [Pairings -> Node] /\ tunnels \in [Pairings -> Tunnel]
         /\ live \in [Pairings -> Keys \cup {NoKey}]
         /\ threads \in [Handlers -> Thread] /\ threads[h] \in Thread /\ Shape(threads[h])
BY Going, Returning DEF ShapeInv, TypeOK, GoesTo, Ends, Same

\* To find the endpoint and a port: no row is written.
LEMMA SearchDoes ==
  ASSUME ShapeInv, NEW h \in Handlers,
         FindEndpoint(h) \/ AddEndpoint(h) \/ AllocatePort(h)
  PROVE  /\ threads[h].op = "accept" /\ threads[h].id = NoKey /\ threads[h].pc # "idle"
         /\ UNCHANGED <<nodes, tunnels, live, invitations, voided>>
         /\ \/ Ends(h)
            \/ /\ threads'[h].pc \in {"port", "add endpoint", "add tunnel"}
               /\ threads'[h].op = "accept" /\ threads'[h].id = NoKey
               /\ threads'[h].key = threads[h].key /\ threads'[h].tunnel = threads[h].tunnel
               /\ threads'[h].node.jti = threads[h].node.jti
               /\ threads'[h].node.status = threads[h].node.status
               /\ threads'[h].node.linked = threads[h].node.linked
<1>1. /\ threads \in [Handlers -> Thread] /\ threads[h] \in Thread /\ Shape(threads[h])
      /\ \A pc : Goto(h, pc) => GoesTo(h, pc)
      /\ Return(h) => Ends(h)
  BY GoingOn
<1>2. /\ threads[h].op = "accept" /\ threads[h].id = NoKey /\ threads[h].pc # "idle"
  BY <1>1 DEF FindEndpoint, AddEndpoint, AllocatePort, At, Shape, Places, Unplaced, Thread, Ops
<1>3. UNCHANGED <<nodes, tunnels, live, invitations, voided>>
  BY DEF FindEndpoint, AddEndpoint, AllocatePort, tables
<1>4. CASE FindEndpoint(h) \/ AddEndpoint(h)
  BY <1>1, <1>2, <1>3, <1>4 DEF FindEndpoint, AddEndpoint, GoesTo, Same
<1>5. ASSUME NEW p \in Ports,
             threads' = [threads EXCEPT ![h].pc = "add tunnel", ![h].node.port = p]
      PROVE  /\ threads'[h].pc = "add tunnel"
             /\ threads'[h].op = "accept" /\ threads'[h].id = NoKey
             /\ threads'[h].key = threads[h].key /\ threads'[h].tunnel = threads[h].tunnel
             /\ threads'[h].node.jti = threads[h].node.jti
             /\ threads'[h].node.status = threads[h].node.status
             /\ threads'[h].node.linked = threads[h].node.linked
  BY <1>1, <1>2, <1>5 DEF Thread, Node
<1>6. CASE AllocatePort(h)
  BY <1>1, <1>2, <1>3, <1>5, <1>6 DEF AllocatePort
<1> QED
  BY <1>2, <1>3, <1>4, <1>6

LEMMA AddNodeDoes ==
  ASSUME ShapeInv, NEW h \in Handlers, AddNode(h)
  PROVE  /\ threads[h].pc = "add node"
         /\ UNCHANGED <<tunnels, live, peers, invitations, voided>>
         /\ \/ /\ threads[h].op = "create" /\ threads[h].id = NoKey
               /\ nodes' = [nodes EXCEPT ![NextId] = threads[h].node]
               /\ threads'[h] = [threads[h] EXCEPT !.id = NextId, !.pc = "sign"]
            \/ /\ threads[h].op = "accept" /\ threads[h].id \in Pairings
               /\ nodes' = [nodes EXCEPT ![threads[h].id] = threads[h].node]
               /\ GoesTo(h, "push")
            \/ /\ Fails /\ UNCHANGED nodes
               /\ threads[h].op \in {"create", "accept"}
               /\ IF threads[h].op = "accept"
                  THEN threads[h].id \in Pairings /\ GoesTo(h, "drop tunnel")
                  ELSE Ends(h)
<1>1. /\ threads \in [Handlers -> Thread] /\ threads[h] \in Thread /\ Shape(threads[h])
      /\ \A pc : Goto(h, pc) => GoesTo(h, pc)
      /\ Return(h) => Ends(h)
  BY GoingOn
<1>2. /\ threads[h].pc = "add node" /\ threads[h].op \in {"create", "accept"}
      /\ threads[h].op = "create" => threads[h].id = NoKey
      /\ threads[h].op = "accept" => threads[h].id \in Pairings
  BY <1>1 DEF AddNode, At, Shape, Places, Unplaced, Thread, Ops
<1>3. UNCHANGED <<tunnels, live, peers, invitations, voided>>
  BY DEF AddNode
<1>4. CASE threads[h].op = "create"
  <2>1. ASSUME threads' = [threads EXCEPT ![h].id = NextId, ![h].pc = "sign"]
        PROVE  threads'[h] = [threads[h] EXCEPT !.id = NextId, !.pc = "sign"]
    BY <1>1, <2>1
  <2> QED
    BY <1>1, <1>2, <1>3, <1>4, <2>1 DEF AddNode, Put
<1>5. CASE threads[h].op = "accept"
  <2>1. ASSUME threads' = [threads EXCEPT ![h].id = threads[h].id, ![h].pc = "push"]
        PROVE  GoesTo(h, "push")
    BY <1>1, <2>1 DEF GoesTo, Same, Thread
  <2> QED
    BY <1>1, <1>2, <1>3, <1>5, <2>1 DEF AddNode, Put
<1> QED
  BY <1>2, <1>4, <1>5

LEMMA AddTunnelDoes ==
  ASSUME ShapeInv, NEW h \in Handlers, AddTunnel(h)
  PROVE  /\ threads[h].pc = "add tunnel"
         /\ UNCHANGED <<nodes, live, peers, invitations, voided>>
         /\ \/ /\ threads[h].op = "accept" /\ threads[h].id = NoKey
               /\ tunnels' = [tunnels EXCEPT ![NextId] = threads[h].tunnel]
               /\ threads'[h] = [threads[h] EXCEPT !.id = NextId, !.pc = "add node"]
            \/ /\ threads[h].op = "create" /\ threads[h].id \in Pairings
               /\ tunnels' = [tunnels EXCEPT ![threads[h].id] = threads[h].tunnel]
               /\ GoesTo(h, "link")
            \/ /\ Fails /\ UNCHANGED tunnels
               /\ threads[h].op \in {"create", "accept"}
               /\ IF threads[h].op = "create"
                  THEN threads[h].id \in Pairings /\ GoesTo(h, "drop node")
                  ELSE Ends(h)
<1>1. /\ threads \in [Handlers -> Thread] /\ threads[h] \in Thread /\ Shape(threads[h])
      /\ \A pc : Goto(h, pc) => GoesTo(h, pc)
      /\ Return(h) => Ends(h)
  BY GoingOn
<1>2. /\ threads[h].pc = "add tunnel" /\ threads[h].op \in {"create", "accept"}
      /\ threads[h].op = "accept" => threads[h].id = NoKey
      /\ threads[h].op = "create" => threads[h].id \in Pairings
  BY <1>1 DEF AddTunnel, At, Shape, Places, Unplaced, Thread, Ops
<1>3. UNCHANGED <<nodes, live, peers, invitations, voided>>
  BY DEF AddTunnel
<1>4. CASE threads[h].op = "accept"
  <2>1. ASSUME threads' = [threads EXCEPT ![h].id = NextId, ![h].pc = "add node"]
        PROVE  threads'[h] = [threads[h] EXCEPT !.id = NextId, !.pc = "add node"]
    BY <1>1, <2>1
  <2> QED
    BY <1>1, <1>2, <1>3, <1>4, <2>1 DEF AddTunnel
<1>5. CASE threads[h].op = "create"
  <2>1. ASSUME threads' = [threads EXCEPT ![h].id = threads[h].id, ![h].pc = "link"]
        PROVE  GoesTo(h, "link")
    BY <1>1, <2>1 DEF GoesTo, Same, Thread
  <2> QED
    BY <1>1, <1>2, <1>3, <1>5, <2>1 DEF AddTunnel
<1> QED
  BY <1>2, <1>4, <1>5

LEMMA SignDoes ==
  ASSUME ShapeInv, NEW h \in Handlers, Sign(h)
  PROVE  /\ threads[h].op = "create" /\ threads[h].pc = "sign" /\ threads[h].id \in Pairings
         /\ UNCHANGED <<tunnels, live, peers, invitations, voided>>
         /\ \/ /\ nodes' = [nodes EXCEPT ![threads[h].id] = threads[h].node]
               /\ GoesTo(h, "add tunnel")
            \/ Fails /\ GoesTo(h, "drop node") /\ UNCHANGED nodes
BY GoingOn DEF Sign, At, Put, Shape, Places, Unplaced, Thread, Ops

LEMMA LinkDoes ==
  ASSUME ShapeInv, NEW h \in Handlers, Link(h)
  PROVE  /\ threads[h].op = "create" /\ threads[h].pc = "link" /\ threads[h].id \in Pairings
         /\ UNCHANGED <<tunnels, live, peers, invitations, voided>>
         /\ \/ /\ nodes' = [nodes EXCEPT ![threads[h].id] =
                                [threads[h].node EXCEPT !.linked = TRUE]]
               /\ threads'[h] = [threads[h] EXCEPT !.pc = "push", !.node.linked = TRUE]
            \/ Fails /\ GoesTo(h, "drop tunnel") /\ UNCHANGED nodes
<1>1. /\ threads \in [Handlers -> Thread] /\ threads[h] \in Thread /\ Shape(threads[h])
      /\ \A pc : Goto(h, pc) => GoesTo(h, pc)
  BY GoingOn
<1>2. /\ threads[h].op = "create" /\ threads[h].pc = "link" /\ threads[h].id \in Pairings
  BY <1>1 DEF Link, At, Shape, Places, Unplaced, Thread, Ops
<1>3. ASSUME threads' = [threads EXCEPT ![h].pc = "push",
                           ![h].node = [threads[h].node EXCEPT !.linked = TRUE]]
      PROVE  threads'[h] = [threads[h] EXCEPT !.pc = "push", !.node.linked = TRUE]
  BY <1>1, <1>3
<1> QED
  BY <1>1, <1>2, <1>3 DEF Link, Put

LEMMA RetuneDoes ==
  ASSUME ShapeInv, NEW h \in Handlers, Retune(h)
  PROVE  /\ threads[h].op = "refresh" /\ threads[h].pc = "retune" /\ threads[h].id \in Pairings
         /\ UNCHANGED <<nodes, live, peers, invitations, voided>>
         /\ \/ /\ tunnels' = [tunnels EXCEPT ![threads[h].id] = threads[h].tunnel]
               /\ GoesTo(h, IF enabled THEN "unserve" ELSE "save")
            \/ Fails /\ Ends(h) /\ UNCHANGED tunnels
BY GoingOn DEF Retune, At, Shape, Places, Unplaced, Thread, Ops

LEMMA UnserveDoes ==
  ASSUME ShapeInv, NEW h \in Handlers, Unserve(h)
  PROVE  /\ threads[h].op \in {"refresh", "revoke"} /\ threads[h].pc = "unserve"
         /\ threads[h].id \in Pairings
         /\ UNCHANGED <<nodes, tunnels, peers, invitations, voided>>
         /\ live' = [live EXCEPT ![threads[h].id] = NoKey] \/ (Fails /\ UNCHANGED live)
         /\ threads[h].op = "refresh" => GoesTo(h, "push")
         /\ threads[h].op = "revoke" => GoesTo(h, "drop tunnel")
BY GoingOn DEF Unserve, AfterUnserve, At, Shape, Places, Unplaced, Thread, Ops, tables

LEMMA PushDoes ==
  ASSUME ShapeInv, NEW h \in Handlers, Push(h)
  PROVE  /\ threads[h].op \in {"create", "accept", "refresh"} /\ threads[h].pc = "push"
         /\ threads[h].id \in Pairings
         /\ UNCHANGED <<nodes, tunnels, peers, invitations, voided>>
         /\ \/ /\ enabled
               /\ live' = [live EXCEPT ![threads[h].id] = threads[h].key]
               /\ threads'[h] = [threads[h] EXCEPT !.pc = "mark", !.tunnel.status = "active"]
            \/ /\ Fails /\ UNCHANGED live
               /\ threads'[h] = [threads[h] EXCEPT !.tunnel.status = "failed",
                                   !.pc = IF threads[h].op = "refresh" THEN "mark" ELSE "answer"]
            \/ ~enabled /\ UNCHANGED live /\ GoesTo(h, AfterPush(h))
<1>1. /\ threads \in [Handlers -> Thread] /\ threads[h] \in Thread /\ Shape(threads[h])
      /\ \A pc : Goto(h, pc) => GoesTo(h, pc)
  BY GoingOn
<1>2. /\ threads[h].op \in {"create", "accept", "refresh"} /\ threads[h].pc = "push"
      /\ threads[h].id \in Pairings
  BY <1>1 DEF Push, At, Shape, Places, Unplaced, Thread, Ops
<1>3. ASSUME threads' = [threads EXCEPT ![h].pc = "mark", ![h].tunnel.status = "active"]
      PROVE  threads'[h] = [threads[h] EXCEPT !.pc = "mark", !.tunnel.status = "active"]
  BY <1>1, <1>3
<1>4. ASSUME threads' = [threads EXCEPT ![h].tunnel.status = "failed",
                           ![h].pc = IF threads[h].op = "refresh" THEN "mark" ELSE "answer"]
      PROVE  threads'[h] = [threads[h] EXCEPT !.tunnel.status = "failed",
                              !.pc = IF threads[h].op = "refresh" THEN "mark" ELSE "answer"]
  BY <1>1, <1>4
<1> QED
  BY <1>1, <1>2, <1>3, <1>4 DEF Push, tables

LEMMA MarkDoes ==
  ASSUME ShapeInv, NEW h \in Handlers, Mark(h)
  PROVE  /\ threads[h].op \in {"create", "accept", "refresh"} /\ threads[h].pc = "mark"
         /\ threads[h].id \in Pairings
         /\ UNCHANGED <<nodes, live, peers, invitations, voided>>
         /\ \/ tunnels' = [tunnels EXCEPT ![threads[h].id] = threads[h].tunnel]
            \/ Fails /\ UNCHANGED tunnels
         /\ GoesTo(h, IF threads[h].op = "refresh" THEN "save" ELSE "answer")
BY GoingOn DEF Mark, AfterPush, At, Shape, Places, Unplaced, Thread, Ops

LEMMA SaveDoes ==
  ASSUME ShapeInv, NEW h \in Handlers, Save(h)
  PROVE  /\ threads[h].op \in {"refresh", "revoke token", "revoke", "exchange"}
         /\ threads[h].pc = "save" /\ threads[h].id \in Pairings
         /\ UNCHANGED <<tunnels, live, peers, invitations>>
         /\ \/ /\ nodes' = [nodes EXCEPT ![threads[h].id] = threads[h].node]
               /\ IF threads[h].op = "refresh" THEN GoesTo(h, "answer") ELSE Ends(h)
               /\ voided' = IF threads[h].op \in {"revoke token", "revoke"}
                            THEN voided \cup KeysOf(threads[h].id) ELSE voided
            \/ Fails /\ Ends(h) /\ UNCHANGED <<nodes, voided>>
<1>1. /\ threads \in [Handlers -> Thread] /\ threads[h] \in Thread /\ Shape(threads[h])
      /\ \A pc : Goto(h, pc) => GoesTo(h, pc)
      /\ Return(h) => Ends(h)
  BY GoingOn
<1>2. /\ threads[h].op \in {"refresh", "revoke token", "revoke", "exchange"}
      /\ threads[h].pc = "save" /\ threads[h].id \in Pairings
  BY <1>1 DEF Save, At, Shape, Places, Unplaced, Thread, Ops
<1> QED
  BY <1>1, <1>2 DEF Save, Put

LEMMA DropTunnelDoes ==
  ASSUME ShapeInv, NEW h \in Handlers, DropTunnel(h)
  PROVE  /\ threads[h].op \in {"create", "accept", "revoke"} /\ threads[h].pc = "drop tunnel"
         /\ threads[h].id \in Pairings
         /\ UNCHANGED <<nodes, live, peers, invitations, voided>>
         /\ \/ tunnels' = [tunnels EXCEPT ![threads[h].id] = NoTunnel]
            \/ Fails /\ UNCHANGED tunnels
         /\ threads[h].op = "revoke" => GoesTo(h, "save")
         /\ threads[h].op = "create" => GoesTo(h, "drop node")
         /\ threads[h].op = "accept" => Ends(h)
BY GoingOn DEF DropTunnel, At, Shape, Places, Unplaced, Thread, Ops

LEMMA DropNodeDoes ==
  ASSUME ShapeInv, NEW h \in Handlers, DropNode(h)
  PROVE  /\ threads[h].op = "create" /\ threads[h].pc = "drop node"
         /\ threads[h].id \in Pairings
         /\ UNCHANGED <<tunnels, live, peers, invitations, voided>>
         /\ \/ nodes' = [nodes EXCEPT ![threads[h].id] = [NoNode EXCEPT !.status = "gone"]]
            \/ Fails /\ UNCHANGED nodes
         /\ Ends(h)
BY GoingOn DEF DropNode, Put, At, Shape, Places, Unplaced, Thread, Ops

LEMMA AnswerDoes ==
  ASSUME ShapeInv, NEW h \in Handlers, Answer(h)
  PROVE  /\ threads[h].op \in {"create", "accept", "refresh"} /\ threads[h].pc = "answer"
         /\ threads[h].id \in Pairings /\ threads[h].key \in 1 .. issued
         /\ UNCHANGED <<nodes, tunnels, live, peers>>
         /\ IF threads[h].op = "accept" THEN UNCHANGED <<invitations, voided>>
            ELSE /\ voided' = voided \cup KeysOf(threads[h].id)
                 /\ invitations' = invitations \cup {[id |-> threads[h].id, key |-> threads[h].key]}
         /\ Ends(h)
BY GoingOn DEF Answer, At, Shape, Places, Issues, Unplaced, Thread, Ops, tables

-----------------------------------------------------------------------------
(***************************************************************************)
(* As long as operations do not overlap: one at a time, and a pass of the  *)
(* reconcile loop while there is none, which has read the rows as they are.*)
(***************************************************************************)
Alone ==
  /\ \A g, h \in Handlers : threads[g] = Idle \/ threads[h] = Idle \/ g = h
  /\ pass = {} \/ Quiet
  /\ \A v \in pass : v.node = nodes[v.id] /\ Due(v.node)
  /\ \A v, w \in pass : v.id = w.id => v = w

AloneInv == ~overlapped => Alone

\* What an operation begins with, unless it overlaps: nothing else goes on.
LEMMA BeginAlone ==
  ASSUME ShapeInv, NEW h \in Handlers, NEW u \in Thread, Enter(h, u), ~overlapped'
  PROVE  /\ ~overlapped /\ Quiet /\ pass = {}
         /\ threads'[h] = u /\ \A g \in Handlers \ {h} : threads'[g] = Idle
         /\ UNCHANGED <<nodes, tunnels, live, enabled, peers, pass, lapsed, invitations, voided,
                        faults, mishaps>>
BY DEF Enter, Quiet, ShapeInv, TypeOK, tables, counts

\* A step of an operation, too, finds and leaves the others idle.
LEMMA ProceedAlone ==
  ASSUME ShapeInv, Alone, NEW h \in Handlers, Proceed(h)
  PROVE  /\ threads[h].pc # "idle" /\ Shape(threads[h]) /\ threads[h] \in Thread
         /\ pass = {} /\ pass' = {}
         /\ \A g \in Handlers \ {h} : threads[g] = Idle /\ threads'[g] = Idle
         /\ UNCHANGED <<enabled, issued, lapsed, overlapped>>
<1>1. threads[h].pc # "idle"
  BY DEF Proceed, FindEndpoint, AddEndpoint, AllocatePort, AddNode, AddTunnel, Sign, Link,
     Retune, Unserve, Push, Mark, Save, DropTunnel, DropNode, Answer, At
<1>2. PICK u \in Thread : threads' = [threads EXCEPT ![h] = u]
  BY MovedOrMade DEF Moved, Made
<1>3. threads[h] # Idle
  BY <1>1, IdleIs
<1> QED
  BY <1>1, <1>2, <1>3 DEF Alone, Quiet, ShapeInv, TypeOK, Proceed

\* And so does what else happens: a handler is as it was, or idle after a crash.
LEMMA OutsideAlone ==
  ASSUME ShapeInv, Alone, Outside, ~overlapped'
  PROVE  /\ ~overlapped
         /\ \A h \in Handlers : threads'[h] = threads[h] \/ threads'[h] = Idle
         /\ UNCHANGED <<peers, issued, invitations, voided>>
         /\ lapsed \subseteq lapsed'
<1>1. ~overlapped
  BY DEF Outside, Reconcile, ListNodes, Visit, Repush, Meddle, Lapse, Disable, Restart, Crash,
     history
<1>2. threads' = threads \/ \A h \in Handlers : threads'[h] = Idle
  BY DEF Outside, Reconcile, ListNodes, Visit, Repush, Meddle, Lapse, Disable, Restart, Crash
<1>3. UNCHANGED <<peers, issued, invitations, voided>>
  BY DEF Outside, Reconcile, ListNodes, Visit, Repush, Meddle, Lapse, Disable, Restart, Crash,
     history
<1>4. lapsed \subseteq lapsed'
  BY DEF Outside, Reconcile, ListNodes, Visit, Repush, Meddle, Lapse, Disable, Restart, Crash
<1> QED
  BY <1>1, <1>2, <1>3, <1>4

LEMMA AloneStep == ShapeInv /\ AloneInv /\ [Next]_vars => AloneInv'
<1> SUFFICES ASSUME ShapeInv, AloneInv, [Next]_vars, ~overlapped' PROVE Alone'
  BY DEF AloneInv
<1> USE DEF AloneInv
<1>1. ASSUME NEW h \in Handlers, Begin(h)
      PROVE  Alone'
  <2>1. PICK u \in Thread : Enter(h, u)
    BY <1>1, Begins
  <2> QED
    BY <2>1, BeginAlone DEF Alone
<1>2. ASSUME NEW h \in Handlers, Proceed(h)
      PROVE  Alone'
  <2>1. ~overlapped
    BY <1>2 DEF Proceed
  <2> QED
    BY <1>2, <2>1, ProceedAlone DEF Alone
<1>3. CASE Outside
  <2>1. ~overlapped /\ Alone /\ lapsed \subseteq lapsed' /\ nodes \in [Pairings -> Node]
    <3>1. ~overlapped
      BY <1>3 DEF Outside, Reconcile, ListNodes, Visit, Repush, Meddle, Lapse, Disable,
         Restart, Crash, history
    <3> QED
      BY <1>3, <3>1, OutsideAlone DEF ShapeInv, TypeOK
  <2>2. CASE ListNodes
    <3>1. Quiet /\ UNCHANGED <<nodes, threads, lapsed>>
      BY <2>1, <2>2 DEF ListNodes, tables
    <3>2. \A v \in pass' : /\ v = [id |-> v.id, node |-> nodes[v.id]]
                           /\ v.node = nodes[v.id] /\ Due(v.node)
      BY <2>2 DEF ListNodes
    <3>3. \A v, w \in pass' : v.id = w.id => v = w
      <4> SUFFICES ASSUME NEW v \in pass', NEW w \in pass', v.id = w.id PROVE v = w
        OBVIOUS
      <4>1. v = [id |-> v.id, node |-> nodes[v.id]] /\ w = [id |-> w.id, node |-> nodes[w.id]]
        BY <3>2
      <4> QED
        BY <4>1
    <3> QED
      BY <2>1, <3>1, <3>2, <3>3 DEF Alone, Quiet, Due
  <2>3. ASSUME NEW v \in pass, Visit(v)
        PROVE  Alone'
    <3>1. UNCHANGED <<threads, lapsed>> /\ pass' = pass \ {v}
          /\ \A n \in Pairings \ {v.id} : nodes'[n] = nodes[n]
      BY <2>1, <2>3 DEF Visit, Put
    <3>2. \A w \in pass' : w.id \in Pairings /\ w.id # v.id
      BY <2>1, <3>1 DEF Alone, ShapeInv, TypeOK
    <3> QED
      BY <2>1, <3>1, <3>2 DEF Alone, Quiet, Due
  <2>4. CASE Crash
    BY <2>4 DEF Crash, Alone
  <2>5. CASE UNCHANGED <<nodes, threads, pass>>
    BY <2>1, <2>5 DEF Alone, Quiet, Due
  <2> QED
    BY <1>3, <2>2, <2>3, <2>4, <2>5 DEF Outside, Reconcile, Repush, Meddle, Lapse, Disable,
       Restart, tables
<1>4. CASE UNCHANGED vars
  BY <1>4 DEF vars, tables, history, Alone, Quiet, Due
<1> QED
  BY <1>1, <1>2, <1>3, <1>4, NextIs

LEMMA AloneInit == Init => AloneInv
BY DEF Init, AloneInv, Alone

\* All that happens outside to a row: it is found expired, or its tunnel dead.
Demoted(old, new) ==
  /\ new.jti = old.jti /\ new.expiry = old.expiry
  /\ new.linked = old.linked /\ new.port = old.port
  /\ \/ new.status = old.status
     \/ old.status = "pending" /\ old.expiry \in lapsed /\ new.status = "expired"
     \/ old.status = "active" /\ new.status = "offline"

LEMMA OutsideNodes ==
  ASSUME ShapeInv, Alone, Outside
  PROVE  /\ \A n \in Pairings : Demoted(nodes[n], nodes'[n])
         /\ UNCHANGED nodes \/ (Quiet /\ UNCHANGED <<threads, tunnels, live>>)
<1>1. nodes \in [Pairings -> Node]
  BY DEF ShapeInv, TypeOK
<1>2. ASSUME NEW v \in pass, Visit(v)
      PROVE  /\ \A n \in Pairings : Demoted(nodes[n], nodes'[n])
             /\ Quiet /\ UNCHANGED <<threads, tunnels, live>>
  <2>1. v.id \in Pairings /\ v.node \in Node /\ v.node = nodes[v.id] /\ Due(v.node) /\ Quiet
        /\ v.node.status \in {"pending", "active"}
    BY DEF Alone, ShapeInv, TypeOK
  <2>2. UNCHANGED nodes \/ Put(v.id, [v.node EXCEPT !.status = NextStatus(v)])
    BY <1>2 DEF Visit
  <2>3. /\ v.node.status = "pending" => v.node.expiry \in lapsed /\ NextStatus(v) = "expired"
        /\ v.node.status = "active" => NextStatus(v) \in {"active", "offline"}
    BY <2>1 DEF NextStatus, Due
  <2>4. Demoted(v.node, [v.node EXCEPT !.status = NextStatus(v)])
    BY <2>1, <2>3 DEF Demoted, Node
  <2>5. \A n \in Pairings : Demoted(nodes[n], nodes[n])
    BY DEF Demoted
  <2>6. ASSUME NEW n \in Pairings
        PROVE  Demoted(nodes[n], nodes'[n])
    <3>1. \/ nodes'[n] = nodes[n]
          \/ n = v.id /\ nodes'[n] = [v.node EXCEPT !.status = NextStatus(v)]
      BY <1>1, <2>2 DEF Put
    <3> QED
      BY <2>1, <2>4, <2>5, <3>1
  <2> QED
    BY <1>2, <2>1, <2>6 DEF Visit
<1>3. CASE UNCHANGED nodes
  BY <1>3 DEF Demoted
<1> QED
  BY <1>2, <1>3 DEF Outside, Reconcile, ListNodes, Repush, Meddle, Lapse, Disable, Restart,
     Crash, tables

-----------------------------------------------------------------------------
(***************************************************************************)
(* Visitors keep apart: the port that an acceptance has found is its own   *)
(* until it writes the row, and the other operations write what they read. *)
(***************************************************************************)
Ported(t) ==
  /\ t.op # "accept" /\ t.id # NoKey => t.node.port = nodes[t.id].port
  /\ t.op = "create" => t.node.port = 0
  /\ t.op = "accept" /\ t.pc \in {"add tunnel", "add node"} =>
       \A n \in Pairings : nodes[n].port # t.node.port
  /\ t.pc = "add endpoint" => peers = 0

Apart ==
  /\ peers <= 1
  /\ \A m, n \in Pairings : m # n /\ nodes[m].port # 0 => nodes[m].port # nodes[n].port
  /\ \A h \in Handlers : Ported(threads[h])

ApartInv == ~overlapped => Apart

LEMMA IdlePorted == Ported(Idle) /\ Ported(Idle)'
BY IdleIs DEF Ported, NoNode

LEMMA ApartBegin ==
  ASSUME ShapeInv, Apart, NEW h \in Handlers, Begin(h), ~overlapped'
  PROVE  Apart'
<1>1. PICK u \in Thread : Enter(h, u) /\ Started(u)
  BY Begins
<1>2. /\ UNCHANGED <<nodes, peers>>
      /\ threads'[h] = u /\ \A g \in Handlers \ {h} : threads'[g] = Idle
  BY <1>1, BeginAlone
<1>3. nodes \in [Pairings -> Node]
  BY DEF ShapeInv, TypeOK
<1>4. Ported(threads[h])'
  <2>1. u.op \in Ops /\ u.pc # "add endpoint"
    BY <1>1 DEF Started, Reads, Places, Thread, Ops
  <2>2. CASE u.op = "create"
    BY <1>1, <1>2, <2>1, <2>2 DEF Ported, Started, Reads, Unplaced, NewInvitation, NoNode
  <2>3. CASE u.op = "accept"
    BY <1>1, <1>2, <2>1, <2>3 DEF Ported, Started, Reads
  <2>4. CASE u.op \notin {"create", "accept"}
    <3>1. u.id \in Pairings
      BY <1>1, <2>4 DEF Started, Unplaced, Thread
    <3>2. u.node.port = nodes[u.id].port
      BY <1>1, <1>3, <2>1, <2>4, <3>1 DEF Started, Reads, Ops, Node
    <3> QED
      BY <1>2, <2>1, <2>4, <3>2 DEF Ported
  <2> QED
    BY <2>2, <2>3, <2>4
<1> QED
  BY <1>2, <1>4, IdlePorted DEF Apart

LEMMA ApartProceed ==
  ASSUME ShapeInv, Alone, Apart, NEW h \in Handlers, Proceed(h)
  PROVE  Apart'
<1> DEFINE t == threads[h]
<1>1. /\ t \in Thread /\ Shape(t) /\ Ported(t)
      /\ \A g \in Handlers \ {h} : threads'[g] = Idle
      /\ nodes \in [Pairings -> Node] /\ threads \in [Handlers -> Thread]
      /\ peers \in Nat /\ peers <= 1
  BY ProceedAlone DEF Apart, ShapeInv, TypeOK
<1>2. \A m, n \in Pairings : m # n /\ nodes[m].port # 0 => nodes[m].port # nodes[n].port
  BY DEF Apart
<1>3. ASSUME peers' <= 1, Ported(t)',
             \A n \in Pairings : nodes'[n].port \in {nodes[n].port, 0}
      PROVE  Apart'
  BY <1>1, <1>2, <1>3, IdlePorted DEF Apart
<1>4. ASSUME Ends(h), peers' <= 1,
             \A n \in Pairings : nodes'[n].port \in {nodes[n].port, 0}
      PROVE  Apart'
  BY <1>1, <1>3, <1>4, IdlePorted DEF Ends, Ported
<1>5. ASSUME NEW pc, GoesTo(h, pc), pc \notin {"add tunnel", "add node", "add endpoint"},
             t.id \in Pairings,
             UNCHANGED peers, \A n \in Pairings : nodes'[n].port = nodes[n].port
      PROVE  Apart'
  <2>1. Ported(t)'
    BY <1>1, <1>5 DEF Ported, GoesTo, Same
  <2> QED
    BY <1>1, <1>3, <1>5, <2>1
<1> USE DEF At, tables
<1>6. CASE FindEndpoint(h)
  <2>1. /\ t'.op = "accept" /\ UNCHANGED <<nodes, peers>>
        /\ t'.pc \in {"port", "add endpoint"} /\ (t'.pc = "add endpoint" => peers = 0)
    <3>1. t.op = "accept" /\ UNCHANGED <<nodes, peers>>
      BY <1>6, SearchDoes DEF FindEndpoint
    <3>2. \/ GoesTo(h, "port")
          \/ GoesTo(h, "add endpoint") /\ ~(peers > 0)
      BY <1>6, GoingOn DEF FindEndpoint
    <3>3. peers \in Nat
      BY <1>1
    <3>4. CASE GoesTo(h, "port")
      BY <3>1, <3>4 DEF GoesTo, Same
    <3>5. CASE GoesTo(h, "add endpoint") /\ ~(peers > 0)
      <4>1. ~(peers > 0)
        BY <3>5
      <4>2. peers = 0
        BY <3>3, <4>1
      <4> QED
        BY <3>1, <3>5, <4>2 DEF GoesTo, Same
    <3> QED
      BY <3>2, <3>4, <3>5
  <2>2. Ported(t)'
    BY <2>1 DEF Ported
  <2> QED
    BY <1>1, <1>3, <2>1, <2>2
<1>7. CASE AddEndpoint(h)
  <2>1. t.op = "accept" /\ peers = 0 /\ UNCHANGED nodes
    BY <1>1, <1>7, SearchDoes DEF AddEndpoint, Ported
  <2>2. CASE Goto(h, "port") /\ peers' = peers + 1
    <3>1. t'.pc = "port" /\ t'.op = "accept"
      BY <1>1, <2>1, <2>2, Going
    <3>2. Ported(t)'
      BY <3>1 DEF Ported
    <3> QED
      BY <1>1, <1>3, <2>1, <2>2, <3>2
  <2> QED
    BY <1>1, <1>4, <1>7, <2>1, <2>2, GoingOn DEF AddEndpoint
<1>8. CASE AllocatePort(h)
  <2>1. t.op = "accept" /\ UNCHANGED <<nodes, peers>>
    BY <1>8, SearchDoes DEF AllocatePort
  <2>2. ASSUME NEW p \in Ports \ Taken,
               threads' = [threads EXCEPT ![h].pc = "add tunnel", ![h].node.port = p]
        PROVE  Apart'
    <3>1. t'.pc = "add tunnel" /\ t'.op = "accept" /\ t'.node.port = p
      BY <1>1, <2>1, <2>2 DEF Thread, Node
    <3>2. \A n \in Pairings : nodes'[n].port # p
      BY <2>1 DEF Taken
    <3>3. Ported(t)'
      BY <3>1, <3>2 DEF Ported
    <3> QED
      BY <1>1, <1>3, <2>1, <3>3
  <2> QED
    BY <1>1, <1>4, <1>8, <2>1, <2>2, GoingOn DEF AllocatePort
<1>9. CASE AddNode(h)
  <2>1. CASE t.op = "create" /\ nodes' = [nodes EXCEPT ![NextId] = t.node]
             /\ t' = [t EXCEPT !.id = NextId, !.pc = "sign"]
    <3>1. /\ t'.op = "create" /\ t'.id = NextId /\ t'.pc = "sign" /\ t'.node = t.node
          /\ t.node.port = 0
      BY <1>1, <2>1 DEF Thread, Ported
    <3>2. NextId \in Pairings
      BY <1>9, <2>1, NextIdIs, AddNodeDoes DEF Unplaced
    <3>3. /\ nodes'[NextId] = t.node
          /\ \A n \in Pairings : nodes'[n].port \in {nodes[n].port, 0}
      BY <1>1, <2>1, <3>1, <3>2
    <3> HIDE DEF t
    <3>4. Ported(t)'
      BY <3>1, <3>3 DEF Ported
    <3> QED
      BY <1>1, <1>3, <1>9, <3>3, <3>4 DEF AddNode
  <2>2. CASE t.op = "accept" /\ t.id \in Pairings
             /\ nodes' = [nodes EXCEPT ![t.id] = t.node] /\ GoesTo(h, "push")
    <3>1. /\ nodes'[t.id] = t.node
          /\ \A n \in Pairings \ {t.id} : nodes'[n] = nodes[n]
          /\ \A n \in Pairings : nodes[n].port # t.node.port
          /\ t'.op = "accept" /\ t'.pc = "push"
      BY <1>1, <1>9, <2>2, AddNodeDoes DEF Ported, GoesTo, Same
    <3>2. \A m, n \in Pairings : m # n /\ nodes'[m].port # 0 => nodes'[m].port # nodes'[n].port
      BY <1>2, <3>1
    <3>3. Ported(t)'
      BY <3>1 DEF Ported
    <3> QED
      BY <1>1, <1>9, <3>2, <3>3, IdlePorted DEF AddNode, Apart
  <2> QED
    BY <1>1, <1>4, <1>5, <1>9, <2>1, <2>2, AddNodeDoes
<1>10. CASE AddTunnel(h)
  <2>1. CASE t.op = "accept" /\ t' = [t EXCEPT !.id = NextId, !.pc = "add node"]
    <3>1. /\ t'.op = "accept" /\ t'.pc = "add node" /\ t'.node = t.node
          /\ UNCHANGED <<nodes, peers>> /\ \A n \in Pairings : nodes[n].port # t.node.port
      BY <1>1, <1>10, <2>1, AddTunnelDoes DEF Thread, Ported
    <3> HIDE DEF t
    <3>2. Ported(t)'
      BY <3>1 DEF Ported
    <3> QED
      BY <1>1, <1>3, <3>1, <3>2
  <2> QED
    BY <1>1, <1>4, <1>5, <1>10, <2>1, AddTunnelDoes
<1>11. CASE Sign(h) \/ Save(h)
  <2>1. t.op # "accept" /\ t.id \in Pairings /\ UNCHANGED peers /\ t.id # NoKey
        /\ (nodes' = [nodes EXCEPT ![t.id] = t.node] \/ UNCHANGED nodes)
        /\ (Ends(h) \/ \E pc \in {"drop node", "answer"} : GoesTo(h, pc) \/ Sign(h))
    BY <1>11, SignDoes, SaveDoes, IdsAssumption DEF NoKey
  <2>2. t.node.port = nodes[t.id].port
    BY <1>1, <2>1 DEF Ported
  <2>3. \A n \in Pairings : nodes'[n].port = nodes[n].port
    BY <1>1, <2>1, <2>2
  <2>4. ASSUME GoesTo(h, "add tunnel") PROVE Ported(t)'
    BY <1>1, <2>1, <2>2, <2>3, <2>4 DEF Ported, GoesTo, Same
  <2> QED
    BY <1>1, <1>3, <1>4, <1>5, <1>11, <2>1, <2>3, <2>4, SignDoes, SaveDoes
<1>12. CASE Link(h)
  <2>1. t.op = "create" /\ t.id \in Pairings /\ t.id # NoKey /\ UNCHANGED peers
        /\ t.node.port = nodes[t.id].port /\ t.node.port = 0
    BY <1>1, <1>12, LinkDoes, IdsAssumption DEF Ported, NoKey
  <2> DEFINE linked == [t.node EXCEPT !.linked = TRUE]
  <2>2. linked.port = t.node.port
    BY <1>1 DEF Thread, Node
  <2>3. \A n \in Pairings : nodes'[n].port = nodes[n].port
    BY <1>1, <1>12, <2>1, <2>2, LinkDoes
  <2>4. ASSUME t' = [t EXCEPT !.pc = "push", !.node.linked = TRUE] PROVE Ported(t)'
    <3>1. t'.op = t.op /\ t'.pc = "push" /\ t'.id = t.id /\ t'.node.port = t.node.port
      BY <1>1, <2>4 DEF Thread, Node
    <3> HIDE DEF t
    <3> QED
      BY <2>1, <2>3, <3>1 DEF Ported
  <2> QED
    BY <1>1, <1>3, <1>5, <1>12, <2>1, <2>3, <2>4, LinkDoes
<1>13. CASE Push(h)
  <2>1. t.id \in Pairings /\ UNCHANGED <<nodes, peers>>
    BY <1>13, PushDoes
  <2>2. ASSUME t'.op = t.op, t'.id = t.id, t'.pc \in {"mark", "answer"}, t'.node = t.node
        PROVE  Apart'
    <3>1. Ported(t)'
      BY <1>1, <2>1, <2>2 DEF Ported
    <3> QED
      BY <1>1, <1>3, <2>1, <3>1
  <2>3. t' = [t EXCEPT !.pc = "mark", !.tunnel.status = "active"] => Apart'
    BY <1>1, <2>2 DEF Thread
  <2>4. t' = [t EXCEPT !.tunnel.status = "failed",
                       !.pc = IF t.op = "refresh" THEN "mark" ELSE "answer"] => Apart'
    BY <1>1, <2>2 DEF Thread
  <2> QED
    BY ZenonT(40), <1>1, <1>5, <1>13, <2>1, <2>3, <2>4, PushDoes DEF AfterPush
<1>14. CASE Retune(h) \/ Unserve(h) \/ Mark(h)
  BY <1>1, <1>4, <1>5, <1>14, RetuneDoes, UnserveDoes, MarkDoes
<1>15. CASE DropTunnel(h) \/ Answer(h)
  BY <1>1, <1>4, <1>5, <1>15, DropTunnelDoes, AnswerDoes
<1>16. CASE DropNode(h)
  <2>1. [NoNode EXCEPT !.status = "gone"].port = 0
    BY DEF NoNode
  <2> QED
    BY <1>1, <1>4, <1>16, <2>1, DropNodeDoes
<1> QED
  BY <1>6, <1>7, <1>8, <1>9, <1>10, <1>11, <1>12, <1>13, <1>14, <1>15, <1>16
     DEF Proceed

LEMMA ApartStep == ShapeInv /\ AloneInv /\ ApartInv /\ [Next]_vars => ApartInv'
<1> SUFFICES ASSUME ShapeInv, AloneInv, ApartInv, [Next]_vars, ~overlapped' PROVE Apart'
  BY DEF ApartInv
<1> USE DEF AloneInv, ApartInv
<1>1. ASSUME NEW h \in Handlers, Begin(h)
      PROVE  Apart'
  <2>1. ~overlapped
    BY <1>1, Begins, BeginAlone
  <2> QED
    BY <1>1, <2>1, ApartBegin
<1>2. ASSUME NEW h \in Handlers, Proceed(h)
      PROVE  Apart'
  BY <1>2, ApartProceed DEF Proceed
<1>3. CASE Outside
  <2>1. ~overlapped
    BY <1>3 DEF Outside, Reconcile, ListNodes, Visit, Repush, Meddle, Lapse, Disable, Restart,
       Crash, history
  <2>2. /\ \A n \in Pairings : nodes'[n].port = nodes[n].port
        /\ UNCHANGED peers
        /\ \A h \in Handlers : threads'[h] = threads[h] \/ threads'[h] = Idle
    BY <1>3, <2>1, OutsideNodes, OutsideAlone DEF Demoted
  <2>3. \A h \in Handlers : threads[h].id # NoKey => threads[h].id \in Pairings
    BY DEF ShapeInv, TypeOK, Thread
  <2>4. ASSUME NEW h \in Handlers
        PROVE  Ported(threads[h])'
    <3>1. CASE threads'[h] = threads[h]
      <4>1. Ported(threads[h])
        BY <2>1 DEF Apart
      <4> QED
        BY <2>2, <2>3, <3>1, <4>1 DEF Ported
    <3>2. CASE threads'[h] = Idle
      BY <3>2, IdlePorted DEF Ported
    <3> QED
      BY <2>2, <3>1, <3>2
  <2> QED
    BY <2>1, <2>2, <2>4 DEF Apart
<1>4. CASE UNCHANGED vars
  BY <1>4 DEF vars, tables, history, Apart, Ported
<1> QED
  BY <1>1, <1>2, <1>3, <1>4, NextIs

LEMMA ApartInit == Init => ApartInv
BY IdlePorted DEF Init, ApartInv, Apart, NoNode

\* As long as operations do not overlap, visitors have ports of their own and the
\* endpoint of a peer is added once, whatever fails and whenever the daemon crashes.
THEOREM VisitorsKeepApart == Spec => []VisitorsApart
<1>1. ApartInv => VisitorsApart
  BY DEF ApartInv, Apart, VisitorsApart
<1> QED
  BY <1>1, ShapeInit, ShapeStep, AloneInit, AloneStep, ApartInit, ApartStep, PTL DEF Spec

-----------------------------------------------------------------------------
(***************************************************************************)
(* What was taken back: an operation has a key that was never handed out,  *)
(* or a row that it read and that a voided key does not open.              *)
(***************************************************************************)
Opens(node, k) == node.status \notin {"unborn", "gone", "revoked", "expired"} /\ node.jti = k

\* The row has the new key.
Recorded(t) ==
  \/ t.op = "create" /\ t.pc \in {"add tunnel", "link", "push", "mark", "answer"}
  \/ t.op = "refresh" /\ t.pc = "answer"

Keyed(t) ==
  /\ Issues(t) => /\ \A i \in invitations : i.key # t.key
                  /\ t.node.jti = IF t.op = "accept" THEN NoKey ELSE t.key
  /\ Recorded(t) => nodes[t.id].jti = t.key
  /\ t.op = "revoke token" => t.node.jti = NoKey
  /\ t.op = "revoke" => t.node.status = "revoked"
  /\ \A i \in invitations : i.key \in voided /\ i.id = t.id => ~Opens(t.node, i.key)

Void ==
  /\ voided \subseteq {i.key : i \in invitations}
  /\ \A i, j \in invitations : i.key = j.key => i = j
  /\ \A i \in invitations : i.key <= issued
  /\ \A i \in invitations : i.key \in voided => ~Opens(nodes[i.id], i.key)
  /\ \A h \in Handlers : Keyed(threads[h])

VoidInv == ~overlapped => Void

LEMMA IdleKeyed ==
  ASSUME invitations \subseteq [id : Pairings, key : Keys] PROVE Keyed(Idle)
<1>1. \A i \in invitations : i.id # NoKey
  BY IdsAssumption DEF NoKey
<1> QED
  BY <1>1, IdleIs DEF Keyed, Recorded

LEMMA VoidBegin ==
  ASSUME ShapeInv, Void, NEW h \in Handlers, Begin(h), ~overlapped'
  PROVE  Void'
<1>1. PICK u \in Thread : Enter(h, u) /\ Started(u)
  BY Begins
<1>2. /\ UNCHANGED <<nodes, invitations, voided>>
      /\ threads'[h] = u /\ \A g \in Handlers \ {h} : threads'[g] = Idle
      /\ issued <= issued' /\ issued \in Nat /\ issued' \in Nat
  BY <1>1, BeginAlone, BeginShape, RoomAssumption DEF ShapeInv, TypeOK
<1>3. /\ nodes \in [Pairings -> Node] /\ invitations \subseteq [id : Pairings, key : Keys]
      /\ \A i \in invitations : i.key \in Keys /\ i.key # NoKey /\ i.key \in Nat
  BY DEF ShapeInv, TypeOK, Keys, NoKey
<1>4. Issues(u) => issued' = issued + 1 /\ u.key = issued'
  BY <1>1 DEF Started, Issue
<1>5. Issues(u) => \A i \in invitations : i.key # u.key
  BY <1>2, <1>3, <1>4 DEF Void
<1>6. u.op \in Ops /\ (u.id # NoKey => u.id \in Pairings) /\ u.pc # "idle"
  BY <1>1 DEF Thread, Started
<1>7. Keyed(threads[h])'
  <2>1. CASE u.op = "create"
    <3>1. u.node.jti = u.key /\ Issues(u) /\ u.pc = "add node"
      BY <1>1, <1>6, <2>1 DEF Started, Reads, NewInvitation, NoNode, Issues
    <3> QED
      BY <1>2, <1>5, <2>1, <3>1 DEF Keyed, Opens, Issues, Recorded
  <2>2. CASE u.op = "accept"
    <3>1. u.node.jti = NoKey /\ Issues(u)
      BY <1>1, <1>6, <2>2 DEF Started, Reads, NewVisitor, NoNode, Issues
    <3> QED
      BY <1>2, <1>3, <1>5, <2>2, <3>1 DEF Keyed, Opens, Issues, Recorded
  <2>3. CASE u.op = "refresh"
    <3>1. u.id \in Pairings /\ u.pc = "retune" /\ Issues(u)
      BY <1>1, <1>6, <2>3 DEF Started, Reads, Issues, Unplaced
    <3>2. u.node.jti = u.key
      BY <1>1, <1>3, <2>3, <3>1 DEF Started, Reads, Node
    <3> QED
      BY <1>2, <1>5, <2>3, <3>1, <3>2 DEF Keyed, Opens, Issues, Recorded
  <2>4. CASE u.op = "revoke token"
    <3>1. u.id \in Pairings
      BY <1>1, <1>6, <2>4 DEF Started, Unplaced
    <3>2. u.node.jti = NoKey
      BY <1>1, <1>3, <2>4, <3>1 DEF Started, Reads, Node
    <3> QED
      BY <1>2, <1>3, <2>4, <3>2 DEF Keyed, Opens, Issues, Recorded
  <2>5. CASE u.op = "revoke"
    <3>1. u.id \in Pairings
      BY <1>1, <1>6, <2>5 DEF Started, Unplaced
    <3>2. u.node.status = "revoked"
      BY <1>1, <1>3, <2>5, <3>1 DEF Started, Reads, Node
    <3> QED
      BY <1>2, <2>5, <3>2 DEF Keyed, Opens, Issues, Recorded
  <2>6. CASE u.op = "exchange"
    <3>1. u.id \in Pairings /\ Accepted(u.id, u.key)
      BY <1>1, <1>6, <2>6 DEF Started, Reads, Unplaced
    <3>2. u.node.jti = nodes[u.id].jti /\ Opens(nodes[u.id], u.key)
      BY <1>1, <1>3, <2>6, <3>1 DEF Started, Reads, Node, Accepted, Opens
    <3>3. \A i \in invitations : i.key \in voided /\ i.id = u.id => i.key # u.key
      BY <3>2 DEF Void
    <3> QED
      BY <1>2, <2>6, <3>2, <3>3 DEF Keyed, Opens, Issues, Recorded
  <2> QED
    BY <1>6, <2>1, <2>2, <2>3, <2>4, <2>5, <2>6 DEF Ops
<1>8. \A g \in Handlers : Keyed(threads[g])'
  <2>1. ASSUME NEW g \in Handlers \ {h} PROVE Keyed(threads[g])'
    <3>1. Keyed(Idle)'
      BY <1>2, <1>3, IdleIs, IdsAssumption DEF Keyed, Recorded, NoKey
    <3> QED
      BY <1>2, <3>1, <2>1 DEF Keyed, Recorded, Issues
  <2> QED
    BY <1>7, <2>1
<1> QED
  BY <1>2, <1>3, <1>8 DEF Void

LEMMA VoidProceed ==
  ASSUME ShapeInv, Alone, Void, NEW h \in Handlers, Proceed(h)
  PROVE  Void'
<1> DEFINE t == threads[h]
<1>1. /\ t \in Thread /\ Shape(t) /\ Keyed(t) /\ t.pc # "idle"
      /\ \A g \in Handlers \ {h} : threads'[g] = Idle
      /\ nodes \in [Pairings -> Node] /\ UNCHANGED issued
      /\ issued \in Nat
  BY ProceedAlone, RoomAssumption DEF Void, ShapeInv, TypeOK
<1>2. /\ \A i \in invitations : i.key \in Keys /\ i.key # NoKey /\ i.id \in Pairings
      /\ invitations' \subseteq [id : Pairings, key : Keys]
  BY ProceedType DEF ShapeInv, TypeOK, Keys, NoKey
<1>3. Keyed(Idle)'
  <2>1. \A i \in invitations' : i.id # NoKey
    BY <1>2, IdsAssumption DEF NoKey
  <2> QED
    BY <2>1, IdleIs DEF Keyed, Recorded
<1>4. ASSUME Keyed(t)', UNCHANGED <<invitations, voided>>,
             \A i \in invitations : i.key \in voided => ~Opens(nodes'[i.id], i.key)
      PROVE  Void'
  BY <1>1, <1>3, <1>4 DEF Void
<1>5. ASSUME Ends(h), UNCHANGED <<invitations, voided>>,
             \A i \in invitations : i.key \in voided => ~Opens(nodes'[i.id], i.key)
      PROVE  Void'
  BY <1>3, <1>4, <1>5 DEF Ends
<1>6. ASSUME UNCHANGED nodes
      PROVE  \A i \in invitations : i.key \in voided => ~Opens(nodes'[i.id], i.key)
  BY <1>6 DEF Void
<1>7. ASSUME t.id \in Pairings, nodes' = [nodes EXCEPT ![t.id] = t.node]
      PROVE  \A i \in invitations : i.key \in voided => ~Opens(nodes'[i.id], i.key)
  BY <1>1, <1>2, <1>7 DEF Void, Keyed
<1>8. ASSUME NEW pc, GoesTo(h, pc), UNCHANGED <<invitations, voided>>,
             \A i \in invitations : i.key \in voided => ~Opens(nodes'[i.id], i.key),
             Recorded(t)' => nodes'[t.id].jti = t.key
      PROVE  Void'
  <2>1. Keyed(t)'
    BY <1>1, <1>8 DEF Keyed, GoesTo, Same, Issues
  <2> QED
    BY <1>4, <1>8, <2>1
<1>9. ASSUME NEW pc, GoesTo(h, pc), UNCHANGED <<nodes, invitations, voided>>,
             t.op = "refresh" => pc # "answer",
             t.op = "create" => Recorded(t) \/ pc \in {"drop tunnel", "drop node"}
      PROVE  Void'
  BY <1>1, <1>6, <1>8, <1>9 DEF Keyed, GoesTo, Same, Recorded
<1>10. CASE FindEndpoint(h) \/ AddEndpoint(h) \/ AllocatePort(h)
  <2>1. t.op = "accept" /\ UNCHANGED <<nodes, invitations, voided>>
    BY <1>10, SearchDoes
  <2>2. ASSUME t'.op = "accept", t'.key = t.key, t'.node.jti = t.node.jti
        PROVE  Keyed(t)'
    <3>1. t.node.jti = NoKey /\ \A i \in invitations : i.key # t.key
      BY SMTT(30), <1>1, <2>1 DEF Keyed, Issues
    <3> QED
      BY <1>2, <2>1, <2>2, <3>1 DEF Keyed, Recorded, Opens
  <2> QED
    BY <1>4, <1>5, <1>6, <1>10, <2>1, <2>2, SearchDoes
<1>11. CASE AddNode(h)
  <2>1. CASE t.op = "create" /\ nodes' = [nodes EXCEPT ![NextId] = t.node]
             /\ t' = [t EXCEPT !.id = NextId, !.pc = "sign"]
    <3>1. /\ t'.op = "create" /\ t'.pc = "sign" /\ t'.node = t.node /\ t'.key = t.key
          /\ UNCHANGED <<invitations, voided>>
      BY <1>1, <1>11, <2>1, AddNodeDoes DEF Thread
    <3>2. t.node.jti = t.key /\ \A i \in invitations : i.key # t.key
      BY <1>1, <2>1 DEF Keyed, Issues
    <3>3. \A i \in invitations : i.key \in voided => ~Opens(nodes'[i.id], i.key)
      BY <1>1, <1>2, <2>1, <3>2 DEF Void, Opens
    <3> HIDE DEF t
    <3>4. Keyed(t)'
      BY SMTT(30), <3>1, <3>2 DEF Keyed, Recorded, Opens, Issues
    <3> QED
      BY <1>4, <3>1, <3>3, <3>4
  <2> QED
    BY <1>5, <1>6, <1>7, <1>8, <1>9, <1>11, <2>1, AddNodeDoes DEF Recorded, GoesTo, Same
<1>12. CASE AddTunnel(h)
  <2>1. CASE t.op = "accept" /\ t' = [t EXCEPT !.id = NextId, !.pc = "add node"]
    <3>1. /\ t'.op = "accept" /\ t'.pc = "add node" /\ t'.node = t.node /\ t'.key = t.key
          /\ UNCHANGED <<nodes, invitations, voided>>
      BY <1>1, <1>12, <2>1, AddTunnelDoes DEF Thread
    <3>2. t.node.jti = NoKey /\ \A i \in invitations : i.key # t.key
      BY <1>1, <2>1 DEF Keyed, Issues
    <3> HIDE DEF t
    <3>3. Keyed(t)'
      BY <1>2, <3>1, <3>2 DEF Keyed, Recorded, Opens, Issues
    <3> QED
      BY <1>4, <1>6, <3>1, <3>3
  <2> QED
    BY <1>5, <1>6, <1>9, <1>12, <2>1, AddTunnelDoes DEF Recorded
<1>13. CASE Sign(h)
  <2>1. t.op = "create" /\ t.id \in Pairings /\ UNCHANGED <<invitations, voided>>
        /\ t.node.jti = t.key
    BY <1>1, <1>13, SignDoes DEF Keyed, Issues
  <2>2. CASE nodes' = [nodes EXCEPT ![t.id] = t.node] /\ GoesTo(h, "add tunnel")
    BY <1>1, <1>7, <1>8, <2>1, <2>2
  <2> QED
    BY <1>9, <1>13, <2>1, <2>2, SignDoes
<1>14. CASE Link(h)
  <2>1. t.op = "create" /\ t.pc = "link" /\ t.id \in Pairings
        /\ UNCHANGED <<invitations, voided>>
        /\ t.node.jti = t.key /\ \A i \in invitations : i.key # t.key
    BY <1>1, <1>14, LinkDoes DEF Keyed, Issues
  <2> DEFINE linked == [t.node EXCEPT !.linked = TRUE]
  <2>2. CASE nodes' = [nodes EXCEPT ![t.id] = linked]
             /\ t' = [t EXCEPT !.pc = "push", !.node.linked = TRUE]
    <3>1. linked.jti = t.node.jti /\ linked.status = t.node.status
      BY <1>1 DEF Thread, Node
    <3>2. /\ nodes'[t.id] = linked
          /\ \A n \in Pairings \ {t.id} : nodes'[n] = nodes[n]
      BY <1>1, <2>1, <2>2
    <3>3. /\ t'.op = "create" /\ t'.pc = "push" /\ t'.id = t.id /\ t'.key = t.key
          /\ t'.node.jti = t.node.jti
      BY <1>1, <2>1, <2>2 DEF Thread, Node
    <3> HIDE DEF t, linked
    <3>4. \A i \in invitations : i.key \in voided => ~Opens(nodes'[i.id], i.key)
      <4>1. \A i \in invitations : ~Opens(linked, i.key)
        BY <2>1, <3>1 DEF Opens
      <4> QED
        BY <1>2, <3>2, <4>1 DEF Void
    <3>5. Keyed(t)'
      BY <2>1, <3>1, <3>2, <3>3 DEF Keyed, Recorded, Opens, Issues
    <3> QED
      BY <1>4, <2>1, <3>4, <3>5
  <2> QED
    BY <1>9, <1>14, <2>1, <2>2, LinkDoes
<1>15. CASE Retune(h) \/ Unserve(h) \/ Mark(h)
  BY ZenonT(40), <1>5, <1>6, <1>9, <1>15, RetuneDoes, UnserveDoes, MarkDoes DEF Recorded
<1>16. CASE Push(h)
  <2>1. /\ t.op \in {"create", "accept", "refresh"} /\ t.pc = "push"
        /\ UNCHANGED <<nodes, invitations, voided>>
    BY <1>16, PushDoes
  <2>2. ASSUME t'.op = t.op, t'.id = t.id, t'.key = t.key, t'.node = t.node,
               t'.pc \in {"mark", "answer"}, t.op = "refresh" => t'.pc = "mark"
        PROVE  Void'
    <3>1. Keyed(t)'
      BY <1>1, <2>1, <2>2 DEF Keyed, Recorded, Issues
    <3> QED
      BY <1>4, <1>6, <2>1, <3>1
  <2>3. t' = [t EXCEPT !.pc = "mark", !.tunnel.status = "active"] => Void'
    BY <1>1, <2>2 DEF Thread
  <2>4. t' = [t EXCEPT !.tunnel.status = "failed",
                       !.pc = IF t.op = "refresh" THEN "mark" ELSE "answer"] => Void'
    BY <1>1, <2>2 DEF Thread
  <2> QED
    BY ZenonT(40), <1>9, <1>16, <2>1, <2>3, <2>4, PushDoes DEF AfterPush, Recorded
<1>17. CASE Save(h)
  <2>1. /\ t.op \in {"refresh", "revoke token", "revoke", "exchange"} /\ t.id \in Pairings
        /\ UNCHANGED invitations
    BY <1>17, SaveDoes
  <2>2. CASE nodes' = [nodes EXCEPT ![t.id] = t.node] /\ t.op = "refresh"
             /\ GoesTo(h, "answer") /\ UNCHANGED voided
    <3>1. t.node.jti = t.key
      BY <1>1, <2>2 DEF Keyed, Issues
    <3> QED
      BY <1>1, <1>7, <1>8, <2>1, <2>2, <3>1
  <2>3. CASE nodes' = [nodes EXCEPT ![t.id] = t.node] /\ Ends(h) /\ UNCHANGED voided
    BY <1>5, <1>7, <2>1, <2>3
  <2>4. CASE nodes' = [nodes EXCEPT ![t.id] = t.node] /\ Ends(h)
             /\ t.op \in {"revoke token", "revoke"} /\ voided' = voided \cup KeysOf(t.id)
    <3>1. \A i \in invitations : i.key \in KeysOf(t.id) => i.id = t.id
      BY DEF KeysOf, Void
    <3>2. voided' \subseteq {i.key : i \in invitations}
      BY <2>4 DEF KeysOf, Void
    <3>3. \A i \in invitations : ~Opens(t.node, i.key)
      BY <1>1, <1>2, <2>4 DEF Keyed, Opens
    <3>4. \A i \in invitations : i.key \in voided' => ~Opens(nodes'[i.id], i.key)
      BY <1>1, <1>2, <1>7, <2>1, <2>4, <3>1, <3>3
    <3> QED
      BY <1>1, <1>3, <2>1, <2>4, <3>2, <3>4 DEF Void, Ends
  <2> QED
    BY <1>5, <1>6, <1>17, <2>1, <2>2, <2>3, <2>4, SaveDoes
<1>18. CASE DropTunnel(h)
  BY <1>5, <1>6, <1>9, <1>18, DropTunnelDoes
<1>19. CASE DropNode(h)
  <2>1. [NoNode EXCEPT !.status = "gone"].status = "gone"
    BY DEF NoNode
  <2>2. \A i \in invitations : i.key \in voided => ~Opens(nodes'[i.id], i.key)
    BY <1>1, <1>2, <1>19, <2>1, DropNodeDoes DEF Void, Opens
  <2> QED
    BY <1>5, <1>19, <2>2, DropNodeDoes
<1>20. CASE Answer(h)
  <2>1. CASE t.op = "accept"
    BY <1>5, <1>6, <1>20, <2>1, AnswerDoes
  <2>2. CASE t.op \in {"create", "refresh"}
    <3> DEFINE new == [id |-> t.id, key |-> t.key]
    <3>1. /\ UNCHANGED nodes /\ Ends(h) /\ t.id \in Pairings /\ t.key \in 1 .. issued
          /\ t.pc = "answer" /\ voided' = voided \cup KeysOf(t.id)
          /\ invitations' = invitations \cup {new}
      BY <1>20, <2>2, AnswerDoes
    <3>2. /\ nodes[t.id].jti = t.key /\ \A i \in invitations : i.key # t.key
      BY <1>1, <2>2, <3>1 DEF Keyed, Issues, Recorded
    <3>3. \A i \in invitations : i.key \in KeysOf(t.id) => i.id = t.id
      BY DEF KeysOf, Void
    <3>4. voided' \subseteq {i.key : i \in invitations}
      BY <3>1 DEF KeysOf, Void
    <3>5. new.key = t.key /\ new.id = t.id /\ t.key \notin voided'
      BY <3>2, <3>4
    <3> HIDE DEF new
    <3>6. \A i \in invitations' : i.key \in voided' => ~Opens(nodes'[i.id], i.key)
      BY <3>1, <3>2, <3>3, <3>5 DEF Void, Opens
    <3>7. \A i, j \in invitations' : i.key = j.key => i = j
      BY <3>1, <3>2, <3>5 DEF Void
    <3>8. \A i \in invitations' : i.key <= issued
      BY <1>1, <3>1, <3>5 DEF Void
    <3> QED
      BY <1>1, <1>3, <3>1, <3>4, <3>6, <3>7, <3>8 DEF Void, Ends
  <2> QED
    BY <1>20, <2>1, <2>2, AnswerDoes
<1> QED
  BY <1>10, <1>11, <1>12, <1>13, <1>14, <1>15, <1>16, <1>17, <1>18, <1>19, <1>20
     DEF Proceed

LEMMA VoidStep == ShapeInv /\ AloneInv /\ VoidInv /\ [Next]_vars => VoidInv'
<1> SUFFICES ASSUME ShapeInv, AloneInv, VoidInv, [Next]_vars, ~overlapped' PROVE Void'
  BY DEF VoidInv
<1> USE DEF AloneInv, VoidInv
<1>1. ASSUME NEW h \in Handlers, Begin(h)
      PROVE  Void'
  <2>1. ~overlapped
    BY <1>1, Begins, BeginAlone
  <2> QED
    BY <1>1, <2>1, VoidBegin
<1>2. ASSUME NEW h \in Handlers, Proceed(h)
      PROVE  Void'
  BY <1>2, VoidProceed DEF Proceed
<1>3. CASE Outside
  <2>1. ~overlapped
    BY <1>3 DEF Outside, Reconcile, ListNodes, Visit, Repush, Meddle, Lapse, Disable, Restart,
       Crash, history
  <2>2. /\ \A n \in Pairings : Demoted(nodes[n], nodes'[n])
        /\ UNCHANGED nodes \/ (Quiet /\ UNCHANGED threads)
        /\ UNCHANGED <<issued, invitations, voided>>
        /\ \A h \in Handlers : threads'[h] = threads[h] \/ threads'[h] = Idle
    BY <1>3, <2>1, OutsideNodes, OutsideAlone
  <2>3. /\ invitations \subseteq [id : Pairings, key : Keys]
        /\ \A i \in invitations : i.id \in Pairings
    BY DEF ShapeInv, TypeOK
  <2>4. \A i \in invitations : i.key \in voided => ~Opens(nodes'[i.id], i.key)
    BY <2>1, <2>2, <2>3 DEF Void, Opens, Demoted
  <2>5. Keyed(Idle)'
    <3>1. \A i \in invitations' : i.id # NoKey
      BY <2>2, <2>3, IdsAssumption DEF NoKey
    <3> QED
      BY <3>1, IdleIs DEF Keyed, Recorded
  <2>6. ASSUME NEW h \in Handlers
        PROVE  Keyed(threads[h])'
    <3>1. CASE threads'[h] = Idle
      BY <2>5, <3>1 DEF Keyed, Recorded, Issues
    <3>2. CASE threads'[h] = threads[h] /\ UNCHANGED nodes
      <4>1. Keyed(threads[h])
        BY <2>1 DEF Void
      <4> QED
        BY <2>2, <3>2, <4>1 DEF Keyed, Recorded, Issues
    <3>3. CASE Quiet /\ UNCHANGED threads
      BY <3>1, <3>3 DEF Quiet
    <3> QED
      BY <2>2, <3>1, <3>2, <3>3
  <2> QED
    BY <2>1, <2>2, <2>4, <2>6 DEF Void
<1>4. CASE UNCHANGED vars
  <2>1. ~overlapped
    BY <1>4 DEF vars, history
  <2> QED
    BY <1>4, <2>1 DEF vars, tables, history, Void, Keyed, Issues, Recorded
<1> QED
  BY <1>1, <1>2, <1>3, <1>4, NextIs

LEMMA VoidInit == Init => VoidInv
BY IdleKeyed DEF Init, VoidInv, Void

\* As long as operations do not overlap, a token that was taken back by an answered
\* revocation or a newer invitation buys no session, whatever failed or crashed since.
THEOREM TokenTakenBack == Spec => TakenBackForGood
<1>1. ShapeInv /\ VoidInv /\ [Next]_vars =>
        [\A h \in Handlers :
           threads[h].op # "exchange" /\ threads'[h].op = "exchange" /\ ~overlapped'
             => threads'[h].key \notin voided]_vars
  <2> SUFFICES ASSUME ShapeInv, VoidInv, [Next]_vars, NEW h \in Handlers,
                      threads[h].op # "exchange", threads'[h].op = "exchange", ~overlapped'
               PROVE  threads'[h].key \notin voided
    OBVIOUS
  <2>1. ASSUME NEW g \in Handlers, Begin(g)
        PROVE  threads'[h].key \notin voided
    <3>1. PICK u \in Thread : Enter(g, u) /\ Started(u)
      BY <2>1, Begins
    <3>2. h = g /\ u.op = "exchange" /\ threads'[h] = u /\ ~overlapped
      BY <3>1, BeginAlone, IdleIs
    <3>3. Bears(u.id, u.key) /\ Opens(nodes[u.id], u.key)
      BY <3>1, <3>2 DEF Started, Reads, Accepted, Opens
    <3> QED
      BY <3>2, <3>3 DEF VoidInv, Void, Bears
  <2>2. ASSUME NEW g \in Handlers, Proceed(g)
        PROVE  FALSE
    <3>1. PICK u \in Thread : threads' = [threads EXCEPT ![g] = u]
                              /\ (u.op = threads[g].op \/ u = Idle)
      BY <2>2, MovedOrMade DEF Moved, Made
    <3> QED
      BY <3>1, IdleIs DEF ShapeInv, TypeOK
  <2>3. CASE Outside
    BY <2>3, IdleIs DEF Outside, Reconcile, ListNodes, Visit, Repush, Meddle, Lapse, Disable,
       Restart, Crash
  <2> QED
    BY <2>1, <2>2, <2>3, NextIs DEF vars
<1> QED
  BY <1>1, ShapeInit, ShapeStep, AloneInit, AloneStep, VoidInit, VoidStep, PTL
     DEF Spec, TakenBackForGood

-----------------------------------------------------------------------------
(***************************************************************************)
(* What a revocation closes, while no call fails: it writes the row when   *)
(* tunnel and proxy are gone; a tunnel that is gone has no proxy, unless   *)
(* one was just pushed, and then the row follows.                          *)
(***************************************************************************)
Revoking(t) ==
  /\ Issues(t) => t.tunnel.status # "absent"
  /\ t.op # "revoke" => /\ t.node.status # "revoked"
                        /\ t.id # NoKey => nodes[t.id].status # "revoked"
  /\ t.op = "revoke" =>
       /\ t.node.linked = nodes[t.id].linked
       /\ t.pc = "drop tunnel" => live[t.id] = NoKey
       /\ t.pc = "save" /\ t.node.linked => tunnels[t.id] = NoTunnel /\ live[t.id] = NoKey
  /\ t.pc = "drop tunnel" => t.op = "revoke"
  /\ t.pc # "drop node"

Closed(n) == tunnels[n] = NoTunnel /\ live[n] = NoKey
Marking(n) == \E h \in Handlers : threads[h].id = n /\ threads[h].pc = "mark"

Shut ==
  /\ \A n \in Pairings : nodes[n].status = "revoked" /\ nodes[n].linked => Closed(n)
  /\ \A n \in Pairings : tunnels[n].status = "absent" =>
       tunnels[n] = NoTunnel /\ (live[n] = NoKey \/ Marking(n))
  /\ \A h \in Handlers : Revoking(threads[h])

ShutInv == ~overlapped /\ faults = 0 => Shut

\* Failed calls and mishaps are not forgotten.
LEMMA CountsGrow ==
  ASSUME ShapeInv, [Next]_vars
  PROVE  /\ faults' = 0 => faults = 0 /\ ~Fails
         /\ mishaps' = 0 => mishaps = 0 /\ ~Mishap
         /\ overlapped => overlapped'
<1>1. faults \in Nat /\ mishaps \in Nat
  BY BoundAssumption DEF ShapeInv, TypeOK
<1>2. ASSUME NEW h \in Handlers, Begin(h)
      PROVE  UNCHANGED counts /\ (overlapped => overlapped')
  BY <1>2, Begins DEF Enter, counts
<1>3. ASSUME NEW h \in Handlers, Proceed(h)
      PROVE  (Fails \/ UNCHANGED counts) /\ UNCHANGED overlapped
  BY <1>3 DEF Proceed, FindEndpoint, AddEndpoint, AllocatePort, AddNode, AddTunnel, Sign, Link,
     Retune, Unserve, Push, Mark, Save, DropTunnel, DropNode, Answer
<1>4. CASE Outside
  <2>1. Fails \/ Mishap \/ UNCHANGED counts
    BY <1>4 DEF Outside, Reconcile, ListNodes, Visit, Repush, Meddle, Lapse, Disable, Restart,
       Crash, counts
  <2>2. overlapped => overlapped'
    BY <1>4 DEF Outside, Reconcile, ListNodes, Visit, Repush, Meddle, Lapse, Disable, Restart,
       Crash, history
  <2> QED
    BY <1>1, <2>1, <2>2 DEF Fails, Mishap, counts
<1> QED
  BY <1>1, <1>2, <1>3, <1>4, NextIs DEF Fails, Mishap, counts, vars, history

LEMMA IdleRevoking == Revoking(Idle) /\ Revoking(Idle)'
BY IdleIs DEF Revoking, NoNode

LEMMA NobodyMarks == Quiet => \A n \in Pairings : ~Marking(n)
BY IdleIs DEF Quiet, Marking

LEMMA ShutBegin ==
  ASSUME ShapeInv, Shut, NEW h \in Handlers, Begin(h), ~overlapped'
  PROVE  Shut'
<1>1. PICK u \in Thread : Enter(h, u) /\ Started(u)
  BY Begins
<1>2. /\ UNCHANGED <<nodes, tunnels, live>> /\ Quiet
      /\ threads'[h] = u /\ \A g \in Handlers \ {h} : threads'[g] = Idle
  BY <1>1, BeginAlone
<1>3. /\ nodes \in [Pairings -> Node] /\ tunnels \in [Pairings -> Tunnel]
      /\ u.op \in Ops /\ u.pc \in Places(u.op)
  BY <1>1 DEF ShapeInv, TypeOK, Started, Thread
<1>4. \A n \in Pairings : tunnels[n].status = "absent" => Closed(n)
  BY <1>2, NobodyMarks DEF Shut, Closed
<1>5. Revoking(threads[h])'
  <2>1. CASE u.op = "create"
    <3>1. u.pc = "add node" /\ u.id = NoKey
      BY <1>1, <2>1 DEF Started, Reads, Unplaced
    <3>2. u.node.status = "pending" /\ u.tunnel.status = "pending"
      BY <1>1, <2>1, NewNode, NewTunnel DEF Started
    <3> QED
      BY <1>2, <2>1, <3>1, <3>2 DEF Revoking
  <2>2. CASE u.op = "accept"
    <3>1. u.pc = "find endpoint" /\ u.id = NoKey
      BY <1>1, <2>2 DEF Started, Reads, Unplaced
    <3>2. u.node.status = "active" /\ u.tunnel.status = "pending"
      BY <1>1, <2>2, NewNode, NewTunnel DEF Started
    <3> QED
      BY <1>2, <2>2, <3>1, <3>2 DEF Revoking
  <2>3. CASE u.op \notin {"create", "accept"}
    <3>1. u.id \in Pairings
      BY <1>1, <2>3 DEF Started, Unplaced, Thread
    <3>2. CASE u.op = "refresh"
      <4>1. /\ u.pc = "retune" /\ u.node.status = "pending" /\ nodes[u.id].status # "revoked"
            /\ u.tunnel.status # "absent"
        BY <1>1, <1>3, <3>1, <3>2 DEF Started, Reads, Refreshable, Node, Tunnel
      <4> QED
        BY <1>2, <3>2, <4>1 DEF Revoking
    <3>3. CASE u.op \in {"revoke token", "exchange"}
      <4>1. u.pc = "save" /\ u.node.status # "revoked" /\ nodes[u.id].status # "revoked"
        BY <1>1, <1>3, <3>1, <3>3 DEF Started, Reads, HasToken, Accepted, Node, Places
      <4> QED
        BY <1>2, <3>3, <4>1 DEF Revoking, Issues
    <3>4. CASE u.op = "revoke"
      <4>1. /\ u.pc = "unserve" \/ (u.pc = "save" /\ ~Served(u.id))
            /\ u.node.linked = nodes[u.id].linked
        BY <1>1, <1>3, <3>1, <3>4 DEF Started, Reads, Node
      <4>2. u.pc = "save" /\ nodes[u.id].linked => Closed(u.id)
        BY <1>4, <3>1, <4>1 DEF Served
      <4> QED
        BY <1>2, <3>4, <4>1, <4>2 DEF Revoking, Issues, Closed
    <3> QED
      BY <1>3, <2>3, <3>2, <3>3, <3>4 DEF Ops
  <2> QED
    BY <2>1, <2>2, <2>3
<1>6. \A g \in Handlers : Revoking(threads[g])'
  BY <1>2, <1>5, IdleRevoking DEF Revoking
<1> QED
  BY <1>2, <1>4, <1>6 DEF Shut, Closed

LEMMA ShutProceed ==
  ASSUME ShapeInv, Alone, Shut, NEW h \in Handlers, Proceed(h), ~Fails
  PROVE  Shut'
<1> DEFINE t == threads[h]
<1>1. /\ t \in Thread /\ Shape(t) /\ Revoking(t) /\ t.pc # "idle"
      /\ \A g \in Handlers \ {h} : threads[g] = Idle /\ threads'[g] = Idle
      /\ nodes \in [Pairings -> Node] /\ tunnels \in [Pairings -> Tunnel]
      /\ live \in [Pairings -> Keys \cup {NoKey}]
  BY ProceedAlone DEF Shut, ShapeInv, TypeOK
<1>2. \A n \in Pairings : nodes[n].status = "revoked" /\ nodes[n].linked => Closed(n)
  BY DEF Shut
<1>3. \A n \in Pairings : tunnels[n].status = "absent" =>
        tunnels[n] = NoTunnel /\ (live[n] = NoKey \/ (t.id = n /\ t.pc = "mark"))
  BY <1>1, IdleIs DEF Shut, Marking
<1>4. ASSUME \A n \in Pairings : nodes'[n].status = "revoked" /\ nodes'[n].linked =>
               tunnels'[n] = NoTunnel /\ live'[n] = NoKey,
             \A n \in Pairings : tunnels'[n].status = "absent" =>
               tunnels'[n] = NoTunnel /\ (live'[n] = NoKey \/ (t'.id = n /\ t'.pc = "mark")),
             Revoking(t)'
      PROVE  Shut'
  BY <1>1, <1>4, IdleRevoking DEF Shut, Marking, Closed
<1>5. ASSUME NEW pc, GoesTo(h, pc), t.op # "revoke", pc \notin {"drop tunnel", "drop node"},
             t.id \in Pairings => nodes'[t.id].status # "revoked"
      PROVE  Revoking(t)'
  BY <1>1, <1>5 DEF Revoking, GoesTo, Same, Issues, Thread
<1>6. Ends(h) => Revoking(t)' /\ t'.pc = "idle" /\ t'.id = NoKey
  BY IdleRevoking, IdleIs DEF Ends, Revoking
<1>7. ASSUME UNCHANGED <<nodes, tunnels, live>>, t.pc # "mark", Revoking(t)'
      PROVE  Shut'
  BY <1>2, <1>3, <1>4, <1>7 DEF Closed
<1>8. ASSUME UNCHANGED <<tunnels, live>>, t.pc # "mark", Revoking(t)',
             NEW n \in Pairings, NEW node, nodes' = [nodes EXCEPT ![n] = node],
             node.status # "revoked"
      PROVE  Shut'
  BY <1>1, <1>2, <1>3, <1>4, <1>8 DEF Closed
<1>9. ASSUME UNCHANGED <<nodes, live>>, Revoking(t)',
             NEW n \in Pairings, NEW tunnel, tunnels' = [tunnels EXCEPT ![n] = tunnel],
             tunnel.status # "absent", nodes[n].status # "revoked",
             t.pc = "mark" => t.id = n
      PROVE  Shut'
  BY <1>1, <1>2, <1>3, <1>4, <1>9 DEF Closed
<1>10. CASE FindEndpoint(h) \/ AddEndpoint(h) \/ AllocatePort(h)
  <2>1. /\ t.op = "accept" /\ UNCHANGED <<nodes, tunnels, live>>
        /\ t.pc \in {"find endpoint", "add endpoint", "port"}
    BY <1>10, SearchDoes DEF FindEndpoint, AddEndpoint, AllocatePort, At
  <2>2. ASSUME t'.op = "accept", t'.id = NoKey, t'.tunnel = t.tunnel,
               t'.node.status = t.node.status, t'.pc \in {"port", "add endpoint", "add tunnel"}
        PROVE  Revoking(t)'
    BY <1>1, <2>1, <2>2 DEF Revoking, Issues
  <2> QED
    BY <1>6, <1>7, <1>10, <2>1, <2>2, SearchDoes
<1>11. CASE AddNode(h)
  <2>1. CASE t.op = "create" /\ nodes' = [nodes EXCEPT ![NextId] = t.node]
             /\ t' = [t EXCEPT !.id = NextId, !.pc = "sign"]
    <3>1. /\ t'.op = "create" /\ t'.pc = "sign" /\ t'.node = t.node /\ t'.id = NextId
          /\ t'.tunnel = t.tunnel /\ t.pc = "add node"
          /\ UNCHANGED <<tunnels, live>>
      BY <1>1, <1>11, <2>1, AddNodeDoes DEF Thread
    <3>2. /\ t.node.status # "revoked" /\ t.tunnel.status # "absent"
      BY <1>1, <2>1 DEF Revoking, Issues
    <3>3. NextId \in Pairings
      BY <2>1, <3>1, NextIdIs DEF Unplaced
    <3>4. nodes'[NextId] = t.node
      BY <1>1, <2>1, <3>3
    <3>5. Revoking(t)'
      <4> HIDE DEF t
      <4> QED
        BY <3>1, <3>2, <3>4 DEF Revoking
    <3> QED
      BY <1>8, <2>1, <3>1, <3>2, <3>3, <3>5
  <2>2. CASE t.op = "accept" /\ t.id \in Pairings
             /\ nodes' = [nodes EXCEPT ![t.id] = t.node] /\ GoesTo(h, "push")
    <3>1. t.node.status # "revoked"
      BY <1>1, <2>2 DEF Revoking
    <3>2. nodes'[t.id] = t.node
      BY SMTT(30), <1>1, <2>2
    <3> QED
      BY <1>5, <1>8, <1>11, <2>2, <3>1, <3>2, AddNodeDoes
  <2> QED
    BY <1>11, <2>1, <2>2, AddNodeDoes
<1>12. CASE AddTunnel(h)
  <2>1. CASE t.op = "accept" /\ tunnels' = [tunnels EXCEPT ![NextId] = t.tunnel]
             /\ t' = [t EXCEPT !.id = NextId, !.pc = "add node"]
    <3>1. /\ t'.op = "accept" /\ t'.pc = "add node" /\ t'.node = t.node /\ t'.id = NextId
          /\ t'.tunnel = t.tunnel /\ t.pc = "add tunnel"
          /\ UNCHANGED <<nodes, live>>
      BY <1>1, <1>12, <2>1, AddTunnelDoes DEF Thread
    <3>2. /\ t.node.status # "revoked" /\ t.tunnel.status # "absent"
      BY <1>1, <2>1 DEF Revoking, Issues
    <3>3. NextId \in Pairings /\ nodes[NextId].status = "unborn"
      BY <2>1, <3>1, NextIdIs DEF Unplaced
    <3>4. Revoking(t)'
      <4> HIDE DEF t
      <4> QED
        BY <3>1, <3>2, <3>3 DEF Revoking
    <3> QED
      BY ZenonT(40), <1>9, <2>1, <3>1, <3>2, <3>3, <3>4
  <2>2. CASE t.op = "create" /\ t.id \in Pairings
             /\ tunnels' = [tunnels EXCEPT ![t.id] = t.tunnel] /\ GoesTo(h, "link")
    <3>1. t.tunnel.status # "absent" /\ nodes[t.id].status # "revoked"
      BY <1>1, <2>2, IdsAssumption DEF Revoking, Issues, NoKey
    <3> QED
      BY <1>5, <1>9, <1>12, <2>2, <3>1, AddTunnelDoes
  <2> QED
    BY <1>12, <2>1, <2>2, AddTunnelDoes
<1>13. CASE Sign(h)
  <2>1. /\ t.op = "create" /\ t.pc = "sign" /\ t.id \in Pairings /\ UNCHANGED <<tunnels, live>>
        /\ nodes' = [nodes EXCEPT ![t.id] = t.node] /\ GoesTo(h, "add tunnel")
    BY <1>13, SignDoes
  <2>2. t.node.status # "revoked" /\ nodes'[t.id] = t.node
    BY <1>1, <2>1 DEF Revoking
  <2> QED
    BY <1>5, <1>8, <2>1, <2>2
<1>14. CASE Link(h)
  <2> DEFINE linked == [t.node EXCEPT !.linked = TRUE]
  <2>1. /\ t.op = "create" /\ t.pc = "link" /\ t.id \in Pairings /\ UNCHANGED <<tunnels, live>>
        /\ nodes' = [nodes EXCEPT ![t.id] = linked]
        /\ t' = [t EXCEPT !.pc = "push", !.node.linked = TRUE]
    BY <1>14, LinkDoes
  <2>2. linked.status # "revoked" /\ t.tunnel.status # "absent"
    BY <1>1, <2>1 DEF Revoking, Thread, Node, Issues
  <2>3. nodes'[t.id] = linked
    BY <1>1, <2>1
  <2>4. /\ t'.op = "create" /\ t'.pc = "push" /\ t'.id = t.id /\ t'.tunnel = t.tunnel
        /\ t'.node.status = linked.status
    BY <1>1, <2>1 DEF Thread, Node
  <2>5. Revoking(t)'
    <3> HIDE DEF t, linked
    <3> QED
      BY <2>2, <2>3, <2>4 DEF Revoking
  <2> QED
    BY <1>8, <2>1, <2>2, <2>5
<1>15. CASE Retune(h)
  <2>1. /\ t.op = "refresh" /\ t.pc = "retune" /\ t.id \in Pairings /\ UNCHANGED <<nodes, live>>
        /\ tunnels' = [tunnels EXCEPT ![t.id] = t.tunnel]
        /\ GoesTo(h, IF enabled THEN "unserve" ELSE "save")
    BY <1>15, RetuneDoes
  <2>2. t.tunnel.status # "absent" /\ nodes[t.id].status # "revoked"
    BY <1>1, <2>1, IdsAssumption DEF Revoking, Issues, NoKey
  <2> QED
    BY <1>5, <1>9, <2>1, <2>2
<1>16. CASE Unserve(h)
  <2>1. /\ t.pc = "unserve" /\ t.id \in Pairings /\ UNCHANGED <<nodes, tunnels>>
        /\ live' = [live EXCEPT ![t.id] = NoKey]
        /\ \/ t.op = "refresh" /\ GoesTo(h, "push")
           \/ t.op = "revoke" /\ GoesTo(h, "drop tunnel")
    BY <1>16, UnserveDoes
  <2>2. live'[t.id] = NoKey /\ \A n \in Pairings : live'[n] \in {live[n], NoKey}
    BY <1>1, <2>1
  <2>3. Revoking(t)'
    <3>1. CASE t.op = "refresh"
      <4>1. nodes[t.id].status # "revoked"
        BY <1>1, <2>1, <3>1, IdsAssumption DEF Revoking, NoKey
      <4> QED
        BY <1>5, <2>1, <3>1, <4>1
    <3>2. CASE t.op = "revoke"
      BY ZenonT(40), <1>1, <2>1, <2>2, <3>2 DEF Revoking, GoesTo, Same, Issues
    <3> QED
      BY <2>1, <3>1, <3>2
  <2> QED
    BY <1>2, <1>3, <1>4, <2>1, <2>2, <2>3 DEF Closed
<1>17. CASE Push(h)
  <2>1. /\ t.op \in {"create", "accept", "refresh"} /\ t.pc = "push" /\ t.id \in Pairings
        /\ UNCHANGED <<nodes, tunnels>>
    BY <1>17, PushDoes
  <2>2. nodes[t.id].status # "revoked" /\ t.node.status # "revoked"
    BY <1>1, <2>1, IdsAssumption DEF Revoking, NoKey
  <2>3. CASE live' = [live EXCEPT ![t.id] = t.key]
             /\ t' = [t EXCEPT !.pc = "mark", !.tunnel.status = "active"]
    <3>1. /\ t'.op = t.op /\ t'.pc = "mark" /\ t'.id = t.id /\ t'.node = t.node
          /\ t'.tunnel.status = "active"
      BY <1>1, <2>3 DEF Thread, Tunnel
    <3>2. \A n \in Pairings : n = t.id \/ live'[n] = live[n]
      BY <1>1, <2>1, <2>3
    <3> HIDE DEF t
    <3>3. Revoking(t)'
      BY <2>1, <2>2, <3>1 DEF Revoking
    <3>4. \A n \in Pairings : nodes'[n].status = "revoked" /\ nodes'[n].linked =>
            tunnels'[n] = NoTunnel /\ live'[n] = NoKey
      BY <1>2, <2>1, <2>2, <3>2 DEF Closed
    <3>5. \A n \in Pairings : tunnels'[n].status = "absent" =>
            tunnels'[n] = NoTunnel /\ (live'[n] = NoKey \/ (t'.id = n /\ t'.pc = "mark"))
      BY <1>3, <2>1, <3>1, <3>2
    <3> QED
      BY <1>4, <3>3, <3>4, <3>5
  <2>4. CASE UNCHANGED live /\ GoesTo(h, AfterPush(h))
    BY <1>5, <1>7, <2>1, <2>2, <2>4 DEF AfterPush
  <2> QED
    BY ZenonT(40), <1>17, <2>1, <2>3, <2>4, PushDoes
<1>18. CASE Mark(h)
  <2>1. /\ t.op \in {"create", "accept", "refresh"} /\ t.pc = "mark" /\ t.id \in Pairings
        /\ UNCHANGED <<nodes, live>>
        /\ tunnels' = [tunnels EXCEPT ![t.id] = t.tunnel]
        /\ GoesTo(h, IF t.op = "refresh" THEN "save" ELSE "answer")
    BY <1>18, MarkDoes
  <2>2. t.tunnel.status # "absent" /\ nodes[t.id].status # "revoked"
    BY <1>1, <2>1, IdsAssumption DEF Revoking, Issues, NoKey
  <2> QED
    BY <1>5, <1>9, <2>1, <2>2
<1>19. CASE Save(h)
  <2>1. /\ t.op \in {"refresh", "revoke token", "revoke", "exchange"} /\ t.pc = "save"
        /\ t.id \in Pairings /\ UNCHANGED <<tunnels, live>>
        /\ nodes' = [nodes EXCEPT ![t.id] = t.node]
        /\ IF t.op = "refresh" THEN GoesTo(h, "answer") ELSE Ends(h)
    BY <1>19, SaveDoes
  <2>2. nodes'[t.id] = t.node /\ \A n \in Pairings \ {t.id} : nodes'[n] = nodes[n]
    BY <1>1, <2>1
  <2>3. CASE t.op = "revoke"
    <3>1. t.node.linked => tunnels[t.id] = NoTunnel /\ live[t.id] = NoKey
      BY <1>1, <2>1, <2>3 DEF Revoking
    <3>2. \A n \in Pairings : nodes'[n].status = "revoked" /\ nodes'[n].linked =>
            tunnels'[n] = NoTunnel /\ live'[n] = NoKey
      BY <1>2, <2>1, <2>2, <3>1 DEF Closed
    <3> QED
      BY <1>3, <1>4, <1>6, <2>1, <2>3, <3>2
  <2>4. CASE t.op # "revoke"
    <3>1. t.node.status # "revoked"
      BY <1>1, <2>4 DEF Revoking
    <3>2. Revoking(t)'
      BY <1>5, <1>6, <2>1, <2>2, <2>4, <3>1
    <3> QED
      BY <1>8, <2>1, <3>1, <3>2
  <2> QED
    BY <2>3, <2>4
<1>20. CASE DropTunnel(h)
  <2>1. /\ t.pc = "drop tunnel" /\ t.id \in Pairings /\ UNCHANGED <<nodes, live>>
        /\ tunnels' = [tunnels EXCEPT ![t.id] = NoTunnel]
        /\ t.op = "revoke" /\ GoesTo(h, "save")
    BY <1>1, <1>20, DropTunnelDoes DEF Revoking
  <2>2. live[t.id] = NoKey /\ tunnels'[t.id] = NoTunnel
        /\ \A n \in Pairings \ {t.id} : tunnels'[n] = tunnels[n]
    BY <1>1, <2>1 DEF Revoking
  <2>3. Revoking(t)'
    BY <1>1, <2>1, <2>2 DEF Revoking, GoesTo, Same, Issues
  <2> QED
    BY <1>2, <1>3, <1>4, <2>1, <2>2, <2>3 DEF Closed
<1>21. CASE DropNode(h)
  BY <1>1, <1>21, DropNodeDoes DEF Revoking
<1>22. CASE Answer(h)
  BY <1>6, <1>7, <1>22, AnswerDoes
<1> QED
  BY <1>10, <1>11, <1>12, <1>13, <1>14, <1>15, <1>16, <1>17, <1>18, <1>19, <1>20, <1>21,
     <1>22 DEF Proceed

LEMMA ShutOutside ==
  ASSUME ShapeInv, Alone, Shut, Outside, ~overlapped', ~Fails
  PROVE  Shut'
<1>1. /\ nodes \in [Pairings -> Node] /\ tunnels \in [Pairings -> Tunnel]
      /\ live \in [Pairings -> Keys \cup {NoKey}] /\ threads \in [Handlers -> Thread]
  BY DEF ShapeInv, TypeOK
<1>2. \A n \in Pairings : /\ nodes'[n].linked = nodes[n].linked
                          /\ nodes'[n].status = "revoked" => nodes[n].status = "revoked"
  BY OutsideNodes DEF Demoted
<1>3. /\ NoTunnel.status = "absent"
      /\ \A n \in Pairings : Closed(n) => ~RunningRow(tunnels[n])
  BY DEF NoTunnel, Closed, RunningRow
<1>4. CASE UNCHANGED <<threads, tunnels, live>>
  <2>1. \A h \in Handlers : Revoking(threads[h])'
    <3>1. CASE UNCHANGED nodes
      BY <1>4, <3>1 DEF Shut, Revoking, Issues
    <3>2. CASE Quiet
      BY <1>4, <3>2, IdleRevoking DEF Quiet
    <3> QED
      BY <3>1, <3>2, OutsideNodes
  <2> QED
    BY <1>2, <1>4, <2>1 DEF Shut, Closed, Marking
<1>5. ASSUME NEW n \in Pairings, Repush(n)
      PROVE  Shut'
  <2>1. /\ Quiet /\ UNCHANGED <<nodes, tunnels, threads>>
        /\ RunningRow(tunnels[n]) /\ \A m \in Pairings \ {n} : live'[m] = live[m]
    BY <1>1, <1>5 DEF Repush, tables
  <2>2. \A h \in Handlers : Revoking(threads[h])'
    BY <2>1, IdleRevoking DEF Quiet
  <2>3. tunnels[n].status # "absent"
    BY <2>1 DEF RunningRow
  <2> QED
    BY <1>3, <2>1, <2>2, <2>3 DEF Shut, Closed, Marking
<1>6. ASSUME NEW n \in Pairings, Meddle(n)
      PROVE  Shut'
  <2>1. /\ UNCHANGED <<nodes, threads>> /\ tunnels[n].status # "absent"
        /\ live'[n] = NoKey /\ (tunnels'[n] = NoTunnel \/ tunnels'[n].status = "stopped")
        /\ \A m \in Pairings \ {n} : live'[m] = live[m] /\ tunnels'[m] = tunnels[m]
    BY <1>1, <1>6 DEF Meddle, Tunnel
  <2>2. ASSUME NEW h \in Handlers
        PROVE  Revoking(threads[h])'
    <3> DEFINE t == threads[h]
    <3>1. Revoking(t) /\ t' = t /\ (t.id = NoKey \/ t.id \in Pairings)
      BY <1>1, <2>1 DEF Shut, Thread
    <3>2. t.op = "revoke" /\ t.pc \in {"drop tunnel", "save"} => t.id \in Pairings
      BY <3>1 DEF ShapeInv, Shape, Unplaced
    <3> HIDE DEF t
    <3>3. Revoking(t)'
      BY <1>3, <2>1, <3>1, <3>2 DEF Revoking, Issues
    <3> QED
      BY <3>3 DEF t
  <2> QED
    BY <1>3, <2>1, <2>2 DEF Shut, Closed, Marking
<1>7. CASE Disable
  <2>1. UNCHANGED <<nodes, tunnels, threads>> /\ \A n \in Pairings : live'[n] = NoKey
    BY <1>7 DEF Disable, tables
  <2>2. ASSUME NEW h \in Handlers
        PROVE  Revoking(threads[h])'
    <3> DEFINE t == threads[h]
    <3>1. Revoking(t) /\ t' = t /\ (t.id = NoKey \/ t.id \in Pairings)
      BY <1>1, <2>1 DEF Shut, Thread
    <3>2. t.op = "revoke" /\ t.pc \in {"drop tunnel", "save"} => t.id \in Pairings
      BY <3>1 DEF ShapeInv, Shape, Unplaced
    <3> HIDE DEF t
    <3>3. Revoking(t)'
      BY <2>1, <3>1, <3>2 DEF Revoking, Issues
    <3> QED
      BY <3>3 DEF t
  <2> QED
    BY <2>1, <2>2 DEF Shut, Closed, Marking
<1>8. CASE Restart \/ Crash
  <2>1. UNCHANGED <<nodes, tunnels>> /\ \A h \in Handlers : threads'[h] = Idle
    BY <1>8 DEF Restart, Crash, Quiet, tables
  <2>2. \A n \in Pairings : ~RunningRow(tunnels[n]) => live'[n] = NoKey
    BY <1>8 DEF Restart, Crash, Boot
  <2>3. \A n \in Pairings : tunnels[n].status = "absent" => ~RunningRow(tunnels[n])
    BY DEF RunningRow
  <2>4. \A h \in Handlers : Revoking(threads[h])'
    BY <2>1, IdleRevoking
  <2> QED
    BY <1>3, <2>1, <2>2, <2>3, <2>4 DEF Shut, Closed
<1> QED
  BY <1>4, <1>5, <1>6, <1>7, <1>8 DEF Outside, Reconcile, ListNodes, Visit, Lapse, tables

LEMMA ShutStep == ShapeInv /\ AloneInv /\ ShutInv /\ [Next]_vars => ShutInv'
<1> SUFFICES ASSUME ShapeInv, AloneInv, ShutInv, [Next]_vars, ~overlapped', faults' = 0
             PROVE  Shut'
  BY DEF ShutInv
<1>1. ~overlapped /\ faults = 0 /\ ~Fails /\ Alone /\ Shut
  BY CountsGrow DEF AloneInv, ShutInv
<1>2. CASE UNCHANGED vars
  BY <1>1, <1>2 DEF vars, tables, Shut, Revoking, Issues, Closed, Marking
<1> QED
  BY <1>1, <1>2, ShutBegin, ShutProceed, ShutOutside, NextIs

LEMMA ShutInit == Init => ShutInv
BY IdleRevoking DEF Init, ShutInv, Shut, NoNode, NoTunnel

-----------------------------------------------------------------------------
(***************************************************************************)
(* What an invitation opens, when nothing has gone wrong: rows and proxy   *)
(* have its key, or an operation is at work that takes it back.            *)
(***************************************************************************)
Tuned(n, k) == tunnels[n].sk = k /\ RunningRow(tunnels[n])

Marked(node, k) ==
  /\ node.jti = k /\ node.expiry = k /\ node.status \notin {"unborn", "gone", "revoked"}
  /\ node.status = "expired" => k \in lapsed

Stands(n, k) == Tuned(n, k) /\ live[n] = k /\ Marked(nodes[n], k)

TakesBack(t, n) == t.op \in {"refresh", "revoke token", "revoke"} /\ t.id = n

Hands(t) == t.op \in {"create", "refresh"} /\ t.pc # "idle"

\* Its row has been written for the last time.
Filed(t) == \/ Hands(t) /\ t.pc = "answer"
            \/ t.op = "create" /\ t.pc \in {"push", "mark"}

Opening(t) ==
  /\ Issues(t) => RunningRow(t.tunnel)
  /\ Hands(t) => Marked(t.node, t.key) /\ t.tunnel.sk = t.key
  /\ t.pc # "idle" => t.node.status # "unborn"
  /\ t.op \in {"create", "accept"} => \A i \in invitations : i.id # t.id
  /\ Hands(t) /\ t.pc \in {"link", "unserve", "push", "mark", "save", "answer"} =>
       Tuned(t.id, t.key)
  /\ Hands(t) /\ t.pc \in {"mark", "save", "answer"} => live[t.id] = t.key
  /\ Filed(t) => Marked(nodes[t.id], t.key)
  /\ t.op = "exchange" =>
       \A i \in invitations : i.id = t.id /\ i.key \notin voided => Marked(t.node, i.key)

Open ==
  /\ enabled
  /\ \A n \in Pairings : tunnels[n].status = "absent" \/ RunningRow(tunnels[n])
  /\ \A i \in invitations : nodes[i.id].status # "unborn"
  /\ \A i \in invitations : i.key \notin voided =>
       Stands(i.id, i.key) \/ \E h \in Handlers : TakesBack(threads[h], i.id)
  /\ \A h \in Handlers : Opening(threads[h])

OpenInv == ~overlapped /\ faults = 0 /\ mishaps = 0 => Open
\* An idle handler has nothing under way.
LEMMA IdleOpening ==
  ASSUME invitations \subseteq [id : Pairings, key : Keys] PROVE Opening(Idle)
<1>1. \A i \in invitations : i.id # NoKey
  BY IdsAssumption DEF NoKey
<1> QED
  BY <1>1, IdleIs DEF Opening, Hands, Filed

LEMMA OpenBegin ==
  ASSUME ShapeInv, Open, NEW h \in Handlers, Begin(h), ~overlapped'
  PROVE  Open'
<1>1. PICK u \in Thread : Enter(h, u) /\ Started(u)
  BY Begins
<1>2. /\ UNCHANGED <<nodes, tunnels, live, enabled, lapsed, invitations, voided>> /\ Quiet
      /\ threads'[h] = u /\ \A g \in Handlers \ {h} : threads'[g] = Idle
  BY <1>1, BeginAlone
<1>3. /\ nodes \in [Pairings -> Node] /\ tunnels \in [Pairings -> Tunnel]
      /\ invitations \subseteq [id : Pairings, key : Keys]
      /\ \A i \in invitations : i.id \in Pairings /\ i.id # NoKey
      /\ u.op \in Ops /\ u.pc \in Places(u.op) /\ u.pc # "idle" /\ Reads(u)
      /\ u.id \in Pairings \/ Unplaced(u)
  BY <1>1, IdsAssumption DEF ShapeInv, TypeOK, Started, Thread, NoKey
<1>4. \A i \in invitations : i.key \notin voided => Stands(i.id, i.key)
  BY <1>2, IdleIs DEF Open, Quiet, TakesBack
<1>5. Opening(u)
  <2>1. CASE u.op \in {"create", "accept"}
    <3>1. /\ u.pc \in {"add node", "find endpoint"} /\ u.id = NoKey
          /\ u.op = "create" => u.node.jti = u.key /\ u.node.expiry = u.key
          /\ u.node.status \in {"pending", "active"}
          /\ u.tunnel.status = "pending" /\ u.tunnel.sk = u.key
      BY <1>1, <1>3, <2>1, NewNode, NewTunnel DEF Started, Reads, Unplaced
    <3> QED
      BY ZenonT(40), <1>3, <2>1, <3>1 DEF Opening, Hands, Filed, Marked, RunningRow
  <2>2. CASE u.op = "refresh"
    <3>1. /\ u.pc = "retune" /\ u.id \in Pairings
          /\ u.node.jti = u.key /\ u.node.expiry = u.key /\ u.node.status = "pending"
      BY <1>3, <2>2 DEF Reads, Unplaced, Node
    <3>2. u.tunnel.sk = u.key /\ RunningRow(u.tunnel)
      <4>1. /\ tunnels[u.id].status # "absent"
            /\ u.tunnel = [tunnels[u.id] EXCEPT !.sk = u.key]
        BY <1>3, <2>2 DEF Reads, Refreshable
      <4> QED
        BY <1>3, <3>1, <4>1 DEF Open, RunningRow, Tunnel
    <3> QED
      BY <2>2, <3>1, <3>2 DEF Opening, Hands, Filed, Marked
  <2>3. CASE u.op = "revoke token"
    <3>1. u.node.status # "unborn"
      BY <1>3, <2>3 DEF Reads, HasToken, IsRow, Unplaced, Node
    <3> QED
      BY <2>3, <3>1 DEF Opening, Hands, Filed, Issues
  <2>4. CASE u.op = "revoke"
    <3>1. u.node.status # "unborn"
      BY <1>3, <2>4 DEF Reads, Unplaced, Node
    <3> QED
      BY <2>4, <3>1 DEF Opening, Hands, Filed, Issues
  <2>5. CASE u.op = "exchange"
    <3>1. /\ u.node.status = "active" /\ u.id \in Pairings
          /\ u.node.jti = nodes[u.id].jti /\ u.node.expiry = nodes[u.id].expiry
      BY <1>3, <2>5 DEF Reads, Unplaced, Node
    <3>2. \A i \in invitations : i.id = u.id /\ i.key \notin voided => Marked(u.node, i.key)
      BY <1>4, <3>1 DEF Stands, Marked
    <3> QED
      BY <2>5, <3>1, <3>2 DEF Opening, Hands, Filed, Issues
  <2> QED
    BY <1>3, <2>1, <2>2, <2>3, <2>4, <2>5 DEF Ops
<1>6. \A g \in Handlers : threads'[g] = u \/ threads'[g] = Idle
  BY <1>2
<1>7. ASSUME NEW g \in Handlers
      PROVE  Opening(threads[g])'
  BY <1>2, <1>3, <1>5, <1>6, IdleOpening DEF Opening, Hands, Filed, Marked, Tuned, Issues
<1> QED
  BY <1>2, <1>4, <1>7 DEF Open, Stands, Tuned, Marked

LEMMA OpenProceed ==
  ASSUME ShapeInv, Alone, Shut, Open, NEW h \in Handlers, Proceed(h), ~Fails
  PROVE  Open'
<1> DEFINE t == threads[h]
<1>1. /\ t \in Thread /\ Shape(t) /\ Revoking(t) /\ Opening(t) /\ t.pc # "idle"
      /\ \A g \in Handlers \ {h} : threads[g] = Idle /\ threads'[g] = Idle
      /\ nodes \in [Pairings -> Node] /\ tunnels \in [Pairings -> Tunnel]
      /\ live \in [Pairings -> Keys \cup {NoKey}]
      /\ UNCHANGED <<enabled, lapsed>> /\ enabled
  BY ProceedAlone DEF Shut, Open, ShapeInv, TypeOK
<1>2. /\ \A i \in invitations : i.id \in Pairings /\ i.id # NoKey
      /\ invitations \subseteq [id : Pairings, key : Keys]
      /\ invitations' \subseteq [id : Pairings, key : Keys]
  BY ProceedType, IdsAssumption DEF ShapeInv, TypeOK, NoKey
<1>3. /\ \A n \in Pairings : tunnels[n].status = "absent" \/ RunningRow(tunnels[n])
      /\ \A i \in invitations : nodes[i.id].status # "unborn"
      /\ \A i \in invitations : i.key \notin voided =>
           Stands(i.id, i.key) \/ TakesBack(t, i.id)
  BY <1>1, IdleIs DEF Open, TakesBack
<1>4. ASSUME \A n \in Pairings : tunnels'[n].status = "absent" \/ RunningRow(tunnels'[n]),
             \A i \in invitations' : nodes'[i.id].status # "unborn",
             \A i \in invitations' : i.key \notin voided' =>
               Stands(i.id, i.key)' \/ TakesBack(t', i.id),
             Opening(t)'
      PROVE  Open'
  <2>1. Opening(Idle)'
    BY <1>2, IdsAssumption, IdleIs DEF Opening, Hands, Filed, NoKey
  <2>2. ASSUME NEW g \in Handlers
        PROVE  Opening(threads[g])'
    BY <1>1, <1>4, <2>1 DEF Opening, Hands, Filed, Issues, Marked, Tuned
  <2> QED
    BY <1>1, <1>4, <2>2 DEF Open, TakesBack
\* A row is written of a pairing that nobody has an invitation for, or that is
\* being taken back.
<1>5. ASSUME NEW n \in Pairings, UNCHANGED <<invitations, voided>>, Opening(t)',
             \A m \in Pairings \ {n} :
               nodes'[m] = nodes[m] /\ tunnels'[m] = tunnels[m] /\ live'[m] = live[m],
             tunnels'[n].status = "absent" \/ RunningRow(tunnels'[n]),
             nodes'[n].status # "unborn" \/ nodes'[n] = nodes[n],
             \/ TakesBack(t, n) /\ TakesBack(t', n)
             \/ t.op \in {"create", "accept"} /\ \A i \in invitations : i.id # n
      PROVE  Open'
  <2>1. \A m \in Pairings : tunnels'[m].status = "absent" \/ RunningRow(tunnels'[m])
    BY <1>3, <1>5
  <2>2. \A i \in invitations' : nodes'[i.id].status # "unborn"
    BY <1>2, <1>3, <1>5
  <2>3. ASSUME NEW i \in invitations', i.key \notin voided'
        PROVE  Stands(i.id, i.key)' \/ TakesBack(t', i.id)
    <3>1. CASE i.id = n
      BY <1>5, <3>1
    <3>2. CASE i.id # n
      <4>1. ~TakesBack(t, i.id)
        BY <1>5, <3>2 DEF TakesBack
      <4> QED
        BY <1>1, <1>2, <1>3, <1>5, <2>3, <3>2, <4>1 DEF Stands, Tuned, Marked
    <3> QED
      BY <3>1, <3>2
  <2> QED
    BY <1>4, <1>5, <2>1, <2>2, <2>3
\* An operation is done, and the invitations that are left stand.
<1>6. ASSUME Ends(h), UNCHANGED <<tunnels, live>>,
             \A i \in invitations' : nodes'[i.id].status # "unborn",
             \A i \in invitations' : i.key \notin voided' => Stands(i.id, i.key)'
      PROVE  Open'
  <2>1. Opening(t)'
    BY <1>2, <1>6, IdsAssumption, IdleIs DEF Ends, Opening, Hands, Filed, NoKey
  <2> QED
    BY <1>3, <1>4, <1>6, <2>1
<1>7. ASSUME NEW pc, pc # "idle", GoesTo(h, pc), UNCHANGED <<invitations, voided>>,
             Hands(t) /\ pc \in {"link", "unserve", "push", "mark", "save", "answer"} =>
               tunnels'[t.id].sk = t.key /\ RunningRow(tunnels'[t.id]),
             Hands(t) /\ pc \in {"mark", "save", "answer"} => live'[t.id] = t.key,
             Hands(t) /\ (pc = "answer" \/ (t.op = "create" /\ pc \in {"push", "mark"})) =>
               Marked(nodes'[t.id], t.key)
      PROVE  Opening(t)'
  <2>1. /\ t'.pc = pc /\ t'.op = t.op /\ t'.id = t.id /\ t'.key = t.key
        /\ t'.node = t.node /\ t'.tunnel = t.tunnel
    BY <1>7 DEF GoesTo, Same
  <2> HIDE DEF t
  <2> QED
    BY <1>1, <1>7, <2>1 DEF Opening, Hands, Filed, Issues, Marked, Tuned
<1>8. /\ t.op \in {"create", "accept"} => \A i \in invitations : i.id # t.id
      /\ Issues(t) => RunningRow(t.tunnel)
      /\ Hands(t) => Marked(t.node, t.key) /\ t.tunnel.sk = t.key
      /\ t.node.status # "unborn"
      /\ Hands(t) <=> t.op \in {"create", "refresh"}
      /\ Issues(t) <=> t.op \in {"create", "refresh", "accept"}
  BY <1>1 DEF Opening, Hands, Issues
\* What a thread that hands out an invitation has already done.
<1>9. /\ Hands(t) /\ t.pc \in {"link", "unserve", "push", "mark", "save", "answer"} =>
           tunnels[t.id].sk = t.key /\ RunningRow(tunnels[t.id])
      /\ Hands(t) /\ t.pc \in {"mark", "save", "answer"} => live[t.id] = t.key
      /\ Hands(t) /\ (t.pc = "answer" \/ (t.op = "create" /\ t.pc \in {"push", "mark"})) =>
           Marked(nodes[t.id], t.key)
  BY <1>1 DEF Opening, Filed, Tuned, Hands
<1>10. CASE FindEndpoint(h) \/ AddEndpoint(h) \/ AllocatePort(h)
  <2>1. t.op = "accept" /\ UNCHANGED <<nodes, tunnels, live, invitations, voided>>
    BY <1>10, SearchDoes
  <2>2. ASSUME t'.op = "accept", t'.id = NoKey, t'.tunnel = t.tunnel,
               t'.node.status = t.node.status
        PROVE  Opening(t)'
    <3> HIDE DEF t
    <3> QED
      BY <1>1, <1>2, <1>8, <2>1, <2>2 DEF Opening, Hands, Filed, Issues
  <2>3. \A i \in invitations : i.key \notin voided => Stands(i.id, i.key)'
    BY SMTT(30), <1>1, <1>3, <2>1 DEF TakesBack, Stands, Tuned, Marked
  <2> QED
    BY <1>3, <1>4, <1>6, <1>10, <2>1, <2>2, <2>3, SearchDoes
<1>11. CASE AddNode(h)
  <2>1. CASE t.op = "create" /\ nodes' = [nodes EXCEPT ![NextId] = t.node]
             /\ t' = [t EXCEPT !.id = NextId, !.pc = "sign"]
    <3>1. /\ t'.op = "create" /\ t'.pc = "sign" /\ t'.node = t.node /\ t'.id = NextId
          /\ t'.tunnel = t.tunnel /\ t'.key = t.key /\ t.pc = "add node"
          /\ UNCHANGED <<tunnels, live, invitations, voided>>
      BY <1>1, <1>11, <2>1, AddNodeDoes DEF Thread
    <3>2. /\ NextId \in Pairings /\ nodes[NextId].status = "unborn"
          /\ \A i \in invitations : i.id # NextId
      BY <1>3, <2>1, <3>1, NextIdIs DEF Unplaced
    <3>3. Opening(t)'
      <4> HIDE DEF t
      <4>1. Marked(t.node, t.key)'
        <5>1. Marked(t.node, t.key)
          BY <1>8, <2>1
        <5>2. t'.node = t.node /\ t'.key = t.key /\ lapsed' = lapsed
          BY <1>1, <3>1
        <5> QED
          BY <5>1, <5>2 DEF Marked
      <4>2. t'.tunnel.sk = t'.key /\ RunningRow(t.tunnel)' /\ t'.node.status # "unborn"
        BY <1>8, <2>1, <3>1 DEF RunningRow
      <4> QED
        BY <3>1, <3>2, <4>1, <4>2 DEF Opening, Hands, Filed, Issues
    <3>4. /\ nodes'[NextId] = t.node
          /\ \A m \in Pairings \ {NextId} : nodes'[m] = nodes[m]
      BY <1>1, <2>1, <3>2
    <3>5. /\ \A m \in Pairings : tunnels'[m] = tunnels[m] /\ live'[m] = live[m]
          /\ tunnels'[NextId].status = "absent" \/ RunningRow(tunnels'[NextId])
          /\ nodes'[NextId].status # "unborn"
      BY <1>3, <1>8, <3>1, <3>2, <3>4
    <3>6. t.op \in {"create", "accept"} /\ \A i \in invitations : i.id # NextId
      BY <2>1, <3>2
    <3> HIDE DEF t
    <3> QED
      BY <1>5, <3>1, <3>2, <3>3, <3>4, <3>5, <3>6
  <2>2. CASE t.op = "accept" /\ t.id \in Pairings
             /\ nodes' = [nodes EXCEPT ![t.id] = t.node] /\ GoesTo(h, "push")
    <3>1. nodes'[t.id] = t.node /\ \A m \in Pairings \ {t.id} : nodes'[m] = nodes[m]
      BY SMTT(30), <1>1, <2>2
    <3>2. UNCHANGED <<tunnels, live, invitations, voided>>
      BY <1>11, AddNodeDoes
    <3>3. Opening(t)'
      BY SMTT(30), <1>7, <1>8, <2>2, <3>2
    <3> QED
      BY <1>3, <1>5, <1>8, <2>2, <3>1, <3>2, <3>3
  <2> QED
    BY <1>11, <2>1, <2>2, AddNodeDoes
<1>12. CASE AddTunnel(h)
  <2>1. CASE t.op = "accept" /\ tunnels' = [tunnels EXCEPT ![NextId] = t.tunnel]
             /\ t' = [t EXCEPT !.id = NextId, !.pc = "add node"]
    <3>1. /\ t'.op = "accept" /\ t'.pc = "add node" /\ t'.node = t.node /\ t'.id = NextId
          /\ t'.tunnel = t.tunnel /\ t'.key = t.key /\ t.pc = "add tunnel"
          /\ UNCHANGED <<nodes, live, invitations, voided>>
      BY <1>1, <1>12, <2>1, AddTunnelDoes DEF Thread
    <3>2. /\ NextId \in Pairings /\ nodes[NextId].status = "unborn"
          /\ \A i \in invitations : i.id # NextId
      BY <1>3, <2>1, <3>1, NextIdIs DEF Unplaced
    <3>3. Opening(t)'
      <4> HIDE DEF t
      <4> QED
        BY <1>1, <1>8, <2>1, <3>1, <3>2 DEF Opening, Hands, Filed, Issues
    <3>4. /\ tunnels'[NextId] = t.tunnel
          /\ \A m \in Pairings \ {NextId} : tunnels'[m] = tunnels[m]
      BY <1>1, <2>1, <3>2
    <3> QED
      BY <1>5, <1>8, <2>1, <3>1, <3>2, <3>3, <3>4
  <2>2. CASE t.op = "create" /\ t.id \in Pairings
             /\ tunnels' = [tunnels EXCEPT ![t.id] = t.tunnel] /\ GoesTo(h, "link")
    <3>1. tunnels'[t.id] = t.tunnel /\ \A m \in Pairings \ {t.id} : tunnels'[m] = tunnels[m]
      BY <1>1, <2>2
    <3>2. UNCHANGED <<nodes, live, invitations, voided>>
      BY <1>12, AddTunnelDoes
    <3>3. Opening(t)'
      BY <1>7, <1>8, <2>2, <3>1, <3>2
    <3> QED
      BY <1>5, <1>8, <2>2, <3>1, <3>2, <3>3
  <2> QED
    BY <1>12, <2>1, <2>2, AddTunnelDoes
<1>13. CASE Sign(h)
  <2>1. /\ t.op = "create" /\ t.pc = "sign" /\ t.id \in Pairings
        /\ UNCHANGED <<tunnels, live, invitations, voided>>
        /\ nodes' = [nodes EXCEPT ![t.id] = t.node] /\ GoesTo(h, "add tunnel")
    BY <1>13, SignDoes
  <2>2. nodes'[t.id] = t.node /\ \A m \in Pairings \ {t.id} : nodes'[m] = nodes[m]
    BY <1>1, <2>1
  <2>3. Opening(t)'
    BY <1>7, <2>1
  <2> QED
    BY <1>3, <1>5, <1>8, <2>1, <2>2, <2>3
<1>14. CASE Link(h)
  <2> DEFINE linked == [t.node EXCEPT !.linked = TRUE]
  <2>1. /\ t.op = "create" /\ t.pc = "link" /\ t.id \in Pairings
        /\ UNCHANGED <<tunnels, live, invitations, voided>>
        /\ nodes' = [nodes EXCEPT ![t.id] = linked]
        /\ t' = [t EXCEPT !.pc = "push", !.node.linked = TRUE]
    BY <1>14, LinkDoes
  <2>2. /\ linked.status = t.node.status /\ linked.jti = t.node.jti
        /\ linked.expiry = t.node.expiry
    BY <1>1 DEF Thread, Node
  <2>3. nodes'[t.id] = linked /\ \A m \in Pairings \ {t.id} : nodes'[m] = nodes[m]
    BY <1>1, <2>1
  <2>4. /\ t'.op = "create" /\ t'.pc = "push" /\ t'.id = t.id /\ t'.key = t.key
        /\ t'.tunnel = t.tunnel /\ t'.node = linked
    BY <1>1, <2>1 DEF Thread, Node
  <2>5. Marked(linked, t.key)
    BY <1>8, <2>1, <2>2 DEF Marked
  <2>6. Opening(t)'
    <3> HIDE DEF t, linked
    <3>1. Marked(t.node, t.key)' /\ Marked(nodes[t.id], t.key)'
      BY <1>1, <2>3, <2>4, <2>5 DEF Marked
    <3>2. t'.tunnel.sk = t'.key /\ RunningRow(t.tunnel)' /\ t'.node.status # "unborn"
      BY <1>8, <2>1, <2>2, <2>4 DEF RunningRow
    <3>3. Tuned(t.id, t.key)'
      BY <1>8, <1>9, <2>1, <2>4 DEF Tuned
    <3> QED
      BY <1>8, <2>1, <2>4, <3>1, <3>2, <3>3 DEF Opening, Hands, Filed, Issues
  <2> HIDE DEF linked
  <2> QED
    BY <1>3, <1>5, <1>8, <2>1, <2>2, <2>3, <2>6
<1>15. CASE Retune(h)
  <2>1. /\ t.op = "refresh" /\ t.pc = "retune" /\ t.id \in Pairings
        /\ UNCHANGED <<nodes, live, invitations, voided>>
        /\ tunnels' = [tunnels EXCEPT ![t.id] = t.tunnel] /\ GoesTo(h, "unserve")
    BY <1>1, <1>15, RetuneDoes
  <2>2. tunnels'[t.id] = t.tunnel /\ \A m \in Pairings \ {t.id} : tunnels'[m] = tunnels[m]
    BY <1>1, <2>1
  <2>3. Opening(t)'
    BY <1>7, <1>8, <2>1, <2>2
  <2>4. TakesBack(t, t.id) /\ TakesBack(t', t.id)
    BY <2>1 DEF TakesBack, GoesTo, Same
  <2> QED
    BY <1>5, <1>8, <2>1, <2>2, <2>3, <2>4
<1>16. CASE Unserve(h)
  <2>1. /\ t.op \in {"refresh", "revoke"} /\ t.pc = "unserve" /\ t.id \in Pairings
        /\ UNCHANGED <<nodes, tunnels, invitations, voided>>
        /\ live' = [live EXCEPT ![t.id] = NoKey]
        /\ \/ t.op = "refresh" /\ GoesTo(h, "push")
           \/ t.op = "revoke" /\ GoesTo(h, "drop tunnel")
    BY <1>16, UnserveDoes
  <2>2. \A m \in Pairings \ {t.id} : live'[m] = live[m]
    BY <1>1, <2>1
  <2>3. Opening(t)'
    BY <1>7, <1>8, <1>9, <2>1
  <2>4. TakesBack(t, t.id) /\ TakesBack(t', t.id)
    BY <2>1 DEF TakesBack, GoesTo, Same
  <2> QED
    BY ZenonT(40), <1>3, <1>5, <2>1, <2>2, <2>3, <2>4
<1>17. CASE Push(h)
  <2>1. /\ t.op \in {"create", "accept", "refresh"} /\ t.pc = "push" /\ t.id \in Pairings
        /\ UNCHANGED <<nodes, tunnels, invitations, voided>>
        /\ live' = [live EXCEPT ![t.id] = t.key]
        /\ t' = [t EXCEPT !.pc = "mark", !.tunnel.status = "active"]
    BY <1>1, <1>17, PushDoes
  <2>2. live'[t.id] = t.key /\ \A m \in Pairings \ {t.id} : live'[m] = live[m]
    BY <1>1, <2>1
  <2>3. /\ t'.op = t.op /\ t'.pc = "mark" /\ t'.id = t.id /\ t'.node = t.node
        /\ t'.key = t.key /\ t'.tunnel.status = "active" /\ t'.tunnel.sk = t.tunnel.sk
    BY <1>1, <2>1 DEF Thread, Tunnel
  <2>4. Opening(t)'
    <3> HIDE DEF t
    <3> QED
      BY <1>1, <1>8, <1>9, <2>1, <2>2, <2>3
         DEF Opening, Hands, Filed, Issues, Marked, Tuned, RunningRow
  <2>5. t.op = "refresh" => TakesBack(t, t.id) /\ TakesBack(t', t.id)
    BY <2>3 DEF TakesBack
  <2> QED
    BY <1>3, <1>5, <1>8, <2>1, <2>2, <2>4, <2>5
<1>18. CASE Mark(h)
  <2>1. /\ t.op \in {"create", "accept", "refresh"} /\ t.pc = "mark" /\ t.id \in Pairings
        /\ UNCHANGED <<nodes, live, invitations, voided>>
        /\ tunnels' = [tunnels EXCEPT ![t.id] = t.tunnel]
        /\ GoesTo(h, IF t.op = "refresh" THEN "save" ELSE "answer")
    BY <1>18, MarkDoes
  <2>2. tunnels'[t.id] = t.tunnel /\ \A m \in Pairings \ {t.id} : tunnels'[m] = tunnels[m]
    BY <1>1, <2>1
  <2>3. Opening(t)'
    BY <1>7, <1>8, <1>9, <2>1, <2>2
  <2>4. t.op = "refresh" => TakesBack(t, t.id) /\ TakesBack(t', t.id)
    BY <2>1 DEF TakesBack, GoesTo, Same
  <2> QED
    BY <1>5, <1>8, <2>1, <2>2, <2>3, <2>4
<1>19. CASE Save(h)
  <2>1. /\ t.op \in {"refresh", "revoke token", "revoke", "exchange"} /\ t.pc = "save"
        /\ t.id \in Pairings /\ UNCHANGED <<tunnels, live, invitations>>
        /\ nodes' = [nodes EXCEPT ![t.id] = t.node]
        /\ IF t.op = "refresh" THEN GoesTo(h, "answer") ELSE Ends(h)
        /\ voided' = IF t.op \in {"revoke token", "revoke"}
                     THEN voided \cup KeysOf(t.id) ELSE voided
    BY <1>19, SaveDoes
  <2>2. nodes'[t.id] = t.node /\ \A m \in Pairings \ {t.id} : nodes'[m] = nodes[m]
    BY <1>1, <2>1
  <2>3. \A i \in invitations' : nodes'[i.id].status # "unborn"
    BY <1>2, <1>3, <1>8, <2>1, <2>2
  <2>4. CASE t.op = "refresh"
    <3>1. Opening(t)'
      BY <1>7, <1>8, <1>9, <2>1, <2>2, <2>4
    <3>2. TakesBack(t, t.id) /\ TakesBack(t', t.id)
      BY <2>1, <2>4 DEF TakesBack, GoesTo, Same
    <3> QED
      BY <1>3, <1>5, <1>8, <2>1, <2>2, <2>4, <3>1, <3>2
  <2>5. CASE t.op \in {"revoke token", "revoke"}
    <3>1. ASSUME NEW i \in invitations', i.key \notin voided'
          PROVE  Stands(i.id, i.key)'
      <4>1. i.id # t.id /\ i.key \notin voided
        BY <2>1, <2>5, <3>1 DEF KeysOf
      <4> QED
        BY <1>1, <1>2, <1>3, <2>1, <2>2, <3>1, <4>1 DEF Stands, TakesBack, Tuned, Marked
    <3> QED
      BY <1>6, <2>1, <2>3, <2>5, <3>1
  <2>6. CASE t.op = "exchange"
    <3>1. ASSUME NEW i \in invitations', i.key \notin voided'
          PROVE  Stands(i.id, i.key)'
      <4>1. i \in invitations /\ i.key \notin voided /\ Stands(i.id, i.key)
        BY <1>3, <2>1, <2>6, <3>1 DEF TakesBack
      <4>2. i.id = t.id => Marked(t.node, i.key)
        BY <1>1, <2>6, <4>1 DEF Opening
      <4> QED
        BY <1>1, <1>2, <2>1, <2>2, <4>1, <4>2 DEF Stands, Tuned, Marked
    <3> QED
      BY <1>6, <2>1, <2>3, <2>6, <3>1
  <2> QED
    BY <2>1, <2>4, <2>5, <2>6
<1>20. CASE DropTunnel(h)
  <2>1. /\ t.pc = "drop tunnel" /\ t.id \in Pairings
        /\ UNCHANGED <<nodes, live, invitations, voided>>
        /\ tunnels' = [tunnels EXCEPT ![t.id] = NoTunnel]
        /\ t.op = "revoke" /\ GoesTo(h, "save")
    BY <1>1, <1>20, DropTunnelDoes DEF Revoking
  <2>2. /\ tunnels'[t.id].status = "absent"
        /\ \A m \in Pairings \ {t.id} : tunnels'[m] = tunnels[m]
    BY <1>1, <2>1 DEF NoTunnel
  <2>3. Opening(t)'
    BY <1>7, <1>8, <2>1
  <2>4. TakesBack(t, t.id) /\ TakesBack(t', t.id)
    BY <2>1 DEF TakesBack, GoesTo, Same
  <2> QED
    BY <1>5, <2>1, <2>2, <2>3, <2>4
<1>21. CASE DropNode(h)
  BY <1>1, <1>21, DropNodeDoes DEF Revoking
<1>22. CASE Answer(h)
  <2>1. /\ t.op \in {"create", "accept", "refresh"} /\ t.pc = "answer" /\ t.id \in Pairings
        /\ UNCHANGED <<nodes, tunnels, live>> /\ Ends(h)
    BY <1>22, AnswerDoes
  <2>2. CASE t.op = "accept"
    <3>1. UNCHANGED <<invitations, voided>>
      BY <1>22, <2>2, AnswerDoes
    <3>2. \A i \in invitations : i.key \notin voided => Stands(i.id, i.key)'
      BY <1>1, <1>3, <2>1, <2>2 DEF TakesBack, Stands, Tuned, Marked
    <3> QED
      BY <1>3, <1>6, <2>1, <3>1, <3>2
  <2>3. CASE t.op # "accept"
    <3> DEFINE new == [id |-> t.id, key |-> t.key]
    <3>1. voided' = voided \cup KeysOf(t.id) /\ invitations' = invitations \cup {new}
      BY <1>22, <2>3, AnswerDoes
    <3>2. Stands(t.id, t.key)
      BY <1>8, <1>9, <2>1, <2>3 DEF Stands, Tuned
    <3>3. ASSUME NEW i \in invitations', i.key \notin voided'
          PROVE  Stands(i.id, i.key)
      <4>1. CASE i \in invitations
        <5>1. i.id # t.id /\ i.key \notin voided
          BY <3>1, <3>3, <4>1 DEF KeysOf
        <5> QED
          BY <1>3, <4>1, <5>1 DEF TakesBack
      <4>2. CASE i = new
        BY <3>2, <4>2
      <4> QED
        BY <3>1, <4>1, <4>2
    <3>4. \A i \in invitations' : nodes'[i.id].status # "unborn"
      <4>1. nodes[t.id].status # "unborn"
        BY <3>2 DEF Stands, Marked
      <4> QED
        BY <1>3, <2>1, <3>1, <4>1
    <3>5. \A i \in invitations' : i.key \notin voided' => Stands(i.id, i.key)'
      BY <1>1, <2>1, <3>3 DEF Stands, Tuned, Marked
    <3> QED
      BY <1>6, <2>1, <3>4, <3>5
  <2> QED
    BY <2>2, <2>3
<1> QED
  BY <1>10, <1>11, <1>12, <1>13, <1>14, <1>15, <1>16, <1>17, <1>18, <1>19, <1>20, <1>21,
     <1>22 DEF Proceed

LEMMA OpenOutside ==
  ASSUME ShapeInv, Alone, Open, Outside, ~overlapped', ~Fails, ~Mishap
  PROVE  Open'
<1>1. /\ UNCHANGED <<tunnels, enabled, invitations, voided, threads>>
      /\ lapsed \subseteq lapsed' /\ enabled
      /\ tunnels \in [Pairings -> Tunnel] /\ live \in [Pairings -> Keys \cup {NoKey}]
      /\ \A i \in invitations : i.id \in Pairings
  BY DEF Outside, Reconcile, ListNodes, Visit, Repush, Meddle, Lapse, Disable, Restart, Crash,
     history, tables, Open, ShapeInv, TypeOK
<1>2. \A n \in Pairings : Demoted(nodes[n], nodes'[n])
  BY OutsideNodes
<1>3. \A i \in invitations : nodes'[i.id].status # "unborn"
  BY <1>1, <1>2 DEF Open, Demoted
\* What was marked stays so, and a proxy that is pushed again has the key of its row.
<1>4. ASSUME NEW n \in Pairings, NEW k, Stands(n, k)
      PROVE  Stands(n, k)'
  <2>1. Marked(nodes[n], k)'
    BY <1>1, <1>2, <1>4 DEF Stands, Marked, Demoted
  <2>2. live'[n] = k
    <3>1. live[n] = k /\ tunnels[n].sk = k /\ RunningRow(tunnels[n])
      BY <1>4 DEF Stands, Tuned
    <3>2. CASE UNCHANGED live
      BY <3>1, <3>2
    <3>3. ASSUME NEW m \in Pairings, Repush(m)
          PROVE  live'[n] = k
      BY <1>1, <3>1, <3>3 DEF Repush
    <3>4. CASE Restart
      BY <1>1, <3>1, <3>4 DEF Restart, Boot
    <3> QED
      BY <3>2, <3>3, <3>4
         DEF Outside, Reconcile, ListNodes, Visit, Meddle, Lapse, Disable, Crash
  <2> QED
    BY <1>1, <1>4, <2>1, <2>2 DEF Stands, Tuned
<1>5. ASSUME NEW h \in Handlers
      PROVE  Opening(threads[h])'
  <2>1. CASE Quiet
    <3>1. threads'[h] = Idle
      BY <1>1, <2>1 DEF Quiet
    <3>2. \A i \in invitations' : i.id # NoKey
      BY <1>1, IdsAssumption DEF NoKey
    <3> QED
      BY <3>1, <3>2, IdleIs DEF Opening, Hands, Filed
  <2>2. CASE ~Quiet
    <3> DEFINE t == threads[h]
    <3>1. UNCHANGED <<nodes, live>>
      <4>1. UNCHANGED nodes
        BY <2>2, OutsideNodes
      <4>2. ~overlapped' /\ ~Quiet => \A n \in Pairings : ~Repush(n)
        BY DEF Repush
      <4> QED
        BY <2>2, <4>1, <4>2
           DEF Outside, Reconcile, ListNodes, Visit, Meddle, Lapse, Disable, Restart, Crash
    <3>2. Opening(t) /\ t' = t
      BY <1>1 DEF Open
    <3> HIDE DEF t
    <3>3. Opening(t)'
      BY <1>1, <3>1, <3>2 DEF Opening, Hands, Filed, Issues, Marked, Tuned
    <3> QED
      BY <3>3 DEF t
  <2> QED
    BY <2>1, <2>2
<1>6. ASSUME NEW i \in invitations, i.key \notin voided
      PROVE  Stands(i.id, i.key)' \/ \E h \in Handlers : TakesBack(threads[h], i.id)
  BY <1>1, <1>4, <1>6 DEF Open
<1> QED
  BY <1>1, <1>3, <1>5, <1>6 DEF Open, TakesBack

LEMMA OpenStep ==
  ShapeInv /\ AloneInv /\ ShutInv /\ OpenInv /\ [Next]_vars => OpenInv'
<1> SUFFICES ASSUME ShapeInv, AloneInv, ShutInv, OpenInv, [Next]_vars,
                    ~overlapped', faults' = 0, mishaps' = 0
             PROVE  Open'
  BY DEF OpenInv
<1>1. ~overlapped /\ ~Fails /\ ~Mishap /\ Alone /\ Shut /\ Open
  BY CountsGrow DEF AloneInv, ShutInv, OpenInv
<1>2. CASE UNCHANGED vars
  <2>1. UNCHANGED <<nodes, tunnels, live, enabled, threads, lapsed, invitations, voided>>
    BY <1>2 DEF vars, tables, history
  <2>2. \A n \in Pairings, k \in Keys : Stands(n, k) => Stands(n, k)'
    BY <2>1 DEF Stands, Tuned, Marked
  <2>3. ASSUME NEW h \in Handlers
        PROVE  Opening(threads[h])'
    BY <1>1, <2>1 DEF Open, Opening, Hands, Filed, Issues, Marked, Tuned
  <2>4. ASSUME NEW i \in invitations, i.key \notin voided
        PROVE  Stands(i.id, i.key)' \/ \E h \in Handlers : TakesBack(threads[h], i.id)
    BY <1>1, <2>2, <2>4 DEF Open, ShapeInv, TypeOK
  <2> QED
    BY <1>1, <2>1, <2>3, <2>4 DEF Open, TakesBack
<1> QED
  BY <1>1, <1>2, OpenBegin, OpenProceed, OpenOutside, NextIs

LEMMA OpenInit == Init => OpenInv
BY IdleOpening DEF Init, OpenInv, Open, NoTunnel

\* What an operation answered holds, at every number of pairings, handlers and ports:
\* a pairing that was revoked while no call failed serves nothing, and an invitation
\* that was handed out and not taken back opens its pairing, when nothing went wrong.
THEOREM AnsweredHolds == Spec => []AnswersHold
<1>1. ShutInv => RevokedServesNothing
  BY DEF ShutInv, Shut, Closed, RevokedServesNothing
<1>2. OpenInv => InvitationWorks
  <2> SUFFICES ASSUME OpenInv, Quiet, ~overlapped, faults = 0, mishaps = 0,
                      NEW i \in invitations, i.key \notin voided
               PROVE  Stands(i.id, i.key)
    BY DEF InvitationWorks, Stands, Tuned, Marked
  <2>1. \A h \in Handlers : ~TakesBack(threads[h], i.id)
    BY IdleIs DEF Quiet, TakesBack
  <2> QED
    BY <2>1 DEF OpenInv, Open
<1>3. ShapeInv /\ ShutInv /\ OpenInv => AnswersHold
  BY <1>1, <1>2 DEF AnswersHold, ShapeInv
<1> QED
  BY <1>3, ShapeInit, ShapeStep, AloneInit, AloneStep, ShutInit, ShutStep, OpenInit, OpenStep,
     PTL DEF Spec
=============================================================================
