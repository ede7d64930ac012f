--------------------------- MODULE RemotePairing ---------------------------
(***************************************************************************)
(* Remote management, as one daemon keeps it: it invites peers to manage   *)
(* it (direction "manages_me") and accepts the invitations of others       *)
(* ("managed_by_me").  A pairing is a RemoteNode row, the stcp tunnel made *)
(* for it, the proxy the driver runs, and the keys that were handed out.   *)
(*                                                                         *)
(* Nothing is held across an operation of remoteops.Service: it reads the  *)
(* row, and then makes its calls one by one, each saving a whole row as it *)
(* was read.  A thread is the operation it is in and the next call.        *)
(*                                                                         *)
(* One issuance makes an stcp key, a mgmt token and its JTI, and an expiry;*)
(* one number stands for them all.  A token past its 24 hours, or one whose*)
(* account is disabled, is refused without a trace and is left out.        *)
(***************************************************************************)
EXTENDS Naturals, FiniteSets

CONSTANTS
  Pairings,    \* ids of pairings, used in order
  Handlers,    \* goroutines that serve HTTP or the control socket; the least is next
  Ports,       \* local ports for visitors, 9201 to 9499 in the code
  Rivals,      \* bound: what may begin while or after operations overlap
  MaxKey,      \* bound: issuances, which use up an id each at most
  MaxTrouble   \* bound: failed calls, crashes, and what is done to a tunnel by hand;
               \* and they do not meet operations that overlap

ASSUME IdsAssumption == Pairings \cup Ports \subseteq Nat \ {0} /\ Handlers \subseteq Nat
ASSUME RoomAssumption == MaxKey \in Nat /\ MaxKey <= Cardinality(Pairings)
ASSUME BoundAssumption == MaxTrouble \in Nat

VARIABLES
  nodes,         \* the RemoteNode rows
  tunnels,       \* the tunnel made for each pairing
  live,          \* the key of the proxy the driver runs for it, or 0
  enabled,       \* whether the endpoint of the tunnels is enabled
  peers,         \* rows of the endpoint that invitations of peers name
  threads,       \* the operation of each handler
  pass,          \* the rows ReconcileRemoteNodes has still to visit
  issued,        \* issuances so far
  lapsed,        \* issuances whose invitation is past its expiry
  invitations,   \* history: the invitations that were answered
  voided,        \* history: their keys, once a later operation took them back
  overlapped,    \* history: whether operations have overlapped
  faults, mishaps

tables == <<nodes, tunnels>>
counts == <<faults, mishaps>>
history == <<invitations, voided, overlapped>>
vars == <<tables, live, enabled, peers, threads, pass, issued, lapsed, history, counts>>

Keys == 1 .. MaxKey
NoKey == 0

\* The id of the tunnel is linked, the InviteExpiry the issuance it came from.
Node == [direction : {"manages_me", "managed_by_me"},
         status : {"unborn", "gone", "pending", "active", "offline", "expired", "revoked"},
         jti : Keys \cup {NoKey}, expiry : Keys \cup {NoKey},
         linked : BOOLEAN, port : Ports \cup {0}]
NoNode == [direction |-> "manages_me", status |-> "unborn", jti |-> NoKey,
           expiry |-> NoKey, linked |-> FALSE, port |-> 0]
IsRow(node) == node.status \notin {"unborn", "gone"}

Tunnel == [status : {"absent", "pending", "active", "failed", "stopped"},
           sk : Keys \cup {NoKey}]
NoTunnel == [status |-> "absent", sk |-> NoKey]

Ops == {"create", "refresh", "revoke token", "revoke", "accept", "exchange"}
PC == {"idle", "find endpoint", "add endpoint", "port", "add node", "sign", "add tunnel",
       "link", "retune", "unserve", "push", "mark", "save", "drop tunnel", "drop node",
       "answer"}

\* node and tunnel are the rows as the operation will write them next.
Thread == [pc : PC, op : Ops, id : Pairings \cup {NoKey}, key : Keys \cup {NoKey},
           node : Node, tunnel : Tunnel]
Idle == [pc |-> "idle", op |-> "create", id |-> NoKey, key |-> NoKey,
         node |-> NoNode, tunnel |-> NoTunnel]

Quiet == \A h \in Handlers : threads[h] = Idle
At(h, pc) == threads[h].pc = pc
Goto(h, pc) == threads' = [threads EXCEPT ![h].pc = pc]
Return(h) == threads' = [threads EXCEPT ![h] = Idle]

Trouble == ~overlapped /\ faults + mishaps < MaxTrouble
Fails == Trouble /\ faults' = faults + 1 /\ UNCHANGED mishaps
Mishap == Trouble /\ mishaps' = mishaps + 1 /\ UNCHANGED faults

Init ==
  /\ nodes = [n \in Pairings |-> NoNode]
  /\ tunnels = [n \in Pairings |-> NoTunnel]
  /\ live = [n \in Pairings |-> NoKey]
  /\ enabled = TRUE
  /\ peers = 0
  /\ threads = [h \in Handlers |-> Idle]
  /\ pass = {}
  /\ issued = 0
  /\ lapsed = {}
  /\ invitations = {} /\ voided = {} /\ overlapped = FALSE
  /\ faults = 0 /\ mishaps = 0

-----------------------------------------------------------------------------
(***************************************************************************)
(* Operations begin: the rows are read and the request is judged.          *)
(***************************************************************************)
Enter(h, thread) ==
  /\ threads[h] = Idle
  /\ \A g \in Handlers : g < h => threads[g] # Idle
  /\ \/ Quiet /\ pass = {} /\ ~overlapped
     \/ thread.op \in Rivals /\ faults + mishaps = 0
  /\ threads' = [threads EXCEPT ![h] = thread]
  /\ overlapped' = (overlapped \/ ~Quiet \/ pass # {})
  /\ UNCHANGED <<tables, live, enabled, peers, pass, lapsed, invitations, voided, counts>>

\* A key, a token and an expiry are made, whether or not they are ever used.
Issue == issued < MaxKey /\ issued' = issued + 1

\* The rows of a new invitation, and those of a peer's that is accepted.
NewInvitation(k) ==
  [node |-> [NoNode EXCEPT !.status = "pending", !.jti = k, !.expiry = k],
   tunnel |-> [status |-> "pending", sk |-> k]]
NewVisitor(k) ==
  [node |-> [NoNode EXCEPT !.direction = "managed_by_me", !.status = "active",
                           !.expiry = k, !.linked = TRUE],
   tunnel |-> [status |-> "pending", sk |-> k]]

\* CreateInvitation, once the endpoint, the port and the actor are found.
BeginCreate(h) ==
  /\ Issue
  /\ Enter(h, [Idle EXCEPT !.op = "create", !.pc = "add node", !.key = issued',
                 !.node = NewInvitation(issued').node,
                 !.tunnel = NewInvitation(issued').tunnel])

\* handleRedeemInvitation: a peer's invitation, complete and not expired.
BeginAccept(h) ==
  /\ Issue
  /\ Enter(h, [Idle EXCEPT !.op = "accept", !.pc = "find endpoint", !.key = issued',
                 !.node = NewVisitor(issued').node,
                 !.tunnel = NewVisitor(issued').tunnel])

\* A pairing that stands and has its tunnel.
Refreshable(n) ==
  /\ IsRow(nodes[n]) /\ nodes[n].direction = "manages_me" /\ nodes[n].status # "revoked"
  /\ nodes[n].linked /\ tunnels[n].status # "absent"

\* RefreshInvitation: new keys for the pairing.
BeginRefresh(h, n) ==
  /\ Refreshable(n)
  /\ Issue
  /\ Enter(h, [pc |-> "retune", op |-> "refresh", id |-> n, key |-> issued',
               node |-> [nodes[n] EXCEPT !.jti = issued', !.expiry = issued',
                                         !.status = "pending"],
               tunnel |-> [tunnels[n] EXCEPT !.sk = issued']])

HasToken(n) ==
  /\ IsRow(nodes[n]) /\ nodes[n].direction = "manages_me" /\ nodes[n].status # "revoked"
  /\ nodes[n].jti # NoKey

\* RevokeMgmtToken: the pairing stays, its token does not.
BeginRevokeToken(h, n) ==
  /\ HasToken(n)
  /\ Enter(h, [Idle EXCEPT !.op = "revoke token", !.pc = "save", !.id = n,
                 !.node = [nodes[n] EXCEPT !.jti = NoKey, !.expiry = NoKey]])
  /\ UNCHANGED issued

\* The tunnel that the row names, if it is there.
Served(n) == nodes[n].linked /\ tunnels[n].status # "absent"

\* RevokeRemoteNode: tunnel and proxy first, and the row last.
BeginRevoke(h, n) ==
  /\ IsRow(nodes[n])
  /\ Enter(h, [Idle EXCEPT !.op = "revoke", !.id = n,
                 !.pc = IF Served(n) THEN "unserve" ELSE "save",
                 !.node = [nodes[n] EXCEPT !.status = "revoked"]])
  /\ UNCHANGED issued

\* A token this daemon has signed: it names the pairing and the JTI.
Bears(n, k) == [id |-> n, key |-> k] \in invitations

\* Checks only that the pairing stands.
Accepted_Wrong(n, k) == nodes[n].status \notin {"unborn", "gone", "revoked", "expired"}
\* Only the JTI on record is accepted.
Accepted(n, k) ==
  /\ nodes[n].status \notin {"unborn", "gone", "revoked", "expired"}
  /\ nodes[n].jti = k

\* handleRemoteRedeemToken: the peer's browser exchanges the token of an
\* invitation for a session.
BeginExchange(h, n, k) ==
  /\ Bears(n, k) /\ Accepted(n, k)
  /\ Enter(h, [Idle EXCEPT !.op = "exchange", !.pc = "save", !.id = n, !.key = k,
                 !.node = [nodes[n] EXCEPT !.status = "active"]])
  /\ UNCHANGED issued

-----------------------------------------------------------------------------
(***************************************************************************)
(* The calls, one by one.  A call that fails ends the operation, which may *)
(* take back rows it has added, or is ignored where the code ignores it.   *)
(***************************************************************************)
\* The first id that nothing has been made for.
NextId ==
  CHOOSE n \in Pairings :
    /\ nodes[n].status = "unborn" /\ tunnels[n].status = "absent"
    /\ \A m \in Pairings : m < n =>
         nodes[m].status # "unborn" \/ tunnels[m].status # "absent"

\* findOrCreateEndpointFromInvite lists the endpoints, and adds one.
FindEndpoint(h) ==
  /\ At(h, "find endpoint")
  /\ Goto(h, IF peers > 0 THEN "port" ELSE "add endpoint")
  /\ UNCHANGED <<tables, live, peers, invitations, voided, counts>>

AddEndpoint(h) ==
  /\ At(h, "add endpoint")
  /\ \/ peers' = peers + 1 /\ Goto(h, "port") /\ UNCHANGED counts
     \/ Fails /\ Return(h) /\ UNCHANGED peers
  /\ UNCHANGED <<tables, live, invitations, voided>>

\* Goes by the visitors that run.
Taken_Wrong == {nodes[n].port : n \in {m \in Pairings : live[m] # NoKey}}
\* Every row counts, revoked or not.
Taken == {nodes[n].port : n \in Pairings}

\* allocateLocalBindPort: the lowest port that no row has, or none is left.
AllocatePort(h) ==
  LET free == Ports \ Taken
  IN  /\ At(h, "port")
      /\ IF free = {} THEN Return(h)
         ELSE \E p \in free :
                /\ \A q \in free : p <= q
                /\ threads' = [threads EXCEPT ![h].pc = "add tunnel", ![h].node.port = p]
      /\ UNCHANGED <<tables, live, peers, invitations, voided, counts>>

\* CreateRemoteNode and UpdateRemoteNode: gorm inserts or saves the whole row.
Put(n, node) == nodes' = [nodes EXCEPT ![n] = node]

AddNode(h) ==
  LET t == threads[h]
      n == IF t.op = "accept" THEN t.id ELSE NextId
  IN  /\ At(h, "add node")
      /\ \/ /\ Put(n, t.node)
            /\ threads' = [threads EXCEPT ![h].id = n,
                             ![h].pc = IF t.op = "accept" THEN "push" ELSE "sign"]
            /\ UNCHANGED counts
         \/ /\ Fails
            /\ IF t.op = "accept" THEN Goto(h, "drop tunnel") ELSE Return(h)
            /\ UNCHANGED nodes
      /\ UNCHANGED <<tunnels, live, peers, invitations, voided>>

AddTunnel(h) ==
  LET t == threads[h]
      n == IF t.op = "accept" THEN NextId ELSE t.id
  IN  /\ At(h, "add tunnel")
      /\ \/ /\ tunnels' = [tunnels EXCEPT ![n] = t.tunnel]
            /\ threads' = [threads EXCEPT ![h].id = n,
                             ![h].pc = IF t.op = "accept" THEN "add node" ELSE "link"]
            /\ UNCHANGED counts
         \/ /\ Fails
            /\ IF t.op = "accept" THEN Return(h) ELSE Goto(h, "drop node")
            /\ UNCHANGED tunnels
      /\ UNCHANGED <<nodes, live, peers, invitations, voided>>

\* UpdateRemoteNode with the token, and again with the id of the tunnel.
Sign(h) ==
  /\ At(h, "sign")
  /\ \/ /\ Put(threads[h].id, threads[h].node)
        /\ Goto(h, "add tunnel")
        /\ UNCHANGED counts
     \/ Fails /\ Goto(h, "drop node") /\ UNCHANGED nodes
  /\ UNCHANGED <<tunnels, live, peers, invitations, voided>>

Link(h) ==
  LET linked == [threads[h].node EXCEPT !.linked = TRUE]
  IN  /\ At(h, "link")
      /\ \/ /\ Put(threads[h].id, linked)
            /\ threads' = [threads EXCEPT ![h].pc = "push", ![h].node = linked]
            /\ UNCHANGED counts
         \/ Fails /\ Goto(h, "drop tunnel") /\ UNCHANGED nodes
      /\ UNCHANGED <<tunnels, live, peers, invitations, voided>>

\* UpdateTunnel with the new key: a row that is gone is inserted again.
Retune(h) ==
  /\ At(h, "retune")
  /\ \/ /\ tunnels' = [tunnels EXCEPT ![threads[h].id] = threads[h].tunnel]
        /\ Goto(h, IF enabled THEN "unserve" ELSE "save")
        /\ UNCHANGED counts
     \/ Fails /\ Return(h) /\ UNCHANGED tunnels
  /\ UNCHANGED <<nodes, live, peers, invitations, voided>>

AfterUnserve(h) == IF threads[h].op = "refresh" THEN "push" ELSE "drop tunnel"

\* Takes the proxy of a pairing for gone with its row.
Unserve_Wrong(h) ==
  /\ At(h, "unserve")
  /\ Goto(h, AfterUnserve(h))
  /\ UNCHANGED <<tables, live, peers, invitations, voided, counts>>
\* removeTunnelFromDriver, whose error is ignored.
Unserve(h) ==
  /\ At(h, "unserve")
  /\ \/ live' = [live EXCEPT ![threads[h].id] = NoKey] /\ UNCHANGED counts
     \/ Fails /\ UNCHANGED live
  /\ Goto(h, AfterUnserve(h))
  /\ UNCHANGED <<tables, peers, invitations, voided>>

\* What follows the driver call: a refresh has its row to save, the others
\* have done so already.
AfterPush(h) == IF threads[h].op = "refresh" THEN "save" ELSE "answer"

\* pushTunnelToDriver: a failure is a warning, which a refresh records.
Push(h) ==
  /\ At(h, "push")
  /\ \/ /\ enabled
        /\ live' = [live EXCEPT ![threads[h].id] = threads[h].key]
        /\ threads' = [threads EXCEPT ![h].pc = "mark", ![h].tunnel.status = "active"]
        /\ UNCHANGED counts
     \/ /\ enabled
        /\ Fails
        /\ threads' = [threads EXCEPT ![h].tunnel.status = "failed",
                         ![h].pc = IF threads[h].op = "refresh" THEN "mark" ELSE "answer"]
        /\ UNCHANGED live
     \/ /\ ~enabled
        /\ Goto(h, AfterPush(h))
        /\ UNCHANGED <<live, counts>>
  /\ UNCHANGED <<tables, peers, invitations, voided>>

\* UpdateTunnel with the outcome, whose error is ignored.
Mark(h) ==
  /\ At(h, "mark")
  /\ \/ /\ tunnels' = [tunnels EXCEPT ![threads[h].id] = threads[h].tunnel]
        /\ UNCHANGED counts
     \/ Fails /\ UNCHANGED tunnels
  /\ Goto(h, AfterPush(h))
  /\ UNCHANGED <<nodes, live, peers, invitations, voided>>

KeysOf(n) == {i.key : i \in {j \in invitations : j.id = n}}

\* UpdateRemoteNode with the row as the operation read and changed it.  The
\* exchange ignores a failure, the others report it.
Save(h) ==
  LET t == threads[h]
  IN  /\ At(h, "save")
      /\ \/ /\ Put(t.id, t.node)
            /\ IF t.op = "refresh" THEN Goto(h, "answer") ELSE Return(h)
            /\ voided' = IF t.op \in {"revoke token", "revoke"}
                         THEN voided \cup KeysOf(t.id) ELSE voided
            /\ UNCHANGED counts
         \/ Fails /\ Return(h) /\ UNCHANGED <<nodes, voided>>
      /\ UNCHANGED <<tunnels, live, peers, invitations>>

\* DeleteTunnel, to revoke or to take back; an error is ignored.
DropTunnel(h) ==
  LET t == threads[h]
  IN  /\ At(h, "drop tunnel")
      /\ \/ tunnels' = [tunnels EXCEPT ![t.id] = NoTunnel] /\ UNCHANGED counts
         \/ Fails /\ UNCHANGED tunnels
      /\ CASE t.op = "revoke" -> Goto(h, "save")
           [] t.op = "create" -> Goto(h, "drop node")
           [] OTHER -> Return(h)
      /\ UNCHANGED <<nodes, live, peers, invitations, voided>>

DropNode(h) ==
  /\ At(h, "drop node")
  /\ \/ Put(threads[h].id, [NoNode EXCEPT !.status = "gone"])
        /\ UNCHANGED counts
     \/ Fails /\ UNCHANGED nodes
  /\ Return(h)
  /\ UNCHANGED <<tunnels, live, peers, invitations, voided>>

\* The invitation is handed out, and takes the place of earlier ones.
Answer(h) ==
  LET t == threads[h]
  IN  /\ At(h, "answer")
      /\ IF t.op = "accept" THEN UNCHANGED <<invitations, voided>>
         ELSE /\ voided' = voided \cup KeysOf(t.id)
              /\ invitations' = invitations \cup {[id |-> t.id, key |-> t.key]}
      /\ Return(h)
      /\ UNCHANGED <<tables, live, peers, counts>>

Proceed(h) ==
  /\ \/ FindEndpoint(h) \/ AddEndpoint(h) \/ AllocatePort(h) \/ AddNode(h) \/ AddTunnel(h)
     \/ Sign(h) \/ Link(h) \/ Retune(h) \/ Unserve(h) \/ Push(h) \/ Mark(h) \/ Save(h)
     \/ DropTunnel(h) \/ DropNode(h) \/ Answer(h)
  /\ UNCHANGED <<enabled, pass, issued, lapsed, overlapped>>

-----------------------------------------------------------------------------
(***************************************************************************)
(* The reconcile loop, the clock, and what else befalls a pairing.         *)
(***************************************************************************)
RunningRow(tunnel) == tunnel.status \in {"pending", "active"}

\* Manager.Reconcile pushes the tunnels whose rows run.
Repush(n) ==
  /\ enabled /\ RunningRow(tunnels[n])
  /\ live' = [live EXCEPT ![n] = tunnels[n].sk]
  /\ overlapped' = (overlapped \/ ~Quiet)
  /\ UNCHANGED <<tables, enabled, peers, threads, pass, issued, lapsed, invitations, voided,
                 counts>>

Due(node) ==
  \/ node.status = "pending" /\ node.expiry \in lapsed
  \/ node.status = "active"

\* ReconcileRemoteNodes lists the rows, and visits them later.
ListNodes ==
  /\ pass = {}
  /\ pass' = {[id |-> n, node |-> nodes[n]] : n \in {m \in Pairings : Due(nodes[m])}}
  /\ pass' # {}
  /\ overlapped' = (overlapped \/ ~Quiet)
  /\ UNCHANGED <<tables, live, enabled, peers, threads, issued, lapsed, invitations, voided,
                 counts>>

\* Asks only whether the row names a tunnel.
Stranded_Wrong(n, node) == ~node.linked \/ tunnels[n].status \in {"failed", "stopped"}
\* The tunnel of an active pairing is missing or out of service.
Stranded(n, node) == ~node.linked \/ tunnels[n].status \in {"absent", "failed", "stopped"}

NextStatus(v) ==
  CASE v.node.status = "pending" -> "expired"
    [] v.node.status = "active" -> IF Stranded(v.id, v.node) THEN "offline" ELSE "active"

\* The row is saved as it was listed, with the status that follows for it.
Visit(v) ==
  LET next == NextStatus(v)
  IN  /\ v \in pass
      /\ pass' = pass \ {v}
      /\ \/ /\ IF next = v.node.status THEN UNCHANGED nodes
               ELSE Put(v.id, [v.node EXCEPT !.status = next])
            /\ UNCHANGED counts
         \/ Fails /\ UNCHANGED nodes
      /\ UNCHANGED <<tunnels, live, enabled, peers, threads, issued, lapsed, history>>

\* Five minutes after an issuance, which tells only while a row records it.
Lapse(k) ==
  /\ k \notin lapsed
  /\ \E n \in Pairings : nodes[n].direction = "manages_me" /\ nodes[n].expiry = k
  /\ lapsed' = lapsed \cup {k}
  /\ UNCHANGED <<tables, live, enabled, peers, threads, pass, issued, history, counts>>

\* The tunnel is stopped or deleted by hand.
Meddle(n) ==
  /\ Mishap
  /\ tunnels[n].status # "absent"
  /\ tunnels' \in {[tunnels EXCEPT ![n] = NoTunnel], [tunnels EXCEPT ![n].status = "stopped"]}
  /\ live' = [live EXCEPT ![n] = NoKey]
  /\ UNCHANGED <<nodes, enabled, peers, threads, pass, issued, lapsed, history>>

\* The endpoint is disabled, which stops its proxies.
Disable ==
  /\ Mishap
  /\ enabled' = FALSE
  /\ live' = [n \in Pairings |-> NoKey]
  /\ UNCHANGED <<tables, peers, threads, pass, issued, lapsed, history>>

\* The daemon is started again, and its first pass serves the rows that run.
Boot == live' = [n \in Pairings |->
                   IF enabled /\ RunningRow(tunnels[n]) THEN tunnels[n].sk ELSE NoKey]

Restart ==
  /\ Quiet /\ pass = {}
  /\ Boot
  /\ UNCHANGED <<tables, enabled, peers, threads, pass, issued, lapsed, history, counts>>

Crash ==
  /\ Mishap
  /\ threads' = [h \in Handlers |-> Idle]
  /\ pass' = {}
  /\ Boot
  /\ UNCHANGED <<tables, enabled, peers, issued, lapsed, history>>

Reconcile == ListNodes \/ \E v \in pass : Visit(v)

Next ==
  \/ \E h \in Handlers :
       \/ BeginCreate(h) \/ BeginAccept(h)
       \/ \E n \in Pairings :
            \/ BeginRefresh(h, n) \/ BeginRevokeToken(h, n) \/ BeginRevoke(h, n)
            \/ \E k \in Keys : BeginExchange(h, n, k)
       \/ Proceed(h)
  \/ Reconcile
  \/ \E n \in Pairings : Repush(n) \/ Meddle(n)
  \/ \E k \in Keys : Lapse(k)
  \/ Disable \/ Restart \/ Crash

Spec == Init /\ [][Next]_vars

\* The loop ticks for ever, and a pass visits the rows it has listed.
FairSpec == Spec /\ WF_vars(Reconcile)

-----------------------------------------------------------------------------
(***************************************************************************)
(* Properties.                                                             *)
(***************************************************************************)
\* The variables keep their shape, and a thread that writes has an id.
TypeOK ==
  /\ nodes \in [Pairings -> Node]
  /\ tunnels \in [Pairings -> Tunnel]
  /\ live \in [Pairings -> Keys \cup {NoKey}]
  /\ enabled \in BOOLEAN /\ peers \in Nat
  /\ threads \in [Handlers -> Thread]
  /\ pass \subseteq [id : Pairings, node : Node]
  /\ issued \in 0 .. MaxKey /\ lapsed \subseteq Keys
  /\ invitations \subseteq [id : Pairings, key : Keys] /\ voided \subseteq Keys
  /\ overlapped \in BOOLEAN
  /\ faults \in 0 .. MaxTrouble /\ mishaps \in 0 .. MaxTrouble

\* As long as operations do not overlap and no call fails, a pairing that was
\* revoked has neither a tunnel nor a proxy, whatever crash came in between.
RevokedServesNothing ==
  ~overlapped /\ faults = 0 =>
    \A n \in Pairings : nodes[n].status = "revoked" /\ nodes[n].linked =>
      tunnels[n] = NoTunnel /\ live[n] = NoKey

\* When nothing went wrong, an invitation that was handed out and not taken back
\* opens the pairing: the proxy has its key and the row its JTI.
InvitationWorks ==
  Quiet /\ ~overlapped /\ faults = 0 /\ mishaps = 0 =>
    \A i \in invitations : i.key \notin voided =>
      /\ tunnels[i.id].sk = i.key
      /\ live[i.id] = i.key
      /\ nodes[i.id].jti = i.key
      /\ nodes[i.id].status = "expired" => i.key \in lapsed
      /\ nodes[i.id].status # "revoked"

\* What an operation answered holds: a pairing is closed once it was revoked, and
\* open to an invitation that stands.
AnswersHold == TypeOK /\ RevokedServesNothing /\ InvitationWorks

\* As long as operations do not overlap, two pairings that this daemon manages do
\* not share a local port, and the endpoint of the peer is added once.
VisitorsApart ==
  ~overlapped =>
    /\ peers <= 1
    /\ \A m, n \in Pairings : m # n /\ nodes[m].port # 0 => nodes[m].port # nodes[n].port

\* As long as operations do not overlap, a token buys no session once a revocation
\* or a newer invitation has been answered, after failed calls and crashes too.
TakenBackForGood ==
  [][\A h \in Handlers :
       threads[h].op # "exchange" /\ threads'[h].op = "exchange" /\ ~overlapped'
         => threads'[h].key \notin voided]_vars

Dead(n) == nodes[n].status = "active" /\ tunnels[n].status = "absent"
Late(n) == nodes[n].status = "pending" /\ nodes[n].expiry \in lapsed

\* However operations overlap, a pairing does not stay active once its tunnel is
\* gone, nor pending once its invitation has expired.
DeadIsNoticed == \A n \in Pairings : (Dead(n) ~> ~Dead(n)) /\ (Late(n) ~> ~Late(n))
=============================================================================
