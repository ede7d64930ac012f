-------------------------- MODULE TunnelLifecycle --------------------------
(***************************************************************************)
(* The life of a tunnel in the FrpDeck daemon: the rows SQLite keeps, the  *)
(* proxies the frpc driver runs, and the expiry timers of                  *)
(* lifecycle.Manager, driven by HTTP handlers, the CLI, the reconcile loop *)
(* and the timer callbacks, all at once, with crashes of the daemon and    *)
(* failures of the driver in between.                                      *)
(*                                                                         *)
(* The code holds no lock across an operation.  Each handler reads a row,  *)
(* then makes a series of calls that are atomic one by one: SQLite has a   *)
(* single connection, Manager.mu guards the timer map, the driver has its  *)
(* own mutex.  A thread is therefore modelled by its *plan*: the calls the *)
(* operation still has to make, each with the copy of the row that was     *)
(* read when the operation began.  Beginning an operation is one step      *)
(* (GetTunnel and the decision taken on it) and every planned call is one. *)
(***************************************************************************)
EXTENDS Naturals, Sequences

CONSTANTS
  Tunnels,      \* tunnel ids, natural numbers: rows are listed in id order
  Endpoints,    \* endpoint ids
  Handlers,     \* goroutines that serve HTTP requests
  Loops,        \* goroutines that run Reconcile: boot, ticker, control socket
  Callbacks,    \* goroutines that run the callbacks of elapsed timers
  Shells,       \* frpdeck CLI processes, which write to SQLite on their own
  Requests,     \* the kinds of request that clients issue
  Overlap,      \* whether operations interleave, or run one after the other
  MaxTime,      \* bound: the clock stops there
  MaxCrashes,   \* bound: crashes of the daemon
  MaxFaults     \* bound: failed driver calls

ASSUME IdsAssumption == Tunnels \subseteq Nat
ASSUME EndpointsAssumption == Endpoints # {}
ASSUME TimeAssumption == MaxTime \in Nat \ {0}
ASSUME BoundAssumption == MaxCrashes \in Nat /\ MaxFaults \in Nat
ASSUME OverlapAssumption == Overlap \in BOOLEAN

Daemon == Handlers \cup Loops \cup Callbacks
Threads == Daemon \cup Shells

VARIABLES
  now,          \* the wall clock
  rows,         \* the tunnels table
  endpoints,    \* the enabled flag of each endpoint row, or "absent"
  wanted,       \* the proxies each endpoint's runner has been given
  live,         \* the proxies the frp service of each endpoint runs
  timers,       \* Manager.timers: the deadline tracked for each tunnel
  orphans,      \* armed expiry timers that Manager.timers no longer tracks
  elapsed,      \* tunnels with an expiry callback launched, not yet begun
  threads,      \* what each thread has left to do
  phase,        \* "down", "booting" or "up"
  asked,        \* history: the earliest deadline ever asked for a tunnel
  crashes, faults

driver == <<wanted, live, faults>>
clockwork == <<timers, orphans, elapsed>>
database == <<rows, endpoints>>
vars == <<now, database, driver, clockwork, threads, phase, asked, crashes>>

-----------------------------------------------------------------------------
\* A nil ExpireAt: an instant that the clock never reaches.
Never == MaxTime + 1
Instants == 0 .. MaxTime
Deadlines == 0 .. Never

RowStatuses == {"pending", "active", "stopped", "expired"}
Row == [endpoint : Endpoints, enabled : BOOLEAN, expireAt : Deadlines,
        status : RowStatuses \cup {"unborn", "deleted"}]

TunnelCalls == {"push", "pushOrFail", "remove", "save", "delete",
                "cancel", "arm", "forget"}
EndpointCalls == {"saveEndpoint", "stopEndpoint", "dropEndpoint"}
Call == [do : TunnelCalls, id : Tunnels, row : Row]
          \cup [do : EndpointCalls, endpoint : Endpoints, enabled : BOOLEAN]

\* A row that Reconcile has listed and not yet visited.
Listed == [id : Tunnels, row : Row, due : BOOLEAN]
Thread == [plan : Seq(Call), listed : SUBSET Listed]
Idle == [plan |-> <<>>, listed |-> {}]

\* What stands for a row that is not in the table.
NoRow(status) == [endpoint |-> CHOOSE e \in Endpoints : TRUE, enabled |-> TRUE,
                  expireAt |-> Never, status |-> status]

\* No entry in Manager.timers.
NoTimer == [at |-> Never, armed |-> FALSE]

Exists(t) == rows[t].status \in RowStatuses
RunningRow(row) == row.status \in {"pending", "active"}
Running(t) == RunningRow(rows[t])
\* The definitions named ..._Wrong are what a plausible mistake would make of
\* the next one; nothing uses them but the trial that a property notices.
\* This one drops the negation of !ExpireAt.After(now).
Overdue_Wrong(row) == row.expireAt > now
Overdue(row) == row.expireAt <= now

Quiet == \A p \in Threads : threads[p] = Idle
Serving(p) == p \in Daemon => phase = "up"
Free(p) == threads[p] = Idle /\ (Overlap \/ Quiet)

-----------------------------------------------------------------------------
(***************************************************************************)
(* What each operation does once it has read the row: the calls it makes,  *)
(* in order, with the row as each call sees it.                            *)
(***************************************************************************)
Do(call, t, row) == [do |-> call, id |-> t, row |-> row]
DoEndpoint(call, e, enabled) ==
  [do |-> call, endpoint |-> e, enabled |-> enabled]

\* Manager.Schedule: arm the timer, or cancel it when the row is permanent.
Schedule(t, row) ==
  Do(IF row.expireAt = Never THEN "cancel" ELSE "arm", t, row)

CreatePlan(t, row) == <<Do("save", t, row), Schedule(t, row)>>

\* Pushes the tunnel and leaves its status as it was.
StartPlan_Wrong(t, row) ==
  <<Do("pushOrFail", t, row), Do("save", t, row), Schedule(t, row)>>

StartPlan(t, row) ==
  LET active == [row EXCEPT !.status = "active"]
  IN  <<Do("pushOrFail", t, row), Do("save", t, active), Schedule(t, active)>>

StopPlan(t, row) ==
  <<Do("remove", t, row), Do("cancel", t, row), Do("remove", t, row),
    Do("save", t, [row EXCEPT !.status = "stopped"])>>

\* Forgets to reschedule the timer after the row changed.
UpdatePlan_Wrong(t, patch) ==
  <<Do("save", t, patch)>>
    \o IF patch.status = "active" THEN <<Do("push", t, patch)>> ELSE <<>>

UpdatePlan(t, patch) ==
  <<Do("save", t, patch), Schedule(t, patch)>>
    \o IF patch.status = "active" THEN <<Do("push", t, patch)>> ELSE <<>>

\* Deletes the row but leaves its proxy in the driver.
DeletePlan_Wrong(t, row) == <<Do("delete", t, row)>>

DeletePlan(t, row) == <<Do("remove", t, row), Do("delete", t, row)>>

\* Manager.reactivate flips only an expired row that is still enabled.
Reactivates(row) == row.status = "expired" /\ row.enabled

Renewed(row, until) ==
  [row EXCEPT !.expireAt = until,
              !.status = IF Reactivates(row) THEN "active" ELSE @]

RenewPlan(t, row, until) ==
  LET renewed == Renewed(row, until)
      revive == IF Reactivates(row) THEN <<Do("push", t, renewed)>> ELSE <<>>
  IN  IF until = Never
      THEN <<Do("cancel", t, row)>> \o revive \o <<Do("save", t, renewed)>>
      ELSE revive \o <<Do("save", t, renewed), Do("arm", t, renewed)>>

\* Tests for the statuses to skip, and so goes on with a missing row.
ExpirePlan_Wrong(t, row) ==
  IF row.status \notin {"stopped", "expired"}
  THEN <<Do("remove", t, row), Do("save", t, [row EXCEPT !.status = "expired"]),
         Do("forget", t, row)>>
  ELSE <<>>

\* onExpire: what an elapsed timer's callback does to the row it finds.
ExpirePlan(t, row) ==
  IF RunningRow(row)
  THEN <<Do("remove", t, row), Do("save", t, [row EXCEPT !.status = "expired"]),
         Do("forget", t, row)>>
  ELSE <<>>

\* Takes an overdue tunnel out of the driver but not out of the table.
VisitPlan_Wrong(t, row, due) ==
  IF due
  THEN <<Do("cancel", t, row), Do("remove", t, row)>>
  ELSE <<Do("push", t, row)>>
         \o IF row.expireAt = Never THEN <<>> ELSE <<Do("arm", t, row)>>

\* One row of a Reconcile pass.
VisitPlan(t, row, due) ==
  IF due
  THEN <<Do("cancel", t, row), Do("remove", t, row),
         Do("save", t, [row EXCEPT !.status = "expired"])>>
  ELSE <<Do("push", t, row)>>
         \o IF row.expireAt = Never THEN <<>> ELSE <<Do("arm", t, row)>>

DeleteEndpointPlan(e) ==
  <<DoEndpoint("stopEndpoint", e, FALSE), DoEndpoint("dropEndpoint", e, FALSE)>>
-----------------------------------------------------------------------------
(***************************************************************************)
(* An empty installation: its endpoints have been created, no tunnel yet,  *)
(* and the daemon has finished its boot.                                   *)
(***************************************************************************)
Init ==
  /\ now = 0
  /\ rows = [t \in Tunnels |-> NoRow("unborn")]
  /\ endpoints = [e \in Endpoints |-> "enabled"]
  /\ wanted = [e \in Endpoints |-> {}]
  /\ live = [e \in Endpoints |-> {}]
  /\ timers = [t \in Tunnels |-> NoTimer]
  /\ orphans = {}
  /\ elapsed = {}
  /\ threads = [p \in Threads |-> Idle]
  /\ phase = "up"
  /\ asked = [t \in Tunnels |-> Never]
  /\ crashes = 0
  /\ faults = 0

-----------------------------------------------------------------------------
(***************************************************************************)
(* Requests.  A thread that accepts one reads the row and commits to the   *)
(* calls that follow.                                                      *)
(***************************************************************************)
Begin(p, request, plan) ==
  /\ request \in Requests
  /\ Serving(p)
  /\ Free(p)
  /\ threads' = [threads EXCEPT ![p] = [plan |-> plan, listed |-> {}]]
  /\ UNCHANGED <<now, database, driver, clockwork, phase, crashes>>

Asks(t, deadline) ==
  asked' = [asked EXCEPT ![t] = IF deadline < @ THEN deadline ELSE @]

\* tunnelReq.validate admits a deadline in the future, or none.
ValidDeadlines == {d \in Deadlines : d > now}

\* A new row is enabled whatever the request says: see Save.
CreateTunnel(p, t) ==
  \E e \in Endpoints, deadline \in ValidDeadlines :
    LET row == [endpoint |-> e, enabled |-> TRUE, expireAt |-> deadline,
                status |-> "pending"]
    IN  /\ rows[t].status = "unborn"
        /\ endpoints[e] # "absent"
        /\ Begin(p, "create", CreatePlan(t, row))
        /\ Asks(t, deadline)

UpdateTunnel(p, t) ==
  \E e \in Endpoints, enabled \in BOOLEAN, deadline \in ValidDeadlines :
    LET patch == [endpoint |-> e, enabled |-> enabled, expireAt |-> deadline,
                  status |-> rows[t].status]
    IN  /\ Exists(t)
        /\ e # rows[t].endpoint => "move" \in Requests
        /\ Begin(p, "update", UpdatePlan(t, patch))
        /\ Asks(t, deadline)

StartTunnel(p, t) ==
  /\ Exists(t)
  /\ Begin(p, "start", StartPlan(t, rows[t]))
  /\ UNCHANGED asked

StopTunnel(p, t) ==
  /\ Exists(t)
  /\ Begin(p, "stop", StopPlan(t, rows[t]))
  /\ UNCHANGED asked

DeleteTunnel(p, t) ==
  /\ Exists(t)
  /\ Begin(p, "delete", DeletePlan(t, rows[t]))
  /\ UNCHANGED asked

\* The instant Renew extends from: the current deadline, unless it passed.
RenewBase(t) == IF rows[t].expireAt > now THEN rows[t].expireAt ELSE now

\* Renew by delta > 0; refused (ErrTunnelNoExpire) for a permanent tunnel.
ExtendTunnel(p, t) ==
  \E delta \in 1 .. MaxTime :
    LET until == RenewBase(t) + delta
    IN  /\ Exists(t)
        /\ rows[t].expireAt # Never
        /\ until <= MaxTime
        /\ Begin(p, "renew", RenewPlan(t, rows[t], until))
        /\ Asks(t, until)

\* Renew by zero: make the tunnel permanent.
MakePermanent(p, t) ==
  /\ Exists(t)
  /\ Begin(p, "renew", RenewPlan(t, rows[t], Never))
  /\ UNCHANGED asked

UpdateEndpoint(p, e) ==
  \E enabled \in BOOLEAN :
    /\ endpoints[e] # "absent"
    /\ Begin(p, "updateEndpoint", <<DoEndpoint("saveEndpoint", e, enabled)>>)
    /\ UNCHANGED asked

DeleteEndpoint(p, e) ==
  /\ endpoints[e] # "absent"
  /\ Begin(p, "deleteEndpoint", DeleteEndpointPlan(e))
  /\ UNCHANGED asked

Request(p) ==
  \/ \E t \in Tunnels :
       \/ CreateTunnel(p, t) \/ UpdateTunnel(p, t)
       \/ StartTunnel(p, t) \/ StopTunnel(p, t) \/ DeleteTunnel(p, t)
       \/ ExtendTunnel(p, t) \/ MakePermanent(p, t)
  \/ \E e \in Endpoints : UpdateEndpoint(p, e) \/ DeleteEndpoint(p, e)

(***************************************************************************)
(* The CLI writes the row and pings the daemon, which then runs Reconcile  *)
(* (BeginReconcile may happen at any time, so after the ping as well).     *)
(***************************************************************************)
ShellSetStatus(p, t) ==
  \E status \in {"active", "stopped"} :
    /\ Exists(t)
    /\ Begin(p, "shellStatus",
             <<Do("save", t, [rows[t] EXCEPT !.status = status])>>)
    /\ UNCHANGED asked

\* tunnel add inserts a pending row; --until is not checked against the clock.
ShellAdd(p, t) ==
  \E e \in Endpoints, deadline \in Deadlines :
    LET row == [endpoint |-> e, enabled |-> TRUE, expireAt |-> deadline,
                status |-> "pending"]
    IN  /\ rows[t].status = "unborn"
        /\ endpoints[e] # "absent"
        /\ Begin(p, "shellAdd", <<Do("save", t, row)>>)
        /\ Asks(t, deadline)

\* tunnel extend: --until takes any instant, no flag clears the deadline.
ShellExtend(p, t) ==
  \E deadline \in Deadlines :
    /\ Exists(t)
    /\ Begin(p, "shellExtend",
             <<Do("save", t, [rows[t] EXCEPT !.expireAt = deadline])>>)
    /\ Asks(t, deadline)

ShellRemove(p, t) ==
  /\ Exists(t)
  /\ Begin(p, "shellRemove", <<Do("delete", t, rows[t])>>)
  /\ UNCHANGED asked

ShellEndpoint(p, e) ==
  /\ endpoints[e] # "absent"
  /\ \/ Begin(p, "shellEndpoint", <<DoEndpoint("dropEndpoint", e, FALSE)>>)
     \/ \E enabled \in BOOLEAN :
          /\ enabled # (endpoints[e] = "enabled")
          /\ Begin(p, "shellEndpoint", <<DoEndpoint("saveEndpoint", e, enabled)>>)
  /\ UNCHANGED asked

Shell(p) ==
  \/ \E t \in Tunnels :
       \/ ShellAdd(p, t) \/ ShellSetStatus(p, t)
       \/ ShellExtend(p, t) \/ ShellRemove(p, t)
  \/ \E e \in Endpoints : ShellEndpoint(p, e)

-----------------------------------------------------------------------------
(***************************************************************************)
(* Reconcile and the timers.                                               *)
(***************************************************************************)
\* Lists the active rows only: pending tunnels are overlooked.
Snapshot_Wrong ==
  {[id |-> t, row |-> rows[t], due |-> Overdue(rows[t])] :
     t \in {u \in Tunnels : rows[u].status = "active"}}

\* ListActiveTunnels, with the instant the pass reads from the clock.
Snapshot ==
  {[id |-> t, row |-> rows[t], due |-> Overdue(rows[t])] :
     t \in {u \in Tunnels : Running(u)}}

BeginReconcile(p) ==
  /\ Serving(p)
  /\ Free(p)
  /\ threads' = [threads EXCEPT ![p].listed = Snapshot]
  /\ UNCHANGED <<now, database, driver, clockwork, phase, asked, crashes>>

\* The pass goes on to the next row it listed, in id order.
VisitNext(p) ==
  /\ threads[p].plan = <<>>
  /\ \E item \in threads[p].listed :
       /\ \A other \in threads[p].listed : item.id <= other.id
       /\ threads' = [threads EXCEPT
            ![p] = [plan |-> VisitPlan(item.id, item.row, item.due),
                    listed |-> @.listed \ {item}]]
  /\ UNCHANGED <<now, database, driver, clockwork, phase, asked, crashes>>

\* The runtime launches the callback of a timer whose delay has run out.
TimerElapses(t) ==
  /\ timers[t].armed
  /\ timers[t].at <= now
  /\ timers' = [timers EXCEPT ![t].armed = FALSE]
  /\ elapsed' = elapsed \cup {t}
  /\ UNCHANGED <<now, database, driver, orphans, threads, phase, asked, crashes>>

OrphanElapses(o) ==
  /\ o.at <= now
  /\ orphans' = orphans \ {o}
  /\ elapsed' = elapsed \cup {o.id}
  /\ UNCHANGED <<now, database, driver, timers, threads, phase, asked, crashes>>

OnExpire(p, t) ==
  /\ t \in elapsed
  /\ Free(p)
  /\ elapsed' = elapsed \ {t}
  /\ threads' = [threads EXCEPT ![p].plan = ExpirePlan(t, rows[t])]
  /\ UNCHANGED <<now, database, driver, timers, orphans, phase, asked, crashes>>

-----------------------------------------------------------------------------
(***************************************************************************)
(* The calls.                                                              *)
(***************************************************************************)
Called(p, call) ==
  /\ threads[p].plan # <<>>
  /\ Head(threads[p].plan).do = call
  /\ threads' = [threads EXCEPT ![p].plan = Tail(@)]
  /\ UNCHANGED <<now, phase, asked, crashes>>

\* endpointRunner.apply hands the runner's proxies to the frp service, and
\* can fail; the runner remembers the new set either way.
Apply(e, proxies) ==
  /\ wanted' = [wanted EXCEPT ![e] = proxies]
  /\ \/ /\ live' = [live EXCEPT ![e] = proxies]
        /\ UNCHANGED faults
     \/ /\ faults < MaxFaults
        /\ faults' = faults + 1
        /\ UNCHANGED live

\* Manager.pushToDriver skips an endpoint that is gone or disabled.
Push(p) ==
  LET c == Head(threads[p].plan)
      e == c.row.endpoint
  IN  /\ Called(p, "push")
      /\ IF endpoints[e] = "enabled"
         THEN Apply(e, wanted[e] \cup {c.id})
         ELSE UNCHANGED driver
      /\ UNCHANGED <<database, clockwork>>

\* handleStartTunnel gives up when pushTunnelToDriver fails.
PushOrFail(p) ==
  LET c == Head(threads[p].plan)
      e == c.row.endpoint
  IN  /\ threads[p].plan # <<>>
      /\ c.do = "pushOrFail"
      /\ \/ /\ endpoints[e] = "enabled"
            /\ Apply(e, wanted[e] \cup {c.id})
            /\ threads' = [threads EXCEPT
                 ![p].plan = IF faults' = faults THEN Tail(@) ELSE <<>>]
         \/ /\ endpoints[e] # "enabled"
            /\ threads' = [threads EXCEPT ![p].plan = <<>>]
            /\ UNCHANGED driver
      /\ UNCHANGED <<now, phase, asked, crashes, database, clockwork>>

\* Manager.removeFromDriver needs the endpoint row, enabled or not.
Remove(p) ==
  LET c == Head(threads[p].plan)
      e == c.row.endpoint
  IN  /\ Called(p, "remove")
      /\ IF endpoints[e] # "absent"
         THEN Apply(e, wanted[e] \ {c.id})
         ELSE UNCHANGED driver
      /\ UNCHANGED <<database, clockwork>>

\* Store.CreateTunnel and UpdateTunnel write the whole row; gorm's Save
\* inserts it again when a concurrent delete removed it.  Enabled is tagged
\* default:true, so an insert stores TRUE where the row says FALSE.
Stored(t, row) == [row EXCEPT !.enabled = @ \/ ~Exists(t)]

Save(p) ==
  LET c == Head(threads[p].plan)
  IN  /\ Called(p, "save")
      /\ rows' = [rows EXCEPT ![c.id] = Stored(c.id, c.row)]
      /\ UNCHANGED <<endpoints, driver, clockwork>>

Delete(p) ==
  LET c == Head(threads[p].plan)
  IN  /\ Called(p, "delete")
      /\ rows' = [rows EXCEPT ![c.id] = NoRow("deleted")]
      /\ UNCHANGED <<endpoints, driver, clockwork>>

CancelTimer(p) ==
  LET c == Head(threads[p].plan)
  IN  /\ Called(p, "cancel")
      /\ timers' = [timers EXCEPT ![c.id] = NoTimer]
      /\ UNCHANGED <<database, driver, orphans, elapsed>>

ArmTimer(p) ==
  LET c == Head(threads[p].plan)
  IN  /\ Called(p, "arm")
      /\ timers' = [timers EXCEPT ![c.id] = [at |-> c.row.expireAt, armed |-> TRUE]]
      /\ UNCHANGED <<database, driver, orphans, elapsed>>

\* The end of onExpire: the entry goes, whichever timer it now holds.
Forget(p) ==
  LET c == Head(threads[p].plan)
      entry == timers[c.id]
  IN  /\ Called(p, "forget")
      /\ timers' = [timers EXCEPT ![c.id] = NoTimer]
      /\ orphans' = orphans \cup
           (IF entry.armed THEN {[id |-> c.id, at |-> entry.at]} ELSE {})
      /\ UNCHANGED <<database, driver, elapsed>>

SaveEndpoint(p) ==
  LET c == Head(threads[p].plan)
  IN  /\ Called(p, "saveEndpoint")
      /\ endpoints' = [endpoints EXCEPT
           ![c.endpoint] = IF c.enabled \/ @ = "absent" THEN "enabled" ELSE "disabled"]
      /\ UNCHANGED <<rows, driver, clockwork>>

\* Embedded.Stop: the endpoint's runner is torn down with all it runs.
StopEndpoint(p) ==
  LET c == Head(threads[p].plan)
  IN  /\ Called(p, "stopEndpoint")
      /\ wanted' = [wanted EXCEPT ![c.endpoint] = {}]
      /\ live' = [live EXCEPT ![c.endpoint] = {}]
      /\ UNCHANGED <<faults, database, clockwork>>

\* Store.DeleteEndpoint: the endpoint and its tunnels, in one transaction.
DropEndpoint(p) ==
  LET c == Head(threads[p].plan)
  IN  /\ Called(p, "dropEndpoint")
      /\ endpoints' = [endpoints EXCEPT ![c.endpoint] = "absent"]
      /\ rows' = [t \in Tunnels |->
           IF Exists(t) /\ rows[t].endpoint = c.endpoint
           THEN NoRow("deleted") ELSE rows[t]]
      /\ UNCHANGED <<driver, clockwork>>

Step(p) ==
  \/ VisitNext(p)
  \/ Push(p) \/ PushOrFail(p) \/ Remove(p)
  \/ Save(p) \/ Delete(p)
  \/ CancelTimer(p) \/ ArmTimer(p) \/ Forget(p)
  \/ SaveEndpoint(p) \/ StopEndpoint(p) \/ DropEndpoint(p)

-----------------------------------------------------------------------------
(***************************************************************************)
(* The clock, and the daemon's process.                                    *)
(***************************************************************************)
Tick ==
  /\ now < MaxTime
  /\ now' = now + 1
  /\ UNCHANGED <<database, driver, clockwork, threads, phase, asked, crashes>>

\* All that the process holds in memory is lost, frp services included.
Crash ==
  /\ phase # "down"
  /\ crashes < MaxCrashes
  /\ crashes' = crashes + 1
  /\ phase' = "down"
  /\ wanted' = [e \in Endpoints |-> {}]
  /\ live' = [e \in Endpoints |-> {}]
  /\ timers' = [t \in Tunnels |-> NoTimer]
  /\ orphans' = {}
  /\ elapsed' = {}
  /\ threads' = [p \in Threads |-> IF p \in Daemon THEN Idle ELSE threads[p]]
  /\ UNCHANGED <<now, database, faults, asked>>

\* Manager.Start reconciles synchronously before anything is served.
Boot(p) ==
  /\ phase = "down"
  /\ Free(p)
  /\ phase' = "booting"
  /\ threads' = [threads EXCEPT ![p].listed = Snapshot]
  /\ UNCHANGED <<now, database, driver, clockwork, asked, crashes>>

Booted ==
  /\ phase = "booting"
  /\ \A p \in Loops : threads[p] = Idle
  /\ phase' = "up"
  /\ UNCHANGED <<now, database, driver, clockwork, threads, asked, crashes>>

-----------------------------------------------------------------------------
Next ==
  \/ \E p \in Handlers : Request(p)
  \/ \E p \in Shells : Shell(p)
  \/ \E p \in Loops : BeginReconcile(p) \/ Boot(p)
  \/ \E p \in Callbacks, t \in Tunnels : OnExpire(p, t)
  \/ \E p \in Threads : Step(p)
  \/ \E t \in Tunnels : TimerElapses(t)
  \/ \E o \in orphans : OrphanElapses(o)
  \/ Tick
  \/ Crash
  \/ Booted

Spec == Init /\ [][Next]_vars

(***************************************************************************)
(* The reconcile goroutine keeps running, its ticker keeps ticking, and    *)
(* the daemon is restarted.  Nothing is owed by requests, CLI processes,   *)
(* the clock, or the timers: the loop is the fallback when they fail.      *)
(***************************************************************************)
Fairness ==
  /\ \A p \in Loops : WF_vars(Step(p)) /\ WF_vars(BeginReconcile(p)) /\ WF_vars(Boot(p))
  /\ WF_vars(Booted)

FairSpec == Spec /\ Fairness

-----------------------------------------------------------------------------
(***************************************************************************)
(* Properties.                                                             *)
(***************************************************************************)

\* The variables keep their shape.  In particular every planned call carries
\* a complete copy of a row, as the handlers' model.Tunnel does.
TypeOK ==
  /\ now \in Instants
  /\ rows \in [Tunnels -> Row]
  /\ endpoints \in [Endpoints -> {"enabled", "disabled", "absent"}]
  /\ wanted \in [Endpoints -> SUBSET Tunnels]
  /\ live \in [Endpoints -> SUBSET Tunnels]
  /\ timers \in [Tunnels -> [at : Deadlines, armed : BOOLEAN]]
  /\ orphans \subseteq [id : Tunnels, at : Deadlines]
  /\ elapsed \subseteq Tunnels
  /\ threads \in [Threads -> Thread]
  /\ phase \in {"down", "booting", "up"}
  /\ asked \in [Tunnels -> Deadlines]
  /\ crashes \in 0 .. MaxCrashes
  /\ faults \in 0 .. MaxFaults

\* However handlers, reconcile passes, stale timers, CLI writes and crashes
\* interleave, onExpire and Reconcile never mark a tunnel expired before the
\* earliest deadline anybody ever asked for it; one that has always been
\* permanent is never expired at all.
NoEarlyExpiry ==
  \A t \in Tunnels : rows[t].status = "expired" => asked[t] <= now

\* What NoEarlyExpiry needs of a row, be it in the table or a copy in some
\* thread's hands: it bears no deadline that nobody asked for, and is not
\* marked expired before its time.
Warranted(t, row) ==
  /\ asked[t] <= row.expireAt
  /\ row.status = "expired" => asked[t] <= now

WarrantedCalls == {c \in Call : c.do \in TunnelCalls => Warranted(c.id, c.row)}

WarrantedItems ==
  {item \in Listed : /\ Warranted(item.id, item.row)
                     /\ item.due => item.row.expireAt <= now}

\* The strengthening of NoEarlyExpiry that every step preserves: it speaks of
\* the copies of rows that threads hold and of all timers, the orphaned ones
\* and those whose callback is on its way included.
DeadlineInv ==
  /\ \A t \in Tunnels : Warranted(t, rows[t])
  /\ \A p \in Threads : /\ threads[p].plan \in Seq(WarrantedCalls)
                          /\ threads[p].listed \subseteq WarrantedItems
  /\ \A t \in Tunnels : asked[t] <= timers[t].at
  /\ \A o \in orphans : asked[o.id] <= o.at
  /\ \A t \in elapsed : asked[t] <= now

\* Between operations, a proxy that the driver serves belongs to a row that
\* is pending or active, on that endpoint: handlers that stop, expire or
\* delete a tunnel leave no proxy behind.
ServedIsRunning ==
  Quiet => \A e \in Endpoints : \A t \in live[e] :
             Running(t) /\ rows[t].endpoint = e

\* Between operations of a daemon that has booted, the timer the manager
\* tracks for a running tunnel is the one of its row: no deadline without a
\* timer, and no timer for a permanent tunnel.
TimerMatchesRow ==
  (Quiet /\ phase # "down") =>
    \A t \in Tunnels : Running(t) => timers[t].at = rows[t].expireAt

\* The reconcile pass of the boot brings back every running tunnel of an
\* enabled endpoint, whatever the crash interrupted.
BootRestoresService ==
  (Quiet /\ phase = "booting") =>
    \A t \in Tunnels :
      (Running(t) /\ endpoints[rows[t].endpoint] = "enabled")
        => t \in live[rows[t].endpoint]

\* p has a save of t still to make: planned, or for a row its pass has listed.
Holds(p, t) ==
  \/ \E i \in 1 .. Len(threads[p].plan) :
       threads[p].plan[i].do = "save" /\ threads[p].plan[i].id = t
  \/ \E item \in threads[p].listed : item.id = t

\* Whatever overlaps, a deleted tunnel comes back only by the save of a thread
\* that has held a copy of its row since before it was deleted: once it is gone
\* no request, callback, pass or command gets hold of a row to save.
DeletedForGood ==
  [][\A t \in Tunnels : rows[t].status = "deleted" =>
       /\ rows'[t].status = "deleted" \/ \E p \in Threads : Holds(p, t)
       /\ \A p \in Threads : Holds(p, t)' => Holds(p, t)]_vars

\* p has the proxy of t still to push: planned, or for a row its pass has listed.
ToPush(p, t) ==
  \/ \E i \in 1 .. Len(threads[p].plan) :
       /\ threads[p].plan[i].do \in {"push", "pushOrFail"}
       /\ threads[p].plan[i].id = t
  \/ \E item \in threads[p].listed : item.id = t

\* p is going to save t as a row that runs.
Revives(p, t) ==
  \E i \in 1 .. Len(threads[p].plan) :
    /\ threads[p].plan[i].do = "save" /\ threads[p].plan[i].id = t
    /\ RunningRow(threads[p].plan[i].row)

\* Whatever overlaps, the proxy of a tunnel that is stopped, expired or deleted
\* is handed to the driver only by a thread that saves the row as one that runs
\* too (start, renewal), or that has meant to push it since the row still ran.
ServedOnPurpose ==
  [][\A t \in Tunnels : ~Running(t) =>
       /\ \A e \in Endpoints :
            t \in wanted'[e] => t \in wanted[e] \/ \E p \in Threads : ToPush(p, t)
       /\ \A p \in Threads : ToPush(p, t)' => ToPush(p, t) \/ Revives(p, t)']_vars

\* A running tunnel whose deadline has passed is taken out of service in the
\* database too: the callback or, failing that, the reconcile loop does it.
OverdueExpires ==
  \A t \in Tunnels :
    (Running(t) /\ Overdue(rows[t])) ~> ~(Running(t) /\ Overdue(rows[t]))

Unserved(t, e) ==
  /\ Running(t)
  /\ rows[t].endpoint = e
  /\ endpoints[e] = "enabled"
  /\ t \notin live[e]

\* A tunnel that should be served and is not (new and pending, lost in a
\* crash, refused by a failing driver) is eventually pushed to the driver.
RunningIsServed ==
  \A t \in Tunnels, e \in Endpoints : Unserved(t, e) ~> ~Unserved(t, e)
=============================================================================
