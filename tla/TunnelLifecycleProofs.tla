----------------------- MODULE TunnelLifecycleProofs -----------------------
(***************************************************************************)
(* Proofs about TunnelLifecycle, for every set of tunnels, endpoints and   *)
(* threads.  Whatever overlaps: the type invariant; that no tunnel is      *)
(* marked expired before the earliest deadline asked for it; that nobody   *)
(* gets hold of a deleted row, so that only a save whose copy is older     *)
(* brings it back; and that the driver is handed the proxy of a tunnel     *)
(* that does not run only by a thread with a reason from before, or one    *)
(* that makes it run.  Operations one after the other, and no writes of    *)
(* the CLI: the timers match the rows and, if no driver call fails, the    *)
(* pass of the boot restores every tunnel.                                 *)
(***************************************************************************)
EXTENDS TunnelLifecycle, SequenceTheorems, TLAPS

-----------------------------------------------------------------------------
(***************************************************************************)
(* Lemmas about plans: every operation plans calls that carry the row it   *)
(* read, the patched row, or that row with another status.                 *)
(***************************************************************************)

\* A planned call on a tunnel is a Call when the row it carries is a Row.
LEMMA DoIsCall ==
  ASSUME NEW t \in Tunnels, NEW row \in Row, NEW call \in TunnelCalls
  PROVE  Do(call, t, row) \in Call
BY DEF Do, Call

\* The same for a call on an endpoint.
LEMMA DoEndpointIsCall ==
  ASSUME NEW e \in Endpoints, NEW enabled \in BOOLEAN, NEW call \in EndpointCalls
  PROVE  DoEndpoint(call, e, enabled) \in Call
BY DEF DoEndpoint, Call

\* Short sequences, as the plans are written.
LEMMA ShortSeq ==
  ASSUME NEW S, NEW a \in S, NEW b \in S, NEW c \in S, NEW d \in S
  PROVE  /\ <<>> \in Seq(S)
         /\ <<a>> \in Seq(S)
         /\ <<a, b>> \in Seq(S)
         /\ <<a, b, c>> \in Seq(S)
         /\ <<a, b, c, d>> \in Seq(S)
OBVIOUS

\* The calls on a tunnel that leave its row in the table and cannot make the
\* caller give up.
Upkeep == TunnelCalls \ {"delete", "pushOrFail"}

\* Schedule plans one of the two calls on the timer map.
LEMMA ScheduleCall ==
  ASSUME NEW S, NEW t, NEW row,
         \A call \in Upkeep : Do(call, t, row) \in S
  PROVE  Schedule(t, row) \in S
BY DEF Schedule, Upkeep, TunnelCalls

\* The plans of the handlers that keep the row's deadline or replace it, for
\* any set S of acceptable calls.
LEMMA HandlerPlans ==
  ASSUME NEW S, NEW t, NEW row,
         \A call \in Upkeep : Do(call, t, row) \in S
  PROVE  /\ CreatePlan(t, row) \in Seq(S)
         /\ UpdatePlan(t, row) \in Seq(S)
<1>1. Schedule(t, row) \in S
  BY ScheduleCall
<1>2. /\ Do("save", t, row) \in S
      /\ Do("push", t, row) \in S
      /\ Do("remove", t, row) \in S
  BY DEF Upkeep, TunnelCalls
<1>3. CreatePlan(t, row) \in Seq(S)
  BY <1>1, <1>2 DEF CreatePlan
<1>4. /\ <<Do("save", t, row), Schedule(t, row)>> \in Seq(S)
      /\ <<Do("push", t, row)>> \in Seq(S)
      /\ <<>> \in Seq(S)
  BY <1>1, <1>2
<1>5. UpdatePlan(t, row) \in Seq(S)
  BY <1>4, ConcatProperties DEF UpdatePlan
<1> QED
  BY <1>3, <1>5

\* The plan of the handler that deletes a tunnel.
LEMMA RemovalPlan ==
  ASSUME NEW S, NEW t, NEW row, Do("remove", t, row) \in S, Do("delete", t, row) \in S
  PROVE  DeletePlan(t, row) \in Seq(S)
BY ShortSeq DEF DeletePlan

\* The plans that change the status of the row they read.
LEMMA StatusPlans ==
  ASSUME NEW S, NEW t, NEW row, NEW next,
         \A call \in Upkeep : Do(call, t, row) \in S /\ Do(call, t, next) \in S
  PROVE  /\ (next = [row EXCEPT !.status = "active"] /\ Do("pushOrFail", t, row) \in S)
              => StartPlan(t, row) \in Seq(S)
         /\ next = [row EXCEPT !.status = "stopped"] => StopPlan(t, row) \in Seq(S)
         /\ next = [row EXCEPT !.status = "expired"]
              => /\ ExpirePlan(t, row) \in Seq(S)
                 /\ VisitPlan(t, row, TRUE) \in Seq(S)
<1>1. Schedule(t, next) \in S
  BY ScheduleCall
<1>2. \A call \in {"save", "remove", "cancel", "forget"} :
         Do(call, t, row) \in S /\ Do(call, t, next) \in S
  BY DEF Upkeep, TunnelCalls
<1> QED
  BY <1>1, <1>2, ShortSeq DEF StartPlan, StopPlan, ExpirePlan, VisitPlan

\* What Reconcile does to a row that is not overdue.
LEMMA VisitPlans ==
  ASSUME NEW S, NEW t, NEW row,
         \A call \in Upkeep : Do(call, t, row) \in S
  PROVE  VisitPlan(t, row, FALSE) \in Seq(S)
<1>1. Do("push", t, row) \in S /\ Do("arm", t, row) \in S
  BY DEF Upkeep, TunnelCalls
<1>2. /\ <<Do("push", t, row)>> \in Seq(S)
      /\ <<Do("arm", t, row)>> \in Seq(S)
      /\ <<>> \in Seq(S)
  BY <1>1
<1> QED
  BY <1>2, ConcatProperties DEF VisitPlan

\* Renew carries the row it read and the renewed one.
LEMMA RenewPlans ==
  ASSUME NEW S, NEW t, NEW row, NEW until,
         \A call \in Upkeep : /\ Do(call, t, row) \in S
                                   /\ Do(call, t, Renewed(row, until)) \in S
  PROVE  RenewPlan(t, row, until) \in Seq(S)
<1> DEFINE renewed == Renewed(row, until)
           revive == IF Reactivates(row) THEN <<Do("push", t, renewed)>> ELSE <<>>
<1>1. /\ Do("cancel", t, row) \in S
      /\ Do("push", t, renewed) \in S
      /\ Do("save", t, renewed) \in S
      /\ Do("arm", t, renewed) \in S
  BY DEF Upkeep, TunnelCalls
<1>2. revive \in Seq(S)
  BY <1>1, ShortSeq
<1>3. /\ <<Do("cancel", t, row)>> \in Seq(S)
      /\ <<Do("save", t, renewed)>> \in Seq(S)
      /\ <<Do("save", t, renewed), Do("arm", t, renewed)>> \in Seq(S)
  BY <1>1, ShortSeq
<1>4. /\ <<Do("cancel", t, row)>> \o revive \in Seq(S)
      /\ revive \o <<Do("save", t, renewed), Do("arm", t, renewed)>> \in Seq(S)
  BY <1>2, <1>3, ConcatProperties
<1>5. (<<Do("cancel", t, row)>> \o revive) \o <<Do("save", t, renewed)>> \in Seq(S)
  BY <1>3, <1>4, ConcatProperties
<1> QED
  BY <1>4, <1>5 DEF RenewPlan

-----------------------------------------------------------------------------
(***************************************************************************)
(* Type correctness.                                                       *)
(***************************************************************************)

\* A row stays a Row whatever its new status.
LEMMA RowStatus ==
  ASSUME NEW row \in Row, NEW status \in RowStatuses
  PROVE  [row EXCEPT !.status = status] \in Row
BY DEF Row

\* The placeholder of a missing row is a Row, under the assumptions.
LEMMA NoRowType ==
  /\ NoRow("unborn") \in Row
  /\ NoRow("deleted") \in Row
  /\ NoTimer \in [at : Deadlines, armed : BOOLEAN]
BY EndpointsAssumption, TimeAssumption
   DEF NoRow, Row, Deadlines, Never, NoTimer

\* The rows that Renew writes.
LEMMA RenewedType ==
  ASSUME NEW row \in Row, NEW until \in Deadlines
  PROVE  Renewed(row, until) \in Row
BY DEF Renewed, Row, RowStatuses

\* A request leaves everything but its own thread as it was.
LEMMA BeginType ==
  ASSUME TypeOK, NEW p \in Threads, NEW request, NEW plan \in Seq(Call),
         Begin(p, request, plan), asked' \in [Tunnels -> Deadlines]
  PROVE  TypeOK'
<1>1. [plan |-> plan, listed |-> {}] \in Thread
  BY DEF Thread
<1>2. threads' \in [Threads -> Thread]
  BY <1>1 DEF TypeOK, Begin
<1> QED
  BY <1>2 DEF TypeOK, Begin, database, driver, clockwork

\* Asking for a deadline keeps the history variable well typed.
LEMMA AsksType ==
  ASSUME TypeOK, NEW t \in Tunnels, NEW deadline \in Deadlines, Asks(t, deadline)
  PROVE  asked' \in [Tunnels -> Deadlines]
BY DEF TypeOK, Asks

\* Taking the next call off a plan.
LEMMA CalledType ==
  ASSUME TypeOK, NEW p \in Threads, NEW call, Called(p, call)
  PROVE  /\ Head(threads[p].plan) \in Call
         /\ Head(threads[p].plan).do = call
         /\ threads' \in [Threads -> Thread]
<1>1. threads[p] \in Thread
  BY DEF TypeOK
<1>2. threads[p].plan \in Seq(Call) /\ threads[p].plan # <<>>
  BY <1>1 DEF Thread, Called
<1>3. Head(threads[p].plan) \in Call /\ Tail(threads[p].plan) \in Seq(Call)
  BY <1>2, HeadTailProperties
<1>4. [threads[p] EXCEPT !.plan = Tail(@)] \in Thread
  BY <1>1, <1>3 DEF Thread
<1>5. threads' \in [Threads -> Thread]
  BY <1>4 DEF TypeOK, Called
<1> QED
  BY <1>3, <1>5 DEF Called

\* A call on a tunnel carries a tunnel id and a row, the others an endpoint.
LEMMA CallFields ==
  ASSUME NEW c \in Call
  PROVE  /\ c.do \in TunnelCalls => c.id \in Tunnels /\ c.row \in Row
         /\ c.do \in EndpointCalls => c.endpoint \in Endpoints /\ c.enabled \in BOOLEAN
BY DEF Call, TunnelCalls, EndpointCalls

\* What the driver is left with, whether the call succeeds or fails.
LEMMA ApplyType ==
  ASSUME TypeOK, NEW e \in Endpoints, NEW proxies \in SUBSET Tunnels,
         Apply(e, proxies)
  PROVE  /\ wanted' \in [Endpoints -> SUBSET Tunnels]
         /\ live' \in [Endpoints -> SUBSET Tunnels]
         /\ faults' \in 0 .. MaxFaults
BY BoundAssumption DEF TypeOK, Apply

\* A pass lists complete rows.
LEMMA SnapshotType ==
  ASSUME TypeOK
  PROVE  Snapshot \subseteq Listed
<1> SUFFICES ASSUME NEW t \in Tunnels
             PROVE  [id |-> t, row |-> rows[t], due |-> Overdue(rows[t])] \in Listed
  BY DEF Snapshot
<1>1. rows[t] \in Row
  BY DEF TypeOK
<1>2. Overdue(rows[t]) \in BOOLEAN
  BY DEF Overdue
<1> QED
  BY <1>1, <1>2, Zenon DEF Listed

\* Starting a pass in an idle thread.
LEMMA ListType ==
  ASSUME TypeOK, NEW p \in Threads,
         threads' = [threads EXCEPT ![p].listed = Snapshot]
  PROVE  threads' \in [Threads -> Thread]
<1>1. [threads[p] EXCEPT !.listed = Snapshot] \in Thread
  BY SnapshotType DEF TypeOK, Thread
<1> QED
  BY <1>1 DEF TypeOK

\* Every request leaves the state well typed.
LEMMA RequestType ==
  ASSUME TypeOK, NEW p \in Threads, NEW t \in Tunnels,
         \/ CreateTunnel(p, t) \/ UpdateTunnel(p, t)
         \/ StartTunnel(p, t) \/ StopTunnel(p, t) \/ DeleteTunnel(p, t)
         \/ ExtendTunnel(p, t) \/ MakePermanent(p, t)
  PROVE  TypeOK'
<1> USE DEF ValidDeadlines
<1>1. \A row \in Row : \A call \in TunnelCalls : Do(call, t, row) \in Call
  BY DoIsCall
<1>2. rows[t] \in Row /\ asked \in [Tunnels -> Deadlines]
  BY DEF TypeOK
<1>3. \A status \in RowStatuses : [rows[t] EXCEPT !.status = status] \in Row
  BY <1>2, RowStatus
<1>4. CASE CreateTunnel(p, t)
  <2>1. PICK e \in Endpoints, deadline \in Deadlines :
          /\ Begin(p, "create", CreatePlan(t,
               [endpoint |-> e, enabled |-> TRUE, expireAt |-> deadline,
                status |-> "pending"]))
          /\ Asks(t, deadline)
    BY <1>4 DEF CreateTunnel
  <2>2. [endpoint |-> e, enabled |-> TRUE, expireAt |-> deadline,
         status |-> "pending"] \in Row
    BY DEF Row, RowStatuses
  <2>3. CreatePlan(t, [endpoint |-> e, enabled |-> TRUE, expireAt |-> deadline,
                       status |-> "pending"]) \in Seq(Call)
    BY <1>1, <2>2, HandlerPlans DEF Upkeep
  <2> QED
    BY <2>1, <2>3, AsksType, BeginType
<1>5. CASE UpdateTunnel(p, t)
  <2>1. PICK e \in Endpoints, enabled \in BOOLEAN, deadline \in Deadlines :
          /\ Begin(p, "update", UpdatePlan(t,
               [endpoint |-> e, enabled |-> enabled, expireAt |-> deadline,
                status |-> rows[t].status]))
          /\ Asks(t, deadline)
    BY <1>5 DEF UpdateTunnel
  <2>2. [endpoint |-> e, enabled |-> enabled, expireAt |-> deadline,
         status |-> rows[t].status] \in Row
    BY <1>2 DEF Row
  <2>3. UpdatePlan(t, [endpoint |-> e, enabled |-> enabled, expireAt |-> deadline,
                       status |-> rows[t].status]) \in Seq(Call)
    BY <1>1, <2>2, HandlerPlans DEF Upkeep
  <2> QED
    BY <2>1, <2>3, AsksType, BeginType
<1>6. CASE StartTunnel(p, t)
  <2>1. StartPlan(t, rows[t]) \in Seq(Call)
    BY <1>1, <1>2, <1>3, StatusPlans DEF RowStatuses, Upkeep, TunnelCalls
  <2> QED
    BY <1>2, <1>6, <2>1, BeginType DEF StartTunnel
<1>7. CASE StopTunnel(p, t)
  <2>1. StopPlan(t, rows[t]) \in Seq(Call)
    BY <1>1, <1>2, <1>3, StatusPlans DEF RowStatuses, Upkeep
  <2> QED
    BY <1>2, <1>7, <2>1, BeginType DEF StopTunnel
<1>8. CASE DeleteTunnel(p, t)
  <2>1. DeletePlan(t, rows[t]) \in Seq(Call)
    BY <1>1, <1>2, RemovalPlan DEF TunnelCalls
  <2> QED
    BY <1>2, <1>8, <2>1, BeginType DEF DeleteTunnel
<1>9. CASE ExtendTunnel(p, t)
  <2>1. PICK delta \in 1 .. MaxTime :
          /\ RenewBase(t) + delta <= MaxTime
          /\ Begin(p, "renew", RenewPlan(t, rows[t], RenewBase(t) + delta))
          /\ Asks(t, RenewBase(t) + delta)
    BY <1>9 DEF ExtendTunnel
  <2>2. RenewBase(t) + delta \in Deadlines
    BY <1>2, <2>1, TimeAssumption
       DEF TypeOK, RenewBase, Row, Deadlines, Never, Instants
  <2>3. RenewPlan(t, rows[t], RenewBase(t) + delta) \in Seq(Call)
    BY <1>1, <1>2, <2>2, RenewedType, RenewPlans DEF Upkeep
  <2> QED
    BY <2>1, <2>2, <2>3, AsksType, BeginType
<1>10. CASE MakePermanent(p, t)
  <2>1. Never \in Deadlines
    BY TimeAssumption DEF Never, Deadlines
  <2>2. RenewPlan(t, rows[t], Never) \in Seq(Call)
    BY <1>1, <1>2, <2>1, RenewedType, RenewPlans DEF Upkeep
  <2> QED
    BY <1>2, <1>10, <2>2, BeginType DEF MakePermanent
<1> QED
  BY <1>4, <1>5, <1>6, <1>7, <1>8, <1>9, <1>10

\* So does everything the CLI does, and the handlers of endpoints.
LEMMA ShellType ==
  ASSUME TypeOK, NEW p \in Threads, NEW t \in Tunnels,
         \/ ShellAdd(p, t) \/ ShellSetStatus(p, t)
         \/ ShellExtend(p, t) \/ ShellRemove(p, t)
  PROVE  TypeOK'
<1>1. \A row \in Row : \A call \in TunnelCalls : <<Do(call, t, row)>> \in Seq(Call)
  BY DoIsCall, ShortSeq
<1>2. rows[t] \in Row /\ asked \in [Tunnels -> Deadlines]
  BY DEF TypeOK
<1>3. CASE ShellAdd(p, t)
  <2>1. PICK e \in Endpoints, deadline \in Deadlines :
          /\ Begin(p, "shellAdd", <<Do("save", t,
               [endpoint |-> e, enabled |-> TRUE, expireAt |-> deadline,
                status |-> "pending"])>>)
          /\ Asks(t, deadline)
    BY <1>3 DEF ShellAdd
  <2>2. [endpoint |-> e, enabled |-> TRUE, expireAt |-> deadline,
         status |-> "pending"] \in Row
    BY DEF Row, RowStatuses
  <2> QED
    BY <1>1, <2>1, <2>2, AsksType, BeginType DEF TunnelCalls
<1>4. CASE ShellSetStatus(p, t)
  <2>1. PICK status \in {"active", "stopped"} :
          Begin(p, "shellStatus", <<Do("save", t, [rows[t] EXCEPT !.status = status])>>)
    BY <1>4 DEF ShellSetStatus
  <2>2. [rows[t] EXCEPT !.status = status] \in Row
    BY <1>2, RowStatus DEF RowStatuses
  <2> QED
    BY <1>1, <1>2, <1>4, <2>1, <2>2, BeginType DEF TunnelCalls, ShellSetStatus
<1>5. CASE ShellExtend(p, t)
  <2>1. PICK deadline \in Deadlines :
          /\ Begin(p, "shellExtend", <<Do("save", t, [rows[t] EXCEPT !.expireAt = deadline])>>)
          /\ Asks(t, deadline)
    BY <1>5 DEF ShellExtend
  <2>2. [rows[t] EXCEPT !.expireAt = deadline] \in Row
    BY <1>2 DEF Row
  <2> QED
    BY <1>1, <2>1, <2>2, AsksType, BeginType DEF TunnelCalls
<1>6. CASE ShellRemove(p, t)
  BY <1>1, <1>2, <1>6, BeginType DEF TunnelCalls, ShellRemove
<1> QED
  BY <1>3, <1>4, <1>5, <1>6

\* The requests about endpoints, from the web or from the CLI.
LEMMA EndpointType ==
  ASSUME TypeOK, NEW p \in Threads, NEW e \in Endpoints,
         UpdateEndpoint(p, e) \/ DeleteEndpoint(p, e) \/ ShellEndpoint(p, e)
  PROVE  TypeOK'
<1>1. \A call \in EndpointCalls, enabled \in BOOLEAN :
         DoEndpoint(call, e, enabled) \in Call
  BY DoEndpointIsCall
<1>2. /\ DeleteEndpointPlan(e) \in Seq(Call)
      /\ <<DoEndpoint("dropEndpoint", e, FALSE)>> \in Seq(Call)
      /\ \A enabled \in BOOLEAN : <<DoEndpoint("saveEndpoint", e, enabled)>> \in Seq(Call)
  BY <1>1, ShortSeq DEF DeleteEndpointPlan, EndpointCalls
<1>3. asked \in [Tunnels -> Deadlines]
  BY DEF TypeOK
<1> QED
  BY <1>2, <1>3, BeginType DEF UpdateEndpoint, DeleteEndpoint, ShellEndpoint

\* The calls on the driver.
LEMMA DriverCallType ==
  ASSUME TypeOK, NEW p \in Threads,
         Push(p) \/ PushOrFail(p) \/ Remove(p) \/ StopEndpoint(p)
  PROVE  TypeOK'
<1> DEFINE c == Head(threads[p].plan)
<1> USE DEF database, clockwork, driver
<1>1. CASE Push(p)
  <2>1. c \in Call /\ c.do = "push" /\ threads' \in [Threads -> Thread]
    BY <1>1, CalledType DEF Push
  <2>2. c.id \in Tunnels /\ c.row.endpoint \in Endpoints
    BY <2>1, CallFields DEF TunnelCalls, Row
  <2>3. CASE endpoints[c.row.endpoint] = "enabled"
    <3>1. wanted[c.row.endpoint] \cup {c.id} \in SUBSET Tunnels
      BY <2>2 DEF TypeOK
    <3>2. Apply(c.row.endpoint, wanted[c.row.endpoint] \cup {c.id})
      BY <1>1, <2>3 DEF Push
    <3> QED
      BY <1>1, <2>1, <2>2, <3>1, <3>2, ApplyType DEF Push, Called, TypeOK
  <2> QED
    BY <1>1, <2>1, <2>3 DEF Push, Called, TypeOK
<1>2. CASE PushOrFail(p)
  <2>1. threads[p] \in Thread /\ threads[p].plan \in Seq(Call) /\ threads[p].plan # <<>>
    BY <1>2 DEF TypeOK, Thread, PushOrFail
  <2>2. c \in Call /\ Tail(threads[p].plan) \in Seq(Call) /\ <<>> \in Seq(Call)
    BY SMTT(20), <2>1, HeadTailProperties, EmptySeq
  <2>3. c.id \in Tunnels /\ c.row.endpoint \in Endpoints
    BY <1>2, <2>2, CallFields DEF PushOrFail, TunnelCalls, Row
  <2>4. \A plan \in Seq(Call) : [threads[p] EXCEPT !.plan = plan] \in Thread
    BY <2>1 DEF Thread
  <2>5. threads' \in [Threads -> Thread]
    BY <1>2, <2>2, <2>4 DEF PushOrFail, TypeOK
  <2>6. CASE endpoints[c.row.endpoint] = "enabled"
    <3>1. wanted[c.row.endpoint] \cup {c.id} \in SUBSET Tunnels
      BY <2>3 DEF TypeOK
    <3>2. Apply(c.row.endpoint, wanted[c.row.endpoint] \cup {c.id})
      BY <1>2, <2>6 DEF PushOrFail
    <3> QED
      BY ZenonT(40), <1>2, <2>3, <2>5, <3>1, <3>2, ApplyType DEF PushOrFail, TypeOK
  <2> QED
    BY <1>2, <2>5, <2>6 DEF PushOrFail, TypeOK
<1>3. CASE Remove(p)
  <2>1. c \in Call /\ c.do = "remove" /\ threads' \in [Threads -> Thread]
    BY <1>3, CalledType DEF Remove
  <2>2. c.id \in Tunnels /\ c.row.endpoint \in Endpoints
    BY <2>1, CallFields DEF TunnelCalls, Row
  <2>3. CASE endpoints[c.row.endpoint] # "absent"
    <3>1. wanted[c.row.endpoint] \ {c.id} \in SUBSET Tunnels
      BY <2>2 DEF TypeOK
    <3>2. Apply(c.row.endpoint, wanted[c.row.endpoint] \ {c.id})
      BY <1>3, <2>3 DEF Remove
    <3> QED
      BY <1>3, <2>1, <2>2, <3>1, <3>2, ApplyType DEF Remove, Called, TypeOK
  <2> QED
    BY <1>3, <2>1, <2>3 DEF Remove, Called, TypeOK
<1>4. CASE StopEndpoint(p)
  <2>1. c \in Call /\ c.do = "stopEndpoint" /\ threads' \in [Threads -> Thread]
    BY <1>4, CalledType DEF StopEndpoint
  <2> QED
    BY <1>4, <2>1 DEF StopEndpoint, Called, TypeOK
<1> QED
  BY <1>1, <1>2, <1>3, <1>4

\* What gorm stores for a row differs from it in the enabled flag at most.
LEMMA StoredRow ==
  ASSUME NEW t \in Tunnels, NEW row \in Row
  PROVE  /\ Stored(t, row) \in Row
         /\ Stored(t, row).expireAt = row.expireAt
         /\ Stored(t, row).status = row.status
<1>1. Exists(t) \in BOOLEAN
  BY DEF Exists
<1>2. (row.enabled \/ ~Exists(t)) \in BOOLEAN
  BY <1>1 DEF Row
<1> QED
  BY <1>2 DEF Stored, Row

\* The calls on the database.
LEMMA StoreCallType ==
  ASSUME TypeOK, NEW p \in Threads,
         Save(p) \/ Delete(p) \/ SaveEndpoint(p) \/ DropEndpoint(p)
  PROVE  TypeOK'
<1> DEFINE c == Head(threads[p].plan)
<1> USE DEF driver, clockwork
<1>1. CASE Save(p)
  <2>1. c \in Call /\ c.do = "save" /\ threads' \in [Threads -> Thread]
    BY <1>1, CalledType DEF Save
  <2>2. c.id \in Tunnels /\ c.row \in Row
    BY <2>1, CallFields DEF TunnelCalls
  <2>3. Stored(c.id, c.row) \in Row
    BY <2>2, StoredRow
  <2> QED
    BY <1>1, <2>1, <2>2, <2>3 DEF Save, Called, TypeOK
<1>2. CASE Delete(p)
  <2>1. c \in Call /\ c.do = "delete" /\ threads' \in [Threads -> Thread]
    BY <1>2, CalledType DEF Delete
  <2> QED
    BY <1>2, <2>1, NoRowType DEF Delete, Called, TypeOK
<1>3. CASE SaveEndpoint(p)
  <2>1. c \in Call /\ c.do = "saveEndpoint" /\ threads' \in [Threads -> Thread]
    BY <1>3, CalledType DEF SaveEndpoint
  <2> QED
    BY <1>3, <2>1 DEF SaveEndpoint, Called, TypeOK
<1>4. CASE DropEndpoint(p)
  <2>1. c \in Call /\ c.do = "dropEndpoint" /\ threads' \in [Threads -> Thread]
    BY <1>4, CalledType DEF DropEndpoint
  <2>2. rows' \in [Tunnels -> Row]
    BY <1>4, NoRowType DEF DropEndpoint, TypeOK
  <2> QED
    BY <1>4, <2>1, <2>2 DEF DropEndpoint, Called, TypeOK
<1> QED
  BY <1>1, <1>2, <1>3, <1>4

\* The calls on the timer map.
LEMMA TimerCallType ==
  ASSUME TypeOK, NEW p \in Threads,
         CancelTimer(p) \/ ArmTimer(p) \/ Forget(p)
  PROVE  TypeOK'
<1> DEFINE c == Head(threads[p].plan)
<1> USE DEF driver, database
<1>1. CASE CancelTimer(p)
  <2>1. c \in Call /\ threads' \in [Threads -> Thread]
    BY <1>1, CalledType DEF CancelTimer
  <2> QED
    BY <1>1, <2>1, NoRowType DEF CancelTimer, Called, TypeOK
<1>2. CASE ArmTimer(p)
  <2>1. c \in Call /\ c.do = "arm" /\ threads' \in [Threads -> Thread]
    BY <1>2, CalledType DEF ArmTimer
  <2>2. c.row.expireAt \in Deadlines
    BY <2>1, CallFields DEF TunnelCalls, Row
  <2>3. [at |-> c.row.expireAt, armed |-> TRUE] \in [at : Deadlines, armed : BOOLEAN]
    BY <2>2
  <2> QED
    BY <1>2, <2>1, <2>3 DEF ArmTimer, Called, TypeOK
<1>3. CASE Forget(p)
  <2>1. c \in Call /\ c.do = "forget" /\ threads' \in [Threads -> Thread]
    BY <1>3, CalledType DEF Forget
  <2>2. c.id \in Tunnels
    BY <2>1, CallFields DEF TunnelCalls
  <2>3. [id |-> c.id, at |-> timers[c.id].at] \in [id : Tunnels, at : Deadlines]
    BY <2>2 DEF TypeOK
  <2>4. orphans' \subseteq [id : Tunnels, at : Deadlines]
    BY <1>3, <2>3 DEF Forget, TypeOK
  <2> QED
    BY <1>3, <2>1, <2>4, NoRowType DEF Forget, Called, TypeOK
<1> QED
  BY <1>1, <1>2, <1>3

\* The pass of a reconciling thread.
LEMMA VisitType ==
  ASSUME TypeOK, NEW p \in Threads, VisitNext(p)
  PROVE  TypeOK'
<1>1. PICK item \in threads[p].listed :
        threads' = [threads EXCEPT
          ![p] = [plan |-> VisitPlan(item.id, item.row, item.due),
                  listed |-> @.listed \ {item}]]
  BY DEF VisitNext
<1>2. threads[p] \in Thread /\ item \in Listed
  BY DEF TypeOK, Thread
<1>3. item.id \in Tunnels /\ item.row \in Row /\ item.due \in BOOLEAN
  BY <1>2 DEF Listed
<1>4. \A row \in Row : \A call \in TunnelCalls : Do(call, item.id, row) \in Call
  BY <1>3, DoIsCall
<1>5. [item.row EXCEPT !.status = "expired"] \in Row
  BY <1>3, RowStatus DEF RowStatuses
<1>6. VisitPlan(item.id, item.row, item.due) \in Seq(Call)
  BY <1>3, <1>4, <1>5, StatusPlans, VisitPlans DEF Upkeep
<1>7. [plan |-> VisitPlan(item.id, item.row, item.due),
       listed |-> threads[p].listed \ {item}] \in Thread
  BY <1>2, <1>6 DEF Thread
<1> QED
  BY <1>1, <1>7 DEF VisitNext, TypeOK, database, driver, clockwork

\* The callback of an elapsed timer.
LEMMA OnExpireType ==
  ASSUME TypeOK, NEW p \in Threads, NEW t \in Tunnels, OnExpire(p, t)
  PROVE  TypeOK'
<1>1. rows[t] \in Row /\ threads[p] \in Thread
  BY DEF TypeOK
<1>2. [rows[t] EXCEPT !.status = "expired"] \in Row
  BY <1>1, RowStatus DEF RowStatuses
<1>3. ExpirePlan(t, rows[t]) \in Seq(Call)
  BY <1>1, <1>2, DoIsCall, StatusPlans DEF Upkeep
<1>4. [threads[p] EXCEPT !.plan = ExpirePlan(t, rows[t])] \in Thread
  BY <1>1, <1>3 DEF Thread
<1> QED
  BY <1>4 DEF OnExpire, TypeOK, database, driver, clockwork

\* Type correctness: every call that any thread has planned keeps carrying a
\* complete row, whatever happens to the table meanwhile.
THEOREM TypeCorrect == Spec => []TypeOK
<1>1. Init => TypeOK
  <2> SUFFICES ASSUME Init PROVE TypeOK
    OBVIOUS
  <2>1. Idle \in Thread
    BY EmptySeq DEF Idle, Thread
  <2>2. /\ 0 \in Instants
        /\ Never \in Deadlines
        /\ 0 \in 0 .. MaxCrashes
        /\ 0 \in 0 .. MaxFaults
    BY TimeAssumption, BoundAssumption DEF Instants, Deadlines, Never
  <2> QED
    BY <2>1, <2>2, NoRowType DEF Init, TypeOK
<1>2. TypeOK /\ [Next]_vars => TypeOK'
  <2> SUFFICES ASSUME TypeOK, [Next]_vars PROVE TypeOK'
    OBVIOUS
  <2> USE DEF Threads, Daemon
  <2>1. ASSUME NEW p \in Handlers, Request(p) PROVE TypeOK'
    BY <2>1, RequestType, EndpointType DEF Request
  <2>2. ASSUME NEW p \in Shells, Shell(p) PROVE TypeOK'
    BY <2>2, ShellType, EndpointType DEF Shell
  <2>3. ASSUME NEW p \in Loops, BeginReconcile(p) PROVE TypeOK'
    <3>1. threads' \in [Threads -> Thread]
      BY <2>3, ListType DEF BeginReconcile
    <3> QED
      BY <2>3, <3>1 DEF BeginReconcile, TypeOK, database, driver, clockwork
  <2>4. ASSUME NEW p \in Loops, Boot(p) PROVE TypeOK'
    <3>1. threads' \in [Threads -> Thread]
      BY <2>4, ListType DEF Boot
    <3> QED
      BY <2>4, <3>1 DEF Boot, TypeOK, database, driver, clockwork
  <2>5. ASSUME NEW p \in Callbacks, NEW t \in Tunnels, OnExpire(p, t) PROVE TypeOK'
    BY <2>5, OnExpireType
  <2>6. ASSUME NEW p \in Threads, Step(p) PROVE TypeOK'
    BY <2>6, VisitType, DriverCallType, StoreCallType, TimerCallType DEF Step
  <2>7. ASSUME NEW t \in Tunnels, TimerElapses(t) PROVE TypeOK'
    BY <2>7 DEF TimerElapses, TypeOK, database, driver
  <2>8. ASSUME NEW o \in orphans, OrphanElapses(o) PROVE TypeOK'
    BY <2>8 DEF OrphanElapses, TypeOK, database, driver
  <2>9. CASE Tick
    BY <2>9, TimeAssumption DEF Tick, TypeOK, Instants, database, driver, clockwork
  <2>10. CASE Crash
    <3>1. Idle \in Thread
      BY EmptySeq DEF Idle, Thread
    <3>2. threads' \in [Threads -> Thread]
      BY <2>10, <3>1 DEF Crash, TypeOK
    <3>3. crashes' \in 0 .. MaxCrashes
      BY <2>10, BoundAssumption DEF Crash, TypeOK
    <3> QED
      BY <2>10, <3>2, <3>3, NoRowType DEF Crash, TypeOK, database
  <2>11. CASE Booted
    BY <2>11 DEF Booted, TypeOK, database, driver, clockwork
  <2>12. CASE UNCHANGED vars
    BY <2>12 DEF vars, TypeOK, database, driver, clockwork
  <2> QED
    BY <2>1, <2>2, <2>3, <2>4, <2>5, <2>6, <2>7, <2>8, <2>9, <2>10, <2>11, <2>12
       DEF Next
<1> QED
  BY <1>1, <1>2, PTL DEF Spec

-----------------------------------------------------------------------------
(***************************************************************************)
(* No early expiry.  DeadlineInv is the inductive invariant: NoEarlyExpiry *)
(* alone says nothing of the rows that threads are about to write.         *)
(***************************************************************************)

\* Time passes and deadlines asked for only get earlier: what was warranted
\* remains so.
LEMMA WarrantedKept ==
  ASSUME TypeOK, TypeOK',
         now <= now', \A t \in Tunnels : asked'[t] <= asked[t]
  PROVE  /\ \A t \in Tunnels, row \in Row : Warranted(t, row) => Warranted(t, row)'
         /\ WarrantedCalls \subseteq WarrantedCalls'
         /\ WarrantedItems \subseteq WarrantedItems'
<1>1. ASSUME NEW t \in Tunnels, NEW row \in Row, Warranted(t, row)
      PROVE  Warranted(t, row)'
  <2>1. /\ asked[t] \in Nat /\ asked'[t] \in Nat /\ row.expireAt \in Nat
        /\ now \in Nat /\ now' \in Nat
    BY TimeAssumption DEF TypeOK, Row, Deadlines, Instants, Never
  <2> QED
    BY <1>1, <2>1 DEF Warranted
<1>2. WarrantedCalls \subseteq WarrantedCalls'
  BY <1>1, CallFields DEF WarrantedCalls
<1>3. WarrantedItems \subseteq WarrantedItems'
  <2> SUFFICES ASSUME NEW item \in WarrantedItems PROVE item \in WarrantedItems'
    OBVIOUS
  <2>1. item.id \in Tunnels /\ item.row \in Row /\ item.row.expireAt \in Nat
    BY TimeAssumption DEF WarrantedItems, Listed, Row, Deadlines, Never
  <2>2. now \in Nat /\ now' \in Nat
    BY TimeAssumption DEF TypeOK, Instants
  <2> QED
    BY <1>1, <2>1, <2>2 DEF WarrantedItems
<1> QED
  BY <1>1, <1>2, <1>3

\* After a step, a call on a tunnel is warranted when the row it carries is.
LEMMA WarrantedDo ==
  ASSUME NEW t \in Tunnels, NEW row \in Row,
         asked'[t] <= row.expireAt,
         row.status = "expired" => asked'[t] <= now'
  PROVE  \A call \in TunnelCalls : Do(call, t, row) \in WarrantedCalls'
BY DoIsCall DEF WarrantedCalls, Warranted, Do

\* Calls on endpoints always are.
LEMMA WarrantedDoEndpoint ==
  ASSUME NEW e \in Endpoints, NEW enabled \in BOOLEAN, NEW call \in EndpointCalls
  PROVE  DoEndpoint(call, e, enabled) \in WarrantedCalls'
BY DoEndpointIsCall DEF WarrantedCalls, DoEndpoint, TunnelCalls, EndpointCalls

\* The part of DeadlineInv that speaks of threads survives a step in which
\* one thread gets a warranted plan and passes nothing unwarranted on.
LEMMA ThreadKept ==
  ASSUME TypeOK, TypeOK', DeadlineInv,
         now <= now', \A t \in Tunnels : asked'[t] <= asked[t],
         NEW p \in Threads, NEW thread \in Thread,
         thread.plan \in Seq(WarrantedCalls'),
         thread.listed \subseteq WarrantedItems',
         threads' = [threads EXCEPT ![p] = thread]
  PROVE  \A q \in Threads : /\ threads'[q].plan \in Seq(WarrantedCalls')
                             /\ threads'[q].listed \subseteq WarrantedItems'
<1> SUFFICES ASSUME NEW q \in Threads
             PROVE  /\ threads'[q].plan \in Seq(WarrantedCalls')
                    /\ threads'[q].listed \subseteq WarrantedItems'
  OBVIOUS
<1>1. CASE q = p
  BY <1>1 DEF TypeOK
<1>2. CASE q # p
  <2>1. threads'[q] = threads[q]
    BY <1>2 DEF TypeOK
  <2>2. threads[q].plan \in Seq(WarrantedCalls) /\ threads[q].listed \subseteq WarrantedItems
    BY DEF DeadlineInv
  <2> QED
    BY <2>1, <2>2, WarrantedKept, SeqMonotonic
<1> QED
  BY <1>1, <1>2

\* The part that speaks of the table and of the timers, when they do not move.
LEMMA RestKept ==
  ASSUME TypeOK, TypeOK', DeadlineInv,
         now <= now', \A t \in Tunnels : asked'[t] <= asked[t],
         UNCHANGED <<rows, timers, orphans>>, elapsed' \subseteq elapsed
  PROVE  /\ \A t \in Tunnels : Warranted(t, rows[t])'
         /\ \A t \in Tunnels : asked'[t] <= timers'[t].at
         /\ \A o \in orphans' : asked'[o.id] <= o.at
         /\ \A t \in elapsed' : asked'[t] <= now'
<1>1. \A t \in Tunnels : Warranted(t, rows[t])'
  BY WarrantedKept DEF TypeOK, DeadlineInv, Warranted
<1>2. \A t \in Tunnels : /\ asked[t] \in Nat /\ asked'[t] \in Nat
                          /\ timers[t].at \in Nat
  BY TimeAssumption DEF TypeOK, Deadlines, Never
<1>3. \A o \in orphans : o.id \in Tunnels /\ o.at \in Nat
  BY TimeAssumption DEF TypeOK, Deadlines, Never
<1>4. now \in Nat /\ now' \in Nat /\ elapsed \subseteq Tunnels
  BY TimeAssumption DEF TypeOK, Instants
<1> QED
  BY <1>1, <1>2, <1>3, <1>4 DEF DeadlineInv

\* A request keeps the invariant when it plans warranted calls.
LEMMA BeginWarranted ==
  ASSUME TypeOK, TypeOK', DeadlineInv, NEW p \in Threads, NEW request, NEW plan,
         Begin(p, request, plan), plan \in Seq(WarrantedCalls'),
         \A t \in Tunnels : asked'[t] <= asked[t]
  PROVE  DeadlineInv'
<1> DEFINE thread == [plan |-> plan, listed |-> {}]
<1>1. now <= now' /\ UNCHANGED <<rows, timers, orphans, elapsed>>
  BY TimeAssumption DEF Begin, database, clockwork, TypeOK, Instants
<1>2. threads' = [threads EXCEPT ![p] = thread]
  BY DEF Begin
<1>3. thread \in Thread
  BY <1>2 DEF TypeOK
<1>4. \A q \in Threads : /\ threads'[q].plan \in Seq(WarrantedCalls')
                          /\ threads'[q].listed \subseteq WarrantedItems'
  BY <1>1, <1>2, <1>3, ThreadKept
<1> QED
  BY <1>1, <1>4, RestKept DEF DeadlineInv

\* Asking for a deadline never makes the earliest one later, and warrants it.
LEMMA AsksEarlier ==
  ASSUME TypeOK, NEW t \in Tunnels, NEW deadline \in Deadlines, Asks(t, deadline)
  PROVE  /\ \A u \in Tunnels : asked'[u] <= asked[u]
         /\ asked'[t] <= deadline
BY TimeAssumption DEF TypeOK, Asks, Deadlines, Never

\* The row in the table is warranted after any request on its tunnel, and so
\* are its copies with another status or deadline.
LEMMA RowWarranted ==
  ASSUME TypeOK, DeadlineInv, NEW t \in Tunnels,
         now' = now, \A u \in Tunnels : asked'[u] <= asked[u],
         asked' \in [Tunnels -> Deadlines]
  PROVE  /\ rows[t] \in Row
         /\ asked'[t] <= rows[t].expireAt
         /\ rows[t].status = "expired" => asked'[t] <= now'
         /\ rows[t].expireAt \in Nat /\ asked'[t] \in Nat
<1>1. rows[t] \in Row /\ rows[t].expireAt \in Nat
  BY TimeAssumption DEF TypeOK, Row, Deadlines, Never
<1>2. asked[t] \in Nat /\ asked'[t] \in Nat /\ now \in Nat
  BY TimeAssumption DEF TypeOK, Deadlines, Never, Instants
<1>3. asked[t] <= rows[t].expireAt /\ (rows[t].status = "expired" => asked[t] <= now)
  BY DEF DeadlineInv, Warranted
<1> QED
  BY <1>1, <1>2, <1>3

\* Every request plans warranted calls.
LEMMA RequestWarranted ==
  ASSUME TypeOK, TypeOK', DeadlineInv, NEW p \in Threads, NEW t \in Tunnels,
         \/ CreateTunnel(p, t) \/ UpdateTunnel(p, t)
         \/ StartTunnel(p, t) \/ StopTunnel(p, t) \/ DeleteTunnel(p, t)
         \/ ExtendTunnel(p, t) \/ MakePermanent(p, t)
  PROVE  DeadlineInv'
<1> USE DEF ValidDeadlines
<1>0. now' = now
  BY DEF CreateTunnel, UpdateTunnel, StartTunnel, StopTunnel, DeleteTunnel,
         ExtendTunnel, MakePermanent, Begin
<1>1. asked \in [Tunnels -> Deadlines] /\ asked' \in [Tunnels -> Deadlines]
  BY DEF TypeOK
<1>2. UNCHANGED asked => \A u \in Tunnels : asked'[u] <= asked[u]
  BY <1>1, TimeAssumption DEF Deadlines, Never
<1>3. CASE CreateTunnel(p, t)
  <2>1. PICK e \in Endpoints, deadline \in Deadlines :
          /\ Begin(p, "create", CreatePlan(t,
               [endpoint |-> e, enabled |-> TRUE, expireAt |-> deadline,
                status |-> "pending"]))
          /\ Asks(t, deadline)
    BY <1>3 DEF CreateTunnel
  <2> DEFINE row == [endpoint |-> e, enabled |-> TRUE, expireAt |-> deadline,
                     status |-> "pending"]
  <2>2. row \in Row /\ row.expireAt = deadline /\ row.status = "pending"
    BY DEF Row, RowStatuses
  <2>3. (\A u \in Tunnels : asked'[u] <= asked[u]) /\ asked'[t] <= deadline
    BY <2>1, AsksEarlier
  <2>4. \A call \in TunnelCalls : Do(call, t, row) \in WarrantedCalls'
    BY <2>2, <2>3, WarrantedDo
  <2>5. CreatePlan(t, row) \in Seq(WarrantedCalls')
    BY <2>4, HandlerPlans DEF Upkeep
  <2> QED
    BY <2>1, <2>3, <2>5, BeginWarranted
<1>4. CASE UpdateTunnel(p, t)
  <2>1. PICK e \in Endpoints, enabled \in BOOLEAN, deadline \in Deadlines :
          /\ Begin(p, "update", UpdatePlan(t,
               [endpoint |-> e, enabled |-> enabled, expireAt |-> deadline,
                status |-> rows[t].status]))
          /\ Asks(t, deadline)
    BY <1>4 DEF UpdateTunnel
  <2> DEFINE row == [endpoint |-> e, enabled |-> enabled, expireAt |-> deadline,
                     status |-> rows[t].status]
  <2>2. (\A u \in Tunnels : asked'[u] <= asked[u]) /\ asked'[t] <= deadline
    BY <2>1, AsksEarlier
  <2>3. rows[t] \in Row /\ (rows[t].status = "expired" => asked'[t] <= now')
    BY <1>0, <1>1, <2>2, RowWarranted
  <2>4. row \in Row /\ row.expireAt = deadline /\ row.status = rows[t].status
    BY <2>3 DEF Row
  <2>5. \A call \in TunnelCalls : Do(call, t, row) \in WarrantedCalls'
    BY <2>2, <2>3, <2>4, WarrantedDo
  <2>6. UpdatePlan(t, row) \in Seq(WarrantedCalls')
    BY <2>5, HandlerPlans DEF Upkeep
  <2> QED
    BY <2>1, <2>2, <2>6, BeginWarranted
<1>5. ASSUME UNCHANGED asked
      PROVE  /\ \A call \in TunnelCalls : Do(call, t, rows[t]) \in WarrantedCalls'
             /\ \A status \in {"active", "stopped"}, call \in TunnelCalls :
                  Do(call, t, [rows[t] EXCEPT !.status = status]) \in WarrantedCalls'
  <2>1. /\ rows[t] \in Row /\ asked'[t] <= rows[t].expireAt
        /\ rows[t].status = "expired" => asked'[t] <= now'
    BY <1>0, <1>1, <1>2, <1>5, RowWarranted
  <2>2. \A status \in {"active", "stopped"} :
          /\ [rows[t] EXCEPT !.status = status] \in Row
          /\ [rows[t] EXCEPT !.status = status].expireAt = rows[t].expireAt
          /\ [rows[t] EXCEPT !.status = status].status = status
    BY <2>1 DEF Row, RowStatuses
  <2> QED
    BY <2>1, <2>2, WarrantedDo
<1>6. CASE StartTunnel(p, t)
  <2>1. UNCHANGED asked
    BY <1>6 DEF StartTunnel
  <2>2. StartPlan(t, rows[t]) \in Seq(WarrantedCalls')
    BY <1>5, <2>1, StatusPlans DEF Upkeep, TunnelCalls
  <2> QED
    BY <1>2, <1>6, <2>1, <2>2, BeginWarranted DEF StartTunnel
<1>7. CASE StopTunnel(p, t)
  <2>1. UNCHANGED asked
    BY <1>7 DEF StopTunnel
  <2>2. StopPlan(t, rows[t]) \in Seq(WarrantedCalls')
    BY <1>5, <2>1, StatusPlans DEF Upkeep
  <2> QED
    BY <1>2, <1>7, <2>1, <2>2, BeginWarranted DEF StopTunnel
<1>8. CASE DeleteTunnel(p, t)
  <2>1. UNCHANGED asked
    BY <1>8 DEF DeleteTunnel
  <2>2. DeletePlan(t, rows[t]) \in Seq(WarrantedCalls')
    BY <1>5, <2>1, RemovalPlan DEF TunnelCalls
  <2> QED
    BY <1>2, <1>8, <2>1, <2>2, BeginWarranted DEF DeleteTunnel
<1>9. ASSUME NEW until \in Deadlines, \A u \in Tunnels : asked'[u] <= asked[u],
             asked'[t] <= until
      PROVE  RenewPlan(t, rows[t], until) \in Seq(WarrantedCalls')
  <2>1. /\ rows[t] \in Row /\ asked'[t] <= rows[t].expireAt
        /\ rows[t].status = "expired" => asked'[t] <= now'
    BY <1>0, <1>1, <1>9, RowWarranted
  <2>2. /\ Renewed(rows[t], until) \in Row
        /\ Renewed(rows[t], until).expireAt = until
        /\ Renewed(rows[t], until).status = "expired" => rows[t].status = "expired"
    BY <2>1, RenewedType DEF Renewed, Row
  <2>3. \A call \in TunnelCalls : /\ Do(call, t, rows[t]) \in WarrantedCalls'
                                  /\ Do(call, t, Renewed(rows[t], until)) \in WarrantedCalls'
    BY <1>9, <2>1, <2>2, WarrantedDo
  <2> QED
    BY <2>3, RenewPlans DEF Upkeep
<1>10. CASE ExtendTunnel(p, t)
  <2>1. PICK delta \in 1 .. MaxTime :
          /\ RenewBase(t) + delta <= MaxTime
          /\ Begin(p, "renew", RenewPlan(t, rows[t], RenewBase(t) + delta))
          /\ Asks(t, RenewBase(t) + delta)
    BY <1>10 DEF ExtendTunnel
  <2>2. RenewBase(t) + delta \in Deadlines
    BY <2>1, TimeAssumption
       DEF TypeOK, RenewBase, Row, Deadlines, Never, Instants
  <2>3. /\ \A u \in Tunnels : asked'[u] <= asked[u]
        /\ asked'[t] <= RenewBase(t) + delta
    BY <2>1, <2>2, AsksEarlier
  <2>4. RenewPlan(t, rows[t], RenewBase(t) + delta) \in Seq(WarrantedCalls')
    BY <1>9, <2>2, <2>3
  <2> QED
    BY <2>1, <2>3, <2>4, BeginWarranted
<1>11. CASE MakePermanent(p, t)
  <2>1. UNCHANGED asked
    BY <1>11 DEF MakePermanent
  <2>2. Never \in Deadlines /\ asked'[t] <= Never
    BY <1>1, TimeAssumption DEF Never, Deadlines
  <2>3. RenewPlan(t, rows[t], Never) \in Seq(WarrantedCalls')
    BY <1>2, <1>9, <2>1, <2>2
  <2> QED
    BY <1>2, <1>11, <2>1, <2>3, BeginWarranted DEF MakePermanent
<1> QED
  BY <1>3, <1>4, <1>6, <1>7, <1>8, <1>10, <1>11

\* So does every command of the CLI.
LEMMA ShellWarranted ==
  ASSUME TypeOK, TypeOK', DeadlineInv, NEW p \in Threads, NEW t \in Tunnels,
         \/ ShellAdd(p, t) \/ ShellSetStatus(p, t)
         \/ ShellExtend(p, t) \/ ShellRemove(p, t)
  PROVE  DeadlineInv'
<1>0. now' = now
  BY DEF ShellAdd, ShellSetStatus, ShellExtend, ShellRemove, Begin
<1>1. asked \in [Tunnels -> Deadlines] /\ asked' \in [Tunnels -> Deadlines]
  BY DEF TypeOK
<1>2. UNCHANGED asked => \A u \in Tunnels : asked'[u] <= asked[u]
  BY <1>1, TimeAssumption DEF Deadlines, Never
<1>3. ASSUME \A u \in Tunnels : asked'[u] <= asked[u]
      PROVE  /\ rows[t] \in Row /\ asked'[t] <= rows[t].expireAt
             /\ rows[t].status = "expired" => asked'[t] <= now'
  BY <1>0, <1>1, <1>3, RowWarranted
<1>4. ASSUME NEW row \in Row, asked'[t] <= row.expireAt,
             row.status = "expired" => asked'[t] <= now'
      PROVE  /\ <<Do("save", t, row)>> \in Seq(WarrantedCalls')
             /\ <<Do("delete", t, row)>> \in Seq(WarrantedCalls')
  <2>1. Do("save", t, row) \in WarrantedCalls' /\ Do("delete", t, row) \in WarrantedCalls'
    BY <1>4, WarrantedDo DEF TunnelCalls
  <2> QED
    BY <2>1, ShortSeq
<1>5. CASE ShellAdd(p, t)
  <2>1. PICK e \in Endpoints, deadline \in Deadlines :
          /\ Begin(p, "shellAdd", <<Do("save", t,
               [endpoint |-> e, enabled |-> TRUE, expireAt |-> deadline,
                status |-> "pending"])>>)
          /\ Asks(t, deadline)
    BY <1>5 DEF ShellAdd
  <2> DEFINE row == [endpoint |-> e, enabled |-> TRUE, expireAt |-> deadline,
                     status |-> "pending"]
  <2>2. row \in Row /\ row.expireAt = deadline /\ row.status = "pending"
    BY DEF Row, RowStatuses
  <2>3. (\A u \in Tunnels : asked'[u] <= asked[u]) /\ asked'[t] <= deadline
    BY <2>1, AsksEarlier
  <2>4. <<Do("save", t, row)>> \in Seq(WarrantedCalls')
    BY <1>4, <2>2, <2>3
  <2> QED
    BY <2>1, <2>3, <2>4, BeginWarranted
<1>6. CASE ShellSetStatus(p, t)
  <2>1. PICK status \in {"active", "stopped"} :
          Begin(p, "shellStatus", <<Do("save", t, [rows[t] EXCEPT !.status = status])>>)
    BY <1>6 DEF ShellSetStatus
  <2>2. \A u \in Tunnels : asked'[u] <= asked[u]
    BY <1>2, <1>6 DEF ShellSetStatus
  <2>3. /\ [rows[t] EXCEPT !.status = status] \in Row
        /\ [rows[t] EXCEPT !.status = status].expireAt = rows[t].expireAt
        /\ [rows[t] EXCEPT !.status = status].status # "expired"
    BY <1>3, <2>2 DEF Row, RowStatuses
  <2>4. <<Do("save", t, [rows[t] EXCEPT !.status = status])>> \in Seq(WarrantedCalls')
    BY <1>3, <1>4, <2>2, <2>3
  <2> QED
    BY <2>1, <2>2, <2>4, BeginWarranted
<1>7. CASE ShellExtend(p, t)
  <2>1. PICK deadline \in Deadlines :
          /\ Begin(p, "shellExtend", <<Do("save", t, [rows[t] EXCEPT !.expireAt = deadline])>>)
          /\ Asks(t, deadline)
    BY <1>7 DEF ShellExtend
  <2>2. (\A u \in Tunnels : asked'[u] <= asked[u]) /\ asked'[t] <= deadline
    BY <2>1, AsksEarlier
  <2>3. /\ [rows[t] EXCEPT !.expireAt = deadline] \in Row
        /\ [rows[t] EXCEPT !.expireAt = deadline].expireAt = deadline
        /\ [rows[t] EXCEPT !.expireAt = deadline].status = rows[t].status
    BY <1>3, <2>2 DEF Row
  <2>4. <<Do("save", t, [rows[t] EXCEPT !.expireAt = deadline])>> \in Seq(WarrantedCalls')
    BY <1>3, <1>4, <2>2, <2>3
  <2> QED
    BY <2>1, <2>2, <2>4, BeginWarranted
<1>8. CASE ShellRemove(p, t)
  <2>1. \A u \in Tunnels : asked'[u] <= asked[u]
    BY <1>2, <1>8 DEF ShellRemove
  <2>2. <<Do("delete", t, rows[t])>> \in Seq(WarrantedCalls')
    BY <1>3, <1>4, <2>1
  <2> QED
    BY <1>8, <2>1, <2>2, BeginWarranted DEF ShellRemove
<1> QED
  BY <1>5, <1>6, <1>7, <1>8

\* And every request on an endpoint.
LEMMA EndpointWarranted ==
  ASSUME TypeOK, TypeOK', DeadlineInv, NEW p \in Threads, NEW e \in Endpoints,
         UpdateEndpoint(p, e) \/ DeleteEndpoint(p, e) \/ ShellEndpoint(p, e)
  PROVE  DeadlineInv'
<1>1. \A call \in EndpointCalls, enabled \in BOOLEAN :
         DoEndpoint(call, e, enabled) \in WarrantedCalls'
  BY WarrantedDoEndpoint
<1>2. /\ DeleteEndpointPlan(e) \in Seq(WarrantedCalls')
      /\ <<DoEndpoint("dropEndpoint", e, FALSE)>> \in Seq(WarrantedCalls')
      /\ \A enabled \in BOOLEAN :
           <<DoEndpoint("saveEndpoint", e, enabled)>> \in Seq(WarrantedCalls')
  BY <1>1, ShortSeq DEF DeleteEndpointPlan, EndpointCalls
<1>3. UNCHANGED asked
  BY DEF UpdateEndpoint, DeleteEndpoint, ShellEndpoint
<1>4. \A u \in Tunnels : asked'[u] <= asked[u]
  <2>1. \A u \in Tunnels : asked[u] \in Nat
    BY TimeAssumption DEF TypeOK, Deadlines, Never
  <2> QED
    BY <1>3, <2>1
<1> QED
  BY <1>2, <1>4, BeginWarranted DEF UpdateEndpoint, DeleteEndpoint, ShellEndpoint

\* A call hands on nothing unwarranted: the caller's plan only gets shorter.
LEMMA CalledWarranted ==
  ASSUME TypeOK, TypeOK', DeadlineInv, NEW p \in Threads, NEW call, Called(p, call)
  PROVE  /\ Head(threads[p].plan) \in WarrantedCalls
         /\ now' = now /\ UNCHANGED asked
         /\ \A t \in Tunnels : asked'[t] <= asked[t]
         /\ \A q \in Threads : /\ threads'[q].plan \in Seq(WarrantedCalls')
                                /\ threads'[q].listed \subseteq WarrantedItems'
<1>1. /\ now' = now /\ UNCHANGED asked /\ now <= now'
      /\ \A t \in Tunnels : asked'[t] <= asked[t]
  BY TimeAssumption DEF Called, TypeOK, Deadlines, Never, Instants
<1>2. /\ threads[p].plan \in Seq(WarrantedCalls) /\ threads[p].plan # <<>>
      /\ threads[p].listed \subseteq WarrantedItems
  BY DEF DeadlineInv, Called
<1>3. /\ Head(threads[p].plan) \in WarrantedCalls
      /\ Tail(threads[p].plan) \in Seq(WarrantedCalls)
  BY <1>2, HeadTailProperties
<1> DEFINE thread == [threads[p] EXCEPT !.plan = Tail(@)]
<1>4. threads[p] \in Thread /\ threads' = [threads EXCEPT ![p] = thread]
  BY DEF TypeOK, Called
<1>5. thread \in Thread
  BY <1>4 DEF TypeOK
<1>6. thread.plan = Tail(threads[p].plan) /\ thread.listed = threads[p].listed
  BY <1>4 DEF Thread
<1>7. thread.plan \in Seq(WarrantedCalls')
  BY <1>1, <1>3, <1>6, WarrantedKept, SeqMonotonic
<1>8. thread.listed \subseteq WarrantedItems'
  BY <1>1, <1>2, <1>6, WarrantedKept
<1>9. \A q \in Threads : /\ threads'[q].plan \in Seq(WarrantedCalls')
                          /\ threads'[q].listed \subseteq WarrantedItems'
  BY <1>1, <1>4, <1>5, <1>7, <1>8, ThreadKept
<1> QED
  BY <1>1, <1>3, <1>9

\* The calls that reach the driver or the endpoints table disturb nothing
\* that the invariant speaks of.
LEMMA DriverCallWarranted ==
  ASSUME TypeOK, TypeOK', DeadlineInv, NEW p \in Threads,
         Push(p) \/ PushOrFail(p) \/ Remove(p) \/ SaveEndpoint(p) \/ StopEndpoint(p)
  PROVE  DeadlineInv'
<1>1. UNCHANGED <<rows, timers, orphans, elapsed>>
  BY DEF Push, PushOrFail, Remove, SaveEndpoint, StopEndpoint, database, clockwork
<1>2. CASE \E call : Called(p, call)
  <2>1. /\ now' = now /\ \A t \in Tunnels : asked'[t] <= asked[t]
        /\ \A q \in Threads : /\ threads'[q].plan \in Seq(WarrantedCalls')
                               /\ threads'[q].listed \subseteq WarrantedItems'
    BY <1>2, CalledWarranted
  <2>2. now <= now'
    BY SMTT(20), <2>1 DEF TypeOK, Instants
  <2> QED
    BY <1>1, <2>1, <2>2, RestKept DEF DeadlineInv
<1>3. CASE PushOrFail(p)
  <2>1. CASE threads' = [threads EXCEPT ![p].plan = Tail(@)]
    <3>1. Called(p, "pushOrFail")
      BY <1>3, <2>1 DEF PushOrFail, Called
    <3> QED
      BY SMTT(20), <1>2, <3>1
  <2>2. CASE threads' = [threads EXCEPT ![p].plan = <<>>]
    <3> DEFINE thread == [threads[p] EXCEPT !.plan = <<>>]
    <3>1. threads[p] \in Thread /\ threads' = [threads EXCEPT ![p] = thread]
      BY <2>2 DEF TypeOK
    <3>2. thread.plan = <<>> /\ thread.listed = threads[p].listed /\ thread \in Thread
      BY <3>1, EmptySeq DEF Thread
    <3>3. now' = now /\ UNCHANGED asked
      BY <1>3 DEF PushOrFail
    <3>4. now <= now' /\ \A t \in Tunnels : asked'[t] <= asked[t]
      BY <3>3, TimeAssumption DEF TypeOK, Instants, Deadlines, Never
    <3>5. thread.plan \in Seq(WarrantedCalls')
      BY <3>2, EmptySeq
    <3>6. thread.listed \subseteq WarrantedItems'
      BY <3>2, <3>4, WarrantedKept DEF DeadlineInv
    <3>7. \A q \in Threads : /\ threads'[q].plan \in Seq(WarrantedCalls')
                              /\ threads'[q].listed \subseteq WarrantedItems'
      BY <3>1, <3>2, <3>4, <3>5, <3>6, ThreadKept
    <3> QED
      BY <1>1, <3>4, <3>7, RestKept DEF DeadlineInv
  <2> QED
    BY <1>3, <2>1, <2>2 DEF PushOrFail
<1> QED
  BY <1>2, <1>3 DEF Push, Remove, SaveEndpoint, StopEndpoint

\* A row that is absent has no deadline and is not expired.
LEMMA NoRowWarranted ==
  ASSUME TypeOK', NEW t \in Tunnels, NEW status, status # "expired"
  PROVE  /\ asked'[t] <= NoRow(status).expireAt
         /\ NoRow(status).status # "expired"
BY TimeAssumption DEF TypeOK, NoRow, Deadlines, Never

\* What is written to the tunnels table is the warranted row of a planned
\* call, or no row at all.
LEMMA StoreCallWarranted ==
  ASSUME TypeOK, TypeOK', DeadlineInv, NEW p \in Threads,
         Save(p) \/ Delete(p) \/ DropEndpoint(p)
  PROVE  DeadlineInv'
<1> DEFINE c == Head(threads[p].plan)
<1>1. PICK call \in {"save", "delete", "dropEndpoint"} : Called(p, call)
  BY DEF Save, Delete, DropEndpoint
<1>2. /\ c \in WarrantedCalls /\ now' = now /\ UNCHANGED asked
      /\ \A q \in Threads : /\ threads'[q].plan \in Seq(WarrantedCalls')
                             /\ threads'[q].listed \subseteq WarrantedItems'
  BY <1>1, CalledWarranted
<1>3. UNCHANGED <<timers, orphans, elapsed>>
  BY DEF Save, Delete, DropEndpoint, clockwork
<1>4. ASSUME NEW t \in Tunnels PROVE Warranted(t, rows[t])'
  <2>1. Warranted(t, rows[t])
    BY DEF DeadlineInv
  <2>2. rows[t] = rows'[t] => Warranted(t, rows[t])'
    BY <1>2, <2>1 DEF Warranted
  <2>3. rows'[t] = NoRow("deleted") => Warranted(t, rows[t])'
    BY NoRowWarranted DEF Warranted
  <2>4. CASE Save(p)
    <3>1. c.do = "save" /\ rows' = [rows EXCEPT ![c.id] = Stored(c.id, c.row)]
      BY <2>4 DEF Save, Called
    <3>2. c.id \in Tunnels /\ c.row \in Row /\ Warranted(c.id, c.row)
      BY <1>2, <3>1, CallFields DEF WarrantedCalls, TunnelCalls
    <3>3. rows'[c.id] = Stored(c.id, c.row)
      BY <3>1, <3>2 DEF TypeOK
    <3>4. rows'[c.id].expireAt = c.row.expireAt /\ rows'[c.id].status = c.row.status
      BY <3>2, <3>3, StoredRow
    <3>5. t = c.id => Warranted(t, rows[t])'
      BY <1>2, <3>2, <3>4 DEF Warranted
    <3>6. t # c.id => rows'[t] = rows[t]
      BY <3>1 DEF TypeOK
    <3> QED
      BY <2>2, <3>5, <3>6
  <2>5. CASE Delete(p)
    <3>1. rows' = [rows EXCEPT ![c.id] = NoRow("deleted")]
      BY <2>5 DEF Delete
    <3>2. rows'[t] = rows[t] \/ rows'[t] = NoRow("deleted")
      BY <3>1 DEF TypeOK
    <3> QED
      BY <2>2, <2>3, <3>2
  <2>6. CASE DropEndpoint(p)
    <3>1. rows'[t] = rows[t] \/ rows'[t] = NoRow("deleted")
      BY <2>6 DEF DropEndpoint
    <3> QED
      BY <2>2, <2>3, <3>1
  <2> QED
    BY <2>4, <2>5, <2>6
<1> QED
  BY <1>2, <1>3, <1>4 DEF DeadlineInv

\* The map of timers: what is armed has the deadline of a warranted row, and
\* what the map loses track of it was tracking before.
LEMMA TimerCallWarranted ==
  ASSUME TypeOK, TypeOK', DeadlineInv, NEW p \in Threads,
         CancelTimer(p) \/ ArmTimer(p) \/ Forget(p)
  PROVE  DeadlineInv'
<1> DEFINE c == Head(threads[p].plan)
<1>1. PICK call \in {"cancel", "arm", "forget"} : Called(p, call) /\ c.do = call
  BY DEF CancelTimer, ArmTimer, Forget, Called
<1>2. /\ c \in WarrantedCalls /\ now' = now /\ UNCHANGED asked
      /\ \A q \in Threads : /\ threads'[q].plan \in Seq(WarrantedCalls')
                             /\ threads'[q].listed \subseteq WarrantedItems'
  BY <1>1, CalledWarranted
<1>3. c.id \in Tunnels /\ Warranted(c.id, c.row)
  BY SMTT(20), <1>1, <1>2, CallFields DEF WarrantedCalls, TunnelCalls
<1>4. UNCHANGED <<rows, elapsed>>
  BY DEF CancelTimer, ArmTimer, Forget, database
<1>5. (\A t \in Tunnels : Warranted(t, rows[t])') /\ \A t \in elapsed' : asked'[t] <= now'
  BY <1>2, <1>4 DEF DeadlineInv, Warranted
<1>6. ASSUME NEW t \in Tunnels PROVE asked'[t] <= timers'[t].at
  <2>1. asked[t] <= timers[t].at
    BY DEF DeadlineInv
  <2>2. asked'[t] <= NoTimer.at
    BY TimeAssumption DEF TypeOK, NoTimer, Deadlines, Never
  <2>3. CASE CancelTimer(p) \/ Forget(p)
    <3>1. timers' = [timers EXCEPT ![c.id] = NoTimer]
      BY <2>3 DEF CancelTimer, Forget
    <3>2. timers'[t] = timers[t] \/ timers'[t] = NoTimer
      BY <3>1 DEF TypeOK
    <3> QED
      BY <1>2, <2>1, <2>2, <3>2
  <2>4. CASE ArmTimer(p)
    <3>1. timers' = [timers EXCEPT ![c.id] = [at |-> c.row.expireAt, armed |-> TRUE]]
      BY <2>4 DEF ArmTimer
    <3>2. t # c.id => timers'[t] = timers[t]
      BY <3>1 DEF TypeOK
    <3>3. t = c.id => timers'[t].at = c.row.expireAt
      BY <1>3, <3>1 DEF TypeOK
    <3> QED
      BY <1>2, <1>3, <2>1, <3>2, <3>3 DEF Warranted
  <2> QED
    BY <2>3, <2>4
<1>7. \A o \in orphans' : asked'[o.id] <= o.at
  <2>1. orphans' \subseteq orphans \cup {[id |-> c.id, at |-> timers[c.id].at]}
    BY DEF CancelTimer, ArmTimer, Forget
  <2>2. asked[c.id] <= timers[c.id].at
    BY <1>3 DEF DeadlineInv
  <2> QED
    BY <1>2, <2>1, <2>2 DEF DeadlineInv
<1> QED
  BY <1>2, <1>5, <1>6, <1>7 DEF DeadlineInv

\* A reconcile pass plans to expire only what was due when it was listed.
LEMMA VisitWarranted ==
  ASSUME TypeOK, TypeOK', DeadlineInv, NEW p \in Threads, VisitNext(p)
  PROVE  DeadlineInv'
<1>1. PICK item \in threads[p].listed :
        threads' = [threads EXCEPT
          ![p] = [plan |-> VisitPlan(item.id, item.row, item.due),
                  listed |-> @.listed \ {item}]]
  BY DEF VisitNext
<1>2. /\ UNCHANGED <<now, rows, timers, orphans, elapsed, asked>>
      /\ threads[p] \in Thread
  BY DEF VisitNext, database, clockwork, TypeOK
<1>3. now <= now' /\ \A t \in Tunnels : asked'[t] <= asked[t]
  BY <1>2, TimeAssumption DEF TypeOK, Instants, Deadlines, Never
<1>4. threads[p].listed \subseteq WarrantedItems
  BY DEF DeadlineInv
<1>5. /\ item.id \in Tunnels /\ item.row \in Row /\ item.due \in BOOLEAN
      /\ Warranted(item.id, item.row)
      /\ item.due => item.row.expireAt <= now
  BY <1>4 DEF WarrantedItems, Listed
<1> DEFINE thread == [plan |-> VisitPlan(item.id, item.row, item.due),
                      listed |-> threads[p].listed \ {item}]
<1>6. threads' = [threads EXCEPT ![p] = thread] /\ thread \in Thread
  BY <1>1 DEF TypeOK
<1>7. /\ asked'[item.id] <= item.row.expireAt
      /\ item.row.status = "expired" => asked'[item.id] <= now'
  BY <1>2, <1>5 DEF Warranted
<1>8. \A call \in TunnelCalls : Do(call, item.id, item.row) \in WarrantedCalls'
  BY <1>5, <1>7, WarrantedDo
<1>9. ASSUME item.due
      PROVE  \A call \in TunnelCalls :
               Do(call, item.id, [item.row EXCEPT !.status = "expired"]) \in WarrantedCalls'
  <2> DEFINE expired == [item.row EXCEPT !.status = "expired"]
  <2>1. expired \in Row /\ expired.expireAt = item.row.expireAt
    BY <1>5 DEF Row, RowStatuses
  <2>2. asked'[item.id] \in Nat /\ item.row.expireAt \in Nat /\ now \in Nat
    BY <1>5, TimeAssumption DEF TypeOK, Row, Deadlines, Never, Instants
  <2>3. asked'[item.id] <= now'
    BY <1>2, <1>5, <1>7, <1>9, <2>2
  <2> HIDE DEF expired
  <2> QED
    BY <1>5, <1>7, <2>1, <2>3, WarrantedDo DEF expired
<1>10. thread.plan \in Seq(WarrantedCalls')
  <2>1. CASE item.due
    BY <1>5, <1>8, <1>9, <2>1, StatusPlans DEF Upkeep
  <2>2. CASE ~item.due
    BY <1>5, <1>8, <2>2, VisitPlans DEF Upkeep
  <2> QED
    BY <2>1, <2>2
<1>11. thread.listed \subseteq WarrantedItems'
  BY <1>3, <1>4, WarrantedKept
<1>12. \A q \in Threads : /\ threads'[q].plan \in Seq(WarrantedCalls')
                           /\ threads'[q].listed \subseteq WarrantedItems'
  BY <1>3, <1>6, <1>10, <1>11, ThreadKept
<1> QED
  BY <1>2, <1>3, <1>12, RestKept DEF DeadlineInv

\* The callback of a timer may find another deadline in the row than the one
\* it was armed for, but some deadline asked for has passed.
LEMMA OnExpireWarranted ==
  ASSUME TypeOK, TypeOK', DeadlineInv, NEW p \in Threads, NEW t \in Tunnels,
         OnExpire(p, t)
  PROVE  DeadlineInv'
<1>1. /\ UNCHANGED <<now, rows, timers, orphans, asked>> /\ elapsed' \subseteq elapsed
      /\ threads[p] \in Thread
  BY DEF OnExpire, database, TypeOK
<1>2. now <= now' /\ \A u \in Tunnels : asked'[u] <= asked[u]
  BY <1>1, TimeAssumption DEF TypeOK, Instants, Deadlines, Never
<1> DEFINE thread == [threads[p] EXCEPT !.plan = ExpirePlan(t, rows[t])]
<1>3. threads' = [threads EXCEPT ![p] = thread]
  BY DEF OnExpire, TypeOK
<1>4. thread \in Thread
  BY <1>3 DEF TypeOK
<1>5. /\ thread.plan = ExpirePlan(t, rows[t]) /\ thread.listed = threads[p].listed
  BY <1>1 DEF Thread
<1>6. rows[t] \in Row /\ asked'[t] <= rows[t].expireAt /\ asked'[t] <= now'
  BY <1>1 DEF OnExpire, DeadlineInv, Warranted, TypeOK
<1>7. \A call \in TunnelCalls : Do(call, t, rows[t]) \in WarrantedCalls'
  BY <1>6, WarrantedDo
<1> DEFINE expired == [rows[t] EXCEPT !.status = "expired"]
<1>8. expired \in Row /\ expired.expireAt = rows[t].expireAt
  BY <1>6 DEF Row, RowStatuses
<1>9. \A call \in TunnelCalls : Do(call, t, expired) \in WarrantedCalls'
  <2> HIDE DEF expired
  <2> QED
    BY <1>6, <1>8, WarrantedDo
<1>10. thread.plan \in Seq(WarrantedCalls')
  BY <1>5, <1>7, <1>9, StatusPlans DEF Upkeep
<1>11. thread.listed \subseteq WarrantedItems'
  BY <1>2, <1>5, WarrantedKept DEF DeadlineInv
<1>12. \A q \in Threads : /\ threads'[q].plan \in Seq(WarrantedCalls')
                           /\ threads'[q].listed \subseteq WarrantedItems'
  BY <1>2, <1>3, <1>4, <1>10, <1>11, ThreadKept
<1> QED
  BY <1>1, <1>2, <1>12, RestKept DEF DeadlineInv

\* A pass, at boot or later, lists warranted rows.
LEMMA ListWarranted ==
  ASSUME TypeOK, TypeOK', DeadlineInv, NEW p \in Threads,
         BeginReconcile(p) \/ Boot(p)
  PROVE  DeadlineInv'
<1>1. /\ UNCHANGED <<now, rows, timers, orphans, elapsed, asked>>
      /\ threads' = [threads EXCEPT ![p].listed = Snapshot]
      /\ threads[p] \in Thread
  BY DEF BeginReconcile, Boot, database, clockwork, TypeOK
<1>2. now <= now' /\ \A t \in Tunnels : asked'[t] <= asked[t]
  BY <1>1, TimeAssumption DEF TypeOK, Instants, Deadlines, Never
<1> DEFINE thread == [threads[p] EXCEPT !.listed = Snapshot]
<1>3. threads' = [threads EXCEPT ![p] = thread]
  BY <1>1 DEF TypeOK
<1>4. thread \in Thread
  BY <1>3 DEF TypeOK
<1>5. thread.plan = threads[p].plan /\ thread.listed = Snapshot
  BY <1>1 DEF Thread
<1>6. thread.plan \in Seq(WarrantedCalls')
  BY <1>2, <1>5, WarrantedKept, SeqMonotonic DEF DeadlineInv
<1>7. Snapshot \subseteq WarrantedItems
  <2>1. ASSUME NEW t \in Tunnels
        PROVE  [id |-> t, row |-> rows[t], due |-> Overdue(rows[t])] \in WarrantedItems
    <3>1. rows[t] \in Row /\ Warranted(t, rows[t])
      BY DEF TypeOK, DeadlineInv
    <3>2. Overdue(rows[t]) \in BOOLEAN /\ (Overdue(rows[t]) => rows[t].expireAt <= now)
      BY DEF Overdue
    <3> QED
      BY <3>1, <3>2 DEF WarrantedItems, Listed
  <2> QED
    BY <2>1 DEF Snapshot
<1>8. thread.listed \subseteq WarrantedItems'
  BY <1>2, <1>5, <1>7, WarrantedKept
<1>9. \A q \in Threads : /\ threads'[q].plan \in Seq(WarrantedCalls')
                          /\ threads'[q].listed \subseteq WarrantedItems'
  BY <1>2, <1>3, <1>4, <1>6, <1>8, ThreadKept
<1> QED
  BY <1>1, <1>2, <1>9, RestKept DEF DeadlineInv

\* The steps of the clock, the timers and the process.
LEMMA ProcessWarranted ==
  ASSUME TypeOK, TypeOK', DeadlineInv,
         \/ \E t \in Tunnels : TimerElapses(t)
         \/ \E o \in orphans : OrphanElapses(o)
         \/ Tick \/ Crash \/ Booted \/ UNCHANGED vars
  PROVE  DeadlineInv'
<1>1. /\ UNCHANGED <<rows, asked>>
      /\ now <= now'
  BY TimeAssumption DEF TimerElapses, OrphanElapses, Tick, Crash, Booted, vars,
     database, TypeOK, Instants
<1>2. \A t \in Tunnels : asked'[t] <= asked[t]
  BY <1>1, TimeAssumption DEF TypeOK, Deadlines, Never
<1>3. \A t \in Tunnels : Warranted(t, rows[t])'
  BY <1>1, <1>2, WarrantedKept DEF DeadlineInv, TypeOK, Warranted
<1>4. \A p \in Threads : /\ threads'[p].plan \in Seq(WarrantedCalls')
                          /\ threads'[p].listed \subseteq WarrantedItems'
  <2> SUFFICES ASSUME NEW p \in Threads
               PROVE  /\ threads'[p].plan \in Seq(WarrantedCalls')
                      /\ threads'[p].listed \subseteq WarrantedItems'
    OBVIOUS
  <2>1. threads'[p] = threads[p] \/ threads'[p] = Idle
    BY DEF TimerElapses, OrphanElapses, Tick, Crash, Booted, vars
  <2>2. CASE threads'[p] = Idle
    BY <2>2, EmptySeq DEF Idle
  <2>3. CASE threads'[p] = threads[p]
    BY <1>1, <1>2, <2>3, WarrantedKept, SeqMonotonic DEF DeadlineInv
  <2> QED
    BY <2>1, <2>2, <2>3
<1>5. \A t \in Tunnels : /\ asked[t] \in Nat /\ asked'[t] = asked[t]
                          /\ timers[t].at \in Nat /\ asked[t] <= timers[t].at
                          /\ asked[t] <= Never
  BY <1>1, TimeAssumption DEF TypeOK, Deadlines, Never, DeadlineInv
<1>6. now \in Nat /\ now' \in Nat
  BY TimeAssumption DEF TypeOK, Instants
<1>7. \A t \in Tunnels : asked'[t] <= timers'[t].at
  BY <1>5 DEF TimerElapses, OrphanElapses, Tick, Crash, Booted, vars, clockwork,
     TypeOK, NoTimer
<1>8. \A o \in orphans' : asked'[o.id] <= o.at
  BY <1>1 DEF TimerElapses, OrphanElapses, Tick, Crash, Booted, vars, clockwork,
     DeadlineInv
<1>9. \A t \in elapsed' : asked'[t] <= now'
  <2>1. \A t \in elapsed : asked'[t] <= now'
    BY <1>1, <1>5, <1>6 DEF DeadlineInv, TypeOK
  <2>2. ASSUME NEW t \in Tunnels, TimerElapses(t) PROVE asked'[t] <= now'
    BY <1>5, <1>6, <2>2 DEF TimerElapses
  <2>3. ASSUME NEW o \in orphans, OrphanElapses(o) PROVE asked'[o.id] <= now'
    <3>1. o.id \in Tunnels /\ o.at \in Nat /\ asked[o.id] <= o.at
      BY TimeAssumption DEF TypeOK, DeadlineInv, Deadlines, Never
    <3> QED
      BY <1>5, <1>6, <2>3, <3>1 DEF OrphanElapses
  <2>4. CASE \E t \in Tunnels : TimerElapses(t)
    BY <2>1, <2>2, <2>4 DEF TimerElapses
  <2>5. CASE \E o \in orphans : OrphanElapses(o)
    BY <2>1, <2>3, <2>5 DEF OrphanElapses
  <2>6. CASE Tick \/ Crash \/ Booted \/ UNCHANGED vars
    BY <2>1, <2>6 DEF Tick, Crash, Booted, vars, clockwork
  <2> QED
    BY <2>4, <2>5, <2>6
<1> QED
  BY <1>3, <1>4, <1>7, <1>8, <1>9 DEF DeadlineInv

\* The inductive invariant holds for any number of tunnels, endpoints and
\* threads of each kind, whatever they request and however they interleave.
THEOREM DeadlinesHold == Spec => []DeadlineInv
<1>1. Init => DeadlineInv
  <2> SUFFICES ASSUME Init PROVE DeadlineInv
    OBVIOUS
  <2>1. \A t \in Tunnels : Warranted(t, rows[t]) /\ asked[t] <= timers[t].at
    <3> SUFFICES ASSUME NEW t \in Tunnels
                 PROVE  Warranted(t, rows[t]) /\ asked[t] <= timers[t].at
      OBVIOUS
    <3>1. /\ rows[t].expireAt = Never /\ rows[t].status = "unborn"
          /\ asked[t] = Never /\ timers[t].at = Never
      BY DEF Init, NoRow, NoTimer
    <3>2. Never <= Never
      BY TimeAssumption DEF Never
    <3> QED
      BY <3>1, <3>2 DEF Warranted
  <2>2. \A p \in Threads : /\ threads[p].plan \in Seq(WarrantedCalls)
                            /\ threads[p].listed \subseteq WarrantedItems
    BY EmptySeq DEF Init, Idle
  <2> QED
    BY <2>1, <2>2 DEF Init, DeadlineInv
<1>2. TypeOK /\ TypeOK' /\ DeadlineInv /\ [Next]_vars => DeadlineInv'
  <2> SUFFICES ASSUME TypeOK, TypeOK', DeadlineInv, [Next]_vars PROVE DeadlineInv'
    OBVIOUS
  <2> USE DEF Threads, Daemon
  <2>1. ASSUME NEW p \in Handlers, Request(p) PROVE DeadlineInv'
    BY <2>1, RequestWarranted, EndpointWarranted DEF Request
  <2>2. ASSUME NEW p \in Shells, Shell(p) PROVE DeadlineInv'
    BY <2>2, ShellWarranted, EndpointWarranted DEF Shell
  <2>3. ASSUME NEW p \in Loops, BeginReconcile(p) \/ Boot(p) PROVE DeadlineInv'
    BY <2>3, ListWarranted
  <2>4. ASSUME NEW p \in Callbacks, NEW t \in Tunnels, OnExpire(p, t)
        PROVE  DeadlineInv'
    BY <2>4, OnExpireWarranted
  <2>5. ASSUME NEW p \in Threads, Step(p) PROVE DeadlineInv'
    BY <2>5, VisitWarranted, DriverCallWarranted, StoreCallWarranted,
       TimerCallWarranted DEF Step
  <2> QED
    BY <2>1, <2>2, <2>3, <2>4, <2>5, ProcessWarranted DEF Next
<1> QED
  BY <1>1, <1>2, TypeCorrect, PTL DEF Spec

\* No tunnel is ever marked expired before the earliest deadline that anybody
\* asked for it: the strengthening implies the property.
THEOREM NoEarlyExpiryHolds == Spec => []NoEarlyExpiry
<1>1. DeadlineInv => NoEarlyExpiry
  BY DEF DeadlineInv, NoEarlyExpiry, Warranted
<1> QED
  BY <1>1, DeadlinesHold, PTL

-----------------------------------------------------------------------------
(***************************************************************************)
(* What overlap cannot do to a tunnel that was deleted, stopped or expired.*)
(* A thread gets hold of a row when it begins, or lists, and then only of  *)
(* a row that it finds; from there on its calls only become fewer.         *)
(***************************************************************************)
\* The calls that are about something else than t, and those that push nothing.
Bystanders(t) == {c \in Call : c.do \in TunnelCalls => c.id # t}
Pushless == {c \in Call : c.do \notin {"push", "pushOrFail"}}

\* The plan saves t as a row that runs.
Restarts(plan, t) ==
  \E i \in 1 .. Len(plan) :
    plan[i].do = "save" /\ plan[i].id = t /\ RunningRow(plan[i].row)

\* What a thread may plan for t: nothing on a row that is gone, and no push
\* on one that does not run unless it is going to run.
Allowed(plan, t) ==
  \/ plan \in Seq(Bystanders(t))
  \/ /\ rows[t].status # "deleted"
     /\ Running(t) \/ plan \in Seq(Pushless) \/ Restarts(plan, t)

\* No thread newly gets hold of t against the two properties.
NoneTakes(t) ==
  \A q \in Threads :
    /\ rows[t].status = "deleted" => (Holds(q, t)' => Holds(q, t))
    /\ ~Running(t) => (ToPush(q, t)' => ToPush(q, t) \/ Revives(q, t)')

\* What a request or a callback does to the threads.
Begins(p, plan) ==
  /\ threads'[p].plan = plan /\ threads'[p].listed = {}
  /\ \A q \in Threads \ {p} : threads'[q] = threads[q]

\* A thread that begins an allowed plan, and has nothing listed.
LEMMA BeginTakes ==
  ASSUME TypeOK, NEW p \in Threads, NEW t \in Tunnels, NEW plan,
         Begins(p, plan), Allowed(plan, t)
  PROVE  NoneTakes(t)
<1>1. /\ threads'[p].plan = plan /\ threads'[p].listed = {}
      /\ \A q \in Threads \ {p} : threads'[q] = threads[q]
  BY DEF TypeOK, Begins
<1>2. \A q \in Threads \ {p} : /\ Holds(q, t)' <=> Holds(q, t)
                               /\ ToPush(q, t)' <=> ToPush(q, t)
  BY <1>1 DEF Holds, ToPush
<1>3. CASE plan \in Seq(Bystanders(t))
  <2>1. \A i \in 1 .. Len(plan) : plan[i].do \in TunnelCalls => plan[i].id # t
    BY <1>3, ElementOfSeq DEF Bystanders
  <2>2. ~Holds(p, t)' /\ ~ToPush(p, t)'
    BY <1>1, <2>1 DEF Holds, ToPush, TunnelCalls
  <2> QED
    BY <1>2, <2>2 DEF NoneTakes
<1>4. CASE plan \in Seq(Pushless) /\ rows[t].status # "deleted"
  <2>1. \A i \in 1 .. Len(plan) : plan[i].do \notin {"push", "pushOrFail"}
    BY <1>4, ElementOfSeq DEF Pushless
  <2>2. ~ToPush(p, t)'
    BY <1>1, <2>1 DEF ToPush
  <2> QED
    BY <1>2, <1>4, <2>2 DEF NoneTakes
<1>5. CASE Restarts(plan, t) /\ rows[t].status # "deleted"
  <2>1. Revives(p, t)'
    BY <1>1, <1>5 DEF Restarts, Revives
  <2> QED
    BY <1>2, <1>5, <2>1 DEF NoneTakes
<1>6. CASE Running(t) /\ rows[t].status # "deleted"
  BY <1>2, <1>6 DEF NoneTakes
<1> QED
  BY <1>3, <1>4, <1>5, <1>6 DEF Allowed

\* A thread that goes on with a plan has at most the calls that it had.
LEMMA RestTakes ==
  ASSUME TypeOK, NEW p \in Threads, NEW t \in Tunnels,
         threads[p].plan # <<>>,
         \/ threads' = [threads EXCEPT ![p].plan = Tail(@)]
         \/ threads' = [threads EXCEPT ![p].plan = <<>>]
  PROVE  NoneTakes(t)
<1>1. threads[p] \in Thread /\ threads[p].plan \in Seq(Call)
  BY DEF TypeOK, Thread
<1>2. /\ threads'[p].listed = threads[p].listed
      /\ \A q \in Threads \ {p} : threads'[q] = threads[q]
      /\ threads'[p].plan = <<>> \/ threads'[p].plan = Tail(threads[p].plan)
  BY <1>1 DEF TypeOK, Thread
<1>3. \A i \in 1 .. Len(threads'[p].plan) :
         /\ i + 1 \in 1 .. Len(threads[p].plan)
         /\ threads'[p].plan[i] = threads[p].plan[i + 1]
  <2>1. CASE threads'[p].plan = <<>>
    BY <2>1
  <2>2. CASE threads'[p].plan = Tail(threads[p].plan)
    BY <1>1, <2>2
  <2> QED
    BY <1>2, <2>1, <2>2
<1>4. Holds(p, t)' => Holds(p, t)
  BY <1>2, <1>3 DEF Holds
<1>5. ToPush(p, t)' => ToPush(p, t)
  BY <1>2, <1>3 DEF ToPush
<1>6. \A q \in Threads \ {p} : /\ Holds(q, t)' <=> Holds(q, t)
                               /\ ToPush(q, t)' <=> ToPush(q, t)
  BY <1>2 DEF Holds, ToPush
<1> QED
  BY <1>4, <1>5, <1>6 DEF NoneTakes

\* Every request about u plans calls on u alone, with complete rows.
LEMMA RequestPlans ==
  ASSUME TypeOK, NEW p \in Threads, NEW u \in Tunnels, NEW S,
         \A row \in Row, call \in TunnelCalls : Do(call, u, row) \in S,
         \/ CreateTunnel(p, u) \/ UpdateTunnel(p, u)
         \/ StartTunnel(p, u) \/ StopTunnel(p, u) \/ DeleteTunnel(p, u)
         \/ ExtendTunnel(p, u) \/ MakePermanent(p, u)
  PROVE  \E plan \in Seq(S) : Begins(p, plan)
<1> USE DEF ValidDeadlines
<1>1. rows[u] \in Row
  BY DEF TypeOK
<1>2. \A status \in RowStatuses : [rows[u] EXCEPT !.status = status] \in Row
  BY <1>1, RowStatus
<1>3. \A request, plan : Begin(p, request, plan) => Begins(p, plan)
  BY DEF Begin, Begins, TypeOK
<1>4. CASE CreateTunnel(p, u)
  <2>1. PICK e \in Endpoints, deadline \in Deadlines :
          Begin(p, "create", CreatePlan(u,
            [endpoint |-> e, enabled |-> TRUE, expireAt |-> deadline,
             status |-> "pending"]))
    BY <1>4 DEF CreateTunnel
  <2>2. [endpoint |-> e, enabled |-> TRUE, expireAt |-> deadline,
         status |-> "pending"] \in Row
    BY DEF Row, RowStatuses
  <2>3. CreatePlan(u, [endpoint |-> e, enabled |-> TRUE, expireAt |-> deadline,
                       status |-> "pending"]) \in Seq(S)
    BY <2>2, HandlerPlans DEF Upkeep
  <2> QED
    BY <1>3, <2>1, <2>3
<1>5. CASE UpdateTunnel(p, u)
  <2>1. PICK e \in Endpoints, enabled \in BOOLEAN, deadline \in Deadlines :
          Begin(p, "update", UpdatePlan(u,
            [endpoint |-> e, enabled |-> enabled, expireAt |-> deadline,
             status |-> rows[u].status]))
    BY <1>5 DEF UpdateTunnel
  <2>2. [endpoint |-> e, enabled |-> enabled, expireAt |-> deadline,
         status |-> rows[u].status] \in Row
    BY <1>1 DEF Row
  <2>3. UpdatePlan(u, [endpoint |-> e, enabled |-> enabled, expireAt |-> deadline,
                       status |-> rows[u].status]) \in Seq(S)
    BY <2>2, HandlerPlans DEF Upkeep
  <2> QED
    BY <1>3, <2>1, <2>3
<1>6. CASE StartTunnel(p, u)
  <2>1. StartPlan(u, rows[u]) \in Seq(S)
    BY <1>1, <1>2, StatusPlans DEF RowStatuses, Upkeep, TunnelCalls
  <2> QED
    BY <1>3, <1>6, <2>1 DEF StartTunnel
<1>7. CASE StopTunnel(p, u)
  <2>1. StopPlan(u, rows[u]) \in Seq(S)
    BY <1>1, <1>2, StatusPlans DEF RowStatuses, Upkeep
  <2> QED
    BY <1>3, <1>7, <2>1 DEF StopTunnel
<1>8. CASE DeleteTunnel(p, u)
  <2>1. DeletePlan(u, rows[u]) \in Seq(S)
    BY <1>1, RemovalPlan DEF TunnelCalls
  <2> QED
    BY <1>3, <1>8, <2>1 DEF DeleteTunnel
<1>9. CASE ExtendTunnel(p, u)
  <2>1. PICK delta \in 1 .. MaxTime :
          /\ RenewBase(u) + delta <= MaxTime
          /\ Begin(p, "renew", RenewPlan(u, rows[u], RenewBase(u) + delta))
    BY <1>9 DEF ExtendTunnel
  <2>2. RenewBase(u) + delta \in Deadlines
    BY <1>1, <2>1, TimeAssumption
       DEF TypeOK, RenewBase, Row, Deadlines, Never, Instants
  <2>3. RenewPlan(u, rows[u], RenewBase(u) + delta) \in Seq(S)
    BY <1>1, <2>2, RenewedType, RenewPlans DEF Upkeep
  <2> QED
    BY <1>3, <2>1, <2>3
<1>10. CASE MakePermanent(p, u)
  <2>1. Never \in Deadlines
    BY TimeAssumption DEF Never, Deadlines
  <2>2. RenewPlan(u, rows[u], Never) \in Seq(S)
    BY <1>1, <2>1, RenewedType, RenewPlans DEF Upkeep
  <2> QED
    BY <1>3, <1>10, <2>2 DEF MakePermanent
<1> QED
  BY <1>4, <1>5, <1>6, <1>7, <1>8, <1>9, <1>10

\* Renewal pushes only what it saves as running.
LEMMA RenewAllowed ==
  ASSUME TypeOK, NEW t \in Tunnels, NEW until \in Deadlines, Exists(t)
  PROVE  Allowed(RenewPlan(t, rows[t], until), t)
<1> DEFINE row == rows[t]
           renewed == Renewed(row, until)
           plan == RenewPlan(t, row, until)
<1>1. rows[t] \in Row /\ renewed \in Row /\ rows[t].status # "deleted"
  BY RenewedType DEF TypeOK, Exists, RowStatuses
<1>2. \A r \in Row, call \in TunnelCalls : Do(call, t, r) \in Call
  BY DoIsCall
<1>3. CASE Reactivates(row)
  <2>1. renewed.status = "active"
    BY <1>1, <1>3 DEF Renewed, Row
  <2>2. RunningRow(renewed)
    BY <2>1 DEF RunningRow
  <2>3. CASE until = Never
    <3>1. plan = (<<Do("cancel", t, row)>> \o <<Do("push", t, renewed)>>)
                   \o <<Do("save", t, renewed)>>
      BY <1>3, <2>3 DEF RenewPlan
    <3>2. plan[3] = Do("save", t, renewed) /\ Len(plan) = 3
      BY <3>1
    <3> QED
      BY <1>1, <2>2, <3>2 DEF Allowed, Restarts, Do
  <2>4. CASE until # Never
    <3>1. plan = <<Do("push", t, renewed)>>
                   \o <<Do("save", t, renewed), Do("arm", t, renewed)>>
      BY <1>3, <2>4 DEF RenewPlan
    <3>2. plan[2] = Do("save", t, renewed) /\ Len(plan) = 3
      BY <3>1
    <3> QED
      BY <1>1, <2>2, <3>2 DEF Allowed, Restarts, Do
  <2> QED
    BY <2>3, <2>4
<1>4. CASE ~Reactivates(row)
  <2>1. plan \in {(<<Do("cancel", t, row)>> \o <<>>) \o <<Do("save", t, renewed)>>,
                  <<>> \o <<Do("save", t, renewed), Do("arm", t, renewed)>>}
    BY <1>4 DEF RenewPlan
  <2>2. /\ Do("cancel", t, row) \in Pushless
        /\ Do("save", t, renewed) \in Pushless
        /\ Do("arm", t, renewed) \in Pushless
    BY <1>1, <1>2 DEF Pushless, Do, TunnelCalls
  <2>3. /\ <<Do("cancel", t, row)>> \in Seq(Pushless)
        /\ <<Do("save", t, renewed)>> \in Seq(Pushless)
        /\ <<Do("save", t, renewed), Do("arm", t, renewed)>> \in Seq(Pushless)
        /\ <<>> \in Seq(Pushless)
    BY <2>2, ShortSeq
  <2>4. <<Do("cancel", t, row)>> \o <<>> \in Seq(Pushless)
    BY <2>3, ConcatProperties
  <2>5. /\ (<<Do("cancel", t, row)>> \o <<>>) \o <<Do("save", t, renewed)>> \in Seq(Pushless)
        /\ <<>> \o <<Do("save", t, renewed), Do("arm", t, renewed)>> \in Seq(Pushless)
    BY <2>3, <2>4, ConcatProperties
  <2>6. plan \in Seq(Pushless)
    BY <2>1, <2>5
  <2> QED
    BY <1>1, <2>6 DEF Allowed
<1> QED
  BY <1>3, <1>4

\* A request about t itself plans what is allowed.
LEMMA OwnRequestTakes ==
  ASSUME TypeOK, NEW p \in Threads, NEW t \in Tunnels,
         \/ CreateTunnel(p, t) \/ UpdateTunnel(p, t)
         \/ StartTunnel(p, t) \/ StopTunnel(p, t) \/ DeleteTunnel(p, t)
         \/ ExtendTunnel(p, t) \/ MakePermanent(p, t)
  PROVE  NoneTakes(t)
<1> USE DEF ValidDeadlines
<1>1. rows[t] \in Row
  BY DEF TypeOK
<1>2. Exists(t) \/ rows[t].status = "unborn" => rows[t].status # "deleted"
  BY DEF Exists, RowStatuses
<1>3. \A request, plan : Begin(p, request, plan) => Begins(p, plan)
  BY DEF Begin, Begins, TypeOK
<1>4. \A row \in Row, call \in TunnelCalls \ {"push", "pushOrFail"} :
         Do(call, t, row) \in Pushless
  BY DoIsCall DEF Pushless, Do
<1>5. \A row \in Row : <<Do("save", t, row), Schedule(t, row)>> \in Seq(Pushless)
  BY <1>4, ShortSeq DEF Schedule, TunnelCalls
<1>6. CASE CreateTunnel(p, t)
  <2>1. PICK e \in Endpoints, deadline \in Deadlines :
          Begin(p, "create", CreatePlan(t,
            [endpoint |-> e, enabled |-> TRUE, expireAt |-> deadline,
             status |-> "pending"]))
    BY <1>6 DEF CreateTunnel
  <2>2. [endpoint |-> e, enabled |-> TRUE, expireAt |-> deadline,
         status |-> "pending"] \in Row
    BY DEF Row, RowStatuses
  <2>3. CreatePlan(t, [endpoint |-> e, enabled |-> TRUE, expireAt |-> deadline,
                       status |-> "pending"]) \in Seq(Pushless)
    BY <1>5, <2>2 DEF CreatePlan
  <2> QED
    BY <1>2, <1>3, BeginTakes, <1>6, <2>1, <2>3 DEF CreateTunnel, Allowed
<1>7. CASE UpdateTunnel(p, t)
  <2>1. PICK e \in Endpoints, enabled \in BOOLEAN, deadline \in Deadlines :
          Begin(p, "update", UpdatePlan(t,
            [endpoint |-> e, enabled |-> enabled, expireAt |-> deadline,
             status |-> rows[t].status]))
    BY <1>7 DEF UpdateTunnel
  <2> DEFINE patch == [endpoint |-> e, enabled |-> enabled, expireAt |-> deadline,
                       status |-> rows[t].status]
  <2>2. patch \in Row /\ patch.status = rows[t].status
    BY <1>1 DEF Row
  <2>3. CASE patch.status = "active"
    <3>1. Running(t) /\ rows[t].status # "deleted"
      BY <2>2, <2>3 DEF Running, RunningRow
    <3>2. Allowed(UpdatePlan(t, patch), t)
      BY <3>1 DEF Allowed
    <3> QED
      BY <1>3, <2>1, <3>2, BeginTakes
  <2>4. CASE patch.status # "active"
    <3>1. UpdatePlan(t, patch) = <<Do("save", t, patch), Schedule(t, patch)>> \o <<>>
      BY <2>4 DEF UpdatePlan
    <3>2. UpdatePlan(t, patch) \in Seq(Pushless)
      <4>1. <<Do("save", t, patch), Schedule(t, patch)>> \in Seq(Pushless)
        BY <1>5, <2>2
      <4>2. <<>> \in Seq(Pushless)
        BY EmptySeq
      <4> QED
        BY <3>1, <4>1, <4>2, ConcatProperties
    <3> QED
      BY <1>2, <1>3, BeginTakes, <1>7, <2>1, <3>2 DEF UpdateTunnel, Allowed
  <2> QED
    BY <2>3, <2>4
<1>8. CASE StartTunnel(p, t)
  <2> DEFINE plan == StartPlan(t, rows[t])
             active == [rows[t] EXCEPT !.status = "active"]
  <2>1. RunningRow(active)
    BY <1>1 DEF RunningRow, Row
  <2>2. Len(plan) = 3 /\ plan[2] = Do("save", t, active)
    BY DEF StartPlan
  <2>3. Restarts(plan, t)
    BY <2>1, <2>2 DEF Restarts, Do
  <2> QED
    BY <1>2, <1>3, BeginTakes, <1>8, <2>3 DEF StartTunnel, Allowed
<1>9. CASE StopTunnel(p, t)
  <2>1. [rows[t] EXCEPT !.status = "stopped"] \in Row
    BY <1>1, RowStatus DEF RowStatuses
  <2>2. StopPlan(t, rows[t]) \in Seq(Pushless)
    BY <1>1, <1>4, <2>1, ShortSeq DEF StopPlan, TunnelCalls
  <2> QED
    BY <1>2, <1>3, BeginTakes, <1>9, <2>2 DEF StopTunnel, Allowed
<1>10. CASE DeleteTunnel(p, t)
  <2>1. DeletePlan(t, rows[t]) \in Seq(Pushless)
    BY <1>1, <1>4, RemovalPlan DEF TunnelCalls
  <2> QED
    BY <1>2, <1>3, BeginTakes, <1>10, <2>1 DEF DeleteTunnel, Allowed
<1>11. CASE ExtendTunnel(p, t)
  <2>1. PICK delta \in 1 .. MaxTime :
          /\ RenewBase(t) + delta <= MaxTime
          /\ Begin(p, "renew", RenewPlan(t, rows[t], RenewBase(t) + delta))
    BY <1>11 DEF ExtendTunnel
  <2>2. RenewBase(t) + delta \in Deadlines
    BY <1>1, <2>1, TimeAssumption
       DEF TypeOK, RenewBase, Row, Deadlines, Never, Instants
  <2>3. Allowed(RenewPlan(t, rows[t], RenewBase(t) + delta), t)
    BY <1>11, <2>2, RenewAllowed DEF ExtendTunnel
  <2> QED
    BY <1>3, <2>1, <2>3, BeginTakes
<1>12. CASE MakePermanent(p, t)
  <2>1. Never \in Deadlines
    BY TimeAssumption DEF Never, Deadlines
  <2>2. Allowed(RenewPlan(t, rows[t], Never), t)
    BY <1>12, <2>1, RenewAllowed DEF MakePermanent
  <2> QED
    BY <1>3, <1>12, <2>2, BeginTakes DEF MakePermanent
<1> QED
  BY <1>6, <1>7, <1>8, <1>9, <1>10, <1>11, <1>12

\* Calls on u are bystanders to every other tunnel.
LEMMA ElsewhereCalls ==
  ASSUME NEW t \in Tunnels, NEW u \in Tunnels \ {t}
  PROVE  \A row \in Row, call \in TunnelCalls : Do(call, u, row) \in Bystanders(t)
BY DoIsCall DEF Bystanders, Do

\* Every request of the web is allowed, for the tunnel that it is about and
\* for all the others.
LEMMA RequestTakes ==
  ASSUME TypeOK, NEW p \in Threads, NEW u \in Tunnels, NEW t \in Tunnels,
         \/ CreateTunnel(p, u) \/ UpdateTunnel(p, u)
         \/ StartTunnel(p, u) \/ StopTunnel(p, u) \/ DeleteTunnel(p, u)
         \/ ExtendTunnel(p, u) \/ MakePermanent(p, u)
  PROVE  NoneTakes(t)
<1>1. CASE u = t
  BY <1>1, OwnRequestTakes
<1>2. CASE u # t
  <2>1. \A row \in Row, call \in TunnelCalls : Do(call, u, row) \in Bystanders(t)
    BY <1>2, ElsewhereCalls
  <2>2. PICK plan \in Seq(Bystanders(t)) : Begins(p, plan)
    BY <2>1, RequestPlans
  <2>3. Allowed(plan, t)
    BY DEF Allowed
  <2> QED
    BY <2>2, <2>3, BeginTakes
<1> QED
  BY <1>1, <1>2

\* So is what the CLI writes: it saves a row that it found, or removes it.
LEMMA ShellTakes ==
  ASSUME TypeOK, NEW p \in Threads, NEW u \in Tunnels, NEW t \in Tunnels,
         \/ ShellAdd(p, u) \/ ShellSetStatus(p, u)
         \/ ShellExtend(p, u) \/ ShellRemove(p, u)
  PROVE  NoneTakes(t)
<1>1. rows[u] \in Row
  BY DEF TypeOK
<1>2. rows[u].status # "deleted"
  BY DEF ShellAdd, ShellSetStatus, ShellExtend, ShellRemove, Exists, RowStatuses
<1>3. PICK row \in Row, call \in {"save", "delete"} : Begins(p, <<Do(call, u, row)>>)
  <2>1. CASE ShellAdd(p, u)
    <3>1. PICK e \in Endpoints, deadline \in Deadlines :
            Begin(p, "shellAdd", <<Do("save", u,
              [endpoint |-> e, enabled |-> TRUE, expireAt |-> deadline,
               status |-> "pending"])>>)
      BY <2>1 DEF ShellAdd
    <3>2. [endpoint |-> e, enabled |-> TRUE, expireAt |-> deadline,
           status |-> "pending"] \in Row
      BY DEF Row, RowStatuses
    <3> QED
      BY <3>1, <3>2 DEF Begin, Begins, TypeOK
  <2>2. CASE ShellSetStatus(p, u)
    <3>1. PICK status \in {"active", "stopped"} :
            Begin(p, "shellStatus", <<Do("save", u, [rows[u] EXCEPT !.status = status])>>)
      BY <2>2 DEF ShellSetStatus
    <3>2. [rows[u] EXCEPT !.status = status] \in Row
      BY <1>1, RowStatus DEF RowStatuses
    <3> QED
      BY <3>1, <3>2 DEF Begin, Begins, TypeOK
  <2>3. CASE ShellExtend(p, u)
    <3>1. PICK deadline \in Deadlines :
            Begin(p, "shellExtend",
                  <<Do("save", u, [rows[u] EXCEPT !.expireAt = deadline])>>)
      BY <2>3 DEF ShellExtend
    <3>2. [rows[u] EXCEPT !.expireAt = deadline] \in Row
      BY <1>1 DEF Row
    <3> QED
      BY <3>1, <3>2 DEF Begin, Begins, TypeOK
  <2>4. CASE ShellRemove(p, u)
    BY <1>1, <2>4 DEF ShellRemove, Begin, Begins, TypeOK
  <2> QED
    BY <2>1, <2>2, <2>3, <2>4
<1>4. <<Do(call, u, row)>> \in Seq(Pushless)
  <2>1. Do(call, u, row) \in Pushless
    BY DoIsCall DEF Pushless, Do, TunnelCalls
  <2> QED
    BY <2>1, ShortSeq
<1>5. u # t => <<Do(call, u, row)>> \in Seq(Bystanders(t))
  BY ElsewhereCalls, ShortSeq DEF TunnelCalls
<1>6. Allowed(<<Do(call, u, row)>>, t)
  BY <1>2, <1>4, <1>5 DEF Allowed
<1> QED
  BY <1>3, <1>6, BeginTakes

\* The requests about endpoints hold no row of a tunnel.
LEMMA EndpointTakes ==
  ASSUME TypeOK, NEW p \in Threads, NEW e \in Endpoints, NEW t \in Tunnels,
         UpdateEndpoint(p, e) \/ DeleteEndpoint(p, e) \/ ShellEndpoint(p, e)
  PROVE  NoneTakes(t)
<1>1. \A call \in EndpointCalls, enabled \in BOOLEAN :
         DoEndpoint(call, e, enabled) \in Bystanders(t)
  BY DoEndpointIsCall DEF Bystanders, DoEndpoint, EndpointCalls, TunnelCalls
<1>2. /\ DeleteEndpointPlan(e) \in Seq(Bystanders(t))
      /\ <<DoEndpoint("dropEndpoint", e, FALSE)>> \in Seq(Bystanders(t))
      /\ \A enabled \in BOOLEAN :
           <<DoEndpoint("saveEndpoint", e, enabled)>> \in Seq(Bystanders(t))
  BY <1>1, ShortSeq DEF DeleteEndpointPlan, EndpointCalls
<1>3. \A request, plan : Begin(p, request, plan) => Begins(p, plan)
  BY DEF Begin, Begins, TypeOK
<1>4. PICK plan \in Seq(Bystanders(t)) : Begins(p, plan)
  <2>1. CASE UpdateEndpoint(p, e)
    BY <1>2, <1>3, <2>1 DEF UpdateEndpoint
  <2>2. CASE DeleteEndpoint(p, e)
    BY <1>2, <1>3, <2>2 DEF DeleteEndpoint
  <2>3. CASE ShellEndpoint(p, e)
    BY <1>2, <1>3, <2>3 DEF ShellEndpoint
  <2> QED
    BY <2>1, <2>2, <2>3
<1> QED
  BY <1>4, BeginTakes DEF Allowed

\* A pass lists the rows that run.
LEMMA ListTakes ==
  ASSUME TypeOK, NEW p \in Threads, NEW t \in Tunnels,
         threads[p] = Idle, threads' = [threads EXCEPT ![p].listed = Snapshot]
  PROVE  NoneTakes(t)
<1>1. /\ threads'[p].plan = <<>> /\ threads'[p].listed = Snapshot
      /\ \A q \in Threads \ {p} : threads'[q] = threads[q]
  BY DEF TypeOK, Idle
<1>2. \A q \in Threads \ {p} : /\ Holds(q, t)' <=> Holds(q, t)
                               /\ ToPush(q, t)' <=> ToPush(q, t)
  BY <1>1 DEF Holds, ToPush
<1>3. ~Running(t) => \A item \in Snapshot : item.id # t
  BY DEF Snapshot
<1>4. ~Running(t) => ~Holds(p, t)' /\ ~ToPush(p, t)'
  BY <1>1, <1>3 DEF Holds, ToPush
<1>5. rows[t].status = "deleted" => ~Running(t)
  BY DEF Running, RunningRow
<1> QED
  BY <1>2, <1>4, <1>5 DEF NoneTakes

\* The pass goes on to a row that it had listed.
LEMMA VisitTakes ==
  ASSUME TypeOK, NEW p \in Threads, NEW t \in Tunnels, VisitNext(p)
  PROVE  NoneTakes(t)
<1>1. PICK item \in threads[p].listed :
        threads' = [threads EXCEPT
          ![p] = [plan |-> VisitPlan(item.id, item.row, item.due),
                  listed |-> @.listed \ {item}]]
  BY DEF VisitNext
<1>2. threads[p] \in Thread /\ item \in Listed
  BY DEF TypeOK, Thread
<1>3. item.id \in Tunnels /\ item.row \in Row /\ item.due \in BOOLEAN
  BY <1>2 DEF Listed
<1>4. /\ threads'[p].plan = VisitPlan(item.id, item.row, item.due)
      /\ threads'[p].listed = threads[p].listed \ {item}
      /\ \A q \in Threads \ {p} : threads'[q] = threads[q]
  BY <1>1 DEF TypeOK
<1>5. \A q \in Threads \ {p} : /\ Holds(q, t)' <=> Holds(q, t)
                               /\ ToPush(q, t)' <=> ToPush(q, t)
  BY <1>4 DEF Holds, ToPush
<1>6. CASE item.id = t
  BY <1>5, <1>6 DEF NoneTakes, Holds, ToPush
<1>7. CASE item.id # t
  <2>1. \A row \in Row, call \in TunnelCalls : Do(call, item.id, row) \in Bystanders(t)
    BY <1>3, <1>7, ElsewhereCalls
  <2>2. [item.row EXCEPT !.status = "expired"] \in Row
    BY <1>3, RowStatus DEF RowStatuses
  <2>3. VisitPlan(item.id, item.row, item.due) \in Seq(Bystanders(t))
    BY <1>3, <2>1, <2>2, StatusPlans, VisitPlans DEF Upkeep
  <2>4. \A i \in 1 .. Len(threads'[p].plan) :
           threads'[p].plan[i].do \in TunnelCalls => threads'[p].plan[i].id # t
    BY <1>4, <2>3, ElementOfSeq DEF Bystanders
  <2>5. Holds(p, t)' => Holds(p, t)
    BY <1>4, <2>4 DEF Holds, TunnelCalls
  <2>6. ToPush(p, t)' => ToPush(p, t)
    BY <1>4, <2>4 DEF ToPush, TunnelCalls
  <2> QED
    BY <1>5, <2>5, <2>6 DEF NoneTakes
<1> QED
  BY <1>6, <1>7

\* A callback takes up a row that runs, or nothing.
LEMMA OnExpireTakes ==
  ASSUME TypeOK, NEW p \in Threads, NEW u \in Tunnels, NEW t \in Tunnels, OnExpire(p, u)
  PROVE  NoneTakes(t)
<1> DEFINE plan == ExpirePlan(u, rows[u])
<1>1. rows[u] \in Row /\ threads[p] = Idle
  BY DEF TypeOK, OnExpire, Free
<1>2. Begins(p, plan)
  BY <1>1 DEF OnExpire, Idle, TypeOK, Begins
<1>3. [rows[u] EXCEPT !.status = "expired"] \in Row
  BY <1>1, RowStatus DEF RowStatuses
<1>4. Running(u) => rows[u].status # "deleted"
  BY DEF Running, RunningRow
<1>5. ~Running(u) => plan = <<>>
  BY DEF ExpirePlan, Running
<1>6. u # t => plan \in Seq(Bystanders(t))
  BY <1>1, <1>3, ElsewhereCalls, StatusPlans DEF Upkeep
<1>7. Allowed(plan, t)
  BY <1>4, <1>5, <1>6, EmptySeq DEF Allowed
<1> QED
  BY <1>2, <1>7, BeginTakes

\* A call changes a deleted row only if it is a save of it, and gives the
\* driver a proxy only if it is a push of it.
LEMMA CallReaches ==
  ASSUME TypeOK, NEW p \in Threads, NEW t \in Tunnels, Step(p), ~VisitNext(p)
  PROVE  /\ NoneTakes(t)
         /\ rows[t].status = "deleted" => rows'[t].status = "deleted" \/ Holds(p, t)
         /\ \A e \in Endpoints : t \in wanted'[e] => t \in wanted[e] \/ ToPush(p, t)
<1> DEFINE c == Head(threads[p].plan)
<1>1. threads[p].plan # <<>>
  BY DEF Step, Push, PushOrFail, Remove, Save, Delete, CancelTimer, ArmTimer, Forget,
         SaveEndpoint, StopEndpoint, DropEndpoint, Called
<1>2. threads[p].plan \in Seq(Call) /\ c \in Call
  BY <1>1, HeadTailProperties DEF TypeOK, Thread
<1>3. 1 \in 1 .. Len(threads[p].plan) /\ threads[p].plan[1] = c
  BY <1>1, <1>2
<1>4. c.do = "save" /\ c.id = t => Holds(p, t)
  BY <1>3 DEF Holds
<1>5. c.do \in {"push", "pushOrFail"} /\ c.id = t => ToPush(p, t)
  BY <1>3 DEF ToPush
<1>6. \/ threads' = [threads EXCEPT ![p].plan = Tail(@)]
      \/ threads' = [threads EXCEPT ![p].plan = <<>>]
  BY DEF Step, Push, PushOrFail, Remove, Save, Delete, CancelTimer, ArmTimer, Forget,
         SaveEndpoint, StopEndpoint, DropEndpoint, Called
<1>7. NoneTakes(t)
  BY <1>1, <1>6, RestTakes
<1>8. rows[t].status = "deleted" => rows'[t].status = "deleted" \/ Holds(p, t)
  <2>1. CASE Save(p)
    BY <1>4, <2>1 DEF Save, Called, TypeOK
  <2>2. CASE Delete(p)
    BY <2>2 DEF Delete, TypeOK, NoRow
  <2>3. CASE DropEndpoint(p)
    BY <2>3 DEF DropEndpoint, NoRow
  <2>4. CASE ~Save(p) /\ ~Delete(p) /\ ~DropEndpoint(p)
    BY <2>4 DEF Step, Push, PushOrFail, Remove, CancelTimer, ArmTimer, Forget,
                SaveEndpoint, StopEndpoint, database
  <2> QED
    BY <2>1, <2>2, <2>3, <2>4
<1>9. ASSUME NEW e \in Endpoints, t \in wanted'[e]
      PROVE  t \in wanted[e] \/ ToPush(p, t)
  <2>1. CASE Push(p)
    BY <1>5, <1>9, <2>1 DEF Push, Called, Apply, driver, TypeOK
  <2>2. CASE PushOrFail(p)
    <3>1. \/ UNCHANGED wanted
          \/ wanted' = [wanted EXCEPT ![c.row.endpoint] = wanted[c.row.endpoint] \cup {c.id}]
      BY <2>2, Zenon DEF PushOrFail, Apply, driver
    <3>2. c.do = "pushOrFail"
      BY <2>2 DEF PushOrFail
    <3> QED
      BY <1>5, <1>9, <3>1, <3>2 DEF TypeOK
  <2>3. CASE Remove(p)
    BY <1>9, <2>3 DEF Remove, Apply, driver, TypeOK
  <2>4. CASE StopEndpoint(p)
    BY <1>9, <2>4 DEF StopEndpoint, TypeOK
  <2>5. CASE ~Push(p) /\ ~PushOrFail(p) /\ ~Remove(p) /\ ~StopEndpoint(p)
    BY <1>9, <2>5 DEF Step, Save, Delete, CancelTimer, ArmTimer, Forget,
                      SaveEndpoint, DropEndpoint, driver
  <2> QED
    BY <2>1, <2>2, <2>3, <2>4, <2>5
<1> QED
  BY <1>7, <1>8, <1>9

\* A crash takes the daemon's threads and proxies away and adds none.
LEMMA CrashTakes ==
  ASSUME TypeOK, NEW t \in Tunnels, Crash
  PROVE  NoneTakes(t) /\ UNCHANGED rows /\ \A e \in Endpoints : t \notin wanted'[e]
<1>1. \A q \in Threads : threads'[q] = threads[q] \/ threads'[q] = Idle
  BY DEF Crash
<1>2. ASSUME NEW q \in Threads, threads'[q] = Idle PROVE ~Holds(q, t)' /\ ~ToPush(q, t)'
  BY <1>2 DEF Holds, ToPush, Idle
<1>3. ASSUME NEW q \in Threads, threads'[q] = threads[q]
      PROVE  (Holds(q, t)' => Holds(q, t)) /\ (ToPush(q, t)' => ToPush(q, t))
  BY <1>3 DEF Holds, ToPush
<1>4. NoneTakes(t)
  BY <1>1, <1>2, <1>3 DEF NoneTakes
<1> QED
  BY <1>4 DEF Crash, database

\* Every step, whoever makes it.
LEMMA StepTakes ==
  ASSUME TypeOK, NEW t \in Tunnels, [Next]_vars
  PROVE  /\ NoneTakes(t)
         /\ rows[t].status = "deleted" =>
              rows'[t].status = "deleted" \/ \E p \in Threads : Holds(p, t)
         /\ \A e \in Endpoints :
              t \in wanted'[e] => t \in wanted[e] \/ \E p \in Threads : ToPush(p, t)
<1> DEFINE Same == UNCHANGED <<rows, wanted>>
<1> USE DEF Threads, Daemon
<1>1. UNCHANGED threads => NoneTakes(t)
  BY DEF NoneTakes, Holds, ToPush
<1>2. ASSUME NEW p \in Handlers, Request(p) PROVE NoneTakes(t) /\ Same
  <2>1. NoneTakes(t)
    BY <1>2, RequestTakes, EndpointTakes DEF Request
  <2>2. Same
    BY <1>2 DEF Request, CreateTunnel, UpdateTunnel, StartTunnel, StopTunnel,
                DeleteTunnel, ExtendTunnel, MakePermanent, UpdateEndpoint,
                DeleteEndpoint, Begin, database, driver
  <2> QED
    BY <2>1, <2>2
<1>3. ASSUME NEW p \in Shells, Shell(p) PROVE NoneTakes(t) /\ Same
  <2>1. NoneTakes(t)
    BY <1>3, ShellTakes, EndpointTakes DEF Shell
  <2>2. Same
    BY <1>3 DEF Shell, ShellAdd, ShellSetStatus, ShellExtend, ShellRemove,
                ShellEndpoint, Begin, database, driver
  <2> QED
    BY <2>1, <2>2
<1>4. ASSUME NEW p \in Loops, BeginReconcile(p) \/ Boot(p) PROVE NoneTakes(t) /\ Same
  BY <1>4, ListTakes DEF BeginReconcile, Boot, Free, database, driver
<1>5. ASSUME NEW p \in Callbacks, NEW u \in Tunnels, OnExpire(p, u)
      PROVE  NoneTakes(t) /\ Same
  BY <1>5, OnExpireTakes DEF OnExpire, database, driver
<1>6. ASSUME NEW p \in Threads, VisitNext(p) PROVE NoneTakes(t) /\ Same
  BY <1>6, VisitTakes DEF VisitNext, database, driver
<1>7. ASSUME NEW p \in Threads, Step(p), ~VisitNext(p)
      PROVE  /\ NoneTakes(t)
             /\ rows[t].status = "deleted" => rows'[t].status = "deleted" \/ Holds(p, t)
             /\ \A e \in Endpoints : t \in wanted'[e] => t \in wanted[e] \/ ToPush(p, t)
  BY <1>7, CallReaches
<1>8. ASSUME \/ \E u \in Tunnels : TimerElapses(u)
             \/ \E o \in orphans : OrphanElapses(o)
             \/ Tick \/ Booted \/ UNCHANGED vars
      PROVE  NoneTakes(t) /\ Same
  BY <1>1, <1>8 DEF TimerElapses, OrphanElapses, Tick, Booted, vars, database, driver
<1>9. CASE Crash
  BY <1>9, CrashTakes
<1> QED
  BY <1>2, <1>3, <1>4, <1>5, <1>6, <1>7, <1>8, <1>9 DEF Next

\* However operations, callbacks, passes, CLI writes and crashes overlap, a
\* deleted tunnel comes back only by the save of a thread that has held a copy
\* of its row since before: no one gets hold of a row that is gone.
THEOREM TunnelsDeletedForGood == Spec => DeletedForGood
<1> DEFINE A == \A t \in Tunnels : rows[t].status = "deleted" =>
                  /\ rows'[t].status = "deleted" \/ \E p \in Threads : Holds(p, t)
                  /\ \A p \in Threads : Holds(p, t)' => Holds(p, t)
<1>1. TypeOK /\ [Next]_vars => [A]_vars
  BY StepTakes DEF NoneTakes
<1> QED
  BY <1>1, TypeCorrect, PTL DEF Spec, DeletedForGood

\* However they overlap, the proxy of a tunnel that does not run is handed to
\* the driver only by a thread that makes it run as well, or that has meant to
\* push it since it ran: a start or a pass that a stop, an expiry or a delete
\* overtook, never a request that found it so.
THEOREM ServedOnPurposeHolds == Spec => ServedOnPurpose
<1> DEFINE A == \A t \in Tunnels : ~Running(t) =>
                  /\ \A e \in Endpoints :
                       t \in wanted'[e] => t \in wanted[e] \/ \E p \in Threads : ToPush(p, t)
                  /\ \A p \in Threads : ToPush(p, t)' => ToPush(p, t) \/ Revives(p, t)'
<1>1. TypeOK /\ [Next]_vars => [A]_vars
  BY StepTakes DEF NoneTakes
<1> QED
  BY <1>1, TypeCorrect, PTL DEF Spec, ServedOnPurpose

-----------------------------------------------------------------------------
(***************************************************************************)
(* Operations that run one after the other: what the next two sections     *)
(* rest on.  The one thread at work has either nothing but deletions left  *)
(* to do, or saves only rows that are still in the table.                  *)
(***************************************************************************)
Kept(t) == rows[t].status # "deleted"

\* The calls that no deletion is among, and that save only what is there.
MildCalls ==
  {c \in Call : /\ c.do \notin {"delete", "dropEndpoint"}
                /\ c.do = "save" => Kept(c.id) /\ c.row.status # "deleted"}

\* The calls that write no row.
HarshCalls == {c \in Call : c.do # "save"}

Orderly(p) ==
  /\ \/ threads[p].plan \in Seq(MildCalls)
     \/ threads[p].plan \in Seq(HarshCalls) /\ threads[p].listed = {}
  /\ \A item \in threads[p].listed : Kept(item.id) /\ item.row.status # "deleted"

SerialInv ==
  /\ \A p, q \in Threads : threads[p] = Idle \/ threads[q] = Idle \/ p = q
  /\ \A p \in Threads : Orderly(p)

\* A thread that has nothing to do is orderly.
LEMMA IdleOrderly ==
  ASSUME NEW p \in Threads, threads'[p] = Idle
  PROVE  Orderly(p)'
BY EmptySeq DEF Orderly, Idle

\* A thread moves while all others are idle.
LEMMA OneMoves ==
  ASSUME SerialInv, NEW p \in Threads, Orderly(p)',
         \A q \in Threads \ {p} : threads[q] = Idle /\ threads'[q] = threads[q]
  PROVE  SerialInv'
<1>1. \A q \in Threads \ {p} : threads'[q] = Idle /\ Orderly(q)'
  BY IdleOrderly
<1> QED
  BY <1>1 DEF SerialInv

\* While rows stay what they are, mild calls stay mild.
LEMMA MildKept ==
  ASSUME \A t \in Tunnels : Kept(t) => Kept(t)'
  PROVE  MildCalls \subseteq MildCalls'
BY CallFields DEF MildCalls, TunnelCalls

\* What an operation on a row that is there may plan.
LEMMA MildDo ==
  ASSUME NEW t \in Tunnels, NEW row \in Row, Kept(t), row.status # "deleted"
  PROVE  \A call \in Upkeep : Do(call, t, row) \in MildCalls
<1> SUFFICES ASSUME NEW call \in Upkeep PROVE Do(call, t, row) \in MildCalls
  OBVIOUS
<1>1. Do(call, t, row) \in Call
  BY DoIsCall DEF Upkeep
<1> QED
  BY <1>1 DEF MildCalls, Do, Upkeep, TunnelCalls

\* A request begins when everything else has ended.
LEMMA BeginSerial ==
  ASSUME ~Overlap, TypeOK, SerialInv, NEW p \in Threads, NEW request, NEW plan,
         Begin(p, request, plan),
         plan \in Seq(MildCalls) \/ plan \in Seq(HarshCalls)
  PROVE  SerialInv' /\ UNCHANGED rows
<1>1. /\ UNCHANGED rows
      /\ threads' = [threads EXCEPT ![p] = [plan |-> plan, listed |-> {}]]
      /\ \A q \in Threads : threads[q] = Idle
  BY DEF Begin, database, Free, Quiet
<1>2. threads'[p].plan = plan /\ threads'[p].listed = {}
  BY <1>1 DEF TypeOK
<1>3. \A q \in Threads \ {p} : threads'[q] = threads[q]
  BY <1>1 DEF TypeOK
<1>4. MildCalls' = MildCalls /\ HarshCalls' = HarshCalls
  BY <1>1 DEF MildCalls, HarshCalls, Kept
<1>5. Orderly(p)'
  BY <1>2, <1>4 DEF Orderly
<1> QED
  BY <1>1, <1>3, <1>5, OneMoves

\* Every request is orderly.
LEMMA RequestSerial ==
  ASSUME ~Overlap, TypeOK, SerialInv, NEW p \in Threads, NEW t \in Tunnels,
         \/ CreateTunnel(p, t) \/ UpdateTunnel(p, t)
         \/ StartTunnel(p, t) \/ StopTunnel(p, t) \/ DeleteTunnel(p, t)
         \/ ExtendTunnel(p, t) \/ MakePermanent(p, t)
  PROVE  SerialInv' /\ UNCHANGED rows
<1> USE DEF ValidDeadlines
<1>1. rows[t] \in Row
  BY DEF TypeOK
<1>2. \A status \in RowStatuses : /\ [rows[t] EXCEPT !.status = status] \in Row
                                  /\ [rows[t] EXCEPT !.status = status].status = status
  BY <1>1 DEF Row
<1>3. Exists(t) => Kept(t)
  BY DEF Exists, Kept, RowStatuses
<1>4. rows[t].status = "unborn" => Kept(t)
  BY DEF Kept
<1>5. Exists(t) => \A call \in Upkeep : Do(call, t, rows[t]) \in MildCalls
  BY <1>1, <1>3, MildDo DEF Kept
<1>6. Exists(t) => \A status \in {"active", "stopped"}, call \in Upkeep :
                      Do(call, t, [rows[t] EXCEPT !.status = status]) \in MildCalls
  BY <1>2, <1>3, MildDo DEF RowStatuses
<1>7. CASE CreateTunnel(p, t)
  <2>1. PICK e \in Endpoints, deadline \in Deadlines :
          Begin(p, "create", CreatePlan(t,
            [endpoint |-> e, enabled |-> TRUE, expireAt |-> deadline,
             status |-> "pending"]))
    BY <1>7 DEF CreateTunnel
  <2> DEFINE row == [endpoint |-> e, enabled |-> TRUE, expireAt |-> deadline,
                     status |-> "pending"]
  <2>2. row \in Row /\ row.status # "deleted"
    BY DEF Row, RowStatuses
  <2>3. rows[t].status = "unborn"
    BY <1>7 DEF CreateTunnel
  <2>4. \A call \in Upkeep : Do(call, t, row) \in MildCalls
    BY <1>4, <2>2, <2>3, MildDo
  <2>5. CreatePlan(t, row) \in Seq(MildCalls)
    BY <2>4, HandlerPlans
  <2> QED
    BY <2>1, <2>5, BeginSerial
<1>8. CASE UpdateTunnel(p, t)
  <2>1. PICK e \in Endpoints, enabled \in BOOLEAN, deadline \in Deadlines :
          Begin(p, "update", UpdatePlan(t,
            [endpoint |-> e, enabled |-> enabled, expireAt |-> deadline,
             status |-> rows[t].status]))
    BY <1>8 DEF UpdateTunnel
  <2> DEFINE row == [endpoint |-> e, enabled |-> enabled, expireAt |-> deadline,
                     status |-> rows[t].status]
  <2>2. Exists(t)
    BY <1>8 DEF UpdateTunnel
  <2>3. row \in Row /\ row.status # "deleted"
    BY <1>1, <1>3, <2>2 DEF Row, Kept
  <2>4. \A call \in Upkeep : Do(call, t, row) \in MildCalls
    BY <1>3, <2>2, <2>3, MildDo
  <2>5. UpdatePlan(t, row) \in Seq(MildCalls)
    BY <2>4, HandlerPlans
  <2> QED
    BY <2>1, <2>5, BeginSerial
<1>9. CASE StartTunnel(p, t)
  <2>1. Do("pushOrFail", t, rows[t]) \in MildCalls
    BY <1>1, DoIsCall DEF MildCalls, Do, TunnelCalls
  <2>2. StartPlan(t, rows[t]) \in Seq(MildCalls)
    BY <1>5, <1>6, <1>9, <2>1, StatusPlans DEF StartTunnel
  <2> QED
    BY <1>9, <2>2, BeginSerial DEF StartTunnel
<1>10. CASE StopTunnel(p, t)
  <2>1. StopPlan(t, rows[t]) \in Seq(MildCalls)
    BY <1>5, <1>6, <1>10, StatusPlans DEF StopTunnel
  <2> QED
    BY <1>10, <2>1, BeginSerial DEF StopTunnel
<1>11. CASE DeleteTunnel(p, t)
  <2>1. Do("remove", t, rows[t]) \in HarshCalls /\ Do("delete", t, rows[t]) \in HarshCalls
    BY <1>1, DoIsCall DEF HarshCalls, Do, TunnelCalls
  <2>2. DeletePlan(t, rows[t]) \in Seq(HarshCalls)
    BY <2>1, RemovalPlan
  <2> QED
    BY <1>11, <2>2, BeginSerial DEF DeleteTunnel
<1>12. ASSUME NEW until \in Deadlines, Exists(t)
       PROVE  RenewPlan(t, rows[t], until) \in Seq(MildCalls)
  <2>1. /\ Renewed(rows[t], until) \in Row
        /\ Renewed(rows[t], until).status # "deleted"
    BY <1>1, <1>3, <1>12, RenewedType DEF Renewed, Row, Kept
  <2>2. \A call \in Upkeep : /\ Do(call, t, rows[t]) \in MildCalls
                             /\ Do(call, t, Renewed(rows[t], until)) \in MildCalls
    BY <1>3, <1>5, <1>12, <2>1, MildDo
  <2> QED
    BY <2>2, RenewPlans
<1>13. CASE ExtendTunnel(p, t)
  <2>1. PICK delta \in 1 .. MaxTime :
          /\ RenewBase(t) + delta <= MaxTime
          /\ Begin(p, "renew", RenewPlan(t, rows[t], RenewBase(t) + delta))
    BY <1>13 DEF ExtendTunnel
  <2>2. RenewBase(t) + delta \in Deadlines
    BY <2>1, TimeAssumption
       DEF TypeOK, RenewBase, Row, Deadlines, Never, Instants
  <2>3. RenewPlan(t, rows[t], RenewBase(t) + delta) \in Seq(MildCalls)
    BY <1>12, <1>13, <2>2 DEF ExtendTunnel
  <2> QED
    BY <2>1, <2>3, BeginSerial
<1>14. CASE MakePermanent(p, t)
  <2>1. Never \in Deadlines
    BY TimeAssumption DEF Never, Deadlines
  <2>2. RenewPlan(t, rows[t], Never) \in Seq(MildCalls)
    BY <1>12, <1>14, <2>1 DEF MakePermanent
  <2> QED
    BY <1>14, <2>2, BeginSerial DEF MakePermanent
<1> QED
  BY <1>7, <1>8, <1>9, <1>10, <1>11, <1>13, <1>14

\* So is every command of the CLI.
LEMMA ShellSerial ==
  ASSUME ~Overlap, TypeOK, SerialInv, NEW p \in Threads, NEW t \in Tunnels,
         \/ ShellAdd(p, t) \/ ShellSetStatus(p, t)
         \/ ShellExtend(p, t) \/ ShellRemove(p, t)
  PROVE  SerialInv' /\ UNCHANGED rows
<1>1. rows[t] \in Row /\ (Exists(t) => Kept(t))
  BY DEF TypeOK, Exists, Kept, RowStatuses
<1>2. ASSUME NEW row \in Row, Kept(t), row.status # "deleted"
      PROVE  <<Do("save", t, row)>> \in Seq(MildCalls)
  <2>1. Do("save", t, row) \in MildCalls
    BY <1>2, MildDo DEF Upkeep, TunnelCalls
  <2> QED
    BY <2>1, ShortSeq
<1>3. CASE ShellAdd(p, t)
  <2>1. PICK e \in Endpoints, deadline \in Deadlines :
          Begin(p, "shellAdd", <<Do("save", t,
            [endpoint |-> e, enabled |-> TRUE, expireAt |-> deadline,
             status |-> "pending"])>>)
    BY <1>3 DEF ShellAdd
  <2> DEFINE row == [endpoint |-> e, enabled |-> TRUE, expireAt |-> deadline,
                     status |-> "pending"]
  <2>2. row \in Row /\ row.status # "deleted" /\ Kept(t)
    BY <1>3 DEF Row, RowStatuses, ShellAdd, Kept
  <2>3. <<Do("save", t, row)>> \in Seq(MildCalls)
    BY <1>2, <2>2
  <2> QED
    BY <2>1, <2>3, BeginSerial
<1>4. CASE ShellSetStatus(p, t)
  <2>1. PICK status \in {"active", "stopped"} :
          Begin(p, "shellStatus", <<Do("save", t, [rows[t] EXCEPT !.status = status])>>)
    BY <1>4 DEF ShellSetStatus
  <2>2. /\ [rows[t] EXCEPT !.status = status] \in Row
        /\ [rows[t] EXCEPT !.status = status].status # "deleted"
    BY <1>1 DEF Row, RowStatuses
  <2>3. <<Do("save", t, [rows[t] EXCEPT !.status = status])>> \in Seq(MildCalls)
    BY <1>1, <1>2, <1>4, <2>2 DEF ShellSetStatus
  <2> QED
    BY <2>1, <2>3, BeginSerial
<1>5. CASE ShellExtend(p, t)
  <2>1. PICK deadline \in Deadlines :
          Begin(p, "shellExtend", <<Do("save", t, [rows[t] EXCEPT !.expireAt = deadline])>>)
    BY <1>5 DEF ShellExtend
  <2>2. Kept(t)
    BY <1>1, <1>5 DEF ShellExtend
  <2>3. /\ [rows[t] EXCEPT !.expireAt = deadline] \in Row
        /\ [rows[t] EXCEPT !.expireAt = deadline].status # "deleted"
    BY <1>1, <2>2 DEF Row, Kept
  <2>4. <<Do("save", t, [rows[t] EXCEPT !.expireAt = deadline])>> \in Seq(MildCalls)
    BY <1>2, <2>2, <2>3
  <2> QED
    BY <2>1, <2>4, BeginSerial
<1>6. CASE ShellRemove(p, t)
  <2>1. Do("delete", t, rows[t]) \in HarshCalls
    BY <1>1, DoIsCall DEF HarshCalls, Do, TunnelCalls
  <2>2. <<Do("delete", t, rows[t])>> \in Seq(HarshCalls)
    BY <2>1, ShortSeq
  <2> QED
    BY <1>6, <2>2, BeginSerial DEF ShellRemove
<1> QED
  BY <1>3, <1>4, <1>5, <1>6

\* And every request on an endpoint.
LEMMA EndpointSerial ==
  ASSUME ~Overlap, TypeOK, SerialInv, NEW p \in Threads, NEW e \in Endpoints,
         UpdateEndpoint(p, e) \/ DeleteEndpoint(p, e) \/ ShellEndpoint(p, e)
  PROVE  SerialInv' /\ UNCHANGED rows
<1>1. \A call \in EndpointCalls, enabled \in BOOLEAN :
         DoEndpoint(call, e, enabled) \in HarshCalls
  BY DoEndpointIsCall DEF HarshCalls, DoEndpoint, EndpointCalls
<1>2. /\ DeleteEndpointPlan(e) \in Seq(HarshCalls)
      /\ <<DoEndpoint("dropEndpoint", e, FALSE)>> \in Seq(HarshCalls)
      /\ \A enabled \in BOOLEAN :
           <<DoEndpoint("saveEndpoint", e, enabled)>> \in Seq(HarshCalls)
  BY <1>1, ShortSeq DEF DeleteEndpointPlan, EndpointCalls
<1> QED
  BY <1>2, BeginSerial DEF UpdateEndpoint, DeleteEndpoint, ShellEndpoint

\* Who has something planned or listed is the only one.
LEMMA BusyAlone ==
  ASSUME SerialInv, NEW p \in Threads, threads[p].plan # <<>> \/ threads[p].listed # {}
  PROVE  \A q \in Threads \ {p} : threads[q] = Idle
<1>1. threads[p] # Idle
  BY DEF Idle
<1> QED
  BY <1>1 DEF SerialInv

\* A call that takes away no row leaves what remains of a plan as mild as it
\* was; one that does belongs to a plan that saves nothing.
LEMMA CalledSerial ==
  ASSUME TypeOK, SerialInv, NEW p \in Threads, NEW call, Called(p, call),
         \/ \A t \in Tunnels : Kept(t) => Kept(t)'
         \/ call \in {"delete", "dropEndpoint"}
  PROVE  SerialInv'
<1>1. /\ threads[p] \in Thread /\ threads[p].plan # <<>> /\ Orderly(p)
      /\ Head(threads[p].plan).do = call
      /\ threads' = [threads EXCEPT ![p].plan = Tail(@)]
  BY DEF TypeOK, Called, SerialInv
<1>2. /\ threads'[p].plan = Tail(threads[p].plan)
      /\ threads'[p].listed = threads[p].listed
      /\ \A q \in Threads \ {p} : threads'[q] = threads[q]
  BY <1>1 DEF TypeOK, Thread
<1>3. CASE threads[p].plan \in Seq(HarshCalls) /\ threads[p].listed = {}
  <2>1. Tail(threads[p].plan) \in Seq(HarshCalls)
    BY <1>1, <1>3, HeadTailProperties
  <2>2. HarshCalls' = HarshCalls
    BY DEF HarshCalls
  <2>3. Orderly(p)'
    BY <1>2, <1>3, <2>1, <2>2 DEF Orderly
  <2> QED
    BY <1>1, <1>2, <2>3, BusyAlone, OneMoves
<1>4. CASE threads[p].plan \in Seq(MildCalls)
  <2>1. /\ Head(threads[p].plan) \in MildCalls
        /\ Tail(threads[p].plan) \in Seq(MildCalls)
    BY <1>1, <1>4, HeadTailProperties
  <2>2. \A t \in Tunnels : Kept(t) => Kept(t)'
    BY <1>1, <2>1 DEF MildCalls
  <2>3. Tail(threads[p].plan) \in Seq(MildCalls')
    BY <2>1, <2>2, MildKept, SeqMonotonic
  <2>4. \A item \in threads[p].listed : item.id \in Tunnels
    BY <1>1 DEF Thread, Listed
  <2>5. Orderly(p)'
    BY <1>1, <1>2, <2>2, <2>3, <2>4 DEF Orderly
  <2> QED
    BY <1>1, <1>2, <2>5, BusyAlone, OneMoves
<1> QED
  BY <1>1, <1>3, <1>4 DEF Orderly

\* The calls that do not reach the tunnels table.
LEMMA OtherCallSerial ==
  ASSUME TypeOK, SerialInv, NEW p \in Threads,
         \/ Push(p) \/ PushOrFail(p) \/ Remove(p)
         \/ CancelTimer(p) \/ ArmTimer(p) \/ Forget(p)
         \/ SaveEndpoint(p) \/ StopEndpoint(p)
  PROVE  SerialInv' /\ UNCHANGED rows
<1>1. UNCHANGED rows
  BY DEF Push, PushOrFail, Remove, CancelTimer, ArmTimer, Forget, SaveEndpoint,
         StopEndpoint, database
<1>2. \A t \in Tunnels : Kept(t) => Kept(t)'
  BY <1>1 DEF Kept
<1>3. CASE \E call : Called(p, call)
  BY SMTT(20), <1>1, <1>2, <1>3, CalledSerial
<1>4. CASE PushOrFail(p)
  <2>1. CASE threads' = [threads EXCEPT ![p].plan = Tail(@)]
    <3>1. Called(p, "pushOrFail")
      BY <1>4, <2>1 DEF PushOrFail, Called
    <3> QED
      BY SMTT(20), <1>3, <3>1
  <2>2. CASE threads' = [threads EXCEPT ![p].plan = <<>>]
    <3>1. threads[p] \in Thread /\ threads[p].plan # <<>> /\ Orderly(p)
      BY <1>4 DEF TypeOK, PushOrFail, SerialInv
    <3>2. /\ threads'[p].plan = <<>> /\ threads'[p].listed = threads[p].listed
          /\ \A q \in Threads \ {p} : threads'[q] = threads[q]
      BY <2>2, <3>1 DEF TypeOK, Thread
    <3>3. \A item \in threads[p].listed : item.id \in Tunnels
      BY <3>1 DEF Thread, Listed
    <3>4. Orderly(p)'
      BY <1>2, <3>1, <3>2, <3>3, EmptySeq DEF Orderly
    <3> QED
      BY <1>1, <3>1, <3>2, <3>4, BusyAlone, OneMoves
  <2> QED
    BY <1>4, <2>1, <2>2 DEF PushOrFail
<1> QED
  BY <1>3, <1>4 DEF Push, Remove, CancelTimer, ArmTimer, Forget, SaveEndpoint,
     StopEndpoint

\* What is written to the tunnels table, and that no row comes back.
LEMMA StoreCallSerial ==
  ASSUME TypeOK, SerialInv, NEW p \in Threads,
         Save(p) \/ Delete(p) \/ DropEndpoint(p)
  PROVE  SerialInv' /\ \A t \in Tunnels : ~Kept(t) => ~Kept(t)'
<1> DEFINE c == Head(threads[p].plan)
<1>1. CASE Save(p)
  <2>1. Called(p, "save") /\ c.do = "save" /\ threads[p].plan # <<>> /\ Orderly(p)
    BY <1>1 DEF Save, Called, SerialInv
  <2>2. threads[p].plan \in Seq(MildCalls) \/ threads[p].plan \in Seq(HarshCalls)
    BY <2>1 DEF Orderly
  <2>3. c \in MildCalls \/ c \in HarshCalls
    BY <2>1, <2>2, HeadTailProperties
  <2>4. c \in Call /\ Kept(c.id) /\ c.row.status # "deleted"
    BY <2>1, <2>3 DEF MildCalls, HarshCalls
  <2>5. c.id \in Tunnels /\ c.row \in Row
    BY <2>1, <2>4, CallFields DEF TunnelCalls
  <2>6. /\ rows' = [rows EXCEPT ![c.id] = Stored(c.id, c.row)]
        /\ Stored(c.id, c.row).status # "deleted"
    BY <1>1, <2>4, <2>5, StoredRow DEF Save
  <2>7. \A t \in Tunnels : Kept(t)' <=> Kept(t)
    BY <2>4, <2>5, <2>6 DEF Kept, TypeOK
  <2> QED
    BY <2>1, <2>7, CalledSerial
<1>2. CASE Delete(p)
  <2>1. Called(p, "delete") /\ rows' = [rows EXCEPT ![c.id] = NoRow("deleted")]
    BY <1>2 DEF Delete
  <2>2. \A t \in Tunnels : ~Kept(t) => ~Kept(t)'
    BY <2>1 DEF Kept, TypeOK, NoRow
  <2> QED
    BY <2>1, <2>2, CalledSerial
<1>3. CASE DropEndpoint(p)
  <2>1. Called(p, "dropEndpoint")
    BY <1>3 DEF DropEndpoint
  <2>2. \A t \in Tunnels : ~Kept(t) => ~Kept(t)'
    BY <1>3 DEF DropEndpoint, Kept, NoRow
  <2> QED
    BY <2>1, <2>2, CalledSerial
<1> QED
  BY <1>1, <1>2, <1>3

\* A pass saves the rows it listed, and nothing is deleted meanwhile.
LEMMA VisitSerial ==
  ASSUME TypeOK, SerialInv, NEW p \in Threads, VisitNext(p)
  PROVE  SerialInv' /\ UNCHANGED rows
<1>1. PICK item \in threads[p].listed :
        threads' = [threads EXCEPT
          ![p] = [plan |-> VisitPlan(item.id, item.row, item.due),
                  listed |-> @.listed \ {item}]]
  BY DEF VisitNext
<1>2. UNCHANGED rows /\ threads[p] \in Thread /\ Orderly(p)
  BY DEF VisitNext, database, TypeOK, SerialInv
<1>3. /\ item.id \in Tunnels /\ item.row \in Row /\ item.due \in BOOLEAN
      /\ Kept(item.id) /\ item.row.status # "deleted"
  BY <1>2 DEF Thread, Listed, Orderly
<1>4. /\ threads'[p].plan = VisitPlan(item.id, item.row, item.due)
      /\ threads'[p].listed \subseteq threads[p].listed
      /\ \A q \in Threads \ {p} : threads'[q] = threads[q]
  BY <1>1 DEF TypeOK
<1>5. \A call \in Upkeep : Do(call, item.id, item.row) \in MildCalls
  BY <1>3, MildDo
<1> DEFINE expired == [item.row EXCEPT !.status = "expired"]
<1>6. expired \in Row /\ expired.status # "deleted"
  BY <1>3 DEF Row, RowStatuses
<1>7. \A call \in Upkeep : Do(call, item.id, expired) \in MildCalls
  <2> HIDE DEF expired
  <2> QED
    BY <1>3, <1>6, MildDo
<1>8. VisitPlan(item.id, item.row, item.due) \in Seq(MildCalls)
  <2>1. CASE item.due
    BY <1>3, <1>5, <1>7, <2>1, StatusPlans
  <2>2. CASE ~item.due
    BY <1>3, <1>5, <2>2, VisitPlans
  <2> QED
    BY <2>1, <2>2
<1>9. MildCalls' = MildCalls
  BY <1>2 DEF MildCalls, Kept
<1>10. Orderly(p)'
  BY <1>2, <1>4, <1>8, <1>9 DEF Orderly, Kept
<1> QED
  BY <1>1, <1>2, <1>4, <1>10, BusyAlone, OneMoves

\* A pass and a callback begin when everything else has ended.
LEMMA LoopSerial ==
  ASSUME ~Overlap, TypeOK, SerialInv, NEW p \in Threads,
         BeginReconcile(p) \/ Boot(p) \/ \E t \in Tunnels : OnExpire(p, t)
  PROVE  SerialInv' /\ UNCHANGED rows
<1>1. UNCHANGED rows /\ MildCalls' = MildCalls
  BY DEF BeginReconcile, Boot, OnExpire, database, MildCalls, Kept
<1>2. \A q \in Threads : threads[q] = Idle
  BY DEF BeginReconcile, Boot, OnExpire, Free, Quiet
<1>3. threads[p].plan = <<>> /\ threads[p].listed = {} /\ threads[p] \in Thread
  BY <1>2 DEF Idle, TypeOK
<1>4. CASE BeginReconcile(p) \/ Boot(p)
  <2>1. threads' = [threads EXCEPT ![p].listed = Snapshot]
    BY <1>4 DEF BeginReconcile, Boot
  <2>2. /\ threads'[p].plan = <<>> /\ threads'[p].listed = Snapshot
        /\ \A q \in Threads \ {p} : threads'[q] = threads[q]
    BY <1>3, <2>1 DEF TypeOK, Thread
  <2>3. \A item \in Snapshot : Kept(item.id) /\ item.row.status # "deleted"
    BY DEF Snapshot, Running, RunningRow, Kept
  <2>4. Orderly(p)'
    BY <1>1, <2>2, <2>3, EmptySeq DEF Orderly, Kept
  <2> QED
    BY <1>1, <1>2, <2>2, <2>4, OneMoves
<1>5. ASSUME NEW t \in Tunnels, OnExpire(p, t) PROVE SerialInv'
  <2>1. threads' = [threads EXCEPT ![p].plan = ExpirePlan(t, rows[t])]
    BY <1>5 DEF OnExpire
  <2>2. /\ threads'[p].plan = ExpirePlan(t, rows[t]) /\ threads'[p].listed = {}
        /\ \A q \in Threads \ {p} : threads'[q] = threads[q]
    BY <1>3, <2>1 DEF TypeOK, Thread
  <2>3. rows[t] \in Row
    BY DEF TypeOK
  <2> DEFINE expired == [rows[t] EXCEPT !.status = "expired"]
  <2>4. expired \in Row /\ expired.status # "deleted"
    BY <2>3 DEF Row, RowStatuses
  <2>5. ASSUME RunningRow(rows[t]) PROVE ExpirePlan(t, rows[t]) \in Seq(MildCalls)
    <3>1. Kept(t)
      BY <2>5 DEF RunningRow, Kept
    <3>2. \A call \in Upkeep : Do(call, t, rows[t]) \in MildCalls
      BY <2>3, <3>1, MildDo DEF Kept
    <3>3. \A call \in Upkeep : Do(call, t, expired) \in MildCalls
      <4> HIDE DEF expired
      <4> QED
        BY <2>4, <3>1, MildDo
    <3> QED
      BY <3>2, <3>3, StatusPlans
  <2>6. ASSUME ~RunningRow(rows[t]) PROVE ExpirePlan(t, rows[t]) \in Seq(MildCalls)
    BY <2>6, EmptySeq DEF ExpirePlan
  <2>7. Orderly(p)'
    BY <1>1, <2>2, <2>5, <2>6 DEF Orderly
  <2> QED
    BY <1>2, <2>2, <2>7, OneMoves
<1> QED
  BY <1>1, <1>4, <1>5

\* The clock, the timers and the process give no thread anything to do.
LEMMA ProcessSerial ==
  ASSUME TypeOK, SerialInv,
         \/ \E t \in Tunnels : TimerElapses(t)
         \/ \E o \in orphans : OrphanElapses(o)
         \/ Tick \/ Crash \/ Booted \/ UNCHANGED vars
  PROVE  SerialInv' /\ UNCHANGED rows
<1>1. UNCHANGED rows
  BY DEF TimerElapses, OrphanElapses, Tick, Crash, Booted, vars, database
<1>2. \A p \in Threads : threads'[p] = threads[p] \/ threads'[p] = Idle
  BY DEF TimerElapses, OrphanElapses, Tick, Crash, Booted, vars
<1>3. \A p \in Threads : threads'[p] = threads[p] => Orderly(p)'
  BY <1>1 DEF SerialInv, Orderly, MildCalls, HarshCalls, Kept
<1>4. \A p \in Threads : Orderly(p)'
  BY <1>2, <1>3, IdleOrderly
<1> QED
  BY <1>1, <1>2, <1>4 DEF SerialInv

\* A step keeps the threads in order and brings no deleted row back.
LEMMA StepSerial ==
  ASSUME ~Overlap, TypeOK, SerialInv, [Next]_vars
  PROVE  SerialInv' /\ \A t \in Tunnels : ~Kept(t) => ~Kept(t)'
<1> USE DEF Threads, Daemon
<1>1. UNCHANGED rows => \A t \in Tunnels : ~Kept(t) => ~Kept(t)'
  BY DEF Kept
<1>2. ASSUME NEW p \in Handlers, Request(p) PROVE SerialInv' /\ UNCHANGED rows
  BY <1>2, RequestSerial, EndpointSerial DEF Request
<1>3. ASSUME NEW p \in Shells, Shell(p) PROVE SerialInv' /\ UNCHANGED rows
  BY <1>3, ShellSerial, EndpointSerial DEF Shell
<1>4. ASSUME NEW p \in Loops, BeginReconcile(p) \/ Boot(p)
      PROVE  SerialInv' /\ UNCHANGED rows
  BY <1>4, LoopSerial
<1>5. ASSUME NEW p \in Callbacks, NEW t \in Tunnels, OnExpire(p, t)
      PROVE  SerialInv' /\ UNCHANGED rows
  BY <1>5, LoopSerial
<1>6. ASSUME NEW p \in Threads, Step(p)
      PROVE  SerialInv' /\ \A t \in Tunnels : ~Kept(t) => ~Kept(t)'
  BY <1>1, <1>6, VisitSerial, OtherCallSerial, StoreCallSerial DEF Step
<1> QED
  BY <1>1, <1>2, <1>3, <1>4, <1>5, <1>6, ProcessSerial DEF Next

-----------------------------------------------------------------------------
(***************************************************************************)
(* Timers match rows, when operations run one after the other and only the *)
(* daemon writes.  What counts is the last save that is planned of a row   *)
(* and the last call planned on its timer: they agree, whatever lies       *)
(* between the calls and in whatever order an operation makes them.        *)
(***************************************************************************)
Saves(c, t) == c.do = "save" /\ c.id = t
Sets(c, t) == c.do \in {"cancel", "arm", "forget"} /\ c.id = t
Until(c) == IF c.do = "arm" THEN c.row.expireAt ELSE Never

\* Where p's plan leaves the row of t: running or not, and its deadline.
RowEnds(p, t, runs, until) ==
  LET plan == threads[p].plan
  IN  \/ \E i \in 1 .. Len(plan) :
           /\ Saves(plan[i], t)
           /\ \A j \in i + 1 .. Len(plan) : ~Saves(plan[j], t)
           /\ runs = RunningRow(plan[i].row) /\ until = plan[i].row.expireAt
      \/ /\ \A j \in 1 .. Len(plan) : ~Saves(plan[j], t)
         /\ runs = Running(t) /\ until = rows[t].expireAt

\* The deadline of the timer of t, where p's plan leaves it.
TimerEnds(p, t, until) ==
  LET plan == threads[p].plan
  IN  \/ \E i \in 1 .. Len(plan) :
           /\ Sets(plan[i], t)
           /\ \A j \in i + 1 .. Len(plan) : ~Sets(plan[j], t)
           /\ until = Until(plan[i])
      \/ /\ \A j \in 1 .. Len(plan) : ~Sets(plan[j], t)
         /\ until = timers[t].at

Matching(p, t) ==
  \E runs \in BOOLEAN, until \in Deadlines :
    RowEnds(p, t, runs, until) /\ (runs => TimerEnds(p, t, until))

MatchesNow(t) == Running(t) => timers[t].at = rows[t].expireAt

\* Every tunnel matches when the plan is done, or the pass is yet to visit it.
Settling(p) ==
  \A t \in Tunnels : Matching(p, t) \/ \E item \in threads[p].listed : item.id = t

\* Only a call that may end the operation finds all as it should be.
Gated(p) ==
  \A i \in 1 .. Len(threads[p].plan) : threads[p].plan[i].do = "pushOrFail" =>
    i = 1 /\ threads[p].listed = {} /\ \A t \in Tunnels : MatchesNow(t)

\* What a pass has listed is still so when it visits it.
ListedNow(p) ==
  \A item \in threads[p].listed :
    /\ item.row = rows[item.id]
    /\ MatchesNow(item.id) \/ timers[item.id].at = Never
    /\ \A i \in 1 .. Len(threads[p].plan) :
         threads[p].plan[i].do \in TunnelCalls => threads[p].plan[i].id # item.id
    /\ \A other \in threads[p].listed : other.id = item.id => other = item

TimerInv ==
  /\ phase = "down" => /\ Quiet /\ orphans = {} /\ elapsed = {}
                       /\ \A t \in Tunnels : timers[t] = NoTimer
  /\ (phase # "down" /\ Quiet) => \A t \in Tunnels : MatchesNow(t)
  /\ \A p \in Threads : threads[p] # Idle => Settling(p) /\ Gated(p)
  /\ \A p \in Threads : ListedNow(p)

\* The calls of an operation on one tunnel, or on endpoints.
CallsOn(t) ==
  {c \in Call : c.do # "pushOrFail" /\ (c.do \in TunnelCalls => c.id = t)}

\* A tunnel that no planned call is about ends as it is.
LEMMA Untouched ==
  ASSUME TypeOK', NEW p \in Threads, NEW t \in Tunnels, MatchesNow(t)',
         \A i \in 1 .. Len(threads'[p].plan) :
           ~Saves(threads'[p].plan[i], t) /\ ~Sets(threads'[p].plan[i], t)
  PROVE  Matching(p, t)'
<1>1. rows'[t].expireAt \in Deadlines /\ Running(t)' \in BOOLEAN
  BY DEF TypeOK, Row, Running, RunningRow
<1>2. RowEnds(p, t, Running(t), rows[t].expireAt)'
  BY DEF RowEnds
<1>3. Running(t)' => TimerEnds(p, t, rows[t].expireAt)'
  BY DEF TimerEnds, MatchesNow
<1> QED
  BY <1>1, <1>2, <1>3 DEF Matching

\* A plan that contains only calls on one tunnel leaves the others alone.
LEMMA OthersUntouched ==
  ASSUME NEW p \in Threads, NEW t \in Tunnels, threads'[p].plan \in Seq(CallsOn(t))
  PROVE  /\ \A i \in 1 .. Len(threads'[p].plan) : threads'[p].plan[i].do # "pushOrFail"
         /\ \A i \in 1 .. Len(threads'[p].plan) :
              threads'[p].plan[i].do \in TunnelCalls => threads'[p].plan[i].id = t
<1>1. \A i \in 1 .. Len(threads'[p].plan) : threads'[p].plan[i] \in CallsOn(t)
  OBVIOUS
<1> QED
  BY <1>1 DEF CallsOn

\* The first call of a plan is made: what the plan leads to does not change
\* when the call does what the definitions of the ends say it does.
LEMMA EndsKept ==
  ASSUME NEW p \in Threads, NEW t \in Tunnels,
         threads[p].plan \in Seq(Call), threads[p].plan # <<>>,
         threads'[p].plan = Tail(threads[p].plan),
         TypeOK', Matching(p, t),
         LET c == Head(threads[p].plan)
         IN  /\ IF Saves(c, t)
                THEN /\ Running(t)' = RunningRow(c.row)
                     /\ rows'[t].expireAt = c.row.expireAt
                ELSE ~Running(t)' \/ rows'[t] = rows[t]
             /\ timers'[t].at = IF Sets(c, t) THEN Until(c) ELSE timers[t].at
  PROVE  Matching(p, t)'
<1> DEFINE s == threads[p].plan
           n == Len(s)
           c == Head(s)
<1>1. /\ n \in Nat /\ n > 0 /\ Len(threads'[p].plan) = n - 1 /\ c = s[1]
      /\ \A i \in 1 .. n - 1 : threads'[p].plan[i] = s[i + 1]
  OBVIOUS
<1>2. PICK runs \in BOOLEAN, until \in Deadlines :
        RowEnds(p, t, runs, until) /\ (runs => TimerEnds(p, t, until))
  BY DEF Matching
<1>3. ASSUME runs PROVE TimerEnds(p, t, until)'
  <2>1. TimerEnds(p, t, until)
    BY <1>2, <1>3
  <2>2. CASE \A j \in 1 .. n : ~Sets(s[j], t)
    <3>1. timers'[t].at = until
      BY <1>1, <2>1, <2>2 DEF TimerEnds
    <3>2. \A j \in 1 .. n - 1 : ~Sets(threads'[p].plan[j], t)
      BY <1>1, <2>2
    <3> QED
      BY <1>1, <3>1, <3>2 DEF TimerEnds
  <2>3. CASE \E i \in 1 .. n : Sets(s[i], t)
    <3>1. PICK i \in 1 .. n : /\ Sets(s[i], t) /\ until = Until(s[i])
                              /\ \A j \in i + 1 .. n : ~Sets(s[j], t)
      BY <2>1, <2>3 DEF TimerEnds
    <3>2. CASE i = 1
      <4>1. timers'[t].at = until
        BY <1>1, <3>1, <3>2
      <4>2. \A j \in 1 .. n - 1 : ~Sets(threads'[p].plan[j], t)
        BY <1>1, <3>1, <3>2
      <4> QED
        BY <1>1, <4>1, <4>2 DEF TimerEnds
    <3>3. CASE i > 1
      <4>1. i - 1 \in 1 .. n - 1 /\ threads'[p].plan[i - 1] = s[i]
        BY <1>1, <3>3
      <4>2. \A j \in (i - 1) + 1 .. n - 1 : ~Sets(threads'[p].plan[j], t)
        BY <1>1, <3>1, <3>3
      <4> QED
        BY <1>1, <3>1, <4>1, <4>2 DEF TimerEnds
    <3> QED
      BY <1>1, <3>2, <3>3
  <2> QED
    BY <2>2, <2>3
<1>4. CASE \E i \in 1 .. n : Saves(s[i], t)
  <2>1. PICK i \in 1 .. n :
          /\ Saves(s[i], t) /\ runs = RunningRow(s[i].row) /\ until = s[i].row.expireAt
          /\ \A j \in i + 1 .. n : ~Saves(s[j], t)
    BY <1>2, <1>4 DEF RowEnds
  <2>2. CASE i = 1
    <3>1. runs = Running(t)' /\ until = rows'[t].expireAt
      BY <1>1, <2>1, <2>2
    <3>2. \A j \in 1 .. n - 1 : ~Saves(threads'[p].plan[j], t)
      BY <1>1, <2>1, <2>2
    <3>3. RowEnds(p, t, runs, until)'
      BY <1>1, <3>1, <3>2 DEF RowEnds
    <3> QED
      BY <1>3, <3>3 DEF Matching
  <2>3. CASE i > 1
    <3>1. i - 1 \in 1 .. n - 1 /\ threads'[p].plan[i - 1] = s[i]
      BY <1>1, <2>3
    <3>2. \A j \in (i - 1) + 1 .. n - 1 : ~Saves(threads'[p].plan[j], t)
      <4> SUFFICES ASSUME NEW j \in (i - 1) + 1 .. n - 1
                   PROVE  ~Saves(threads'[p].plan[j], t)
        OBVIOUS
      <4>1. j \in 1 .. n - 1 /\ j + 1 \in i + 1 .. n
        BY <1>1, <2>3
      <4> QED
        BY <1>1, <2>1, <4>1
    <3>3. RowEnds(p, t, runs, until)'
      BY <1>1, <2>1, <3>1, <3>2 DEF RowEnds
    <3> QED
      BY <1>3, <3>3 DEF Matching
  <2> QED
    BY <1>1, <2>2, <2>3
<1>5. CASE \A j \in 1 .. n : ~Saves(s[j], t)
  <2>1. runs = Running(t) /\ until = rows[t].expireAt /\ ~Saves(c, t)
    BY <1>1, <1>2, <1>5 DEF RowEnds
  <2>2. \A j \in 1 .. n - 1 : ~Saves(threads'[p].plan[j], t)
    BY <1>1, <1>5
  <2>3. CASE rows'[t] = rows[t]
    <3>1. RowEnds(p, t, runs, until)'
      BY <1>1, <2>1, <2>2, <2>3 DEF RowEnds, Running
    <3> QED
      BY <1>3, <3>1 DEF Matching
  <2>4. CASE ~Running(t)'
    <3>1. rows'[t].expireAt \in Deadlines
      BY DEF TypeOK, Row
    <3>2. RowEnds(p, t, FALSE, rows[t].expireAt)'
      BY <1>1, <2>2, <2>4 DEF RowEnds
    <3> QED
      BY <3>1, <3>2 DEF Matching
  <2> QED
    BY <2>1, <2>3, <2>4
<1> QED
  BY <1>4, <1>5

\* What a thread's calls do to the row and to the timer of a tunnel.
LEMMA CallEffects ==
  ASSUME TypeOK, NEW p \in Threads, NEW t \in Tunnels,
         \/ Push(p) \/ PushOrFail(p) \/ Remove(p) \/ Save(p) \/ Delete(p)
         \/ CancelTimer(p) \/ ArmTimer(p) \/ Forget(p)
         \/ SaveEndpoint(p) \/ StopEndpoint(p) \/ DropEndpoint(p)
  PROVE  LET c == Head(threads[p].plan)
         IN  /\ IF Saves(c, t)
                THEN /\ Running(t)' = RunningRow(c.row)
                     /\ rows'[t].expireAt = c.row.expireAt
                ELSE ~Running(t)' \/ rows'[t] = rows[t]
             /\ timers'[t].at = IF Sets(c, t) THEN Until(c) ELSE timers[t].at
<1> DEFINE c == Head(threads[p].plan)
<1>1. CASE Push(p) \/ Remove(p) \/ SaveEndpoint(p) \/ StopEndpoint(p) \/ PushOrFail(p)
  <2>1. c.do \notin {"save", "cancel", "arm", "forget"}
    BY <1>1 DEF Push, Remove, SaveEndpoint, StopEndpoint, PushOrFail, Called
  <2>2. rows' = rows /\ timers' = timers
    BY <1>1 DEF Push, Remove, SaveEndpoint, StopEndpoint, PushOrFail, database,
       clockwork
  <2> QED
    BY <2>1, <2>2 DEF Saves, Sets
<1>2. CASE Save(p)
  <2>1. c \in Call /\ c.do = "save"
    BY <1>2, CalledType DEF Save
  <2>2. c.id \in Tunnels /\ c.row \in Row
    BY <2>1, CallFields DEF TunnelCalls
  <2>3. timers' = timers /\ rows' = [rows EXCEPT ![c.id] = Stored(c.id, c.row)]
    BY <1>2 DEF Save, clockwork
  <2>4. t # c.id => rows'[t] = rows[t]
    BY <2>3 DEF TypeOK
  <2>5. t = c.id => /\ rows'[t].status = c.row.status
                    /\ rows'[t].expireAt = c.row.expireAt
    BY <2>2, <2>3, StoredRow DEF TypeOK
  <2> QED
    BY <2>1, <2>3, <2>4, <2>5 DEF Saves, Sets, Running, RunningRow
<1>3. CASE Delete(p) \/ DropEndpoint(p)
  <2>1. c.do \in {"delete", "dropEndpoint"}
    BY <1>3 DEF Delete, DropEndpoint, Called
  <2>2. rows'[t] = rows[t] \/ rows'[t] = NoRow("deleted")
    BY <1>3 DEF Delete, DropEndpoint, TypeOK
  <2>3. rows'[t] = NoRow("deleted") => ~Running(t)'
    BY DEF NoRow, Running, RunningRow
  <2>4. timers' = timers
    BY <1>3 DEF Delete, DropEndpoint, clockwork
  <2> QED
    BY <2>1, <2>2, <2>3, <2>4 DEF Saves, Sets
<1>4. CASE CancelTimer(p) \/ ArmTimer(p) \/ Forget(p)
  <2>1. rows' = rows
    BY <1>4 DEF CancelTimer, ArmTimer, Forget, database
  <2>2. c.do \in {"cancel", "arm", "forget"} /\ c \in Call
    BY <1>4, CalledType DEF CancelTimer, ArmTimer, Forget
  <2>3. c.id \in Tunnels
    BY <2>2, CallFields DEF TunnelCalls
  <2>4. t # c.id => timers'[t] = timers[t]
    BY <1>4 DEF CancelTimer, ArmTimer, Forget, TypeOK
  <2>5. c.do = "arm" => ArmTimer(p)
    BY <1>4 DEF CancelTimer, ArmTimer, Forget, Called
  <2>6. c.do # "arm" => CancelTimer(p) \/ Forget(p)
    BY <1>4 DEF CancelTimer, ArmTimer, Forget, Called
  <2>7. timers'[c.id].at = Until(c)
    <3>1. CASE c.do = "arm"
      <4>1. timers' = [timers EXCEPT ![c.id] = [at |-> c.row.expireAt, armed |-> TRUE]]
        BY <2>5, <3>1 DEF ArmTimer
      <4> QED
        BY <2>3, <3>1, <4>1 DEF TypeOK, Until
    <3>2. CASE c.do # "arm"
      <4>1. timers' = [timers EXCEPT ![c.id] = NoTimer]
        BY <2>6, <3>2 DEF CancelTimer, Forget
      <4> QED
        BY <2>3, <3>2, <4>1 DEF TypeOK, Until, NoTimer
    <3> QED
      BY <3>1, <3>2
  <2> QED
    BY <2>1, <2>2, <2>4, <2>7 DEF Saves, Sets
<1> QED
  BY <1>1, <1>2, <1>3, <1>4

\* The daemon's threads are all the threads there are without a shell; the
\* thread that moves, with what it then has in mind, carries the invariant.
LEMMA TimerCarried ==
  ASSUME TypeOK, TypeOK', NEW p \in Threads, phase' # "down",
         \A q \in Threads \ {p} : threads'[q] = Idle,
         Settling(p)', Gated(p)', ListedNow(p)'
  PROVE  TimerInv'
<1>1. \A q \in Threads \ {p} : ListedNow(q)'
  BY DEF ListedNow, Idle
<1>2. ASSUME Quiet' PROVE \A t \in Tunnels : MatchesNow(t)'
  <2>1. threads'[p].plan = <<>> /\ threads'[p].listed = {}
    BY <1>2 DEF Quiet, Idle
  <2>2. \A t \in Tunnels : Matching(p, t)'
    BY <2>1 DEF Settling
  <2>3. \A t \in Tunnels : Matching(p, t)' => MatchesNow(t)'
    <3>1. Len(threads'[p].plan) = 0
      BY <2>1
    <3> QED
      BY <3>1 DEF Matching, RowEnds, TimerEnds, MatchesNow
  <2> QED
    BY <2>2, <2>3
<1> QED
  BY <1>1, <1>2 DEF TimerInv

\* A request on a tunnel: all tunnels match, the plan concerns this one only.
LEMMA BeginTimers ==
  ASSUME ~Overlap, Shells = {}, TypeOK, TypeOK', TimerInv,
         NEW p \in Threads, NEW t \in Tunnels, NEW request, NEW plan,
         Begin(p, request, plan),
         \/ plan \in Seq(CallsOn(t))
         \/ Tail(plan) \in Seq(CallsOn(t)) /\ plan # <<>> /\ plan \in Seq(Call)
              /\ Head(plan).do \in TunnelCalls /\ Head(plan).id = t,
         MatchesNow(t) => Matching(p, t)'
  PROVE  TimerInv'
<1>1. /\ \A q \in Threads : threads[q] = Idle
      /\ phase' = phase /\ phase = "up" /\ UNCHANGED <<rows, timers>>
      /\ threads' = [threads EXCEPT ![p] = [plan |-> plan, listed |-> {}]]
  BY DEF Begin, Free, Quiet, database, clockwork, Serving, Threads, Daemon
<1>2. /\ threads'[p].plan = plan /\ threads'[p].listed = {}
      /\ \A q \in Threads \ {p} : threads'[q] = Idle
  BY <1>1 DEF TypeOK
<1>3. \A u \in Tunnels : MatchesNow(u) /\ MatchesNow(u)'
  BY <1>1 DEF TimerInv, Quiet, MatchesNow, Running
<1>4. \A i \in 1 .. Len(plan) : plan[i].do = "pushOrFail" => i = 1
  <2>1. CASE plan \in Seq(CallsOn(t))
    BY <2>1 DEF CallsOn
  <2>2. CASE Tail(plan) \in Seq(CallsOn(t)) /\ plan # <<>> /\ plan \in Seq(Call)
    <3>1. \A i \in 1 .. Len(plan) : i > 1 => i - 1 \in 1 .. Len(Tail(plan)) /\ plan[i] = Tail(plan)[i - 1]
      BY <2>2
    <3>2. \A i \in 1 .. Len(Tail(plan)) : Tail(plan)[i].do # "pushOrFail"
      BY <2>2 DEF CallsOn
    <3>3. \A i \in 1 .. Len(plan) : i = 1 \/ i > 1
      BY <2>2
    <3> QED
      BY <3>1, <3>2, <3>3
  <2> QED
    BY <2>1, <2>2
<1>5. \A i \in 1 .. Len(plan) : plan[i].do \in TunnelCalls => plan[i].id = t
  <2>1. CASE plan \in Seq(CallsOn(t))
    BY <2>1 DEF CallsOn
  <2>2. CASE Tail(plan) \in Seq(CallsOn(t)) /\ plan # <<>> /\ plan \in Seq(Call)
              /\ Head(plan).do \in TunnelCalls /\ Head(plan).id = t
    <3>1. \A i \in 1 .. Len(plan) : i > 1 => i - 1 \in 1 .. Len(Tail(plan)) /\ plan[i] = Tail(plan)[i - 1]
      BY <2>2
    <3>2. \A i \in 1 .. Len(Tail(plan)) : Tail(plan)[i].do \in TunnelCalls => Tail(plan)[i].id = t
      BY <2>2 DEF CallsOn
    <3>3. \A i \in 1 .. Len(plan) : i = 1 \/ i > 1
      BY <2>2
    <3>4. plan[1] = Head(plan)
      BY <2>2
    <3> QED
      BY <2>2, <3>1, <3>2, <3>3, <3>4
  <2> QED
    BY <2>1, <2>2
<1>6. ASSUME NEW u \in Tunnels, u # t PROVE Matching(p, u)'
  <2>1. \A i \in 1 .. Len(threads'[p].plan) :
          ~Saves(threads'[p].plan[i], u) /\ ~Sets(threads'[p].plan[i], u)
    BY <1>2, <1>5, <1>6 DEF Saves, Sets, TunnelCalls
  <2> QED
    BY <1>3, <2>1, Untouched
<1>7. Settling(p)'
  BY <1>3, <1>6 DEF Settling
<1>8. Gated(p)'
  BY <1>2, <1>3, <1>4 DEF Gated
<1>9. ListedNow(p)'
  BY <1>2 DEF ListedNow
<1> QED
  BY <1>1, <1>2, <1>7, <1>8, <1>9, TimerCarried

\* A plan agrees with itself about a tunnel when its last save is of a row
\* that does not run, or has the deadline its last call on the timer sets.
LEMMA PlanAgrees ==
  ASSUME NEW p \in Threads, NEW t \in Tunnels, NEW plan, threads'[p].plan = plan,
         NEW i \in 1 .. Len(plan), Saves(plan[i], t), plan[i].row \in Row,
         \A j \in i + 1 .. Len(plan) : ~Saves(plan[j], t),
         \/ ~RunningRow(plan[i].row)
         \/ \E k \in 1 .. Len(plan) :
              /\ Sets(plan[k], t) /\ Until(plan[k]) = plan[i].row.expireAt
              /\ \A j \in k + 1 .. Len(plan) : ~Sets(plan[j], t)
  PROVE  Matching(p, t)'
<1> DEFINE runs == RunningRow(plan[i].row)
           until == plan[i].row.expireAt
<1>1. runs \in BOOLEAN /\ until \in Deadlines
  BY DEF RunningRow, Row
<1>2. RowEnds(p, t, runs, until)'
  BY DEF RowEnds
<1>3. runs => TimerEnds(p, t, until)'
  BY DEF TimerEnds
<1> QED
  BY <1>1, <1>2, <1>3 DEF Matching

\* Which calls save a row and which set a timer.
LEMMA Kinds ==
  ASSUME NEW t, NEW row
  PROVE  /\ Saves(Do("save", t, row), t) /\ ~Sets(Do("save", t, row), t)
         /\ Do("save", t, row).row = row
         /\ Sets(Schedule(t, row), t) /\ ~Saves(Schedule(t, row), t)
         /\ Until(Schedule(t, row)) = row.expireAt
         /\ \A call \in {"push", "pushOrFail", "remove", "delete"} :
              ~Saves(Do(call, t, row), t) /\ ~Sets(Do(call, t, row), t)
         /\ \A call \in {"cancel", "arm", "forget"} :
              ~Saves(Do(call, t, row), t) /\ Sets(Do(call, t, row), t)
         /\ Until(Do("arm", t, row)) = row.expireAt
         /\ Until(Do("cancel", t, row)) = Never
BY DEF Saves, Sets, Do, Schedule, Until

\* Short sequences joined, as some plans are written.
LEMMA Joins ==
  ASSUME NEW a, NEW b, NEW c
  PROVE  /\ <<a, b>> \o <<c>> = <<a, b, c>>
         /\ <<a>> \o <<b>> = <<a, b>>
         /\ <<a>> \o <<b, c>> = <<a, b, c>>
<1> DEFINE S == {a, b, c}
<1>1. /\ <<a>> \in Seq(S) /\ <<b>> \in Seq(S) /\ <<c>> \in Seq(S)
      /\ <<a, b>> \in Seq(S) /\ <<b, c>> \in Seq(S) /\ <<a, b, c>> \in Seq(S)
  OBVIOUS
<1>2. <<a, b>> \o <<c>> = <<a, b, c>>
  <2>1. <<a, b>> \o <<c>> \in Seq(S) /\ Len(<<a, b>> \o <<c>>) = 3
    BY <1>1, ConcatProperties
  <2>2. \A i \in 1 .. 3 : (<<a, b>> \o <<c>>)[i] = <<a, b, c>>[i]
    BY <1>1
  <2> QED
    BY <1>1, <2>1, <2>2, SeqEqual
<1>3. <<a>> \o <<b>> = <<a, b>>
  <2>1. <<a>> \o <<b>> \in Seq(S) /\ Len(<<a>> \o <<b>>) = 2
    BY <1>1, ConcatProperties
  <2>2. \A i \in 1 .. 2 : (<<a>> \o <<b>>)[i] = <<a, b>>[i]
    BY <1>1
  <2> QED
    BY <1>1, <2>1, <2>2, SeqEqual
<1>4. <<a>> \o <<b, c>> = <<a, b, c>>
  <2>1. <<a>> \o <<b, c>> \in Seq(S) /\ Len(<<a>> \o <<b, c>>) = 3
    BY <1>1, ConcatProperties
  <2>2. \A i \in 1 .. 3 : (<<a>> \o <<b, c>>)[i] = <<a, b, c>>[i]
    BY <1>1
  <2> QED
    BY <1>1, <2>1, <2>2, SeqEqual
<1> QED
  BY <1>2, <1>3, <1>4

\* And joined with nothing.
LEMMA JoinsEmpty ==
  ASSUME NEW a, NEW b
  PROVE  /\ <<a, b>> \o <<>> = <<a, b>>
         /\ <<a>> \o <<>> = <<a>>
         /\ <<>> \o <<a, b>> = <<a, b>>
<1> DEFINE S == {a, b}
<1>1. <<a>> \in Seq(S) /\ <<a, b>> \in Seq(S)
  OBVIOUS
<1> QED
  BY <1>1, ConcatEmptySeq

\* Each plan of the handlers that changes a row agrees with itself.
LEMMA HandlersAgree ==
  ASSUME NEW p \in Threads, NEW t \in Tunnels, NEW row, row \in Row
  PROVE  /\ threads'[p].plan = CreatePlan(t, row) => Matching(p, t)'
         /\ threads'[p].plan = UpdatePlan(t, row) => Matching(p, t)'
<1>1. ASSUME threads'[p].plan = <<Do("save", t, row), Schedule(t, row)>>
      PROVE  Matching(p, t)'
  <2> DEFINE plan == <<Do("save", t, row), Schedule(t, row)>>
  <2>1. /\ Len(plan) = 2 /\ 1 \in 1 .. Len(plan) /\ 2 \in 1 .. Len(plan)
        /\ plan[1] = Do("save", t, row) /\ plan[2] = Schedule(t, row)
    OBVIOUS
  <2> HIDE DEF plan
  <2>2. \A j \in 1 + 1 .. Len(plan) : ~Saves(plan[j], t)
    BY <2>1, Kinds
  <2>3. \A j \in 2 + 1 .. Len(plan) : ~Sets(plan[j], t)
    BY <2>1
  <2>4. /\ Saves(plan[1], t) /\ plan[1].row = row
        /\ Sets(plan[2], t) /\ Until(plan[2]) = row.expireAt
    BY <2>1, Kinds
  <2>5. threads'[p].plan = plan
    BY <1>1 DEF plan
  <2> QED
    BY <2>1, <2>2, <2>3, <2>4, <2>5, PlanAgrees
<1>2. ASSUME threads'[p].plan = <<Do("save", t, row), Schedule(t, row), Do("push", t, row)>>
      PROVE  Matching(p, t)'
  <2> DEFINE plan == <<Do("save", t, row), Schedule(t, row), Do("push", t, row)>>
  <2>1. /\ Len(plan) = 3 /\ 1 \in 1 .. Len(plan) /\ 2 \in 1 .. Len(plan)
        /\ plan[1] = Do("save", t, row) /\ plan[2] = Schedule(t, row)
        /\ plan[3] = Do("push", t, row)
    OBVIOUS
  <2> HIDE DEF plan
  <2>2. \A j \in 1 + 1 .. Len(plan) : ~Saves(plan[j], t)
    BY <2>1, Kinds
  <2>3. \A j \in 2 + 1 .. Len(plan) : ~Sets(plan[j], t)
    BY <2>1, Kinds
  <2>4. /\ Saves(plan[1], t) /\ plan[1].row = row
        /\ Sets(plan[2], t) /\ Until(plan[2]) = row.expireAt
    BY <2>1, Kinds
  <2>5. threads'[p].plan = plan
    BY <1>2 DEF plan
  <2> QED
    BY <2>1, <2>2, <2>3, <2>4, <2>5, PlanAgrees
<1>3. /\ CreatePlan(t, row) = <<Do("save", t, row), Schedule(t, row)>>
      /\ UpdatePlan(t, row) \in {<<Do("save", t, row), Schedule(t, row)>>,
           <<Do("save", t, row), Schedule(t, row), Do("push", t, row)>>}
  BY Joins, JoinsEmpty DEF CreatePlan, UpdatePlan
<1> QED
  BY <1>1, <1>2, <1>3

\* So do the plans that change a status.
LEMMA StatusAgree ==
  ASSUME NEW p \in Threads, NEW t \in Tunnels, NEW row, row \in Row
  PROVE  /\ threads'[p].plan = StartPlan(t, row) => Matching(p, t)'
         /\ threads'[p].plan = StopPlan(t, row) => Matching(p, t)'
         /\ threads'[p].plan = ExpirePlan(t, row) /\ RunningRow(row) => Matching(p, t)'
         /\ threads'[p].plan = VisitPlan(t, row, TRUE) => Matching(p, t)'
<1> DEFINE active == [row EXCEPT !.status = "active"]
           stopped == [row EXCEPT !.status = "stopped"]
           expired == [row EXCEPT !.status = "expired"]
<1>1. /\ active \in Row /\ active.expireAt = row.expireAt
      /\ stopped \in Row /\ ~RunningRow(stopped)
      /\ expired \in Row /\ ~RunningRow(expired)
  BY DEF Row, RowStatuses, RunningRow
<1> HIDE DEF active, stopped, expired
<1>2. ASSUME threads'[p].plan = StartPlan(t, row) PROVE Matching(p, t)'
  <2> DEFINE plan == <<Do("pushOrFail", t, row), Do("save", t, active), Schedule(t, active)>>
  <2>1. /\ Len(plan) = 3 /\ 2 \in 1 .. Len(plan) /\ 3 \in 1 .. Len(plan)
        /\ plan[2] = Do("save", t, active) /\ plan[3] = Schedule(t, active)
    OBVIOUS
  <2>2. threads'[p].plan = plan
    BY <1>2 DEF StartPlan, active
  <2> HIDE DEF plan
  <2>3. \A j \in 2 + 1 .. Len(plan) : ~Saves(plan[j], t)
    BY <2>1, Kinds
  <2>4. \A j \in 3 + 1 .. Len(plan) : ~Sets(plan[j], t)
    BY <2>1
  <2>5. /\ Saves(plan[2], t) /\ plan[2].row = active
        /\ Sets(plan[3], t) /\ Until(plan[3]) = active.expireAt
    BY <2>1, Kinds
  <2> QED
    BY <1>1, <2>1, <2>2, <2>3, <2>4, <2>5, PlanAgrees
<1>3. ASSUME threads'[p].plan = StopPlan(t, row) PROVE Matching(p, t)'
  <2> DEFINE plan == <<Do("remove", t, row), Do("cancel", t, row),
                       Do("remove", t, row), Do("save", t, stopped)>>
  <2>1. Len(plan) = 4 /\ 4 \in 1 .. Len(plan) /\ plan[4] = Do("save", t, stopped)
    OBVIOUS
  <2>2. threads'[p].plan = plan
    BY <1>3 DEF StopPlan, stopped
  <2> HIDE DEF plan
  <2>3. \A j \in 4 + 1 .. Len(plan) : ~Saves(plan[j], t)
    BY <2>1
  <2>4. Saves(plan[4], t) /\ plan[4].row = stopped
    BY <2>1, Kinds
  <2> QED
    BY <1>1, <2>1, <2>2, <2>3, <2>4, PlanAgrees
<1>4. ASSUME threads'[p].plan = ExpirePlan(t, row), RunningRow(row) PROVE Matching(p, t)'
  <2> DEFINE plan == <<Do("remove", t, row), Do("save", t, expired), Do("forget", t, row)>>
  <2>1. /\ Len(plan) = 3 /\ 2 \in 1 .. Len(plan) /\ plan[2] = Do("save", t, expired)
        /\ plan[3] = Do("forget", t, row)
    OBVIOUS
  <2>2. threads'[p].plan = plan
    BY <1>4 DEF ExpirePlan, expired
  <2> HIDE DEF plan
  <2>3. \A j \in 2 + 1 .. Len(plan) : ~Saves(plan[j], t)
    BY <2>1, Kinds
  <2>4. Saves(plan[2], t) /\ plan[2].row = expired
    BY <2>1, Kinds
  <2> QED
    BY <1>1, <2>1, <2>2, <2>3, <2>4, PlanAgrees
<1>5. ASSUME threads'[p].plan = VisitPlan(t, row, TRUE) PROVE Matching(p, t)'
  <2> DEFINE plan == <<Do("cancel", t, row), Do("remove", t, row), Do("save", t, expired)>>
  <2>1. Len(plan) = 3 /\ 3 \in 1 .. Len(plan) /\ plan[3] = Do("save", t, expired)
    OBVIOUS
  <2>2. threads'[p].plan = plan
    BY <1>5 DEF VisitPlan, expired
  <2> HIDE DEF plan
  <2>3. \A j \in 3 + 1 .. Len(plan) : ~Saves(plan[j], t)
    BY <2>1
  <2>4. Saves(plan[3], t) /\ plan[3].row = expired
    BY <2>1, Kinds
  <2> QED
    BY <1>1, <2>1, <2>2, <2>3, <2>4, PlanAgrees
<1> QED
  BY <1>2, <1>3, <1>4, <1>5

\* And the two ways of renewing.
LEMMA RenewAgrees ==
  ASSUME NEW p \in Threads, NEW t \in Tunnels, NEW row, row \in Row,
         NEW until \in Deadlines, threads'[p].plan = RenewPlan(t, row, until)
  PROVE  Matching(p, t)'
<1> DEFINE renewed == Renewed(row, until)
           cancel == Do("cancel", t, row)
           push == Do("push", t, renewed)
           save == Do("save", t, renewed)
           arm == Do("arm", t, renewed)
<1>1. renewed \in Row /\ renewed.expireAt = until
  BY RenewedType DEF Renewed, Row
<1>2. threads'[p].plan \in IF until = Never
                           THEN {<<cancel, save>>, <<cancel, push, save>>}
                           ELSE {<<save, arm>>, <<push, save, arm>>}
  <2>1. RenewPlan(t, row, until) =
          LET revive == IF Reactivates(row) THEN <<push>> ELSE <<>>
          IN  IF until = Never THEN <<cancel>> \o revive \o <<save>>
                               ELSE revive \o <<save, arm>>
    BY DEF RenewPlan
  <2> HIDE DEF cancel, push, save, arm
  <2>2. /\ <<cancel>> \o <<>> = <<cancel>> /\ <<cancel>> \o <<save>> = <<cancel, save>>
        /\ <<>> \o <<save, arm>> = <<save, arm>>
    BY Joins, JoinsEmpty
  <2>3. /\ <<cancel>> \o <<push>> = <<cancel, push>>
        /\ <<cancel, push>> \o <<save>> = <<cancel, push, save>>
        /\ <<push>> \o <<save, arm>> = <<push, save, arm>>
    BY Joins
  <2>4. CASE Reactivates(row)
    BY <2>1, <2>3, <2>4
  <2>5. CASE ~Reactivates(row)
    BY <2>1, <2>2, <2>5
  <2> QED
    BY <2>4, <2>5
<1>3. /\ Saves(save, t) /\ ~Sets(save, t) /\ save.row = renewed
      /\ Sets(cancel, t) /\ ~Saves(cancel, t) /\ Until(cancel) = Never
      /\ Sets(arm, t) /\ ~Saves(arm, t) /\ Until(arm) = until
      /\ ~Sets(push, t) /\ ~Saves(push, t)
  BY <1>1, Kinds
<1> HIDE DEF renewed, cancel, push, save, arm
<1>4. CASE until = Never
  <2>1. ASSUME threads'[p].plan = <<cancel, save>> PROVE Matching(p, t)'
    <3> DEFINE plan == <<cancel, save>>
    <3>1. /\ Len(plan) = 2 /\ 1 \in 1 .. Len(plan) /\ 2 \in 1 .. Len(plan)
          /\ plan[1] = cancel /\ plan[2] = save
      OBVIOUS
    <3>2. threads'[p].plan = plan
      BY <2>1
    <3> HIDE DEF plan
    <3>3. /\ \A j \in 1 + 1 .. Len(plan) : ~Sets(plan[j], t)
          /\ \A j \in 2 + 1 .. Len(plan) : ~Saves(plan[j], t)
      BY <1>3, <3>1
    <3> QED
      BY <1>1, <1>3, <1>4, <3>1, <3>2, <3>3, PlanAgrees
  <2>2. ASSUME threads'[p].plan = <<cancel, push, save>> PROVE Matching(p, t)'
    <3> DEFINE plan == <<cancel, push, save>>
    <3>1. /\ Len(plan) = 3 /\ 1 \in 1 .. Len(plan) /\ 3 \in 1 .. Len(plan)
          /\ plan[1] = cancel /\ plan[2] = push /\ plan[3] = save
      OBVIOUS
    <3>2. threads'[p].plan = plan
      BY <2>2
    <3> HIDE DEF plan
    <3>3. /\ \A j \in 1 + 1 .. Len(plan) : ~Sets(plan[j], t)
          /\ \A j \in 3 + 1 .. Len(plan) : ~Saves(plan[j], t)
      BY <1>3, <3>1
    <3> QED
      BY <1>1, <1>3, <1>4, <3>1, <3>2, <3>3, PlanAgrees
  <2> QED
    BY <1>2, <1>4, <2>1, <2>2
<1>5. CASE until # Never
  <2>1. ASSUME threads'[p].plan = <<save, arm>> PROVE Matching(p, t)'
    <3> DEFINE plan == <<save, arm>>
    <3>1. /\ Len(plan) = 2 /\ 1 \in 1 .. Len(plan) /\ 2 \in 1 .. Len(plan)
          /\ plan[1] = save /\ plan[2] = arm
      OBVIOUS
    <3>2. threads'[p].plan = plan
      BY <2>1
    <3> HIDE DEF plan
    <3>3. /\ \A j \in 2 + 1 .. Len(plan) : ~Sets(plan[j], t)
          /\ \A j \in 1 + 1 .. Len(plan) : ~Saves(plan[j], t)
      BY <1>3, <3>1
    <3> QED
      BY <1>1, <1>3, <3>1, <3>2, <3>3, PlanAgrees
  <2>2. ASSUME threads'[p].plan = <<push, save, arm>> PROVE Matching(p, t)'
    <3> DEFINE plan == <<push, save, arm>>
    <3>1. /\ Len(plan) = 3 /\ 2 \in 1 .. Len(plan) /\ 3 \in 1 .. Len(plan)
          /\ plan[2] = save /\ plan[3] = arm
      OBVIOUS
    <3>2. threads'[p].plan = plan
      BY <2>2
    <3> HIDE DEF plan
    <3>3. /\ \A j \in 3 + 1 .. Len(plan) : ~Sets(plan[j], t)
          /\ \A j \in 2 + 1 .. Len(plan) : ~Saves(plan[j], t)
      BY <1>3, <3>1
    <3> QED
      BY <1>1, <1>3, <3>1, <3>2, <3>3, PlanAgrees
  <2> QED
    BY <1>2, <1>5, <2>1, <2>2
<1> QED
  BY <1>4, <1>5

\* A thread that begins a request keeps timers and rows in agreement.
LEMMA RequestTimers ==
  ASSUME ~Overlap, Shells = {}, TypeOK, TypeOK', TimerInv,
         NEW p \in Threads, NEW t \in Tunnels,
         \/ CreateTunnel(p, t) \/ UpdateTunnel(p, t)
         \/ StartTunnel(p, t) \/ StopTunnel(p, t) \/ DeleteTunnel(p, t)
         \/ ExtendTunnel(p, t) \/ MakePermanent(p, t)
  PROVE  TimerInv'
<1> USE DEF ValidDeadlines
<1>1. rows[t] \in Row
  BY DEF TypeOK
<1>2. ASSUME NEW row \in Row, NEW call \in Upkeep PROVE Do(call, t, row) \in CallsOn(t)
  <2>1. Do(call, t, row) \in Call
    BY DoIsCall DEF Upkeep
  <2> QED
    BY <2>1 DEF CallsOn, Do, Upkeep
<1>3. \A status \in RowStatuses : [rows[t] EXCEPT !.status = status] \in Row
  BY <1>1, RowStatus
<1>4. ASSUME NEW request, NEW plan, Begin(p, request, plan)
      PROVE  threads'[p].plan = plan /\ plan \in Seq(Call)
  BY <1>4 DEF Begin, TypeOK, Thread
<1>5. CASE CreateTunnel(p, t)
  <2>1. PICK e \in Endpoints, deadline \in Deadlines :
          Begin(p, "create", CreatePlan(t,
            [endpoint |-> e, enabled |-> TRUE, expireAt |-> deadline,
             status |-> "pending"]))
    BY <1>5 DEF CreateTunnel
  <2> DEFINE row == [endpoint |-> e, enabled |-> TRUE, expireAt |-> deadline,
                     status |-> "pending"]
  <2>2. row \in Row
    BY DEF Row, RowStatuses
  <2>3. CreatePlan(t, row) \in Seq(CallsOn(t))
    BY <1>2, <2>2, HandlerPlans
  <2>4. Matching(p, t)'
    BY <1>4, <2>1, <2>2, HandlersAgree
  <2> QED
    BY <2>1, <2>3, <2>4, BeginTimers
<1>6. CASE UpdateTunnel(p, t)
  <2>1. PICK e \in Endpoints, enabled \in BOOLEAN, deadline \in Deadlines :
          Begin(p, "update", UpdatePlan(t,
            [endpoint |-> e, enabled |-> enabled, expireAt |-> deadline,
             status |-> rows[t].status]))
    BY <1>6 DEF UpdateTunnel
  <2> DEFINE row == [endpoint |-> e, enabled |-> enabled, expireAt |-> deadline,
                     status |-> rows[t].status]
  <2>2. row \in Row
    BY <1>1 DEF Row
  <2>3. UpdatePlan(t, row) \in Seq(CallsOn(t))
    BY <1>2, <2>2, HandlerPlans
  <2>4. Matching(p, t)'
    BY <1>4, <2>1, <2>2, HandlersAgree
  <2> QED
    BY <2>1, <2>3, <2>4, BeginTimers
<1>7. CASE StartTunnel(p, t)
  <2> DEFINE active == [rows[t] EXCEPT !.status = "active"]
             plan == StartPlan(t, rows[t])
  <2>1. Do("save", t, active) \in CallsOn(t) /\ Schedule(t, active) \in CallsOn(t)
    BY <1>2, <1>3, ScheduleCall DEF Upkeep, TunnelCalls, RowStatuses
  <2>2. plan = <<Do("pushOrFail", t, rows[t]), Do("save", t, active), Schedule(t, active)>>
    BY DEF StartPlan
  <2>3. /\ Tail(plan) = <<Do("save", t, active), Schedule(t, active)>>
        /\ Head(plan) = Do("pushOrFail", t, rows[t]) /\ plan # <<>>
    BY <2>2
  <2>4. /\ Tail(plan) \in Seq(CallsOn(t))
        /\ Head(plan).do \in TunnelCalls /\ Head(plan).id = t
    <3>1. <<Do("save", t, active), Schedule(t, active)>> \in Seq(CallsOn(t))
      BY <2>1
    <3>2. /\ Do("pushOrFail", t, rows[t]).do \in TunnelCalls
          /\ Do("pushOrFail", t, rows[t]).id = t
      BY DEF Do, TunnelCalls
    <3> HIDE DEF plan
    <3> QED
      BY <2>3, <3>1, <3>2
  <2> HIDE DEF plan
  <2>5. Begin(p, "start", plan)
    BY <1>7 DEF StartTunnel, plan
  <2>6. threads'[p].plan = plan /\ plan \in Seq(Call)
    BY <1>4, <2>5
  <2>7. threads'[p].plan = StartPlan(t, rows[t])
    BY <2>6 DEF plan
  <2>8. Matching(p, t)'
    BY <1>1, <2>7, StatusAgree
  <2> QED
    BY <2>3, <2>4, <2>5, <2>6, <2>8, BeginTimers
<1>8. CASE StopTunnel(p, t)
  <2>1. StopPlan(t, rows[t]) \in Seq(CallsOn(t))
    BY <1>1, <1>2, <1>3, StatusPlans DEF RowStatuses
  <2>2. Begin(p, "stop", StopPlan(t, rows[t]))
    BY <1>8 DEF StopTunnel
  <2>3. threads'[p].plan = StopPlan(t, rows[t])
    BY <1>4, <2>2
  <2>4. Matching(p, t)'
    BY <1>1, <2>3, StatusAgree
  <2> QED
    BY <2>1, <2>2, <2>4, BeginTimers
<1>9. CASE DeleteTunnel(p, t)
  <2> DEFINE remove == Do("remove", t, rows[t])
             delete == Do("delete", t, rows[t])
  <2>1. remove \in CallsOn(t) /\ delete \in CallsOn(t)
    BY <1>1, DoIsCall DEF CallsOn, Do, TunnelCalls
  <2>2. DeletePlan(t, rows[t]) \in Seq(CallsOn(t))
    BY <2>1, RemovalPlan
  <2>3. Begin(p, "delete", DeletePlan(t, rows[t]))
    BY <1>9 DEF DeleteTunnel
  <2>4. threads'[p].plan = <<remove, delete>>
    BY <1>4, <2>3 DEF DeletePlan
  <2>5. /\ ~Saves(remove, t) /\ ~Sets(remove, t)
        /\ ~Saves(delete, t) /\ ~Sets(delete, t)
    BY Kinds
  <2> HIDE DEF remove, delete
  <2>6. \A i \in 1 .. Len(threads'[p].plan) :
          ~Saves(threads'[p].plan[i], t) /\ ~Sets(threads'[p].plan[i], t)
    BY <2>4, <2>5
  <2>7. MatchesNow(t) => MatchesNow(t)'
    BY <2>3 DEF Begin, MatchesNow, Running, database, clockwork
  <2>8. MatchesNow(t) => Matching(p, t)'
    BY <2>6, <2>7, Untouched
  <2> QED
    BY <2>2, <2>3, <2>8, BeginTimers
<1>10. ASSUME NEW until \in Deadlines, Begin(p, "renew", RenewPlan(t, rows[t], until))
       PROVE  TimerInv'
  <2>1. Renewed(rows[t], until) \in Row
    BY <1>1, RenewedType
  <2>2. RenewPlan(t, rows[t], until) \in Seq(CallsOn(t))
    BY <1>1, <1>2, <2>1, RenewPlans
  <2>3. Matching(p, t)'
    BY <1>1, <1>4, <1>10, RenewAgrees
  <2> QED
    BY <1>10, <2>2, <2>3, BeginTimers
<1>11. CASE ExtendTunnel(p, t)
  <2>1. PICK delta \in 1 .. MaxTime :
          /\ RenewBase(t) + delta <= MaxTime
          /\ Begin(p, "renew", RenewPlan(t, rows[t], RenewBase(t) + delta))
    BY <1>11 DEF ExtendTunnel
  <2>2. RenewBase(t) + delta \in Deadlines
    BY <2>1, TimeAssumption
       DEF TypeOK, RenewBase, Row, Deadlines, Never, Instants
  <2> QED
    BY <1>10, <2>1, <2>2
<1>12. CASE MakePermanent(p, t)
  <2>1. Never \in Deadlines
    BY TimeAssumption DEF Never, Deadlines
  <2> QED
    BY <1>10, <1>12, <2>1 DEF MakePermanent
<1> QED
  BY <1>5, <1>6, <1>7, <1>8, <1>9, <1>11, <1>12

\* A request on an endpoint plans no call on a tunnel.
LEMMA EndpointTimers ==
  ASSUME ~Overlap, Shells = {}, TypeOK, TypeOK', TimerInv,
         NEW p \in Threads, NEW e \in Endpoints,
         UpdateEndpoint(p, e) \/ DeleteEndpoint(p, e)
  PROVE  TimerInv'
<1>1. PICK request, plan :
        Begin(p, request, plan)
        /\ plan \in {DeleteEndpointPlan(e), <<DoEndpoint("saveEndpoint", e, TRUE)>>,
                     <<DoEndpoint("saveEndpoint", e, FALSE)>>}
  BY DEF UpdateEndpoint, DeleteEndpoint
<1>2. /\ \A q \in Threads : threads[q] = Idle
      /\ phase' = phase /\ phase = "up" /\ UNCHANGED <<rows, timers>>
      /\ threads' = [threads EXCEPT ![p] = [plan |-> plan, listed |-> {}]]
  BY <1>1 DEF Begin, Free, Quiet, database, clockwork, Serving, Threads, Daemon
<1>3. /\ threads'[p].plan = plan /\ threads'[p].listed = {}
      /\ \A q \in Threads \ {p} : threads'[q] = Idle
  BY <1>2 DEF TypeOK
<1>4. \A u \in Tunnels : MatchesNow(u)'
  BY <1>2 DEF TimerInv, Quiet, MatchesNow, Running
<1>5. \A i \in 1 .. Len(plan) : plan[i].do \in EndpointCalls
  BY <1>1 DEF DeleteEndpointPlan, DoEndpoint, EndpointCalls
<1>6. \A i \in 1 .. Len(plan) :
         /\ plan[i].do # "pushOrFail"
         /\ \A u \in Tunnels : ~Saves(plan[i], u) /\ ~Sets(plan[i], u)
  BY <1>5 DEF EndpointCalls, Saves, Sets
<1>7. \A u \in Tunnels : Matching(p, u)'
  BY <1>3, <1>4, <1>6, Untouched
<1>8. Settling(p)'
  BY <1>7 DEF Settling
<1>9. Gated(p)'
  BY <1>3, <1>6 DEF Gated
<1>10. ListedNow(p)'
  BY <1>3 DEF ListedNow
<1> QED
  BY <1>2, <1>3, <1>8, <1>9, <1>10, TimerCarried

\* Once a call has been made, its caller still makes all tunnels match, and
\* the rows it has listed are those of the table.
LEMMA CallTimers ==
  ASSUME Shells = {}, TypeOK, TypeOK', SerialInv, TimerInv, NEW p \in Threads,
         \/ Push(p) \/ PushOrFail(p) \/ Remove(p) \/ Save(p) \/ Delete(p)
         \/ CancelTimer(p) \/ ArmTimer(p) \/ Forget(p)
         \/ SaveEndpoint(p) \/ StopEndpoint(p) \/ DropEndpoint(p)
  PROVE  TimerInv'
<1> DEFINE c == Head(threads[p].plan)
<1>1. /\ threads[p] \in Thread /\ threads[p].plan # <<>> /\ threads[p].plan \in Seq(Call)
      /\ threads[p] # Idle
  <2>1. threads[p].plan # <<>>
    BY DEF Push, PushOrFail, Remove, Save, Delete, CancelTimer, ArmTimer, Forget,
           SaveEndpoint, StopEndpoint, DropEndpoint, Called
  <2> QED
    BY <2>1 DEF TypeOK, Thread, Idle
<1>2. /\ Settling(p) /\ Gated(p) /\ ListedNow(p) /\ Orderly(p)
      /\ \A q \in Threads \ {p} : threads[q] = Idle
  BY <1>1, BusyAlone DEF TimerInv, SerialInv
<1>3. phase' = phase /\ phase # "down"
  <2>1. phase # "down"
    BY <1>1 DEF TimerInv, Quiet
  <2> QED
    BY <2>1 DEF Push, PushOrFail, Remove, Save, Delete, CancelTimer, ArmTimer, Forget,
       SaveEndpoint, StopEndpoint, DropEndpoint, Called
<1>4. \/ threads' = [threads EXCEPT ![p].plan = Tail(@)]
      \/ /\ PushOrFail(p) /\ c.do = "pushOrFail"
         /\ threads' = [threads EXCEPT ![p].plan = <<>>]
  BY DEF Push, PushOrFail, Remove, Save, Delete, CancelTimer, ArmTimer, Forget,
         SaveEndpoint, StopEndpoint, DropEndpoint, Called
<1>5. CASE threads' = [threads EXCEPT ![p].plan = Tail(@)]
  <2>1. /\ threads'[p].plan = Tail(threads[p].plan)
        /\ threads'[p].listed = threads[p].listed
        /\ \A q \in Threads \ {p} : threads'[q] = Idle
    BY <1>1, <1>2, <1>5 DEF TypeOK, Thread
  <2> DEFINE s == threads[p].plan
             n == Len(s)
  <2>2. /\ n \in Nat /\ n > 0 /\ Len(threads'[p].plan) = n - 1 /\ c = s[1]
        /\ \A i \in 1 .. n - 1 : i + 1 \in 1 .. n /\ threads'[p].plan[i] = s[i + 1]
    BY <1>1, <2>1
  <2>3. ASSUME NEW t \in Tunnels, Matching(p, t) PROVE Matching(p, t)'
    BY <1>1, <2>1, <2>3, CallEffects, EndsKept
  <2>4. Settling(p)'
    BY <1>2, <2>1, <2>3 DEF Settling
  <2>5. Gated(p)'
    <3>1. \A i \in 1 .. n - 1 : threads'[p].plan[i].do # "pushOrFail"
      <4> SUFFICES ASSUME NEW i \in 1 .. n - 1 PROVE s[i + 1].do # "pushOrFail"
        BY <2>2
      <4>1. i + 1 \in 1 .. n /\ i + 1 # 1
        BY <2>2
      <4> QED
        BY <1>2, <4>1 DEF Gated
    <3> QED
      BY <2>2, <3>1 DEF Gated
  <2>6. ListedNow(p)'
    <3> SUFFICES ASSUME NEW item \in threads[p].listed
                 PROVE  /\ item.row = rows'[item.id]
                        /\ MatchesNow(item.id)' \/ timers'[item.id].at = Never
                        /\ \A i \in 1 .. n - 1 :
                             threads'[p].plan[i].do \in TunnelCalls
                               => threads'[p].plan[i].id # item.id
                        /\ \A other \in threads[p].listed :
                             other.id = item.id => other = item
      BY <2>1, <2>2 DEF ListedNow
    <3>1. /\ item.row = rows[item.id] /\ item.id \in Tunnels
          /\ MatchesNow(item.id) \/ timers[item.id].at = Never
          /\ \A i \in 1 .. n : s[i].do \in TunnelCalls => s[i].id # item.id
          /\ \A other \in threads[p].listed : other.id = item.id => other = item
      BY <1>1, <1>2 DEF ListedNow, Thread, Listed
    <3>2. threads[p].plan \in Seq(MildCalls)
      BY <1>2 DEF Orderly
    <3>3. c \in MildCalls
      BY <1>1, <3>2, HeadTailProperties
    <3>4. c.do \in TunnelCalls => c.id # item.id
      BY <2>2, <3>1
    <3>5. ~Saves(c, item.id) /\ ~Sets(c, item.id)
      BY <3>4 DEF Saves, Sets, TunnelCalls
    <3>6. timers'[item.id].at = timers[item.id].at
      BY <3>1, <3>5, CallEffects
    <3>7. rows'[item.id] = rows[item.id]
      <4>1. ~Delete(p) /\ ~DropEndpoint(p)
        BY <3>3 DEF MildCalls, Delete, DropEndpoint, Called
      <4>2. Save(p) => c.id # item.id
        BY <3>5 DEF Save, Called, Saves
      <4>3. CASE Save(p)
        BY <3>1, <4>2, <4>3 DEF Save, TypeOK
      <4>4. CASE ~Save(p)
        BY <4>1, <4>4 DEF Push, PushOrFail, Remove, CancelTimer, ArmTimer, Forget,
           SaveEndpoint, StopEndpoint, database
      <4> QED
        BY <4>3, <4>4
    <3>8. MatchesNow(item.id)' \/ timers'[item.id].at = Never
      BY <3>1, <3>6, <3>7 DEF MatchesNow, Running
    <3>9. \A i \in 1 .. n - 1 : threads'[p].plan[i].do \in TunnelCalls
                                  => threads'[p].plan[i].id # item.id
      BY <2>2, <3>1
    <3> QED
      BY <3>1, <3>7, <3>8, <3>9
  <2> QED
    BY <1>3, <2>1, <2>4, <2>5, <2>6, TimerCarried
<1>6. CASE /\ PushOrFail(p) /\ c.do = "pushOrFail"
           /\ threads' = [threads EXCEPT ![p].plan = <<>>]
  <2>1. /\ threads'[p].plan = <<>> /\ threads'[p].listed = threads[p].listed
        /\ \A q \in Threads \ {p} : threads'[q] = Idle
    BY <1>1, <1>2, <1>6 DEF TypeOK, Thread
  <2>2. 1 \in 1 .. Len(threads[p].plan) /\ c = threads[p].plan[1]
    BY <1>1
  <2>3. threads[p].listed = {} /\ \A t \in Tunnels : MatchesNow(t)
    BY SMTT(20), <1>2, <1>6, <2>2 DEF Gated
  <2>4. UNCHANGED <<rows, timers>>
    BY <1>6 DEF PushOrFail, database, clockwork
  <2>5. \A t \in Tunnels : MatchesNow(t)'
    BY <2>3, <2>4 DEF MatchesNow, Running
  <2>6. Len(threads'[p].plan) = 0
    BY <2>1
  <2>7. \A t \in Tunnels : Matching(p, t)'
    BY <2>5, <2>6, Untouched
  <2>8. Settling(p)'
    BY <2>7 DEF Settling
  <2>9. Gated(p)'
    BY <2>6 DEF Gated
  <2>10. ListedNow(p)'
    BY <2>1, <2>3 DEF ListedNow
  <2> QED
    BY <1>3, <2>1, <2>8, <2>9, <2>10, TimerCarried
<1> QED
  BY <1>4, <1>5, <1>6

\* What a pass plans for a row it listed makes that tunnel match, and leaves
\* the others as they are or for later.
LEMMA VisitTimers ==
  ASSUME Shells = {}, TypeOK, TypeOK', SerialInv, TimerInv, NEW p \in Threads,
         VisitNext(p)
  PROVE  TimerInv'
<1>1. PICK item \in threads[p].listed :
        threads' = [threads EXCEPT
          ![p] = [plan |-> VisitPlan(item.id, item.row, item.due),
                  listed |-> @.listed \ {item}]]
  BY DEF VisitNext
<1>2. /\ UNCHANGED <<rows, timers, phase>> /\ threads[p] \in Thread
      /\ threads[p].plan = <<>> /\ threads[p] # Idle
  BY <1>1 DEF VisitNext, database, clockwork, TypeOK, Idle
<1>3. /\ Settling(p) /\ ListedNow(p)
      /\ \A q \in Threads \ {p} : threads[q] = Idle
      /\ phase' # "down"
  BY <1>1, <1>2, BusyAlone DEF TimerInv, Quiet
<1>4. /\ item.id \in Tunnels /\ item.row \in Row /\ item.due \in BOOLEAN
      /\ item.row = rows[item.id]
      /\ MatchesNow(item.id) \/ timers[item.id].at = Never
      /\ \A other \in threads[p].listed : other.id = item.id => other = item
  BY <1>2, <1>3 DEF Thread, Listed, ListedNow
<1>5. /\ threads'[p].plan = VisitPlan(item.id, item.row, item.due)
      /\ threads'[p].listed = threads[p].listed \ {item}
      /\ \A q \in Threads \ {p} : threads'[q] = Idle
  BY <1>1, <1>3 DEF TypeOK
<1>6. ASSUME NEW row \in Row, NEW call \in Upkeep
      PROVE  Do(call, item.id, row) \in CallsOn(item.id)
  <2>1. Do(call, item.id, row) \in Call
    BY <1>4, DoIsCall DEF Upkeep
  <2> QED
    BY <2>1 DEF CallsOn, Do, Upkeep
<1>7. [item.row EXCEPT !.status = "expired"] \in Row
  BY <1>4, RowStatus DEF RowStatuses
<1>8. threads'[p].plan \in Seq(CallsOn(item.id))
  <2> DEFINE expired == [item.row EXCEPT !.status = "expired"]
  <2>0. \A call \in Upkeep : /\ Do(call, item.id, item.row) \in CallsOn(item.id)
                             /\ Do(call, item.id, expired) \in CallsOn(item.id)
    BY <1>4, <1>6, <1>7
  <2>1. CASE item.due
    <3>1. VisitPlan(item.id, item.row, TRUE) \in Seq(CallsOn(item.id))
      BY <2>0, StatusPlans
    <3> QED
      BY <1>4, <1>5, <2>1, <3>1
  <2>2. CASE ~item.due
    <3>1. VisitPlan(item.id, item.row, FALSE) \in Seq(CallsOn(item.id))
      BY <2>0, VisitPlans
    <3> QED
      BY <1>4, <1>5, <2>2, <3>1
  <2> QED
    BY <2>1, <2>2
<1>9. /\ \A i \in 1 .. Len(threads'[p].plan) : threads'[p].plan[i].do # "pushOrFail"
      /\ \A i \in 1 .. Len(threads'[p].plan) :
           threads'[p].plan[i].do \in TunnelCalls => threads'[p].plan[i].id = item.id
  BY <1>4, <1>8, OthersUntouched
<1>10. Matching(p, item.id)'
  <2>1. CASE item.due
    <3>1. threads'[p].plan = VisitPlan(item.id, item.row, TRUE)
      BY <1>4, <1>5, <2>1
    <3> QED
      BY <1>4, <3>1, StatusAgree
  <2> DEFINE push == Do("push", item.id, item.row)
             arm == Do("arm", item.id, item.row)
  <2>2. /\ ~Saves(push, item.id) /\ ~Sets(push, item.id)
        /\ ~Saves(arm, item.id) /\ Sets(arm, item.id)
        /\ Until(arm) = item.row.expireAt
    BY Kinds
  <2>3. ~item.due => threads'[p].plan = IF item.row.expireAt = Never
                                        THEN <<push>> ELSE <<push, arm>>
    <3>1. <<push>> \o <<>> = <<push>> /\ <<push>> \o <<arm>> = <<push, arm>>
      BY Joins, JoinsEmpty
    <3> QED
      BY <1>4, <1>5, <3>1 DEF VisitPlan
  <2> HIDE DEF push, arm
  <2>4. CASE ~item.due /\ item.row.expireAt = Never
    <3>1. threads'[p].plan = <<push>>
      BY <2>3, <2>4
    <3>2. \A i \in 1 .. Len(threads'[p].plan) :
            /\ ~Saves(threads'[p].plan[i], item.id)
            /\ ~Sets(threads'[p].plan[i], item.id)
      BY <2>2, <3>1
    <3>3. MatchesNow(item.id)'
      BY <1>2, <1>4, <2>4 DEF MatchesNow, Running
    <3> QED
      BY <1>4, <3>2, <3>3, Untouched
  <2>5. CASE ~item.due /\ item.row.expireAt # Never
    <3>1. threads'[p].plan = <<push, arm>>
      BY <2>3, <2>5
    <3>2. /\ Len(threads'[p].plan) = 2
          /\ threads'[p].plan[1] = push /\ threads'[p].plan[2] = arm
      BY <3>1
    <3>3. \A i \in 1 .. 2 : ~Saves(threads'[p].plan[i], item.id)
      BY <2>2, <3>2
    <3>4. TimerEnds(p, item.id, rows[item.id].expireAt)'
      BY <1>2, <1>4, <2>2, <3>2 DEF TimerEnds
    <3>5. RowEnds(p, item.id, Running(item.id), rows[item.id].expireAt)'
      BY <3>2, <3>3 DEF RowEnds
    <3>6. Running(item.id)' \in BOOLEAN /\ rows'[item.id].expireAt \in Deadlines
      BY <1>4 DEF TypeOK, Row, Running, RunningRow
    <3> QED
      BY <3>4, <3>5, <3>6 DEF Matching
  <2> QED
    BY <1>4, <2>1, <2>4, <2>5
<1>11. ASSUME NEW t \in Tunnels, t # item.id,
              ~ \E other \in threads'[p].listed : other.id = t
       PROVE  Matching(p, t)'
  <2>1. ~ \E other \in threads[p].listed : other.id = t
    BY <1>5, <1>11
  <2>2. MatchesNow(t)
    <3>1. Matching(p, t) /\ Len(threads[p].plan) = 0
      BY <1>2, <1>3, <2>1 DEF Settling
    <3> QED
      BY <3>1 DEF Matching, RowEnds, TimerEnds, MatchesNow
  <2>3. MatchesNow(t)'
    BY <1>2, <2>2 DEF MatchesNow, Running
  <2>4. \A i \in 1 .. Len(threads'[p].plan) :
          ~Saves(threads'[p].plan[i], t) /\ ~Sets(threads'[p].plan[i], t)
    BY <1>9, <1>11 DEF Saves, Sets, TunnelCalls
  <2> QED
    BY <2>3, <2>4, Untouched
<1>12. Settling(p)'
  BY <1>10, <1>11 DEF Settling
<1>13. Gated(p)'
  BY <1>9 DEF Gated
<1>14. ListedNow(p)'
  <2> SUFFICES ASSUME NEW other \in threads'[p].listed
               PROVE  /\ other.row = rows'[other.id]
                      /\ MatchesNow(other.id)' \/ timers'[other.id].at = Never
                      /\ \A i \in 1 .. Len(threads'[p].plan) :
                           threads'[p].plan[i].do \in TunnelCalls
                             => threads'[p].plan[i].id # other.id
                      /\ \A third \in threads'[p].listed :
                           third.id = other.id => third = other
    BY DEF ListedNow
  <2>1. other \in threads[p].listed /\ other.id # item.id
    BY <1>4, <1>5
  <2>2. /\ other.row = rows[other.id]
        /\ MatchesNow(other.id) \/ timers[other.id].at = Never
        /\ \A third \in threads[p].listed : third.id = other.id => third = other
    BY <1>3, <2>1 DEF ListedNow
  <2>3. MatchesNow(other.id)' \/ timers'[other.id].at = Never
    BY <1>2, <2>2 DEF MatchesNow, Running
  <2> QED
    BY <1>2, <1>5, <1>9, <2>1, <2>2, <2>3
<1> QED
  BY <1>3, <1>5, <1>12, <1>13, <1>14, TimerCarried

\* A pass, at boot or later, begins with everything to be visited or matching.
LEMMA ListTimers ==
  ASSUME ~Overlap, TypeOK, TypeOK', TimerInv, NEW p \in Threads,
         (BeginReconcile(p) /\ p \in Daemon) \/ Boot(p)
  PROVE  TimerInv'
<1>1. /\ UNCHANGED <<rows, timers>> /\ phase' # "down"
      /\ threads' = [threads EXCEPT ![p].listed = Snapshot]
      /\ \A q \in Threads : threads[q] = Idle
      /\ phase # "down" \/ \A t \in Tunnels : timers[t] = NoTimer
  BY DEF BeginReconcile, Boot, database, clockwork, Serving, Free, Quiet, TimerInv
<1>2. /\ threads'[p].plan = <<>> /\ threads'[p].listed = Snapshot
      /\ \A q \in Threads \ {p} : threads'[q] = Idle
  BY <1>1 DEF TypeOK, Thread, Idle
<1>3. \A t \in Tunnels : MatchesNow(t) \/ timers[t].at = Never
  BY <1>1 DEF TimerInv, Quiet, NoTimer
<1>4. Len(threads'[p].plan) = 0
  BY <1>2
<1>5. ASSUME NEW t \in Tunnels PROVE Matching(p, t)' \/ \E item \in Snapshot : item.id = t
  <2>1. CASE Running(t)
    <3> DEFINE item == [id |-> t, row |-> rows[t], due |-> Overdue(rows[t])]
    <3>1. item \in Snapshot
      BY <2>1 DEF Snapshot
    <3>2. item.id = t
      OBVIOUS
    <3> HIDE DEF item
    <3> QED
      BY <3>1, <3>2
  <2>2. CASE ~Running(t)
    <3>1. MatchesNow(t)'
      BY <1>1, <2>2 DEF MatchesNow, Running
    <3> QED
      BY <1>4, <3>1, Untouched
  <2> QED
    BY <2>1, <2>2
<1>6. Settling(p)'
  BY <1>2, <1>5 DEF Settling
<1>7. Gated(p)'
  BY <1>4 DEF Gated
<1>8. ListedNow(p)'
  <2>1. \A item \in Snapshot : /\ item.id \in Tunnels /\ item.row = rows[item.id]
                               /\ item.due = Overdue(rows[item.id])
                               /\ item = [id |-> item.id, row |-> item.row, due |-> item.due]
    BY DEF Snapshot
  <2>2. \A item, other \in Snapshot : other.id = item.id => other = item
    BY <2>1
  <2>3. \A item \in Snapshot : MatchesNow(item.id)' \/ timers'[item.id].at = Never
    BY <1>1, <1>3, <2>1 DEF MatchesNow, Running
  <2> QED
    BY <1>1, <1>2, <1>4, <2>1, <2>2, <2>3 DEF ListedNow
<1> QED
  BY <1>1, <1>2, <1>6, <1>7, <1>8, TimerCarried

\* A callback begins when all tunnels match, whichever timer launched it.
LEMMA OnExpireTimers ==
  ASSUME ~Overlap, TypeOK, TypeOK', TimerInv, NEW p \in Threads, NEW t \in Tunnels,
         OnExpire(p, t)
  PROVE  TimerInv'
<1>1. /\ UNCHANGED <<rows, timers, phase>>
      /\ threads' = [threads EXCEPT ![p].plan = ExpirePlan(t, rows[t])]
      /\ \A q \in Threads : threads[q] = Idle
      /\ rows[t] \in Row
  BY DEF OnExpire, database, Free, Quiet, TypeOK
<1>2. /\ threads'[p].plan = ExpirePlan(t, rows[t]) /\ threads'[p].listed = {}
      /\ \A q \in Threads \ {p} : threads'[q] = Idle
  BY <1>1 DEF TypeOK, Thread, Idle
<1>3. phase' # "down" /\ \A u \in Tunnels : MatchesNow(u)
  BY <1>1 DEF TimerInv, Quiet, OnExpire
<1>4. \A u \in Tunnels : MatchesNow(u)'
  BY <1>1, <1>3 DEF MatchesNow, Running
<1>5. ASSUME NEW row \in Row, NEW call \in Upkeep PROVE Do(call, t, row) \in CallsOn(t)
  <2>1. Do(call, t, row) \in Call
    BY DoIsCall DEF Upkeep
  <2> QED
    BY <2>1 DEF CallsOn, Do, Upkeep
<1> DEFINE expired == [rows[t] EXCEPT !.status = "expired"]
<1>6. \A call \in Upkeep : Do(call, t, rows[t]) \in CallsOn(t) /\ Do(call, t, expired) \in CallsOn(t)
  BY <1>1, <1>5, RowStatus DEF RowStatuses
<1>7. ExpirePlan(t, rows[t]) \in Seq(CallsOn(t))
  BY <1>6, StatusPlans
<1>8. /\ \A i \in 1 .. Len(threads'[p].plan) : threads'[p].plan[i].do # "pushOrFail"
      /\ \A i \in 1 .. Len(threads'[p].plan) :
           threads'[p].plan[i].do \in TunnelCalls => threads'[p].plan[i].id = t
  BY <1>2, <1>7, OthersUntouched
<1>9. ASSUME NEW u \in Tunnels PROVE Matching(p, u)'
  <2>1. CASE u # t
    <3>1. \A i \in 1 .. Len(threads'[p].plan) :
            ~Saves(threads'[p].plan[i], u) /\ ~Sets(threads'[p].plan[i], u)
      BY <1>8, <2>1 DEF Saves, Sets, TunnelCalls
    <3> QED
      BY <1>4, <3>1, Untouched
  <2>2. CASE u = t /\ RunningRow(rows[t])
    BY <1>1, <1>2, <2>2, StatusAgree
  <2>3. CASE u = t /\ ~RunningRow(rows[t])
    <3>1. Len(threads'[p].plan) = 0
      BY <1>2, <2>3 DEF ExpirePlan
    <3> QED
      BY <1>4, <3>1, Untouched
  <2> QED
    BY <2>1, <2>2, <2>3
<1>10. Settling(p)'
  BY <1>9 DEF Settling
<1>11. Gated(p)'
  BY <1>8 DEF Gated
<1>12. ListedNow(p)'
  BY <1>2 DEF ListedNow
<1> QED
  BY <1>2, <1>3, <1>10, <1>11, <1>12, TimerCarried

\* The clock, the timers and the process: nobody's plan changes, or everybody's
\* is lost together with all timers.
LEMMA ProcessTimers ==
  ASSUME Shells = {}, TypeOK, TypeOK', TimerInv,
         \/ \E t \in Tunnels : TimerElapses(t)
         \/ \E o \in orphans : OrphanElapses(o)
         \/ Tick \/ Crash \/ Booted \/ UNCHANGED vars
  PROVE  TimerInv'
<1>1. CASE Crash
  <2>1. /\ phase' = "down" /\ orphans' = {} /\ elapsed' = {}
        /\ \A t \in Tunnels : timers'[t] = NoTimer
        /\ \A p \in Threads : threads'[p] = Idle
    BY <1>1 DEF Crash, Threads
  <2>2. \A p \in Threads : ListedNow(p)'
    BY <2>1 DEF ListedNow, Idle
  <2> QED
    BY <2>1, <2>2 DEF TimerInv, Quiet
<1>2. CASE ~Crash
  <2>1. UNCHANGED <<rows, threads>>
    BY <1>2 DEF TimerElapses, OrphanElapses, Tick, Booted, vars, database
  <2>2. \A t \in Tunnels : timers'[t].at = timers[t].at
    BY <1>2 DEF TimerElapses, OrphanElapses, Tick, Booted, vars, clockwork, TypeOK
  <2>3. /\ phase' = "down" => phase = "down"
        /\ phase' # "down" => phase # "down"
    BY <1>2 DEF TimerElapses, OrphanElapses, Tick, Booted, vars
  <2>4. \A t \in Tunnels : MatchesNow(t) <=> MatchesNow(t)'
    BY <2>1, <2>2 DEF MatchesNow, Running
  <2>5. ASSUME NEW p \in Threads, threads[p] # Idle PROVE Settling(p)' /\ Gated(p)'
    <3>1. Settling(p) /\ Gated(p)
      BY <2>5 DEF TimerInv
    <3>2. \A t \in Tunnels : Matching(p, t) => Matching(p, t)'
      BY <2>1, <2>2 DEF Matching, RowEnds, TimerEnds, Running
    <3>3. Settling(p)'
      BY <2>1, <3>1, <3>2 DEF Settling
    <3>4. Gated(p)'
      BY <2>1, <2>4, <3>1 DEF Gated
    <3> QED
      BY <3>3, <3>4
  <2>6. ASSUME NEW p \in Threads PROVE ListedNow(p)'
    <3>1. \A item \in threads[p].listed : item.id \in Tunnels
      BY DEF TypeOK, Thread, Listed
    <3>2. ListedNow(p)
      BY DEF TimerInv
    <3> QED
      BY <2>1, <2>2, <2>4, <3>1, <3>2 DEF ListedNow
  <2>7. phase' = "down" => /\ Quiet' /\ orphans' = {} /\ elapsed' = {}
                           /\ \A t \in Tunnels : timers'[t] = NoTimer
    <3> SUFFICES ASSUME phase' = "down"
                 PROVE  /\ Quiet' /\ orphans' = {} /\ elapsed' = {}
                        /\ \A t \in Tunnels : timers'[t] = NoTimer
      OBVIOUS
    <3>1. /\ Quiet /\ orphans = {} /\ elapsed = {}
          /\ \A t \in Tunnels : timers[t] = NoTimer
      BY <2>3 DEF TimerInv
    <3>2. ~ \E t \in Tunnels : TimerElapses(t)
      BY <3>1 DEF TimerElapses, NoTimer
    <3>3. UNCHANGED <<timers, orphans, elapsed>>
      BY <1>2, <3>1, <3>2 DEF Tick, Booted, vars, clockwork
    <3> QED
      BY <2>1, <3>1, <3>3 DEF Quiet
  <2>8. Quiet' => Quiet
    BY <2>1 DEF Quiet
  <2> QED
    BY <2>1, <2>3, <2>4, <2>5, <2>6, <2>7, <2>8 DEF TimerInv
<1> QED
  BY <1>1, <1>2

\* Threads are in order and timers match rows at the start.
LEMMA TimersStart == Init => SerialInv /\ TimerInv
<1> SUFFICES ASSUME Init PROVE SerialInv /\ TimerInv
  OBVIOUS
<1>1. /\ \A p \in Threads : threads[p] = Idle
      /\ \A t \in Tunnels : ~Running(t)
      /\ phase = "up"
  BY DEF Init, Running, RunningRow, NoRow
<1>2. \A p \in Threads : threads[p].plan = <<>> /\ threads[p].listed = {}
  BY <1>1 DEF Idle
<1>3. <<>> \in Seq(MildCalls)
  BY EmptySeq
<1>4. \A p \in Threads : Orderly(p) /\ ListedNow(p)
  BY <1>2, <1>3 DEF Orderly, ListedNow
<1> QED
  BY <1>1, <1>4 DEF SerialInv, TimerInv, MatchesNow

\* And every step keeps them so.
LEMMA TimersStep ==
  ASSUME ~Overlap, Shells = {}, TypeOK, TypeOK', SerialInv, TimerInv, [Next]_vars
  PROVE  SerialInv' /\ TimerInv'
<1> USE DEF Threads, Daemon
<1>1. SerialInv'
  BY StepSerial
<1>2. ASSUME NEW p \in Handlers, Request(p) PROVE TimerInv'
  BY <1>2, RequestTimers, EndpointTimers DEF Request
<1>3. ASSUME NEW p \in Loops, BeginReconcile(p) \/ Boot(p) PROVE TimerInv'
  BY <1>3, ListTimers
<1>4. ASSUME NEW p \in Callbacks, NEW t \in Tunnels, OnExpire(p, t)
      PROVE  TimerInv'
  BY <1>4, OnExpireTimers
<1>5. ASSUME NEW p \in Threads, Step(p) PROVE TimerInv'
  BY <1>5, VisitTimers, CallTimers DEF Step
<1> QED
  BY <1>1, <1>2, <1>3, <1>4, <1>5, ProcessTimers DEF Next

\* Between operations of a daemon that has booted, each running tunnel has the
\* timer of its row, with any number of tunnels, requests and crashes, as long
\* as operations run one after the other and the CLI writes nothing.
THEOREM TimersMatchRows ==
  ASSUME ~Overlap, Shells = {}
  PROVE  Spec => []TimerMatchesRow
<1>1. Init => SerialInv /\ TimerInv
  BY TimersStart
<1>2. TypeOK /\ TypeOK' /\ SerialInv /\ TimerInv /\ [Next]_vars => SerialInv' /\ TimerInv'
  BY TimersStep
<1>3. TimerInv => TimerMatchesRow
  BY DEF TimerInv, TimerMatchesRow, MatchesNow
<1> QED
  BY <1>1, <1>2, <1>3, TypeCorrect, PTL DEF Spec

-----------------------------------------------------------------------------
(***************************************************************************)
(* What a boot restores, when moreover no driver call fails.  While the    *)
(* daemon boots, the threads plan no call but those of passes and          *)
(* callbacks, and each running tunnel is served, about to be, or about to  *)
(* be marked expired.                                                      *)
(***************************************************************************)
Pushes(c, t) == c.do = "push" /\ c.id = t /\ c.row.endpoint = rows[t].endpoint

\* The plans of a pass or a callback, or what is left of them.
BootPlan(p) ==
  LET plan == threads[p].plan
  IN  \A i \in 1 .. Len(plan) :
        /\ plan[i].do \in {"push", "remove", "save", "cancel", "arm", "forget"}
        /\ plan[i].do = "save" => ~RunningRow(plan[i].row)
        /\ plan[i].do = "remove" =>
             \E j \in i + 1 .. Len(plan) : Saves(plan[j], plan[i].id)

\* A thread will see to t.
Attends(p, t) ==
  \/ \E item \in threads[p].listed : item.id = t
  \/ \E i \in 1 .. Len(threads[p].plan) :
       Saves(threads[p].plan[i], t) \/ Pushes(threads[p].plan[i], t)

Restored(t) ==
  (Running(t) /\ endpoints[rows[t].endpoint] = "enabled")
    => t \in live[rows[t].endpoint] \/ \E p \in Threads : Attends(p, t)

BootInv ==
  /\ wanted = live
  /\ phase = "booting" => /\ \A p \in Threads : BootPlan(p)
                          /\ \A t \in Tunnels : Restored(t)

\* Without failing calls the driver runs what it was given.
LEMMA DriverKeepsUp ==
  ASSUME MaxFaults = 0, TypeOK, wanted = live, [Next]_vars
  PROVE  wanted' = live'
<1> USE DEF driver
<1>1. \A e, proxies : Apply(e, proxies) => wanted' = live'
  BY DEF Apply, TypeOK
<1>2. ASSUME NEW p \in Threads, Step(p) PROVE wanted' = live'
  <2>1. CASE Push(p) \/ PushOrFail(p) \/ Remove(p) \/ StopEndpoint(p)
    BY <1>1, <2>1 DEF Push, PushOrFail, Remove, StopEndpoint
  <2>2. CASE \/ VisitNext(p) \/ Save(p) \/ Delete(p) \/ CancelTimer(p) \/ ArmTimer(p)
             \/ Forget(p) \/ SaveEndpoint(p) \/ DropEndpoint(p)
    BY <2>2 DEF VisitNext, Save, Delete, CancelTimer, ArmTimer, Forget, SaveEndpoint,
       DropEndpoint
  <2> QED
    BY <1>2, <2>1, <2>2 DEF Step
<1>3. ASSUME NEW p, Request(p) \/ Shell(p) PROVE wanted' = live'
  BY <1>3 DEF Request, Shell, Begin, CreateTunnel, UpdateTunnel, StartTunnel, StopTunnel,
     DeleteTunnel, ExtendTunnel, MakePermanent, UpdateEndpoint, DeleteEndpoint,
     ShellAdd, ShellSetStatus, ShellExtend, ShellRemove, ShellEndpoint
<1>4. ASSUME NEW p, BeginReconcile(p) \/ Boot(p) \/ \E t \in Tunnels : OnExpire(p, t)
      PROVE  wanted' = live'
  BY <1>4 DEF BeginReconcile, Boot, OnExpire
<1>5. ASSUME \/ \E t \in Tunnels : TimerElapses(t)
             \/ \E o \in orphans : OrphanElapses(o)
             \/ Tick \/ Crash \/ Booted \/ UNCHANGED vars
      PROVE  wanted' = live'
  BY <1>5 DEF TimerElapses, OrphanElapses, Tick, Crash, Booted, vars
<1> QED
  BY <1>2, <1>3, <1>4, <1>5 DEF Next

\* A call of a pass or a callback: what the plan was to see to, the rest of it
\* does, or the call has done.
LEMMA CallBoots ==
  ASSUME TypeOK, TypeOK', SerialInv, BootInv, phase = "booting", wanted' = live',
         MaxFaults = 0, NEW p \in Threads, threads[p].plan # <<>>,
         \/ Push(p) \/ PushOrFail(p) \/ Remove(p) \/ Save(p) \/ Delete(p)
         \/ CancelTimer(p) \/ ArmTimer(p) \/ Forget(p)
         \/ SaveEndpoint(p) \/ StopEndpoint(p) \/ DropEndpoint(p)
  PROVE  BootInv'
<1> DEFINE s == threads[p].plan
           n == Len(s)
           c == Head(s)
<1>1. /\ BootPlan(p) /\ s \in Seq(Call) /\ n \in Nat /\ n > 0 /\ c = s[1] /\ 1 \in 1 .. n
      /\ \A q \in Threads \ {p} : threads[q] = Idle
  <2>1. threads[p] \in Thread /\ s \in Seq(Call)
    BY DEF TypeOK, Thread
  <2>2. \A q \in Threads \ {p} : threads[q] = Idle
    BY BusyAlone
  <2> QED
    BY <2>1, <2>2 DEF BootInv
<1>2. /\ c.do \in {"push", "remove", "save", "cancel", "arm", "forget"}
      /\ c.do = "save" => ~RunningRow(c.row)
      /\ c.do = "remove" => \E j \in 2 .. n : Saves(s[j], c.id)
  BY <1>1 DEF BootPlan
<1>3. Push(p) \/ Remove(p) \/ Save(p) \/ CancelTimer(p) \/ ArmTimer(p) \/ Forget(p)
  BY <1>2 DEF PushOrFail, Delete, SaveEndpoint, StopEndpoint, DropEndpoint, Called
<1>4. /\ threads' = [threads EXCEPT ![p].plan = Tail(@)]
      /\ phase' = phase /\ endpoints' = endpoints
  BY <1>3 DEF Push, Remove, Save, CancelTimer, ArmTimer, Forget, Called, database
<1>5. /\ threads'[p].plan = Tail(s) /\ threads'[p].listed = threads[p].listed
      /\ \A q \in Threads \ {p} : threads'[q] = threads[q]
      /\ Len(Tail(s)) = n - 1
      /\ \A i \in 1 .. n - 1 : Tail(s)[i] = s[i + 1] /\ i + 1 \in 1 .. n
      /\ \A i \in 2 .. n : i - 1 \in 1 .. n - 1 /\ Tail(s)[i - 1] = s[i]
  BY <1>1, <1>4 DEF TypeOK, Thread
<1>6. BootPlan(p)'
  <2> SUFFICES ASSUME NEW i \in 1 .. n - 1
               PROVE  /\ s[i + 1].do \in {"push", "remove", "save", "cancel", "arm", "forget"}
                      /\ s[i + 1].do = "save" => ~RunningRow(s[i + 1].row)
                      /\ s[i + 1].do = "remove" =>
                           \E j \in i + 1 .. n - 1 : Saves(Tail(s)[j], s[i + 1].id)
    BY <1>5 DEF BootPlan
  <2>1. i + 1 \in 1 .. n
    BY <1>5
  <2>2. ASSUME s[i + 1].do = "remove"
        PROVE  \E j \in i + 1 .. n - 1 : Saves(Tail(s)[j], s[i + 1].id)
    <3>1. PICK k \in (i + 1) + 1 .. n : Saves(s[k], s[i + 1].id)
      BY <1>1, <2>1, <2>2 DEF BootPlan
    <3>2. k - 1 \in i + 1 .. n - 1 /\ Tail(s)[k - 1] = s[k]
      BY <1>1, <1>5, <3>1
    <3> QED
      BY <3>1, <3>2
  <2> QED
    BY <1>1, <2>1, <2>2 DEF BootPlan
<1>7. \A q \in Threads : BootPlan(q)'
  <2>1. \A q \in Threads \ {p} : Len(threads'[q].plan) = 0
    BY <1>1, <1>5 DEF Idle
  <2> QED
    BY <1>6, <2>1 DEF BootPlan
<1>8. ASSUME NEW t \in Tunnels PROVE Restored(t)'
  <2> SUFFICES ASSUME Running(t)', endpoints'[rows'[t].endpoint] = "enabled"
               PROVE  t \in live'[rows'[t].endpoint] \/ Attends(p, t)'
    BY DEF Restored
  <2>1. rows'[t] = rows[t] /\ ~Saves(c, t)
    <3>1. CASE Save(p)
      <4>1. c \in Call /\ c.do = "save" /\ c.id \in Tunnels /\ c.row \in Row
        BY <3>1, CalledType, CallFields DEF Save, TunnelCalls
      <4>2. rows' = [rows EXCEPT ![c.id] = Stored(c.id, c.row)]
        BY <3>1 DEF Save
      <4>3. c.id = t => ~Running(t)'
        BY <1>2, <4>1, <4>2, StoredRow DEF TypeOK, Running, RunningRow
      <4> QED
        BY <4>1, <4>2, <4>3 DEF TypeOK, Saves
    <3>2. CASE ~Save(p)
      BY <1>3, <3>2 DEF Push, Remove, CancelTimer, ArmTimer, Forget, Called, Saves,
         database
    <3> QED
      BY <3>1, <3>2
  <2> DEFINE e == rows[t].endpoint
  <2>2. Running(t) /\ endpoints[e] = "enabled" /\ e \in Endpoints
    BY <1>4, <2>1 DEF Running, TypeOK, Row
  <2>3. t \in live[e] \/ Attends(p, t)
    <3>1. \A q \in Threads \ {p} : ~Attends(q, t)
      BY <1>1 DEF Attends, Idle
    <3> QED
      BY <2>2, <3>1 DEF BootInv, Restored
  <2>4. Attends(p, t) => Attends(p, t)' \/ Pushes(c, t)
    <3>1. ASSUME NEW i \in 1 .. n, Saves(s[i], t) \/ Pushes(s[i], t)
          PROVE  Attends(p, t)' \/ Pushes(c, t)
      <4>1. CASE i = 1
        BY <1>1, <2>1, <3>1, <4>1
      <4>2. CASE i \in 2 .. n
        <5>1. i - 1 \in 1 .. n - 1 /\ Tail(s)[i - 1] = s[i]
          BY <1>5, <4>2
        <5>2. threads'[p].plan[i - 1] = s[i] /\ i - 1 \in 1 .. Len(threads'[p].plan)
          BY <1>5, <5>1
        <5>3. Saves(threads'[p].plan[i - 1], t) \/ Pushes(threads[p].plan[i - 1], t)'
          BY <2>1, <3>1, <5>2 DEF Pushes
        <5> QED
          BY <5>2, <5>3 DEF Attends
      <4> QED
        BY <1>1, <4>1, <4>2
    <3> QED
      BY <1>5, <3>1 DEF Attends
  <2>5. CASE Push(p)
    <3>1. c \in Call /\ c.do = "push" /\ c.id \in Tunnels /\ c.row.endpoint \in Endpoints
      BY <2>5, CalledType, CallFields DEF Push, TunnelCalls, Row
    <3>2. IF endpoints[c.row.endpoint] = "enabled"
          THEN Apply(c.row.endpoint, wanted[c.row.endpoint] \cup {c.id})
          ELSE UNCHANGED driver
      BY <2>5 DEF Push
    <3>3. /\ t \in live[e] => t \in live'[e]
          /\ Pushes(c, t) => t \in live'[e]
      <4>1. wanted = live
        BY DEF BootInv
      <4>2. CASE endpoints[c.row.endpoint] = "enabled"
        <5>1. live' = [live EXCEPT ![c.row.endpoint] = live[c.row.endpoint] \cup {c.id}]
          BY <3>2, <4>1, <4>2 DEF Apply
        <5> QED
          BY <2>2, <3>1, <5>1 DEF Pushes, TypeOK
      <4>3. CASE endpoints[c.row.endpoint] # "enabled"
        BY <2>2, <3>2, <4>3 DEF driver, Pushes
      <4> QED
        BY <4>2, <4>3
    <3> QED
      BY <2>1, <2>3, <2>4, <3>3
  <2>6. CASE Remove(p)
    <3>1. c \in Call /\ c.do = "remove" /\ c.id \in Tunnels /\ c.row.endpoint \in Endpoints
      BY <2>6, CalledType, CallFields DEF Remove, TunnelCalls, Row
    <3>2. c.id = t => Attends(p, t)'
      <4>1. ASSUME c.id = t PROVE Attends(p, t)'
        <5>1. PICK j \in 2 .. n : Saves(s[j], t)
          BY <1>2, <3>1, <4>1
        <5>2. j - 1 \in 1 .. n - 1 /\ Tail(s)[j - 1] = s[j]
          BY <1>5
        <5> QED
          BY <1>5, <5>1, <5>2 DEF Attends
      <4> QED
        BY <4>1
    <3>3. c.id # t => (t \in live[e] => t \in live'[e])
      <4>1. wanted = live
        BY DEF BootInv
      <4>2. \/ UNCHANGED driver
            \/ live' = [live EXCEPT ![c.row.endpoint] = live[c.row.endpoint] \ {c.id}]
        BY <2>6, <4>1 DEF Remove, Apply, driver, TypeOK
      <4>3. live \in [Endpoints -> SUBSET Tunnels]
        BY DEF TypeOK
      <4>4. CASE UNCHANGED driver
        BY <4>4 DEF driver
      <4>5. CASE live' = [live EXCEPT ![c.row.endpoint] = live[c.row.endpoint] \ {c.id}]
        BY <2>2, <3>1, <4>3, <4>5
      <4> QED
        BY <4>2, <4>4, <4>5
    <3> QED
      BY <2>1, <2>3, <2>4, <3>1, <3>2, <3>3 DEF Pushes
  <2>7. CASE Save(p) \/ CancelTimer(p) \/ ArmTimer(p) \/ Forget(p)
    <3>1. live' = live /\ c.do # "push"
      BY <2>7 DEF Save, CancelTimer, ArmTimer, Forget, Called, driver
    <3> QED
      BY <2>1, <2>3, <2>4, <3>1 DEF Pushes
  <2> QED
    BY <1>3, <2>5, <2>6, <2>7
<1> QED
  BY <1>7, <1>8 DEF BootInv

\* A pass turns what it has listed into calls.
LEMMA VisitBoots ==
  ASSUME TypeOK, TypeOK', SerialInv, TimerInv, BootInv, phase = "booting",
         wanted' = live', NEW p \in Threads, VisitNext(p)
  PROVE  BootInv'
<1>1. PICK item \in threads[p].listed :
        threads' = [threads EXCEPT
          ![p] = [plan |-> VisitPlan(item.id, item.row, item.due),
                  listed |-> @.listed \ {item}]]
  BY DEF VisitNext
<1>2. /\ UNCHANGED <<rows, endpoints, live, phase>> /\ threads[p].plan = <<>>
      /\ threads[p] \in Thread /\ threads[p] # Idle
  <2>1. UNCHANGED <<rows, endpoints, live, phase>> /\ threads[p].plan = <<>>
    BY DEF VisitNext, database, driver
  <2>2. threads[p] \in Thread /\ threads[p] # Idle
    BY <1>1 DEF TypeOK, Idle
  <2> QED
    BY <2>1, <2>2
<1>3. /\ \A q \in Threads \ {p} : threads[q] = Idle
      /\ item.id \in Tunnels /\ item.row \in Row /\ item.due \in BOOLEAN
      /\ item.row = rows[item.id]
  BY <1>1, <1>2, BusyAlone DEF TimerInv, ListedNow, Thread, Listed
<1>4. /\ threads'[p].plan = VisitPlan(item.id, item.row, item.due)
      /\ threads'[p].listed = threads[p].listed \ {item}
      /\ \A q \in Threads \ {p} : threads'[q] = Idle
  BY <1>1, <1>3 DEF TypeOK
<1> DEFINE gone == [item.row EXCEPT !.status = "expired"]
           cancel == Do("cancel", item.id, item.row)
           remove == Do("remove", item.id, item.row)
           save == Do("save", item.id, gone)
           push == Do("push", item.id, item.row)
           arm == Do("arm", item.id, item.row)
<1>5. threads'[p].plan \in {<<cancel, remove, save>>, <<push>>, <<push, arm>>}
  <2>1. <<push>> \o <<>> = <<push>> /\ <<push>> \o <<arm>> = <<push, arm>>
    BY Joins, JoinsEmpty
  <2> QED
    BY <1>3, <1>4, <2>1 DEF VisitPlan
<1>6. /\ cancel.do = "cancel" /\ remove.do = "remove" /\ remove.id = item.id
      /\ save.do = "save" /\ save.id = item.id /\ ~RunningRow(save.row)
      /\ push.do = "push" /\ push.id = item.id /\ push.row = item.row /\ arm.do = "arm"
  BY <1>3 DEF Do, RunningRow, Row
<1> HIDE DEF cancel, remove, save, push, arm
<1>7. BootPlan(p)'
  <2>1. CASE threads'[p].plan = <<cancel, remove, save>>
    <3> DEFINE plan == threads'[p].plan
    <3>1. /\ Len(plan) = 3 /\ plan[1] = cancel /\ plan[2] = remove /\ plan[3] = save
          /\ 3 \in 2 + 1 .. Len(plan) /\ \A i \in 1 .. Len(plan) : i \in {1, 2, 3}
      BY <2>1
    <3> HIDE DEF plan
    <3>2. \A i \in 1 .. Len(plan) :
            /\ plan[i].do \in {"push", "remove", "save", "cancel", "arm", "forget"}
            /\ plan[i].do = "save" => ~RunningRow(plan[i].row)
            /\ plan[i].do = "remove" => i = 2
      BY <1>6, <3>1
    <3>3. Saves(plan[3], plan[2].id)
      BY <1>6, <3>1 DEF Saves
    <3> QED
      BY <3>1, <3>2, <3>3 DEF BootPlan, plan
  <2>2. CASE threads'[p].plan \in {<<push>>, <<push, arm>>}
    <3>1. \A i \in 1 .. Len(threads'[p].plan) : threads'[p].plan[i] \in {push, arm}
      BY <2>2
    <3> QED
      BY <1>6, <3>1 DEF BootPlan
  <2> QED
    BY <1>5, <2>1, <2>2
<1>8. \A q \in Threads : BootPlan(q)'
  <2>1. \A q \in Threads \ {p} : Len(threads'[q].plan) = 0
    BY <1>4 DEF Idle
  <2> QED
    BY <1>7, <2>1 DEF BootPlan
<1>9. ASSUME NEW t \in Tunnels, Attends(p, t) PROVE Attends(p, t)'
  <2>1. PICK other \in threads[p].listed : other.id = t
    BY <1>2, <1>9 DEF Attends
  <2>2. CASE other # item
    BY <1>4, <2>1, <2>2 DEF Attends
  <2>3. CASE other = item
    <3>1. \E i \in 1 .. Len(threads'[p].plan) : threads'[p].plan[i] \in {save, push}
      <4>1. CASE threads'[p].plan = <<cancel, remove, save>>
        <5>1. 3 \in 1 .. Len(threads'[p].plan) /\ threads'[p].plan[3] = save
          BY <4>1
        <5> QED
          BY <5>1
      <4>2. CASE threads'[p].plan \in {<<push>>, <<push, arm>>}
        <5>1. CASE threads'[p].plan = <<push>>
          <6>1. 1 \in 1 .. Len(threads'[p].plan) /\ threads'[p].plan[1] = push
            BY <5>1
          <6> QED
            BY <6>1
        <5>2. CASE threads'[p].plan = <<push, arm>>
          <6>1. 1 \in 1 .. Len(threads'[p].plan) /\ threads'[p].plan[1] = push
            BY <5>2
          <6> QED
            BY <6>1
        <5> QED
          BY <4>2, <5>1, <5>2
      <4> QED
        BY <1>5, <4>1, <4>2
    <3>2. PICK i \in 1 .. Len(threads'[p].plan) : threads'[p].plan[i] \in {save, push}
      BY <3>1
    <3>3. Saves(threads'[p].plan[i], t) \/ Pushes(threads[p].plan[i], t)'
      BY <1>2, <1>3, <1>6, <2>1, <2>3, <3>2 DEF Saves, Pushes
    <3> QED
      BY <3>2, <3>3 DEF Attends
  <2> QED
    BY <2>2, <2>3
<1>10. ASSUME NEW t \in Tunnels PROVE Restored(t)'
  <2>1. \A q \in Threads \ {p} : ~Attends(q, t)
    BY <1>3 DEF Attends, Idle
  <2>2. Restored(t)
    BY DEF BootInv
  <2> QED
    BY <1>2, <1>9, <2>1, <2>2 DEF Restored, Running
<1> QED
  BY <1>8, <1>10 DEF BootInv

\* A pass of the boot lists every running tunnel.
LEMMA BootBegins ==
  ASSUME ~Overlap, TypeOK, wanted' = live', NEW p \in Threads, Boot(p)
  PROVE  BootInv'
<1>1. /\ UNCHANGED rows /\ threads' = [threads EXCEPT ![p].listed = Snapshot]
      /\ \A q \in Threads : threads[q] = Idle
  BY DEF Boot, database, Free, Quiet
<1>2. /\ \A q \in Threads : threads'[q].plan = <<>>
      /\ threads'[p].listed = Snapshot
  BY <1>1 DEF TypeOK, Thread, Idle
<1>3. \A q \in Threads : BootPlan(q)'
  BY <1>2 DEF BootPlan
<1>4. ASSUME NEW t \in Tunnels, Running(t)' PROVE Attends(p, t)'
  <2> DEFINE item == [id |-> t, row |-> rows[t], due |-> Overdue(rows[t])]
  <2>1. item \in Snapshot /\ item.id = t
    BY <1>1, <1>4 DEF Snapshot, Running
  <2> HIDE DEF item
  <2> QED
    BY <1>2, <2>1 DEF Attends
<1> QED
  BY <1>3, <1>4 DEF BootInv, Restored

\* A callback may begin when the pass of the boot has ended, before the daemon
\* serves.
LEMMA OnExpireBoots ==
  ASSUME ~Overlap, TypeOK, BootInv, phase = "booting", wanted' = live',
         NEW p \in Threads, NEW t \in Tunnels, OnExpire(p, t)
  PROVE  BootInv'
<1>1. /\ UNCHANGED <<rows, endpoints, live, phase>>
      /\ threads' = [threads EXCEPT ![p].plan = ExpirePlan(t, rows[t])]
      /\ \A q \in Threads : threads[q] = Idle
      /\ rows[t] \in Row
  BY DEF OnExpire, database, driver, Free, Quiet, TypeOK
<1>2. /\ threads'[p].plan = ExpirePlan(t, rows[t])
      /\ \A q \in Threads \ {p} : threads'[q] = Idle
  BY <1>1 DEF TypeOK, Thread, Idle
<1> DEFINE gone == [rows[t] EXCEPT !.status = "expired"]
           remove == Do("remove", t, rows[t])
           save == Do("save", t, gone)
           forget == Do("forget", t, rows[t])
           plan == <<remove, save, forget>>
<1>3. BootPlan(p)'
  <2>1. CASE RunningRow(rows[t])
    <3>1. threads'[p].plan = plan
      BY <1>2, <2>1 DEF ExpirePlan
    <3>2. /\ remove.do = "remove" /\ remove.id = t
          /\ save.do = "save" /\ save.id = t /\ ~RunningRow(save.row) /\ forget.do = "forget"
      BY <1>1 DEF Do, RunningRow, Row
    <3> HIDE DEF remove, save, forget
    <3>3. /\ Len(plan) = 3 /\ plan[1] = remove /\ plan[2] = save /\ plan[3] = forget
          /\ 2 \in 1 + 1 .. Len(plan) /\ \A i \in 1 .. Len(plan) : i \in {1, 2, 3}
      OBVIOUS
    <3> HIDE DEF plan
    <3>4. \A i \in 1 .. Len(plan) :
            /\ plan[i].do \in {"push", "remove", "save", "cancel", "arm", "forget"}
            /\ plan[i].do = "save" => ~RunningRow(plan[i].row)
            /\ plan[i].do = "remove" => i = 1
      BY <3>2, <3>3
    <3>5. Saves(plan[2], plan[1].id)
      BY <3>2, <3>3 DEF Saves
    <3> QED
      BY <3>1, <3>3, <3>4, <3>5 DEF BootPlan
  <2>2. CASE ~RunningRow(rows[t])
    <3>1. Len(threads'[p].plan) = 0
      BY <1>2, <2>2 DEF ExpirePlan
    <3> QED
      BY <3>1 DEF BootPlan
  <2> QED
    BY <2>1, <2>2
<1>4. \A q \in Threads : BootPlan(q)'
  <2>1. \A q \in Threads \ {p} : Len(threads'[q].plan) = 0
    BY <1>2 DEF Idle
  <2> QED
    BY <1>3, <2>1 DEF BootPlan
<1>5. \A u \in Tunnels : Restored(u)'
  <2>1. \A u \in Tunnels, q \in Threads : ~Attends(q, u)
    BY <1>1 DEF Attends, Idle
  <2> QED
    BY <1>1, <2>1 DEF BootInv, Restored, Running
<1> QED
  BY <1>4, <1>5 DEF BootInv

\* When the pass of the boot is over, every running tunnel of an enabled
\* endpoint is served, whatever a crash has interrupted, as long as operations
\* run one after the other, only the daemon writes, and no driver call fails.
THEOREM BootRestores ==
  ASSUME ~Overlap, Shells = {}, MaxFaults = 0
  PROVE  Spec => []BootRestoresService
<1>1. Init => SerialInv /\ TimerInv /\ BootInv
  BY TimersStart DEF Init, BootInv
<1>2. ASSUME TypeOK, TypeOK', SerialInv, TimerInv, BootInv, [Next]_vars
      PROVE  SerialInv' /\ TimerInv' /\ BootInv'
  <2>1. SerialInv' /\ TimerInv'
    BY <1>2, StepSerial, TimersStep
  <2>2. wanted' = live'
    BY <1>2, DriverKeepsUp DEF BootInv
  <2>3. phase' # "booting" => BootInv'
    BY <2>2 DEF BootInv
  <2> SUFFICES ASSUME phase' = "booting" PROVE BootInv'
    BY <2>1, <2>3
  <2> USE DEF Threads, Daemon
  <2>4. ASSUME NEW p \in Handlers, Request(p) PROVE BootInv'
    <3>1. phase' = "up"
      BY <2>4 DEF Request, Begin, Serving, CreateTunnel, UpdateTunnel, StartTunnel,
         StopTunnel, DeleteTunnel, ExtendTunnel, MakePermanent, UpdateEndpoint,
         DeleteEndpoint
    <3> QED
      BY <3>1
  <2>5. ASSUME NEW p \in Loops, BeginReconcile(p) \/ Boot(p) PROVE BootInv'
    <3>1. BeginReconcile(p) => phase' = "up"
      BY DEF BeginReconcile, Serving
    <3> QED
      BY <1>2, <2>2, <2>5, <3>1, BootBegins
  <2>6. ASSUME NEW p \in Callbacks, NEW t \in Tunnels, OnExpire(p, t) PROVE BootInv'
    <3>1. phase = "booting"
      BY <2>6 DEF OnExpire
    <3> QED
      BY <1>2, <2>2, <2>6, <3>1, OnExpireBoots
  <2>7. ASSUME NEW p \in Threads, Step(p) PROVE BootInv'
    <3>1. phase = "booting"
      BY <2>7 DEF Step, VisitNext, Push, PushOrFail, Remove, Save, Delete, CancelTimer,
         ArmTimer, Forget, SaveEndpoint, StopEndpoint, DropEndpoint, Called
    <3>2. ~VisitNext(p) => threads[p].plan # <<>>
      BY <2>7 DEF Step, Push, PushOrFail, Remove, Save, Delete, CancelTimer,
         ArmTimer, Forget, SaveEndpoint, StopEndpoint, DropEndpoint, Called
    <3> QED
      BY <1>2, <2>2, <2>7, <3>1, <3>2, VisitBoots, CallBoots DEF Step
  <2>8. ASSUME \/ \E t \in Tunnels : TimerElapses(t)
               \/ \E o \in orphans : OrphanElapses(o)
               \/ Tick \/ Crash \/ Booted \/ UNCHANGED vars
        PROVE  BootInv'
    <3>1. /\ UNCHANGED <<rows, endpoints, live, threads>> /\ phase = "booting"
      BY <2>8 DEF TimerElapses, OrphanElapses, Tick, Crash, Booted, vars, database, driver
    <3>2. \A p \in Threads : BootPlan(p)'
      BY <1>2, <3>1 DEF BootInv, BootPlan
    <3>3. \A p \in Threads, t \in Tunnels : Attends(p, t) <=> Attends(p, t)'
      BY <3>1 DEF Attends, Pushes
    <3>4. \A t \in Tunnels : Restored(t)'
      BY <1>2, <3>1, <3>3 DEF BootInv, Restored, Running
    <3> QED
      BY <2>2, <3>2, <3>4 DEF BootInv
  <2> QED
    BY <1>2, <2>4, <2>5, <2>6, <2>7, <2>8 DEF Next
<1>3. BootInv => BootRestoresService
  <2> SUFFICES ASSUME BootInv, Quiet, phase = "booting" PROVE BootRestoresService
    BY DEF BootRestoresService
  <2>1. \A p \in Threads, t \in Tunnels : ~Attends(p, t)
    BY DEF Quiet, Attends, Idle
  <2> QED
    BY <2>1 DEF BootInv, Restored, BootRestoresService
<1> QED
  BY <1>1, <1>2, <1>3, TypeCorrect, PTL DEF Spec

=============================================================================
