--------------------------- MODULE EmbeddedDriver ---------------------------
(***************************************************************************)
(* frpcd.Embedded, the in-process driver, for one endpoint (endpoints share*)
(* nothing but the map of runners).  Each method of the driver is a series *)
(* of critical sections: the map under e.mu, the runner under r.mu, and    *)
(* between them nothing is held: the frp service itself is started,        *)
(* reconfigured and closed outside of any lock.                            *)
(***************************************************************************)
EXTENDS Naturals, FiniteSets

CONSTANTS
  Tunnels,
  Callers,     \* goroutines that call the driver for this endpoint
  Refreshers,  \* the callers that are the reconcile loop
  Desired,     \* tunnels whose rows keep running: the loop pushes them forever
  Runners,     \* ids of endpointRunner objects
  Requests,    \* the methods called: "add", "remove", "start", "stop"
  MaxFaults    \* bound: services that cannot be built

ASSUME RefreshersAssumption == Refreshers \subseteq Callers /\ Desired \subseteq Tunnels
ASSUME BoundAssumption == MaxFaults \in Nat
ASSUME RunnersAssumption == "none" \notin Runners

VARIABLES
  registered,  \* e.runners[ep.ID], or NoRunner
  runners,     \* the runners
  calls,       \* the call each caller is in
  faults,
  overlapped,  \* history: a call has met another one that was under way
  overtaken    \* history: runners that a Stop closed before their start had launched

vars == <<registered, runners, calls, faults, overlapped, overtaken>>

NoRunner == "none"

\* proxies is r.proxies; config is what the frp service was last given.
Runner == [service : {"none", "running", "closed"},
           proxies : SUBSET Tunnels, config : SUBSET Tunnels]
NewRunner == [service |-> "none", proxies |-> {}, config |-> {}]

PC == {"idle", "find", "register", "launch", "find again",
       "change", "copy", "update", "close"}

Call == [pc : PC, op : {"add", "remove", "start", "stop"}, tunnels : SUBSET Tunnels,
         runner : Runners \cup {NoRunner}, copy : SUBSET Tunnels]
NoCall == [pc |-> "idle", op |-> "start", tunnels |-> {}, runner |-> NoRunner,
           copy |-> {}]

Init ==
  /\ registered = NoRunner
  /\ runners = [r \in Runners |-> NewRunner]
  /\ calls = [c \in Callers |-> NoCall]
  /\ faults = 0
  /\ overlapped = FALSE
  /\ overtaken = {}

Quiet == \A c \in Callers : calls[c] = NoCall

Goto(c, pc) == calls' = [calls EXCEPT ![c].pc = pc]
GotoWith(c, pc, r) == calls' = [calls EXCEPT ![c].pc = pc, ![c].runner = r]
Return(c) == calls' = [calls EXCEPT ![c] = NoCall]

-----------------------------------------------------------------------------
BeginCall(c, op, t) ==
  /\ op \in Requests
  /\ c \in Refreshers => op = "add" /\ t \in Desired
  /\ op = "remove" => t \notin Desired
  /\ calls[c] = NoCall
  /\ calls' = [calls EXCEPT ![c] =
       [NoCall EXCEPT !.op = op, !.tunnels = IF op \in {"add", "remove"} THEN {t} ELSE {},
                      !.pc = IF op = "start" THEN "register" ELSE "find"]]
  /\ overlapped' = (overlapped \/ ~Quiet)
  /\ UNCHANGED <<registered, runners, faults, overtaken>>

\* The lookup under the read lock, by ensureRunner or by RemoveTunnel.
Find(c) ==
  /\ calls[c].pc = "find"
  /\ calls[c].op \in {"add", "remove"}
  /\ IF registered # NoRunner
     THEN GotoWith(c, "change", registered)
     ELSE IF calls[c].op = "add" THEN Goto(c, "register") ELSE Return(c)
  /\ UNCHANGED <<registered, runners, faults, overlapped, overtaken>>

\* Stop takes the runner out of the map and closes it afterwards.
Unregister(c) ==
  /\ calls[c].pc = "find"
  /\ calls[c].op = "stop"
  /\ registered' = NoRunner
  /\ IF registered # NoRunner THEN GotoWith(c, "close", registered) ELSE Return(c)
  /\ UNCHANGED <<runners, faults, overlapped, overtaken>>

\* What Start has left to do when a runner is there: AddTunnel looks again.
AfterStart(c) == IF calls[c].op = "add" THEN Goto(c, "find again") ELSE Return(c)

\* A runner object that nobody refers to any more.
Fresh(r) ==
  /\ r # registered
  /\ runners[r].service # "running"
  /\ \A c \in Callers : calls[c].runner # r

\* Registers a runner without looking for one.
Register_Wrong(c) ==
  /\ calls[c].pc = "register"
  /\ \E r \in Runners :
       /\ Fresh(r)
       /\ registered' = r
       /\ runners' = [runners EXCEPT ![r] = NewRunner]
       /\ overtaken' = overtaken \ {r}
       /\ GotoWith(c, "launch", r)
  /\ UNCHANGED <<faults, overlapped>>

\* The critical section of Start: a runner is made unless one is there.
Register(c) ==
  /\ calls[c].pc = "register"
  /\ \/ /\ registered # NoRunner
        /\ AfterStart(c)
        /\ UNCHANGED <<registered, runners, overtaken>>
     \/ \E r \in Runners :
          /\ registered = NoRunner
          /\ Fresh(r)
          /\ registered' = r
          /\ runners' = [runners EXCEPT ![r] = NewRunner]
          /\ overtaken' = overtaken \ {r}
          /\ GotoWith(c, "launch", r)
  /\ UNCHANGED <<faults, overlapped>>

\* endpointRunner.start, outside of e.mu: a service with an empty config.
\* When it cannot be built the runner stays in the map without one.
Launch(c) ==
  LET r == calls[c].runner
  IN  /\ calls[c].pc = "launch"
      /\ \/ /\ runners' = [runners EXCEPT ![r].service = "running", ![r].config = {}]
            /\ AfterStart(c)
            /\ UNCHANGED faults
         \/ /\ faults < MaxFaults
            /\ faults' = faults + 1
            /\ Return(c)
            /\ UNCHANGED runners
      /\ UNCHANGED <<registered, overlapped, overtaken>>

FindAgain(c) ==
  /\ calls[c].pc = "find again"
  /\ IF registered # NoRunner THEN GotoWith(c, "change", registered) ELSE Return(c)
  /\ UNCHANGED <<registered, runners, faults, overlapped, overtaken>>


\* The first critical section of addTunnel and removeTunnel.
Change(c) ==
  LET r == calls[c].runner
  IN  /\ calls[c].pc = "change"
      /\ runners' = [runners EXCEPT ![r].proxies =
           IF calls[c].op = "add" THEN @ \cup calls[c].tunnels ELSE @ \ calls[c].tunnels]
      /\ Goto(c, "copy")
      /\ UNCHANGED <<registered, faults, overlapped, overtaken>>

\* Leaves a tunnel out that was already there.
Copied_Wrong(c) == runners[calls[c].runner].proxies \ runners[calls[c].runner].config
Copied(c) == runners[calls[c].runner].proxies

\* apply copies the proxies under r.mu, and fails if there is no service.
Copy(c) ==
  /\ calls[c].pc = "copy"
  /\ IF runners[calls[c].runner].service = "none"
     THEN Return(c)
     ELSE calls' = [calls EXCEPT ![c].pc = "update", ![c].copy = Copied(c)]
  /\ UNCHANGED <<registered, runners, faults, overlapped, overtaken>>

\* svc.UpdateConfigSource, outside of r.mu.  A closed service runs nothing.
Update(c) ==
  LET r == calls[c].runner
  IN  /\ calls[c].pc = "update"
      /\ runners' = [runners EXCEPT ![r].config =
           IF runners[r].service = "running" THEN calls[c].copy ELSE @]
      /\ Return(c)
      /\ UNCHANGED <<registered, faults, overlapped, overtaken>>

Launching(r) == \E c \in Callers : calls[c].pc = "launch" /\ calls[c].runner = r

\* endpointRunner.stop closes the service it finds; a start that is still to
\* launch one is not told.
Close(c) ==
  LET r == calls[c].runner
  IN  /\ calls[c].pc = "close"
      /\ runners' = [runners EXCEPT ![r] =
           IF @.service = "running"
           THEN [@ EXCEPT !.service = "closed", !.config = {}] ELSE @]
      /\ overtaken' = IF Launching(r) THEN overtaken \cup {r} ELSE overtaken
      /\ Return(c)
      /\ UNCHANGED <<registered, faults, overlapped>>

Proceed(c) ==
  \/ Find(c) \/ Unregister(c) \/ Register(c) \/ Launch(c) \/ FindAgain(c)
  \/ Change(c) \/ Copy(c) \/ Update(c) \/ Close(c)

Next ==
  \E c \in Callers :
    \/ \E op \in {"add", "remove", "start", "stop"}, t \in Tunnels : BeginCall(c, op, t)
    \/ Proceed(c)

Spec == Init /\ [][Next]_vars

(***************************************************************************)
(* The reconcile loop keeps pushing the tunnels that are meant to run, and *)
(* a call that has begun proceeds: no method waits for another for long.   *)
(***************************************************************************)
Fairness ==
  /\ \A c \in Callers : WF_vars(Proceed(c))
  /\ \A c \in Refreshers, t \in Desired : SF_vars(BeginCall(c, "add", t))

FairSpec == Spec /\ Fairness

-----------------------------------------------------------------------------
(***************************************************************************)
(* Properties.                                                             *)
(***************************************************************************)
\* The variables keep their shape, and no call works on a runner it has not
\* got.
TypeOK ==
  /\ registered \in Runners \cup {NoRunner}
  /\ runners \in [Runners -> Runner]
  /\ calls \in [Callers -> Call]
  /\ \A c \in Callers :
       calls[c].pc \in {"launch", "change", "copy", "update", "close"}
         => calls[c].runner # NoRunner
  /\ faults \in 0 .. MaxFaults
  /\ overlapped \in BOOLEAN
  /\ overtaken \subseteq Runners

Running == {r \in Runners : runners[r].service = "running"}

Closing(r) == \E c \in Callers : calls[c].pc = "close" /\ calls[c].runner = r

\* The endpoint's frp service stays in the driver's hand: however many callers
\* start, add, remove and stop at once, a service that runs is the one that the
\* map leads to, so that the next Stop or AddTunnel reaches it, or a Stop is about
\* to close it, unless one came before the start had launched it.
ServiceInHand ==
  TypeOK /\ \A r \in Running : r = registered \/ Closing(r) \/ r \in overtaken

\* As long as calls have been made one after the other, the service runs
\* exactly the proxies of its runner between them.
ServesItsProxies ==
  Quiet /\ ~overlapped => \A r \in Running : runners[r].config = runners[r].proxies

\* Callers and frp see one set of proxies wanted and one set served.
Wanted == IF registered = NoRunner THEN {} ELSE runners[registered].proxies
Served == UNION {runners[r].config : r \in Running}

Contract == INSTANCE DriverContract WITH wanted <- Wanted, live <- Served

\* The driver, for as long as it is called by one goroutine at a time, is the
\* driver that TunnelLifecycle assumes.
ImplementsContract ==
  /\ Contract!ContractInit
  /\ [][overlapped' \/ Contract!Ask \/ Contract!Serve]_<<Wanted, Served>>

Missing(t) ==
  /\ registered \in Running
  /\ t \in runners[registered].proxies \ runners[registered].config

=============================================================================
