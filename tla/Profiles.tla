------------------------------ MODULE Profiles ------------------------------
(***************************************************************************)
(* Profiles: named sets of bindings, one of which may be active.  To       *)
(* activate one enables the endpoints and tunnels it binds and disables    *)
(* all others.  Each method of the store is one transaction; the handlers  *)
(* and the CLI make one or two of them, on a row they have read before,    *)
(* and ask for a reconcile pass afterwards.  A transaction that fails      *)
(* changes nothing; it is an action where another went before it.          *)
(*                                                                         *)
(* Every tunnel is taken to be running, so that a reconcile pass pushes    *)
(* all of them; TunnelLifecycle has the pass in detail.                    *)
(***************************************************************************)
EXTENDS Naturals, FiniteSets

CONSTANTS
  Profiles, Endpoints, Tunnels,
  Home,         \* the endpoint of each tunnel
  Bindings,     \* the sets of bindings that clients ask for
  Clients,      \* goroutines that serve HTTP requests
  Shells,       \* frpdeck CLI processes
  Requests,     \* the kinds of request that clients issue
  MaxCrashes    \* bound: crashes of the daemon

\* A binding with tunnel 0 stands for every tunnel of the endpoint, one with
\* endpoint 0 for the tunnel alone; validate refuses two zeros.
Binding == [endpoint : Endpoints \cup {0}, tunnel : Tunnels \cup {0}]
                \ {[endpoint |-> 0, tunnel |-> 0]}

ASSUME IdsAssumption == 0 \notin Endpoints \cup Tunnels
ASSUME HomeAssumption == Home \in [Tunnels -> Endpoints]
ASSUME BindingsAssumption == Bindings \subseteq SUBSET Binding
ASSUME BoundAssumption == MaxCrashes \in Nat

VARIABLES
  rows,              \* the profiles table, with each profile's bindings
  enabledEndpoints,  \* endpoints whose enabled column is set
  enabledTunnels,    \* tunnels whose enabled column is set
  threads,           \* what each request or command has left to do
  reconciles,        \* whether a reconcile pass has been asked for
  live,              \* the proxies the driver runs
  unapplied,         \* history: profiles that were saved active and left at that
  crashes

flags == <<enabledEndpoints, enabledTunnels>>
vars == <<rows, flags, threads, reconciles, live, unapplied, crashes>>

Threads == Clients \cup Shells

\* The database gives each row a fresh id: one that was deleted is not created
\* again, but it may be saved again.
Row == [state : {"unused", "stored", "deleted"}, active : BOOLEAN, bindings : SUBSET Binding]
NoRow(state) == [state |-> state, active |-> FALSE, bindings |-> {}]
Exists(p) == rows[p].state = "stored"

\* What is left: to save a row, or to activate a profile.
Idle == [do |-> "nothing"]
Work == {Idle}
          \cup [do : {"save"}, id : Profiles, active : BOOLEAN, bindings : SUBSET Binding]
          \cup [do : {"activate"}, id : Profiles]

Quiet == \A c \in Threads : threads[c] = Idle

Init ==
  /\ rows = [p \in Profiles |-> NoRow("unused")]
  /\ enabledEndpoints = Endpoints
  /\ enabledTunnels = Tunnels
  /\ threads = [c \in Threads |-> Idle]
  /\ reconciles = FALSE
  /\ live = Tunnels
  /\ unapplied = {}
  /\ crashes = 0

-----------------------------------------------------------------------------
(***************************************************************************)
(* The transactions of the store.                                          *)
(***************************************************************************)
\* CreateProfile and UpdateProfile: an active row displaces the other.  The
\* mistake is to trust ActivateProfile to do that later.
Saved_Wrong(p, active, bindings) ==
  [rows EXCEPT ![p] = [state |-> "stored", active |-> active, bindings |-> bindings]]

Saved(p, active, bindings) ==
  [q \in Profiles |->
     IF q = p THEN [state |-> "stored", active |-> active, bindings |-> bindings]
     ELSE IF active THEN [rows[q] EXCEPT !.active = FALSE] ELSE rows[q]]

Activated(p) ==
  [q \in Profiles |-> [rows[q] EXCEPT !.active = (q = p)]]

\* The allow-sets of ActivateProfile.  An endpoint 0 is none.
EndpointAllow(p) == {b.endpoint : b \in rows[p].bindings} \ {0}
EndpointWildcard(p) == {b.endpoint : b \in {x \in rows[p].bindings : x.tunnel = 0}}
TunnelAllow(p) == {b.tunnel : b \in rows[p].bindings} \ {0}

\* Whether a reconcile pass is due after an activation.  The mistake is to leave
\* it to the next one.
AfterActivation_Wrong == reconciles
AfterActivation == TRUE

\* ActivateProfile rolls back, and its caller gives up, if the row is gone.
Activate(c, p) ==
  /\ threads' = [threads EXCEPT ![c] = Idle]
  /\ IF Exists(p)
     THEN /\ rows' = Activated(p)
          /\ enabledEndpoints' = EndpointAllow(p)
          /\ enabledTunnels' = {t \in Tunnels : \/ Home[t] \in EndpointWildcard(p)
                                               \/ t \in TunnelAllow(p)}
          /\ reconciles' = AfterActivation
          /\ unapplied' = unapplied \ {p}
     ELSE UNCHANGED <<rows, flags, reconciles, unapplied>>
  /\ UNCHANGED <<live, crashes>>

-----------------------------------------------------------------------------
(***************************************************************************)
(* Requests and commands.                                                  *)
(***************************************************************************)
Accepts(c, request) == request \in Requests /\ threads[c] = Idle

\* A handler that saved an active profile goes on to activate it; a CLI
\* process leaves it at that.
AfterSave_Wrong(c, p, active) == Idle

AfterSave(c, p, active) ==
  IF c \in Clients /\ active THEN [do |-> "activate", id |-> p] ELSE Idle

\* Through the CLI a profile is created inactive.
CreateProfile(c, p) ==
  \E active \in BOOLEAN, bindings \in Bindings :
    /\ Accepts(c, "create")
    /\ c \in Shells => ~active
    /\ rows[p].state = "unused"
    /\ rows' = Saved(p, active, bindings)
    /\ threads' = [threads EXCEPT ![c] = AfterSave(c, p, active)]
    /\ UNCHANGED <<flags, reconciles, live, unapplied, crashes>>

\* The row is read.  A request says whether it is to be active; the CLI
\* keeps the flag that it has read.
ReadProfile(c, p) ==
  \E active \in BOOLEAN, bindings \in Bindings :
    /\ Accepts(c, "update")
    /\ Exists(p)
    /\ c \in Shells => active = rows[p].active
    /\ threads' = [threads EXCEPT ![c] =
         [do |-> "save", id |-> p, active |-> active, bindings |-> bindings]]
    /\ UNCHANGED <<rows, flags, reconciles, live, unapplied, crashes>>

\* UpdateProfile: Save inserts the row again if it was deleted meanwhile.
SaveProfile(c) ==
  LET w == threads[c]
  IN  /\ w.do = "save"
      /\ rows' = Saved(w.id, w.active, w.bindings)
      /\ threads' = [threads EXCEPT ![c] = AfterSave(c, w.id, w.active)]
      /\ unapplied' = IF c \in Shells /\ w.active THEN unapplied \cup {w.id} ELSE unapplied
      /\ UNCHANGED <<flags, reconciles, live, crashes>>

ActivateSaved(c) ==
  /\ threads[c].do = "activate"
  /\ Activate(c, threads[c].id)

\* The second transaction fails and is rolled back, when the row is saved
\* already: the request answers with an error, and no pass is asked for.
ActivateSavedFails(c) ==
  /\ threads[c].do = "activate"
  /\ threads' = [threads EXCEPT ![c] = Idle]
  /\ unapplied' = unapplied \cup {threads[c].id}
  /\ UNCHANGED <<rows, flags, reconciles, live, crashes>>

ActivateProfile(c, p) ==
  /\ Accepts(c, "activate")
  /\ Exists(p)
  /\ Activate(c, p)

DeactivateAllProfiles(c) ==
  /\ Accepts(c, "deactivate")
  /\ rows' = [p \in Profiles |-> [rows[p] EXCEPT !.active = FALSE]]
  /\ UNCHANGED <<flags, threads, reconciles, live, unapplied, crashes>>

\* The mistake is not to look whether the profile is active.
Deletable_Wrong(p) == Exists(p)

Deletable(p) == Exists(p) /\ ~rows[p].active

DeleteProfile(c, p) ==
  /\ Accepts(c, "delete")
  /\ Deletable(p)
  /\ rows' = [rows EXCEPT ![p] = NoRow("deleted")]
  /\ UNCHANGED <<flags, threads, reconciles, live, unapplied, crashes>>

\* A pass pushes the running tunnels whose endpoint is enabled, and removes
\* none: see TunnelLifecycle.
Reconcile ==
  /\ reconciles
  /\ reconciles' = FALSE
  /\ live' = live \cup {t \in Tunnels : Home[t] \in enabledEndpoints}
  /\ UNCHANGED <<rows, flags, threads, unapplied, crashes>>

\* After the restart the boot reconciles.
Crash ==
  /\ crashes < MaxCrashes
  /\ crashes' = crashes + 1
  /\ threads' = [c \in Threads |-> IF c \in Clients THEN Idle ELSE threads[c]]
  /\ unapplied' = unapplied \cup {p \in Profiles : \E c \in Clients :
                                     threads[c] = [do |-> "activate", id |-> p]}
  /\ reconciles' = TRUE
  /\ live' = {}
  /\ UNCHANGED <<rows, flags>>

Next ==
  \/ \E c \in Threads :
       \/ \E p \in Profiles : \/ CreateProfile(c, p) \/ ReadProfile(c, p)
                              \/ ActivateProfile(c, p) \/ DeleteProfile(c, p)
       \/ SaveProfile(c) \/ ActivateSaved(c) \/ ActivateSavedFails(c)
       \/ DeactivateAllProfiles(c)
  \/ Reconcile
  \/ Crash

Spec == Init /\ [][Next]_vars

-----------------------------------------------------------------------------
(***************************************************************************)
(* Properties.                                                             *)
(***************************************************************************)
\* The variables keep their shape: what ActivateProfile enables exists, and a
\* thread has at most one transaction left to make.
TypeOK ==
  /\ rows \in [Profiles -> Row]
  /\ enabledEndpoints \subseteq Endpoints
  /\ enabledTunnels \subseteq Tunnels
  /\ threads \in [Threads -> Work]
  /\ reconciles \in BOOLEAN
  /\ live \subseteq Tunnels
  /\ unapplied \subseteq Profiles
  /\ crashes \in 0 .. MaxCrashes

\* However requests, commands with a stale copy of a row, and crashes
\* interleave, at most one profile is active.
SingleActive ==
  \A p, q \in Profiles : rows[p].active /\ rows[q].active => p = q

Binds(p, t) ==
  \E b \in rows[p].bindings : b.tunnel = t \/ (b.tunnel = 0 /\ b.endpoint = Home[t])

\* Between requests and commands the flags are those of the active profile,
\* unless a crash, a failed activation or a CLI process has left it saved and
\* unapplied: an update that races an activation, a deletion or another update
\* leaves no profile active whose bindings are not in force.
ActiveIsApplied ==
  Quiet => \A p \in Profiles : (rows[p].active /\ p \notin unapplied) =>
    /\ \A t \in Tunnels : t \in enabledTunnels <=> Binds(p, t)
    /\ \A e \in Endpoints : e \in enabledEndpoints
                              <=> \E b \in rows[p].bindings : b.endpoint = e

\* Through activations and restarts, once the reconcile pass that is due has been
\* made the tunnels of every enabled endpoint are served.
EnabledIsServed ==
  ~reconciles => \A t \in Tunnels : Home[t] \in enabledEndpoints => t \in live

\* A profile that is active keeps its row: to delete it takes deactivating it.
ActiveSurvives ==
  [][\A p \in Profiles : rows[p].active => Exists(p)']_vars
=============================================================================
