---------------------------- MODULE SetupProofs ----------------------------
(***************************************************************************)
(* Proofs about what sets tunnels up: the profiles that turn them on and   *)
(* off (Profiles), for any number of profiles, clients and crashes, and    *)
(* then the imports that make them (ImportPipeline), for any files, names, *)
(* fields, browsers, command lines and faults.  The two share no state.    *)
(***************************************************************************)
EXTENDS Profiles, ImportPipeline, FiniteSetTheorems, WellFoundedInduction, TLAPS

\* The transactions of the store keep the shape of the table.
LEMMA SavedTyped ==
  ASSUME TypeOK, NEW p \in Profiles, NEW active \in BOOLEAN,
         NEW bindings \in SUBSET Binding
  PROVE  Saved(p, active, bindings) \in [Profiles -> Row]
BY DEF TypeOK, Saved, Row

LEMMA ActivatedTyped ==
  ASSUME TypeOK, NEW p \in Profiles
  PROVE  Activated(p) \in [Profiles -> Row]
BY DEF TypeOK, Activated, Row

\* What ActivateProfile enables exists.
LEMMA AllowedExists ==
  ASSUME TypeOK, NEW p \in Profiles
  PROVE  EndpointAllow(p) \subseteq Endpoints
BY DEF TypeOK, EndpointAllow, Row, Binding

LEMMA ActivateTyped ==
  ASSUME TypeOK, NEW c \in Threads, NEW p \in Profiles, Activate(c, p)
  PROVE  TypeOK'
<1>1. rows' \in [Profiles -> Row]
  BY ActivatedTyped DEF Activate, TypeOK
<1>2. enabledEndpoints' \subseteq Endpoints
  BY AllowedExists DEF Activate, TypeOK, flags
<1>3. enabledTunnels' \subseteq Tunnels
  BY DEF Activate, TypeOK, flags
<1>4. threads' \in [Threads -> Work]
  BY DEF Activate, TypeOK, Work
<1>5. reconciles' \in BOOLEAN /\ live' \subseteq Tunnels /\ crashes' \in 0 .. MaxCrashes
  BY DEF Activate, AfterActivation, TypeOK
<1>6. unapplied' \subseteq Profiles
  BY DEF Activate, TypeOK
<1>7. QED
  BY <1>1, <1>2, <1>3, <1>4, <1>5, <1>6 DEF TypeOK

LEMMA AfterSaveTyped ==
  ASSUME NEW c \in Threads, NEW p \in Profiles, NEW active \in BOOLEAN
  PROVE  AfterSave(c, p, active) \in Work
BY DEF AfterSave, Work

LEMMA TypeStep ==
  ASSUME TypeOK, [Next]_vars
  PROVE  TypeOK'
<1>1. ASSUME NEW c \in Threads, NEW p \in Profiles, CreateProfile(c, p)
      PROVE  TypeOK'
  <2>1. PICK active \in BOOLEAN, bindings \in Bindings :
          /\ rows' = Saved(p, active, bindings)
          /\ threads' = [threads EXCEPT ![c] = AfterSave(c, p, active)]
          /\ UNCHANGED <<flags, reconciles, live, unapplied, crashes>>
    BY <1>1 DEF CreateProfile
  <2>2. rows' \in [Profiles -> Row]
    BY <2>1, SavedTyped, BindingsAssumption
  <2>3. threads' \in [Threads -> Work]
    BY <2>1, AfterSaveTyped DEF TypeOK
  <2>4. QED
    BY <2>1, <2>2, <2>3 DEF TypeOK, flags
<1>2. ASSUME NEW c \in Threads, NEW p \in Profiles, ReadProfile(c, p)
      PROVE  TypeOK'
  <2>1. PICK active \in BOOLEAN, bindings \in Bindings :
          threads' = [threads EXCEPT ![c] =
            [do |-> "save", id |-> p, active |-> active, bindings |-> bindings]]
    BY <1>2 DEF ReadProfile
  <2>2. [do |-> "save", id |-> p, active |-> active, bindings |-> bindings] \in Work
    BY BindingsAssumption DEF Work
  <2>3. QED
    BY <1>2, <2>1, <2>2 DEF TypeOK, ReadProfile, flags
<1>3. ASSUME NEW c \in Threads, NEW p \in Profiles, ActivateProfile(c, p)
      PROVE  TypeOK'
  BY <1>3, ActivateTyped DEF ActivateProfile
<1>4. ASSUME NEW c \in Threads, NEW p \in Profiles, DeleteProfile(c, p)
      PROVE  TypeOK'
  <2>1. NoRow("deleted") \in Row
    BY DEF NoRow, Row
  <2>2. QED
    BY <1>4, <2>1 DEF TypeOK, DeleteProfile, flags
<1>5. ASSUME NEW c \in Threads, SaveProfile(c)
      PROVE  TypeOK'
  <2> DEFINE w == threads[c]
  <2>1. /\ w.id \in Profiles
        /\ w.active \in BOOLEAN
        /\ w.bindings \in SUBSET Binding
    BY <1>5 DEF SaveProfile, TypeOK, Work, Idle
  <2>2. rows' \in [Profiles -> Row]
    BY <1>5, <2>1, SavedTyped DEF SaveProfile
  <2>3. threads' \in [Threads -> Work]
    BY <1>5, <2>1, AfterSaveTyped DEF SaveProfile, TypeOK
  <2>4. unapplied' \subseteq Profiles
    BY <1>5, <2>1 DEF SaveProfile, TypeOK
  <2>5. QED
    BY <1>5, <2>2, <2>3, <2>4 DEF TypeOK, SaveProfile, flags
<1>6. ASSUME NEW c \in Threads, ActivateSaved(c)
      PROVE  TypeOK'
  <2>1. threads[c].id \in Profiles
    BY <1>6 DEF ActivateSaved, TypeOK, Work, Idle
  <2>2. QED
    BY <1>6, <2>1, ActivateTyped DEF ActivateSaved
<1>7. ASSUME NEW c \in Threads, DeactivateAllProfiles(c)
      PROVE  TypeOK'
  BY <1>7 DEF DeactivateAllProfiles, TypeOK, Row, flags
<1>8. CASE Reconcile
  BY <1>8 DEF Reconcile, TypeOK, flags
<1>9. CASE Crash
  <2>1. threads' \in [Threads -> Work]
    BY <1>9 DEF Crash, TypeOK, Work
  <2>2. crashes' \in 0 .. MaxCrashes
    BY <1>9, BoundAssumption DEF Crash, TypeOK
  <2>3. QED
    BY <1>9, <2>1, <2>2 DEF Crash, TypeOK, flags
<1>10. ASSUME NEW c \in Threads, ActivateSavedFails(c)
       PROVE  TypeOK'
  <2>1. threads[c].id \in Profiles
    BY <1>10 DEF ActivateSavedFails, TypeOK, Work, Idle
  <2>2. QED
    BY <1>10, <2>1 DEF ActivateSavedFails, TypeOK, Work, flags
<1>11. CASE UNCHANGED vars
  BY <1>11 DEF vars, flags, TypeOK
<1>12. QED
  BY <1>1, <1>2, <1>3, <1>4, <1>5, <1>6, <1>7, <1>8, <1>9, <1>10, <1>11 DEF Next

\* The variables keep their shape.
THEOREM ProfilesTypeCorrect == Spec => []TypeOK
<1>1. Init => TypeOK
  <2>1. NoRow("unused") \in Row /\ Idle \in Work
    BY DEF NoRow, Row, Work
  <2>2. 0 \in 0 .. MaxCrashes
    BY BoundAssumption
  <2>3. QED
    BY <2>1, <2>2 DEF Init, TypeOK
<1>2. TypeOK /\ [Next]_vars => TypeOK'
  BY TypeStep
<1>3. QED
  BY <1>1, <1>2, PTL DEF Spec

-----------------------------------------------------------------------------
\* A row saved as active displaces every other, whatever copy it was saved
\* from; a row saved as inactive displaces at most itself.
LEMMA SavedSingle ==
  ASSUME TypeOK, SingleActive, NEW p \in Profiles, NEW active \in BOOLEAN,
         NEW bindings, rows' = Saved(p, active, bindings)
  PROVE  SingleActive'
BY DEF TypeOK, Row, SingleActive, Saved

LEMMA ActivateSingle ==
  ASSUME TypeOK, SingleActive, NEW c \in Threads, NEW p \in Profiles, Activate(c, p)
  PROVE  SingleActive'
BY DEF TypeOK, Row, SingleActive, Activate, Activated

LEMMA SingleStep ==
  ASSUME TypeOK, SingleActive, [Next]_vars
  PROVE  SingleActive'
<1>1. ASSUME NEW c \in Threads, NEW p \in Profiles, CreateProfile(c, p)
      PROVE  SingleActive'
  BY <1>1, SavedSingle DEF CreateProfile
<1>2. ASSUME NEW c \in Threads, NEW p \in Profiles, ActivateProfile(c, p)
      PROVE  SingleActive'
  BY <1>2, ActivateSingle DEF ActivateProfile
<1>3. ASSUME NEW c \in Threads, NEW p \in Profiles, DeleteProfile(c, p)
      PROVE  SingleActive'
  BY <1>3 DEF DeleteProfile, NoRow, TypeOK, Row, SingleActive
<1>4. ASSUME NEW c \in Threads, SaveProfile(c)
      PROVE  SingleActive'
  <2>1. threads[c].id \in Profiles /\ threads[c].active \in BOOLEAN
    BY <1>4 DEF SaveProfile, TypeOK, Work, Idle
  <2>2. QED
    BY <1>4, <2>1, SavedSingle DEF SaveProfile
<1>5. ASSUME NEW c \in Threads, ActivateSaved(c)
      PROVE  SingleActive'
  <2>1. threads[c].id \in Profiles
    BY <1>5 DEF ActivateSaved, TypeOK, Work, Idle
  <2>2. QED
    BY <1>5, <2>1, ActivateSingle DEF ActivateSaved
<1>6. ASSUME NEW c \in Threads, DeactivateAllProfiles(c)
      PROVE  SingleActive'
  BY <1>6 DEF DeactivateAllProfiles, TypeOK, Row, SingleActive
<1>7. CASE UNCHANGED rows
  BY <1>7 DEF SingleActive
<1>8. QED
  BY <1>1, <1>2, <1>3, <1>4, <1>5, <1>6, <1>7
     DEF Next, ReadProfile, ActivateSavedFails, Reconcile, Crash, vars

\* However many profiles, requests, CLI processes with a stale copy and
\* crashes there are, at most one profile is active.
THEOREM SingleActiveHolds == Spec => []SingleActive
<1>1. Init => SingleActive
  BY DEF Init, NoRow, SingleActive
<1>2. TypeOK /\ SingleActive /\ [Next]_vars => SingleActive'
  BY SingleStep
<1>3. QED
  BY <1>1, <1>2, ProfilesTypeCorrect, PTL DEF Spec

-----------------------------------------------------------------------------
\* A profile that is active has a row.
ActiveStored == \A p \in Profiles : rows[p].active => Exists(p)

LEMMA SavedStored ==
  ASSUME TypeOK, ActiveStored, NEW p \in Profiles, NEW active \in BOOLEAN,
         NEW bindings, rows' = Saved(p, active, bindings)
  PROVE  /\ ActiveStored'
         /\ \A q \in Profiles : rows[q].active => Exists(q)'
BY DEF TypeOK, Row, ActiveStored, Exists, Saved

LEMMA ActivateStored ==
  ASSUME TypeOK, ActiveStored, NEW c \in Threads, NEW p \in Profiles, Activate(c, p)
  PROVE  /\ ActiveStored'
         /\ \A q \in Profiles : rows[q].active => Exists(q)'
BY DEF TypeOK, Row, ActiveStored, Exists, Activate, Activated

\* No step takes the row of an active profile away: the transaction of
\* DeleteProfile looks at the flag that it finds, not at one it was given.
LEMMA StoredStep ==
  ASSUME TypeOK, ActiveStored, [Next]_vars
  PROVE  /\ ActiveStored'
         /\ \A q \in Profiles : rows[q].active => Exists(q)'
<1> DEFINE Kept == ActiveStored' /\ \A q \in Profiles : rows[q].active => Exists(q)'
<1>1. ASSUME NEW c \in Threads, NEW p \in Profiles, CreateProfile(c, p)
      PROVE  Kept
  BY <1>1, SavedStored DEF CreateProfile
<1>2. ASSUME NEW c \in Threads, NEW p \in Profiles, ActivateProfile(c, p)
      PROVE  Kept
  BY <1>2, ActivateStored DEF ActivateProfile
<1>3. ASSUME NEW c \in Threads, NEW p \in Profiles, DeleteProfile(c, p)
      PROVE  Kept
  BY <1>3 DEF DeleteProfile, Deletable, NoRow, TypeOK, Row, ActiveStored, Exists
<1>4. ASSUME NEW c \in Threads, SaveProfile(c)
      PROVE  Kept
  <2>1. threads[c].id \in Profiles /\ threads[c].active \in BOOLEAN
    BY <1>4 DEF SaveProfile, TypeOK, Work, Idle
  <2>2. QED
    BY <1>4, <2>1, SavedStored DEF SaveProfile
<1>5. ASSUME NEW c \in Threads, ActivateSaved(c)
      PROVE  Kept
  <2>1. threads[c].id \in Profiles
    BY <1>5 DEF ActivateSaved, TypeOK, Work, Idle
  <2>2. QED
    BY <1>5, <2>1, ActivateStored DEF ActivateSaved
<1>6. ASSUME NEW c \in Threads, DeactivateAllProfiles(c)
      PROVE  Kept
  BY <1>6 DEF DeactivateAllProfiles, TypeOK, Row, ActiveStored, Exists
<1>7. CASE UNCHANGED rows
  BY <1>7 DEF ActiveStored, Exists
<1>8. QED
  BY <1>1, <1>2, <1>3, <1>4, <1>5, <1>6, <1>7
     DEF Next, ReadProfile, ActivateSavedFails, Reconcile, Crash, vars

\* An active profile keeps its row: a deletion that races an activation, or a
\* save of a stale copy, never leaves the flags to a profile that is gone.
THEOREM ActiveSurvivesHolds == Spec => ActiveSurvives
<1>1. Init => ActiveStored
  BY DEF Init, NoRow, ActiveStored
<1>2. TypeOK /\ ActiveStored /\ [Next]_vars => ActiveStored'
  BY StoredStep
<1>3. TypeOK /\ ActiveStored /\ [Next]_vars
        => [\A p \in Profiles : rows[p].active => Exists(p)']_vars
  BY StoredStep
<1>4. QED
  BY <1>1, <1>2, <1>3, ProfilesTypeCorrect, PTL DEF Spec, ActiveSurvives

-----------------------------------------------------------------------------
(***************************************************************************)
(* The flags.  An active profile is in force, or somebody is about to      *)
(* activate it, or it was left unapplied: Accounted.                       *)
(***************************************************************************)
Applied(p) ==
  /\ \A t \in Tunnels : t \in enabledTunnels <=> Binds(p, t)
  /\ \A e \in Endpoints : e \in enabledEndpoints
                            <=> \E b \in rows[p].bindings : b.endpoint = e

Pending(p) == \E c \in Clients : threads[c] = [do |-> "activate", id |-> p]

Accounted ==
  \A p \in Profiles : rows[p].active => p \in unapplied \/ Pending(p) \/ Applied(p)

\* A profile whose bindings, and the flags, stay as they are is as much in force.
LEMMA StaysApplied ==
  ASSUME NEW p \in Profiles, Applied(p), UNCHANGED flags,
         rows'[p].bindings = rows[p].bindings
  PROVE  Applied(p)'
BY DEF Applied, Binds, flags

\* A thread that was not about to activate anything gets something else to do.
LEMMA StaysPending ==
  ASSUME TypeOK, NEW c \in Threads, NEW w, threads' = [threads EXCEPT ![c] = w],
         threads[c].do # "activate", NEW p \in Profiles, Pending(p)
  PROVE  Pending(p)'
<1>1. PICK d \in Clients : threads[d] = [do |-> "activate", id |-> p]
  BY DEF Pending
<1>2. d # c /\ d \in Threads
  BY <1>1 DEF Threads
<1>3. threads'[d] = threads[d]
  BY <1>2 DEF TypeOK
<1>4. QED
  BY <1>1, <1>3 DEF Pending

\* To save a row makes the profile inactive, or leaves it to be activated, or
\* unapplied; and the others inactive or as they were.
LEMMA SavedAccounted ==
  ASSUME TypeOK, Accounted, UNCHANGED flags, NEW c \in Threads, NEW p \in Profiles,
         NEW active \in BOOLEAN, NEW bindings, rows' = Saved(p, active, bindings),
         threads[c].do # "activate",
         threads' = [threads EXCEPT ![c] = AfterSave(c, p, active)],
         unapplied \subseteq unapplied', c \in Shells /\ active => p \in unapplied'
  PROVE  Accounted'
<1>1. ASSUME NEW q \in Profiles, rows'[q].active
      PROVE  q \in unapplied' \/ Pending(q)' \/ Applied(q)'
  <2>1. CASE q = p
    <3>1. active
      BY <1>1, <2>1 DEF Saved
    <3>2. CASE c \in Clients
      <4>1. threads'[c] = [do |-> "activate", id |-> p]
        BY <3>1, <3>2 DEF AfterSave, TypeOK
      <4>2. QED
        BY <2>1, <3>2, <4>1 DEF Pending
    <3>3. CASE c \in Shells
      BY <2>1, <3>1, <3>3
    <3>4. QED
      BY <3>2, <3>3 DEF Threads
  <2>2. CASE q # p
    <3>1. ~active /\ rows'[q] = rows[q]
      BY <1>1, <2>2 DEF Saved, TypeOK, Row
    <3>2. q \in unapplied \/ Pending(q) \/ Applied(q)
      BY <1>1, <3>1 DEF Accounted
    <3>3. Pending(q) => Pending(q)'
      BY StaysPending
    <3>4. Applied(q) => Applied(q)'
      BY <3>1, StaysApplied
    <3>5. QED
      BY <3>2, <3>3, <3>4
  <2>3. QED
    BY <2>1, <2>2
<1>2. QED
  BY <1>1 DEF Accounted

\* What ActivateProfile makes active is in force.
LEMMA ActivateAccounted ==
  ASSUME TypeOK, ActiveStored, Accounted, NEW c \in Threads, NEW p \in Profiles,
         Activate(c, p), threads[c] = Idle \/ threads[c] = [do |-> "activate", id |-> p]
  PROVE  Accounted'
<1>1. CASE Exists(p)
  <2>1. \A q \in Profiles : rows'[q].active => q = p
    <3>1. rows' = Activated(p)
      BY <1>1 DEF Activate
    <3>2. \A q \in Profiles : Activated(p)[q].active = (q = p)
      BY DEF Activated, TypeOK, Row
    <3>3. QED
      BY <3>1, <3>2
  <2>2. rows'[p].bindings = rows[p].bindings /\ rows[p].bindings \in SUBSET Binding
    BY <1>1 DEF Activate, Activated, TypeOK, Row
  <2>3. \A t \in Tunnels : t \in enabledTunnels' <=> Binds(p, t)'
    <3>1. ASSUME NEW t \in Tunnels
          PROVE  t \in enabledTunnels' <=> (Home[t] \in EndpointWildcard(p) \/ t \in TunnelAllow(p))
      BY <1>1, <3>1 DEF Activate
    <3>2. ASSUME NEW t \in Tunnels
          PROVE  t \in TunnelAllow(p) <=> t # 0 /\ \E b \in rows[p].bindings : b.tunnel = t
      BY DEF TunnelAllow
    <3>3. ASSUME NEW t \in Tunnels
          PROVE  Home[t] \in EndpointWildcard(p)
                   <=> \E b \in rows[p].bindings : b.tunnel = 0 /\ b.endpoint = Home[t]
      BY DEF EndpointWildcard
    <3>4. \A t \in Tunnels : t # 0
      BY IdsAssumption
    <3>5. ASSUME NEW t \in Tunnels
          PROVE  Binds(p, t) <=> Home[t] \in EndpointWildcard(p) \/ t \in TunnelAllow(p)
      BY <3>2, <3>3, <3>4 DEF Binds
    <3>6. \A t \in Tunnels : Binds(p, t)' <=> Binds(p, t)
      BY <2>2 DEF Binds
    <3>7. QED
      BY <3>1, <3>5, <3>6
  <2>4. \A e \in Endpoints : e \in enabledEndpoints'
                              <=> \E b \in rows'[p].bindings : b.endpoint = e
    <3>1. enabledEndpoints' = EndpointAllow(p) /\ \A e \in Endpoints : e # 0
      BY <1>1, IdsAssumption DEF Activate
    <3>2. QED
      BY <2>2, <3>1 DEF EndpointAllow
  <2>5. Applied(p)'
    BY <2>3, <2>4 DEF Applied
  <2>6. QED
    BY <2>1, <2>5 DEF Accounted
<1>2. CASE ~Exists(p)
  <2>1. UNCHANGED <<rows, flags, unapplied>> /\ threads' = [threads EXCEPT ![c] = Idle]
    BY <1>2 DEF Activate
  <2>2. ASSUME NEW q \in Profiles, rows[q].active, Pending(q)
        PROVE  Pending(q)'
    <3>1. PICK d \in Clients : threads[d] = [do |-> "activate", id |-> q]
      BY <2>2 DEF Pending
    <3>2. q # p
      BY <1>2, <2>2 DEF ActiveStored
    <3>3. d # c /\ d \in Threads
      BY <3>1, <3>2 DEF Threads, Idle
    <3>4. QED
      BY <2>1, <3>1, <3>3 DEF Pending, TypeOK
  <2>3. \A q \in Profiles : Applied(q) => Applied(q)'
    BY <2>1, StaysApplied
  <2>4. QED
    BY <2>1, <2>2, <2>3 DEF Accounted
<1>3. QED
  BY <1>1, <1>2

LEMMA AccountedStep ==
  ASSUME TypeOK, ActiveStored, Accounted, [Next]_vars
  PROVE  Accounted'
<1>1. ASSUME NEW c \in Threads, NEW p \in Profiles, CreateProfile(c, p)
      PROVE  Accounted'
  <2>1. PICK active \in BOOLEAN, bindings \in Bindings :
          /\ c \in Shells => ~active
          /\ rows' = Saved(p, active, bindings)
          /\ threads' = [threads EXCEPT ![c] = AfterSave(c, p, active)]
    BY <1>1 DEF CreateProfile
  <2>2. threads[c].do # "activate" /\ UNCHANGED flags /\ unapplied' = unapplied
    BY <1>1 DEF CreateProfile, Accepts, Idle
  <2>3. (c \in Shells /\ active => p \in unapplied') /\ unapplied \subseteq unapplied'
    BY <2>1, <2>2
  <2>4. QED
    BY <2>1, <2>2, <2>3, SavedAccounted
<1>2. ASSUME NEW c \in Threads, NEW p \in Profiles, ReadProfile(c, p)
      PROVE  Accounted'
  <2>1. PICK active \in BOOLEAN, bindings \in Bindings :
          threads' = [threads EXCEPT ![c] =
            [do |-> "save", id |-> p, active |-> active, bindings |-> bindings]]
    BY <1>2 DEF ReadProfile
  <2>2. threads[c].do # "activate" /\ UNCHANGED <<rows, flags, unapplied>>
    BY <1>2 DEF ReadProfile, Accepts, Idle
  <2>3. \A q \in Profiles : Pending(q) => Pending(q)'
    BY <2>1, <2>2, StaysPending
  <2>4. \A q \in Profiles : Applied(q) => Applied(q)'
    BY <2>2, StaysApplied
  <2>5. QED
    BY <2>2, <2>3, <2>4 DEF Accounted
<1>3. ASSUME NEW c \in Threads, NEW p \in Profiles, ActivateProfile(c, p)
      PROVE  Accounted'
  BY <1>3, ActivateAccounted DEF ActivateProfile, Accepts
<1>4. ASSUME NEW c \in Threads, NEW p \in Profiles, DeleteProfile(c, p)
      PROVE  Accounted'
  <2>1. UNCHANGED <<flags, threads, unapplied>>
    BY <1>4 DEF DeleteProfile
  <2>2. \A q \in Profiles : rows'[q].active => rows'[q] = rows[q]
    BY <1>4 DEF DeleteProfile, NoRow, TypeOK
  <2>3. \A q \in Profiles : rows'[q] = rows[q] /\ Applied(q) => Applied(q)'
    BY <2>1, StaysApplied
  <2>4. \A q \in Profiles : Pending(q) => Pending(q)'
    BY <2>1 DEF Pending
  <2>5. QED
    BY <2>1, <2>2, <2>3, <2>4 DEF Accounted
<1>5. ASSUME NEW c \in Threads, SaveProfile(c)
      PROVE  Accounted'
  <2> DEFINE w == threads[c]
  <2>1. w.id \in Profiles /\ w.active \in BOOLEAN /\ w.do # "activate"
    BY <1>5 DEF SaveProfile, TypeOK, Work, Idle
  <2>2. /\ rows' = Saved(w.id, w.active, w.bindings) /\ UNCHANGED flags
        /\ threads' = [threads EXCEPT ![c] = AfterSave(c, w.id, w.active)]
        /\ unapplied \subseteq unapplied'
        /\ c \in Shells /\ w.active => w.id \in unapplied'
    BY <1>5 DEF SaveProfile
  <2> HIDE DEF w
  <2>3. threads[c].do # "activate"
    BY <2>1 DEF w
  <2>4. QED
    BY <2>1, <2>2, <2>3, SavedAccounted
<1>6. ASSUME NEW c \in Threads, ActivateSaved(c)
      PROVE  Accounted'
  <2>1. threads[c].id \in Profiles /\ threads[c] = [do |-> "activate", id |-> threads[c].id]
    BY <1>6 DEF ActivateSaved, TypeOK, Work, Idle
  <2>2. QED
    BY <1>6, <2>1, ActivateAccounted DEF ActivateSaved
<1>7. ASSUME NEW c \in Threads, DeactivateAllProfiles(c)
      PROVE  Accounted'
  <2>1. \A q \in Profiles : ~rows'[q].active
    BY <1>7 DEF DeactivateAllProfiles, TypeOK, Row
  <2>2. QED
    BY <2>1 DEF Accounted
<1>8. CASE Crash
  <2>1. UNCHANGED <<rows, flags>>
    BY <1>8 DEF Crash
  <2>2. \A q \in Profiles : Pending(q) \/ q \in unapplied => q \in unapplied'
    BY <1>8 DEF Crash, Pending
  <2>3. \A q \in Profiles : Applied(q) => Applied(q)'
    BY <2>1, StaysApplied
  <2>4. QED
    BY <2>1, <2>2, <2>3 DEF Accounted
<1>9. CASE UNCHANGED <<rows, flags, threads, unapplied>>
  <2>1. \A q \in Profiles : Applied(q) => Applied(q)'
    BY <1>9, StaysApplied
  <2>2. \A q \in Profiles : Pending(q) => Pending(q)'
    BY <1>9 DEF Pending
  <2>3. QED
    BY <1>9, <2>1, <2>2 DEF Accounted
<1>10. ASSUME NEW c \in Threads, ActivateSavedFails(c)
       PROVE  Accounted'
  <2>1. /\ threads[c] = [do |-> "activate", id |-> threads[c].id]
        /\ threads' = [threads EXCEPT ![c] = Idle]
        /\ unapplied' = unapplied \cup {threads[c].id} /\ UNCHANGED <<rows, flags>>
    BY <1>10 DEF ActivateSavedFails, TypeOK, Work, Idle
  <2>2. ASSUME NEW q \in Profiles, Pending(q)
        PROVE  q \in unapplied' \/ Pending(q)'
    <3>1. PICK d \in Clients : threads[d] = [do |-> "activate", id |-> q]
      BY <2>2 DEF Pending
    <3>2. CASE d = c
      BY <2>1, <3>1, <3>2
    <3>3. CASE d # c
      BY <2>1, <3>1, <3>3 DEF Pending, TypeOK, Threads
    <3>4. QED
      BY <3>2, <3>3
  <2>3. \A q \in Profiles : Applied(q) => Applied(q)'
    BY <2>1, StaysApplied
  <2>4. QED
    BY <2>1, <2>2, <2>3 DEF Accounted
<1>11. QED
  BY <1>1, <1>2, <1>3, <1>4, <1>5, <1>6, <1>7, <1>8, <1>9, <1>10 DEF Next, Reconcile, vars

\* Between requests nobody is about to activate anything.
LEMMA QuietApplied ==
  ASSUME Accounted
  PROVE  ActiveIsApplied
<1>1. ASSUME Quiet, NEW p \in Profiles, rows[p].active, p \notin unapplied
      PROVE  Applied(p)
  <2>1. ~Pending(p)
    BY <1>1 DEF Quiet, Pending, Threads, Idle
  <2>2. QED
    BY <1>1, <2>1 DEF Accounted
<1>2. QED
  BY <1>1 DEF ActiveIsApplied, Applied

\* However saves, activations, deletions and commands with a stale copy
\* interleave, between them the flags are those of the active profile, unless a
\* crash, an activation that failed or the command line has left it unapplied.
THEOREM ActiveIsAppliedHolds == Spec => []ActiveIsApplied
<1>1. Init => ActiveStored /\ Accounted
  BY DEF Init, NoRow, ActiveStored, Accounted
<1>2. TypeOK /\ ActiveStored /\ Accounted /\ [Next]_vars => ActiveStored' /\ Accounted'
  BY StoredStep, AccountedStep
<1>3. Accounted => ActiveIsApplied
  BY QuietApplied
<1>4. QED
  BY <1>1, <1>2, <1>3, ProfilesTypeCorrect, PTL DEF Spec

-----------------------------------------------------------------------------
\* What is enabled is served: whatever enables an endpoint, and whatever takes
\* proxies down, asks for the pass that brings them up.
THEOREM EnabledIsServedHolds == Spec => []EnabledIsServed
<1>1. Init => EnabledIsServed
  BY DEF Init, EnabledIsServed
<1>2. TypeOK /\ EnabledIsServed /\ [Next]_vars => EnabledIsServed'
  <2> SUFFICES ASSUME TypeOK, EnabledIsServed, [Next]_vars
               PROVE  EnabledIsServed'
    OBVIOUS
  <2>1. CASE UNCHANGED <<flags, reconciles, live>>
    BY <2>1 DEF EnabledIsServed, flags
  <2>2. ASSUME NEW c \in Threads, NEW p \in Profiles, Activate(c, p)
        PROVE  EnabledIsServed'
    <3>1. CASE Exists(p)
      BY <2>2, <3>1 DEF Activate, AfterActivation, EnabledIsServed
    <3>2. CASE ~Exists(p)
      BY <2>1, <2>2, <3>2 DEF Activate
    <3>3. QED
      BY <3>1, <3>2
  <2>3. ASSUME NEW c \in Threads, ActivateSaved(c)
        PROVE  EnabledIsServed'
    <3>1. threads[c].id \in Profiles
      BY <2>3 DEF ActivateSaved, TypeOK, Work, Idle
    <3>2. QED
      BY <2>2, <2>3, <3>1 DEF ActivateSaved
  <2>4. CASE Reconcile
    BY <2>4 DEF Reconcile, EnabledIsServed, flags
  <2>5. CASE Crash
    BY <2>5 DEF Crash, EnabledIsServed
  <2>6. QED
    BY <2>1, <2>2, <2>3, <2>4, <2>5
       DEF Next, CreateProfile, ReadProfile, ActivateProfile, ActivateSavedFails,
           DeleteProfile, SaveProfile, DeactivateAllProfiles, vars
<1>3. QED
  BY <1>1, <1>2, ProfilesTypeCorrect, PTL DEF Spec

-----------------------------------------------------------------------------
(***************************************************************************)
(* Imports.  Names, and the first number that is free.                     *)
(***************************************************************************)

LEMMA TrimIsValue == ASSUME NEW v \in Values PROVE Trim(v) \in Values
  BY DEF Trim, Values

LEMMA OrLoopbackIsValue == ASSUME NEW v \in Values PROVE OrLoopback(v) \in Values
  BY DEF OrLoopback, Trim, Values

LEMMA TrimNameParts ==
  ASSUME NEW n \in TunnelName
  PROVE  /\ TrimName(n) \in TunnelName
         /\ TrimName(n).suffix = n.suffix
         /\ TrimName(n).base = CASE n.base = " ssh" -> "ssh" [] n.base = " " -> "" [] OTHER -> n.base
  BY BasesAssumption DEF TunnelName, TrimName

LEMMA KeyParts ==
  ASSUME NEW n \in TunnelName
  PROVE  /\ Key(n) \in TunnelName
         /\ Key(n).suffix = n.suffix
         /\ Key(n).base = IF TrimName(n).base = "SSH" THEN "ssh" ELSE TrimName(n).base
<1>1. Key(n) \in TunnelName /\ Key(n).suffix = TrimName(n).suffix
  BY BasesAssumption, TrimNameParts DEF TunnelName, Key
<1>2. Key(n).base = IF TrimName(n).base = "SSH" THEN "ssh" ELSE TrimName(n).base
  BY BasesAssumption, TrimNameParts DEF TunnelName, Key
<1> QED BY <1>1, <1>2, TrimNameParts

LEMMA SameName ==
  ASSUME NEW m \in TunnelName, NEW n \in TunnelName, m.base = n.base, m.suffix = n.suffix
  PROVE  m = n
  BY DEF TunnelName

LEMMA NumberedParts ==
  ASSUME NEW n \in TunnelName, NEW k \in Nat
  PROVE  /\ Numbered(n, k) \in TunnelName
         /\ Numbered(n, k).base = n.base
         /\ Numbered(n, k).suffix = Append(n.suffix, k)
<1>1. Numbered(n, k) \in TunnelName
  BY DEF TunnelName, Numbered
<1>2. Numbered(n, k).base = n.base
  BY DEF TunnelName, Numbered
<1>3. Numbered(n, k).suffix = Append(n.suffix, k)
  BY DEF TunnelName, Numbered
<1> QED BY <1>1, <1>2, <1>3

LEMMA KeyOfTrimmed ==
  ASSUME NEW n \in TunnelName
  PROVE  Key(TrimName(n)) = Key(n)
<1> DEFINE t == TrimName(n)
<1>1. t \in TunnelName /\ t.suffix = n.suffix
  BY TrimNameParts
<1>2. TrimName(t).base = t.base
  <2>1. TrimName(t).base = CASE t.base = " ssh" -> "ssh" [] t.base = " " -> "" [] OTHER -> t.base
    BY <1>1, TrimNameParts
  <2>2. t.base = CASE n.base = " ssh" -> "ssh" [] n.base = " " -> "" [] OTHER -> n.base
    BY TrimNameParts
  <2> QED BY <2>1, <2>2
<1> HIDE DEF t
<1>3. Key(t) \in TunnelName /\ Key(t).suffix = t.suffix
  BY <1>1, KeyParts
<1>4. Key(t).base = IF t.base = "SSH" THEN "ssh" ELSE t.base
  BY <1>1, <1>2, KeyParts
<1>5. Key(n) \in TunnelName /\ Key(n).suffix = n.suffix
  BY KeyParts
<1>6. Key(n).base = IF t.base = "SSH" THEN "ssh" ELSE t.base
  BY KeyParts DEF t
<1>7. Key(t) = Key(n)
  BY <1>1, <1>3, <1>4, <1>5, <1>6, SameName
<1> QED BY <1>7 DEF t

\* Names that only differ in the number appended are not taken for the same.
LEMMA NumbersTellApart ==
  ASSUME NEW n \in TunnelName, NEW j \in Nat, NEW k \in Nat,
         Key(Numbered(n, j)) = Key(Numbered(n, k))
  PROVE  j = k
<1>1. n.suffix \in Seq(Nat)
  BY DEF TunnelName
<1>2. \A l \in Nat : Key(Numbered(n, l)).suffix = Append(n.suffix, l)
  <2> TAKE l \in Nat
  <2>1. Numbered(n, l) \in TunnelName /\ Numbered(n, l).suffix = Append(n.suffix, l)
    BY NumberedParts
  <2>2. Key(Numbered(n, l)).suffix = Numbered(n, l).suffix
    BY <2>1, KeyParts
  <2> QED BY <2>1, <2>2
<1>3. Append(n.suffix, j) = Append(n.suffix, k)
  BY <1>2
<1>4. Append(n.suffix, j)[Len(n.suffix) + 1] = j /\ Append(n.suffix, k)[Len(n.suffix) + 1] = k
  BY <1>1
<1> QED BY <1>3, <1>4

\* The numbers that would do.
Free(n, taken) == {k \in 2 .. 999 : IsFree(n, k, taken)}

LEMMA FreeIsNumbers ==
  ASSUME NEW n, NEW taken PROVE Free(n, taken) \subseteq 2 .. 999
  BY DEF Free

LEMMA LeastNumber ==
  ASSUME NEW S \in SUBSET Nat, S # {}
  PROVE  \E k \in S : \A j \in S : k <= j
<1>1. IsWellFoundedOn(OpToRel(<, Nat), Nat)
  BY NatLessThanWellFounded
<1>2. PICK k \in S : \A j \in S : <<j, k>> \notin OpToRel(<, Nat)
  BY <1>1, WFMin
<1>3. ASSUME NEW j \in S PROVE k <= j
  <2>1. j \in Nat /\ k \in Nat /\ ~(j < k)
    BY <1>2 DEF OpToRel
  <2> QED BY <2>1
<1> QED BY <1>3

LEMMA UniqueCases ==
  ASSUME NEW n \in TunnelName, NEW taken
  PROVE  \/ Free(n, taken) = {} /\ Unique(n, taken) = Numbered(n, Unfit)
         \/ \E k \in Free(n, taken) : Unique(n, taken) = Numbered(n, k)
<1>1. CASE Free(n, taken) = {}
  <2>1. ~\E k \in 2 .. 999 : IsFree(n, k, taken)
    BY <1>1 DEF Free
  <2> QED BY <1>1, <2>1 DEF Unique
<1>2. CASE Free(n, taken) # {}
  <2>0. Free(n, taken) \in SUBSET Nat
    BY FreeIsNumbers
  <2> DEFINE Least(k) == IsFree(n, k, taken) /\ \A j \in 2 .. k - 1 : ~IsFree(n, j, taken)
  <2>1. PICK k \in Free(n, taken) : \A j \in Free(n, taken) : k <= j
    BY <1>2, <2>0, LeastNumber
  <2>2. k \in 2 .. 999 /\ Least(k)
    <3>1. k \in 2 .. 999 /\ IsFree(n, k, taken)
      BY DEF Free
    <3>2. ASSUME NEW j \in 2 .. k - 1 PROVE ~IsFree(n, j, taken)
      <4>1. j \in 2 .. 999 /\ ~(k <= j)
        BY <3>1
      <4> QED BY <2>1, <4>1 DEF Free
    <3> QED BY <3>1, <3>2
  <2>3. Unique(n, taken) = Numbered(n, CHOOSE m \in 2 .. 999 : Least(m))
    BY <2>2 DEF Unique
  <2> HIDE DEF Least
  <2>4. PICK m \in 2 .. 999 : Least(m) /\ m = CHOOSE q \in 2 .. 999 : Least(q)
    BY <2>2
  <2>5. m \in Free(n, taken)
    BY <2>4 DEF Least, Free
  <2> QED BY <2>3, <2>4, <2>5
<1> QED BY <1>1, <1>2

LEMMA UniqueIsName ==
  ASSUME NEW n \in TunnelName, NEW taken PROVE Unique(n, taken) \in TunnelName
<1>1. Numbered(n, Unfit) \in TunnelName
  BY NumberedParts DEF Unfit
<1>2. ASSUME NEW k \in Free(n, taken) PROVE Numbered(n, k) \in TunnelName
  <2>1. k \in Nat
    BY FreeIsNumbers
  <2> QED BY <2>1, NumberedParts
<1> QED BY <1>1, <1>2, UniqueCases

LEMMA UniqueIsFree ==
  ASSUME NEW n \in TunnelName, NEW taken, Free(n, taken) # {}
  PROVE  Key(Unique(n, taken)) \notin taken
  BY UniqueCases DEF Free, IsFree

LEMMA OnlyIsSet ==
  ASSUME NEW S, NEW set \in [Fields -> Values] PROVE Only(S, set) \in [Fields -> Values]
  BY DEF Only, Values

LEMMA EntryIsGist ==
  ASSUME NEW role \in {"server", "visitor"}, NEW x \in Entry(role)
  PROVE  /\ x \in Gist
         /\ x.role = role
         /\ x.type \in Types(role)
         /\ x = [role |-> role, type |-> x.type, name |-> x.name, set |-> x.set]
         /\ x.name \in TunnelName
         /\ x.set \in [Fields -> Values]
  BY DEF Entry, Gist, Types, ProxyTypes, VisitorTypes

LEMMA MapProxyIsGist ==
  ASSUME NEW x \in Gist
  PROVE  /\ mapProxy(x) \in Gist
         /\ mapProxy(x).role = x.role
         /\ mapProxy(x).type = x.type
         /\ mapProxy(x).name = TrimName(x.name)
         /\ mapProxy(x).set = [Only(DraftBase \cup DraftFields(x.type), x.set)
                     EXCEPT !["localIP"] = OrLoopback(x.set["localIP"]),
                            !["healthCheckPath"] = IF x.set["healthCheckType"] # ""
                              THEN x.set["healthCheckPath"] ELSE "",
                            !["pluginOptions"] = IF x.set["plugin"] # ""
                              THEN x.set["pluginOptions"] ELSE ""]
<1> DEFINE set == [Only(DraftBase \cup DraftFields(x.type), x.set)
                     EXCEPT !["localIP"] = OrLoopback(x.set["localIP"]),
                            !["healthCheckPath"] = IF x.set["healthCheckType"] # ""
                              THEN x.set["healthCheckPath"] ELSE "",
                            !["pluginOptions"] = IF x.set["plugin"] # ""
                              THEN x.set["pluginOptions"] ELSE ""]
<1>1. x.set \in [Fields -> Values]
  BY DEF Gist
<1>2. set \in [Fields -> Values]
  <2>1. x.set["localIP"] \in Values /\ x.set["healthCheckPath"] \in Values /\ x.set["pluginOptions"] \in Values
    BY <1>1 DEF Fields
  <2>2. OrLoopback(x.set["localIP"]) \in Values
    BY <2>1, OrLoopbackIsValue
  <2>3. Only(DraftBase \cup DraftFields(x.type), x.set) \in [Fields -> Values]
    BY <1>1, OnlyIsSet
  <2>4. "" \in Values
    BY DEF Values
  <2> QED BY <2>1, <2>2, <2>3, <2>4
<1>3. mapProxy(x) = [x EXCEPT !.name = TrimName(x.name), !.set = set]
  BY DEF mapProxy
<1> HIDE DEF set
<1>4. TrimName(x.name) \in TunnelName
  <2>1. x.name \in TunnelName
    BY DEF Gist
  <2> QED BY <2>1, TrimNameParts
<1>5. mapProxy(x) \in Gist
  BY <1>2, <1>3, <1>4 DEF Gist
<1>6. /\ mapProxy(x).role = x.role
      /\ mapProxy(x).type = x.type
      /\ mapProxy(x).name = TrimName(x.name)
      /\ mapProxy(x).set = set
  BY <1>3 DEF Gist
<1> QED BY <1>5, <1>6 DEF set

LEMMA MapVisitorIsGist ==
  ASSUME NEW x \in Gist
  PROVE  /\ mapVisitor(x) \in Gist
         /\ mapVisitor(x).role = x.role
         /\ mapVisitor(x).type = x.type
         /\ mapVisitor(x).name = TrimName(x.name)
         /\ mapVisitor(x).set = [Only({"localPort", "serverName", "secretKey",
                           "useEncryption", "useCompression"}, x.set)
                     EXCEPT !["localIP"] = OrLoopback(x.set["localIP"])]
<1> DEFINE set == [Only({"localPort", "serverName", "secretKey",
                           "useEncryption", "useCompression"}, x.set)
                     EXCEPT !["localIP"] = OrLoopback(x.set["localIP"])]
<1>1. x.set \in [Fields -> Values]
  BY DEF Gist
<1>2. set \in [Fields -> Values]
  <2>1. x.set["localIP"] \in Values
    BY <1>1 DEF Fields
  <2>2. OrLoopback(x.set["localIP"]) \in Values
    BY <2>1, OrLoopbackIsValue
  <2>3. Only({"localPort", "serverName", "secretKey",
                           "useEncryption", "useCompression"}, x.set) \in [Fields -> Values]
    BY <1>1, OnlyIsSet
  <2> QED BY <2>2, <2>3
<1>3. mapVisitor(x) = [x EXCEPT !.name = TrimName(x.name), !.set = set]
  BY DEF mapVisitor
<1> HIDE DEF set
<1>4. TrimName(x.name) \in TunnelName
  <2>1. x.name \in TunnelName
    BY DEF Gist
  <2> QED BY <2>1, TrimNameParts
<1>5. mapVisitor(x) \in Gist
  BY <1>2, <1>3, <1>4 DEF Gist
<1>6. /\ mapVisitor(x).role = x.role
      /\ mapVisitor(x).type = x.type
      /\ mapVisitor(x).name = TrimName(x.name)
      /\ mapVisitor(x).set = set
  BY <1>3 DEF Gist
<1> QED BY <1>5, <1>6 DEF set

LEMMA DraftIsGist ==
  ASSUME NEW x \in Gist
  PROVE  /\ Draft(x) \in Gist
         /\ Draft(x).role = x.role
         /\ Draft(x).type = x.type
         /\ Draft(x).name = TrimName(x.name)
  BY MapProxyIsGist, MapVisitorIsGist DEF Draft

LEMMA WebRow ==
  ASSUME NEW d \in Gist
  PROVE  /\ applyToTunnel(importDraftToReq(d)) \in Gist
         /\ applyToTunnel(importDraftToReq(d)).role = d.role
         /\ applyToTunnel(importDraftToReq(d)).type = d.type
         /\ applyToTunnel(importDraftToReq(d)).name = TrimName(d.name)
         /\ applyToTunnel(importDraftToReq(d)).set =
              [d.set EXCEPT !["serverUser"] = "", !["localIP"] = OrLoopback(d.set["localIP"])]
<1> DEFINE req == importDraftToReq(d)
           blanked == [d.set EXCEPT !["serverUser"] = ""]
           set == [blanked EXCEPT !["localIP"] = OrLoopback(blanked["localIP"])]
<1>1. d.set \in [Fields -> Values] /\ d.name \in TunnelName
  BY DEF Gist
<1>2. blanked \in [Fields -> Values] /\ blanked["localIP"] = d.set["localIP"]
  BY <1>1 DEF Values, Fields
<1>3. set = [d.set EXCEPT !["serverUser"] = "", !["localIP"] = OrLoopback(d.set["localIP"])]
  BY <1>1, <1>2 DEF Fields
<1>4. req = [d EXCEPT !.set = blanked]
  BY DEF importDraftToReq
<1> HIDE DEF blanked
<1>5. req \in Gist /\ req.set = blanked /\ req.name = d.name /\ req.role = d.role /\ req.type = d.type
  BY <1>2, <1>4 DEF Gist
<1>6. applyToTunnel(req) = [req EXCEPT !.name = TrimName(d.name), !.set = set]
  BY <1>5 DEF applyToTunnel
<1>7. set \in [Fields -> Values]
  <2>1. blanked["localIP"] \in Values
    BY <1>2 DEF Fields
  <2>2. OrLoopback(blanked["localIP"]) \in Values
    BY <2>1, OrLoopbackIsValue
  <2> QED BY <1>2, <2>2
<1> HIDE DEF set, req
<1>8. TrimName(d.name) \in TunnelName
  BY <1>1, TrimNameParts
<1>9. applyToTunnel(req) \in Gist
  BY <1>5, <1>6, <1>7, <1>8 DEF Gist
<1>10. /\ applyToTunnel(req).role = d.role
       /\ applyToTunnel(req).type = d.type
       /\ applyToTunnel(req).name = TrimName(d.name)
       /\ applyToTunnel(req).set = set
  BY <1>5, <1>6 DEF Gist
<1> QED BY <1>3, <1>9, <1>10 DEF req

LEMMA CommandRow ==
  ASSUME NEW d \in Gist
  PROVE  /\ tunnelFromDraft(d) \in Gist
         /\ tunnelFromDraft(d).role = d.role
         /\ tunnelFromDraft(d).type = d.type
         /\ tunnelFromDraft(d).name = d.name
         /\ tunnelFromDraft(d).set =
              [f \in Fields |-> IF f \in Trimmed THEN Trim(d.set[f]) ELSE d.set[f]]
<1> DEFINE set == [f \in Fields |-> IF f \in Trimmed THEN Trim(d.set[f]) ELSE d.set[f]]
<1>1. d.set \in [Fields -> Values]
  BY DEF Gist
<1>2. set \in [Fields -> Values]
  BY <1>1, TrimIsValue
<1>3. tunnelFromDraft(d) = [d EXCEPT !.set = set]
  BY DEF tunnelFromDraft
<1> HIDE DEF set
<1>4. tunnelFromDraft(d) \in Gist
  BY <1>2, <1>3 DEF Gist
<1>5. /\ tunnelFromDraft(d).role = d.role
      /\ tunnelFromDraft(d).type = d.type
      /\ tunnelFromDraft(d).name = d.name
      /\ tunnelFromDraft(d).set = set
  BY <1>3 DEF Gist
<1> QED BY <1>4, <1>5 DEF set

-----------------------------------------------------------------------------

LEMMA EntriesAreSound ==
  ASSUME NEW f \in DOMAIN Files
  PROVE  /\ Entries(Files[f]) \in Seq(Gist)
         /\ \A k \in DOMAIN Entries(Files[f]) :
              Entries(Files[f])[k] \in Entry("server") \cup Entry("visitor")
         /\ Len(Entries(Files[f])) \in Nat
         /\ DOMAIN Entries(Files[f]) = 1 .. Len(Entries(Files[f]))
<1> DEFINE proxies == Files[f].proxies
           visitors == Files[f].visitors
           All == Entry("server") \cup Entry("visitor")
<1>1. proxies \in Seq(Entry("server")) /\ visitors \in Seq(Entry("visitor"))
  BY FilesAssumption DEF File
<1> HIDE DEF proxies, visitors
<1>2. proxies \in Seq(All) /\ visitors \in Seq(All)
  BY <1>1
<1>3. Entries(Files[f]) = proxies \o visitors
  BY DEF Entries, proxies, visitors
<1>4. proxies \o visitors \in Seq(All)
  BY <1>2
<1>5. \A x \in All : x \in Gist
  BY EntryIsGist
<1>6. Entries(Files[f]) \in Seq(Gist)
  BY <1>3, <1>4, <1>5
<1> QED BY <1>3, <1>4, <1>6

LEMMA DraftsAreSound ==
  ASSUME NEW f \in DOMAIN Files
  PROVE  /\ Drafts[f] \in Seq(Gist)
         /\ Len(Drafts[f]) = Len(Entries(Files[f]))
         /\ \A k \in 1 .. Len(Drafts[f]) :
              /\ Drafts[f][k] = Draft(Entries(Files[f])[k])
              /\ Drafts[f][k] \in Gist
<1> DEFINE entries == Entries(Files[f])
<1>1. entries \in Seq(Gist)
  BY EntriesAreSound
<1>2. Drafts[f] = [k \in DOMAIN entries |-> Draft(entries[k])]
  BY DEF Drafts, Parse
<1> HIDE DEF entries
<1>3. \A k \in 1 .. Len(entries) : Draft(entries[k]) \in Gist
  <2> TAKE k \in 1 .. Len(entries)
  <2>1. entries[k] \in Gist
    BY <1>1
  <2> QED BY <2>1, DraftIsGist
<1>4. DOMAIN entries = 1 .. Len(entries) /\ Len(entries) \in Nat
  BY <1>1
<1>5. Drafts[f] \in [1 .. Len(entries) -> Gist]
  BY <1>2, <1>3, <1>4
<1>6. Drafts[f] \in Seq(Gist) /\ Len(Drafts[f]) = Len(entries)
  BY <1>4, <1>5
<1> QED BY <1>2, <1>3, <1>4, <1>6 DEF entries

LEMMA JobParts ==
  ASSUME NEW job \in Job
  PROVE  /\ job.phase \in Phases /\ job.file \in DOMAIN Files /\ job.own \in Seq({"rename", ""})
         /\ job.strategy \in Strategies /\ job.taken \in SUBSET TunnelName
         /\ job.found \in SUBSET TunnelName /\ job.since \in Nat /\ job.report \in Seq(Items)
         /\ job.dry \in BOOLEAN
         /\ job.foretold \in [phase : Phases, found : SUBSET TunnelName, report : Reports]
  BY DEF Job, Reports

LEMMA ItemIsItem ==
  ASSUME NEW result \in {"created", "would-create", "skipped", "error"}, NEW name \in TunnelName,
         NEW id \in Nat
  PROVE  /\ Item(result, name, id) \in Items
         /\ Item(result, name, id).result = result
         /\ Item(result, name, id).name = name
         /\ Item(result, name, id).id = id
  BY DEF Item, Items

-----------------------------------------------------------------------------
(***************************************************************************)
(* What the steps do to a job.                                             *)
(***************************************************************************)

LEMMA ReportedJob ==
  ASSUME jobs \in [Importers -> Job], NEW i \in Importers, NEW item \in Items,
         NEW taken \in SUBSET TunnelName, Reported(i, item, taken)
  PROVE  /\ jobs' \in [Importers -> Job]
         /\ jobs'[i] = [jobs[i] EXCEPT !.report = Append(jobs[i].report, item), !.taken = taken]
         /\ \A j \in Importers \ {i} : jobs'[j] = jobs[j]
<1> DEFINE job == [jobs[i] EXCEPT !.report = Append(jobs[i].report, item), !.taken = taken]
<1>1. jobs' = [jobs EXCEPT ![i] = job]
  BY DEF Reported
<1>2. jobs[i] \in Job /\ Append(jobs[i].report, item) \in Reports
  <2>1. jobs[i] \in Job
    OBVIOUS
  <2>2. jobs[i].report \in Seq(Items)
    BY <2>1, JobParts
  <2> QED BY <2>1, <2>2 DEF Reports
<1>3. job \in Job
  BY <1>2 DEF Job
<1> HIDE DEF job
<1>4. jobs' \in [Importers -> Job] /\ jobs'[i] = job
  BY <1>1, <1>3
<1>5. \A j \in Importers \ {i} : jobs'[j] = jobs[j]
  BY <1>1
<1> QED BY <1>4, <1>5 DEF job

LEMMA ReportedParts ==
  ASSUME jobs \in [Importers -> Job], NEW i \in Importers, NEW item \in Items,
         NEW taken \in SUBSET TunnelName, Reported(i, item, taken)
  PROVE  /\ jobs'[i].report = Append(jobs[i].report, item)
         /\ jobs'[i].taken = taken
         /\ jobs'[i].phase = jobs[i].phase
         /\ jobs'[i].file = jobs[i].file
         /\ jobs'[i].own = jobs[i].own
         /\ jobs'[i].strategy = jobs[i].strategy
         /\ jobs'[i].dry = jobs[i].dry
         /\ jobs'[i].found = jobs[i].found
         /\ jobs'[i].since = jobs[i].since
         /\ jobs'[i].foretold = jobs[i].foretold
<1>1. jobs'[i] = [jobs[i] EXCEPT !.report = Append(jobs[i].report, item), !.taken = taken]
  BY ReportedJob
<1>2. jobs[i] \in Job
  OBVIOUS
<1> QED BY <1>1, <1>2 DEF Job

LEMMA BeganJob ==
  ASSUME NEW job \in Job, NEW dry \in BOOLEAN, tunnels \in Seq(Tunnel), Names \in SUBSET TunnelName
  PROVE  /\ Began(job, dry) \in Job
         /\ Began(job, dry).phase = "running"
         /\ Began(job, dry).dry = dry
         /\ Began(job, dry).taken = Names
         /\ Began(job, dry).found = Names
         /\ Began(job, dry).since = Len(tunnels)
         /\ Began(job, dry).file = job.file
         /\ Began(job, dry).own = job.own
         /\ Began(job, dry).strategy = job.strategy
         /\ Began(job, dry).report = job.report
         /\ Began(job, dry).foretold = job.foretold
<1>1. Len(tunnels) \in Nat
  OBVIOUS
<1>2. "running" \in Phases
  BY DEF Phases
<1>3. Began(job, dry) \in Job
  BY <1>1, <1>2 DEF Began, Job
<1> QED BY <1>3 DEF Began, Job

\* The command, before it begins again.
Repeated(job) ==
  [job EXCEPT !.report = <<>>,
              !.foretold = [phase |-> job.phase, found |-> job.found, report |-> job.report]]

LEMMA RepeatedJob ==
  ASSUME NEW job \in Job
  PROVE  /\ Repeated(job) \in Job
         /\ Repeated(job).file = job.file
         /\ Repeated(job).own = job.own
         /\ Repeated(job).strategy = job.strategy
         /\ Repeated(job).report = <<>>
         /\ Repeated(job).foretold =
              [phase |-> job.phase, found |-> job.found, report |-> job.report]
<1> DEFINE foretold == [phase |-> job.phase, found |-> job.found, report |-> job.report]
<1>1. foretold \in [phase : Phases, found : SUBSET TunnelName, report : Reports]
  BY DEF Job
<1>2. <<>> \in Reports
  BY DEF Reports
<1> HIDE DEF foretold
<1>3. Repeated(job) = [job EXCEPT !.report = <<>>, !.foretold = foretold]
  BY DEF Repeated, foretold
<1>4. Repeated(job) \in Job
  BY <1>1, <1>2, <1>3 DEF Job
<1>5. /\ Repeated(job).file = job.file
      /\ Repeated(job).own = job.own
      /\ Repeated(job).strategy = job.strategy
      /\ Repeated(job).report = <<>>
      /\ Repeated(job).foretold = foretold
  BY <1>3 DEF Job
<1> QED BY <1>4, <1>5 DEF foretold

LEMMA PhaseJob ==
  ASSUME jobs \in [Importers -> Job], NEW i \in Importers, NEW phase \in Phases,
         jobs' = [jobs EXCEPT ![i].phase = phase]
  PROVE  /\ jobs' \in [Importers -> Job]
         /\ jobs'[i].phase = phase
         /\ jobs'[i].report = jobs[i].report
         /\ jobs'[i].taken = jobs[i].taken
         /\ jobs'[i].file = jobs[i].file
         /\ jobs'[i].own = jobs[i].own
         /\ jobs'[i].strategy = jobs[i].strategy
         /\ jobs'[i].dry = jobs[i].dry
         /\ jobs'[i].found = jobs[i].found
         /\ jobs'[i].since = jobs[i].since
         /\ jobs'[i].foretold = jobs[i].foretold
         /\ \A j \in Importers \ {i} : jobs'[j] = jobs[j]
<1> DEFINE job == [jobs[i] EXCEPT !.phase = phase]
<1>1. jobs[i] \in Job
  OBVIOUS
<1>2. job \in Job
  BY <1>1 DEF Job
<1>3. /\ job.phase = phase
      /\ job.report = jobs[i].report
      /\ job.taken = jobs[i].taken
      /\ job.file = jobs[i].file
      /\ job.own = jobs[i].own
      /\ job.strategy = jobs[i].strategy
      /\ job.dry = jobs[i].dry
      /\ job.found = jobs[i].found
      /\ job.since = jobs[i].since
      /\ job.foretold = jobs[i].foretold
  BY <1>1 DEF Job
<1> HIDE DEF job
<1>4. jobs' = [jobs EXCEPT ![i] = job]
  BY DEF job
<1>5. /\ jobs' \in [Importers -> Job] 
      /\ jobs'[i] = job
      /\ \A j \in Importers \ {i} : jobs'[j] = jobs[j]
  BY <1>2, <1>4
<1> QED BY <1>3, <1>5

LEMMA AbortedJob ==
  ASSUME jobs \in [Importers -> Job], NEW i \in Importers, NEW item \in Items,
         jobs' = [jobs EXCEPT ![i].phase = "aborted", ![i].report = Append(@, item)]
  PROVE  /\ jobs' \in [Importers -> Job]
         /\ jobs'[i].phase = "aborted"
         /\ jobs'[i].report = Append(jobs[i].report, item)
         /\ jobs'[i].taken = jobs[i].taken
         /\ jobs'[i].file = jobs[i].file
         /\ jobs'[i].own = jobs[i].own
         /\ jobs'[i].strategy = jobs[i].strategy
         /\ jobs'[i].dry = jobs[i].dry
         /\ jobs'[i].found = jobs[i].found
         /\ jobs'[i].since = jobs[i].since
         /\ jobs'[i].foretold = jobs[i].foretold
         /\ \A j \in Importers \ {i} : jobs'[j] = jobs[j]
<1> DEFINE report == Append(jobs[i].report, item)
           job == [jobs[i] EXCEPT !.phase = "aborted", !.report = report]
<1>1. jobs[i] \in Job
  OBVIOUS
<1>2. report \in Reports /\ "aborted" \in Phases
  <2>1. jobs[i].report \in Seq(Items)
    BY <1>1, JobParts
  <2> QED BY <2>1 DEF Reports, Phases
<1>4. jobs' = [jobs EXCEPT ![i] = job]
  OBVIOUS
<1> HIDE DEF report
<1>3. job \in Job
  BY <1>1, <1>2 DEF Job
<1>5. /\ job.phase = "aborted"
      /\ job.report = report
      /\ job.taken = jobs[i].taken
      /\ job.file = jobs[i].file
      /\ job.own = jobs[i].own
      /\ job.strategy = jobs[i].strategy
      /\ job.dry = jobs[i].dry
      /\ job.found = jobs[i].found
      /\ job.since = jobs[i].since
      /\ job.foretold = jobs[i].foretold
  BY <1>1 DEF Job
<1> HIDE DEF job
<1>6. /\ jobs' \in [Importers -> Job] 
      /\ jobs'[i] = job
      /\ \A j \in Importers \ {i} : jobs'[j] = jobs[j]
  BY <1>3, <1>4
<1> QED BY <1>5, <1>6 DEF report

LEMMA PreviewedJob ==
  ASSUME NEW job \in Job, NEW own \in Seq({"rename", ""})
  PROVE  LET j == [job EXCEPT !.phase = "previewed", !.own = own]
         IN  /\ j \in Job
             /\ j.phase = "previewed"
             /\ j.own = own
             /\ j.taken = job.taken
             /\ j.file = job.file
             /\ j.report = job.report
             /\ j.strategy = job.strategy
             /\ j.dry = job.dry
             /\ j.found = job.found
             /\ j.since = job.since
             /\ j.foretold = job.foretold
<1> DEFINE j == [job EXCEPT !.phase = "previewed", !.own = own]
<1>1. j \in Job
  BY DEF Job, Phases
<1> QED BY <1>1 DEF Job

-----------------------------------------------------------------------------
(***************************************************************************)
(* What the draft in hand becomes.                                         *)
(***************************************************************************)

LEMMA TunnelParts ==
  ASSUME NEW row \in Tunnel
  PROVE  /\ row.name \in TunnelName /\ row.maker \in Importers \cup {"hand"} /\ row.item \in Nat
         /\ row.alive \in BOOLEAN /\ row.gist \in Gist \cup {<<>>}
  BY DEF Tunnel

LEMMA NamesAreNames ==
  ASSUME tunnels \in Seq(Tunnel)
  PROVE  /\ Names \in SUBSET TunnelName
         /\ Live \subseteq DOMAIN tunnels
         /\ DOMAIN tunnels = 1 .. Len(tunnels)
         /\ Len(tunnels) \in Nat
         /\ \A r \in DOMAIN tunnels : tunnels[r] \in Tunnel /\ r \in Nat
<1>1. \A r \in DOMAIN tunnels : tunnels[r] \in Tunnel /\ r \in Nat
  OBVIOUS
<1>2. ASSUME NEW r \in Live PROVE Key(tunnels[r].name) \in TunnelName
  <2>1. tunnels[r].name \in TunnelName
    BY <1>1, TunnelParts DEF Live
  <2> QED BY <2>1, KeyParts
<1>3. Names \in SUBSET TunnelName
  BY <1>2 DEF Names
<1> QED BY <1>1, <1>3 DEF Live

LEMMA GistParts ==
  ASSUME NEW d \in Gist
  PROVE  /\ d.role \in {"server", "visitor"} /\ d.type \in ProxyTypes /\ d.name \in TunnelName
         /\ d.set \in [Fields -> Values]
  BY DEF Gist

LEMMA CurrentIsSound ==
  ASSUME ImportTypeOK, NEW i \in Importers, HasNext(i)
  PROVE  /\ Place(i) \in 1 .. Len(DraftsOf(i))
         /\ Place(i) = Len(jobs[i].report) + 1
         /\ Place(i) \in DOMAIN Entries(Files[jobs[i].file])
         /\ Current(i) \in Gist
         /\ Current(i) = Draft(Entries(Files[jobs[i].file])[Place(i)])
         /\ Current(i).name \in TunnelName
         /\ Len(jobs[i].report) \in Nat
<1>1. jobs[i] \in Job
  BY DEF ImportTypeOK
<1>2. jobs[i].file \in DOMAIN Files /\ jobs[i].report \in Seq(Items)
  BY <1>1, JobParts
<1>3. Place(i) \in 1 .. Len(DraftsOf(i))
  BY <1>2, DraftsAreSound, EntriesAreSound DEF HasNext, Place, DraftsOf
<1>4. Current(i) \in Gist /\ Current(i) = Draft(Entries(Files[jobs[i].file])[Place(i)])
  BY <1>2, <1>3, DraftsAreSound DEF Current, DraftsOf
<1>5. Place(i) \in DOMAIN Entries(Files[jobs[i].file])
  BY <1>2, <1>3, DraftsAreSound, EntriesAreSound DEF DraftsOf
<1> QED BY <1>2, <1>3, <1>4, <1>5, GistParts DEF Place

LEMMA BaseIsName ==
  ASSUME ImportTypeOK, NEW i \in Importers, HasNext(i)
  PROVE  Base(i) \in TunnelName
<1>1. Current(i).name \in TunnelName
  BY CurrentIsSound
<1>2. [Current(i).name EXCEPT !.base = "imported"] \in TunnelName
  BY <1>1, BasesAssumption DEF TunnelName
<1> QED BY <1>1, <1>2 DEF Base

LEMMA RenamedIsSound ==
  ASSUME ImportTypeOK, NEW i \in Importers, HasNext(i)
  PROVE  /\ Renamed(i) \in Gist
         /\ Renamed(i).role = Current(i).role
         /\ Renamed(i).type = Current(i).type
         /\ Renamed(i).set = Current(i).set
         /\ Renamed(i).name = IF Conflicts(i) THEN Unique(Base(i), jobs[i].taken)
                              ELSE Current(i).name
<1>1. Current(i) \in Gist
  BY CurrentIsSound
<1>2. Unique(Base(i), jobs[i].taken) \in TunnelName
  BY BaseIsName, UniqueIsName
<1>3. CASE Conflicts(i)
  BY <1>1, <1>2, <1>3 DEF Gist, Renamed
<1>4. CASE ~Conflicts(i)
  BY <1>1, <1>4 DEF Renamed
<1> QED BY <1>3, <1>4

LEMMA NewTunnelIsSound ==
  ASSUME ImportTypeOK, NEW i \in Importers, HasNext(i)
  PROVE  /\ NewTunnel(i) \in Gist
         /\ NewTunnel(i).name \in TunnelName
         /\ NewTunnel(i).role = Current(i).role
         /\ NewTunnel(i).type = Current(i).type
         /\ NewTunnel(i).name =
              IF i \in Handlers THEN TrimName(Renamed(i).name) ELSE Renamed(i).name
         /\ Key(NewTunnel(i).name) = Key(Renamed(i).name)
         /\ Key(NewTunnel(i).name) \in TunnelName
         /\ NewTunnel(i).set =
              IF i \in Handlers
              THEN [Current(i).set EXCEPT !["serverUser"] = "",
                                          !["localIP"] = OrLoopback(Current(i).set["localIP"])]
              ELSE [f \in Fields |-> IF f \in Trimmed THEN Trim(Current(i).set[f])
                                     ELSE Current(i).set[f]]
<1>1. /\ Renamed(i) \in Gist
      /\ Renamed(i).role = Current(i).role
      /\ Renamed(i).type = Current(i).type
      /\ Renamed(i).set = Current(i).set
  BY RenamedIsSound
<1>2. Renamed(i).name \in TunnelName
  BY <1>1, GistParts
<1>3. Key(TrimName(Renamed(i).name)) = Key(Renamed(i).name)
  BY <1>2, KeyOfTrimmed
<1>4. TrimName(Renamed(i).name) \in TunnelName /\ Key(Renamed(i).name) \in TunnelName
  BY <1>2, TrimNameParts, KeyParts
<1>5. CASE i \in Handlers
  BY <1>1, <1>3, <1>4, <1>5, WebRow DEF NewTunnel
<1>6. CASE i \notin Handlers
  BY <1>1, <1>2, <1>4, <1>6, CommandRow DEF NewTunnel
<1> QED BY <1>5, <1>6

\* The tunnel that a call of the loop makes.
RowOf(i) ==
  [name |-> NewTunnel(i).name, maker |-> i, item |-> Place(i), alive |-> TRUE,
   gist |-> NewTunnel(i)]

LEMMA RowIsSound ==
  ASSUME ImportTypeOK, NEW i \in Importers, HasNext(i)
  PROVE  /\ RowOf(i) \in Tunnel
         /\ RowOf(i).name = NewTunnel(i).name
         /\ RowOf(i).maker = i
         /\ RowOf(i).item = Place(i)
         /\ RowOf(i).alive = TRUE
         /\ RowOf(i).gist = NewTunnel(i)
<1>1. NewTunnel(i) \in Gist /\ NewTunnel(i).name \in TunnelName /\ Place(i) \in Nat
  <2>1. NewTunnel(i) \in Gist /\ NewTunnel(i).name \in TunnelName
    BY NewTunnelIsSound
  <2>2. Place(i) = Len(jobs[i].report) + 1 /\ Len(jobs[i].report) \in Nat
    BY CurrentIsSound
  <2> QED BY <2>1, <2>2
<1>2. RowOf(i) \in Tunnel
  BY <1>1 DEF RowOf, Tunnel
<1> QED BY <1>2 DEF RowOf

LEMMA HandRow ==
  ASSUME NEW n \in HandNames
  PROVE  /\ MadeByHand(n) \in Tunnel
         /\ MadeByHand(n).name = n
         /\ MadeByHand(n).maker = "hand"
         /\ MadeByHand(n).alive = TRUE
  BY PlansAssumption DEF MadeByHand, Tunnel

LEMMA OneMore ==
  ASSUME tunnels \in Seq(Tunnel), NEW row \in Tunnel, tunnels' = Append(tunnels, row)
  PROVE  /\ tunnels' \in Seq(Tunnel)
         /\ Len(tunnels') = Len(tunnels) + 1
         /\ Len(tunnels) \in Nat
         /\ DOMAIN tunnels = 1 .. Len(tunnels)
         /\ DOMAIN tunnels' = 1 .. Len(tunnels) + 1
         /\ tunnels'[Len(tunnels) + 1] = row
         /\ \A r \in DOMAIN tunnels : tunnels'[r] = tunnels[r]
  OBVIOUS

LEMMA OneLess ==
  ASSUME tunnels \in Seq(Tunnel), NEW r \in DOMAIN tunnels,
         tunnels' = [tunnels EXCEPT ![r].alive = FALSE]
  PROVE  /\ tunnels' \in Seq(Tunnel)
         /\ Len(tunnels') = Len(tunnels)
         /\ DOMAIN tunnels' = DOMAIN tunnels
         /\ \A q \in DOMAIN tunnels :
              /\ tunnels'[q].name = tunnels[q].name
              /\ tunnels'[q].maker = tunnels[q].maker
              /\ tunnels'[q].item = tunnels[q].item
              /\ tunnels'[q].gist = tunnels[q].gist
              /\ tunnels'[q].alive => tunnels[q].alive
<1> DEFINE row == [tunnels[r] EXCEPT !.alive = FALSE]
<1>1. tunnels[r] \in Tunnel
  OBVIOUS
<1>2. row \in Tunnel
  BY <1>1 DEF Tunnel
<1>3. /\ row.name = tunnels[r].name
      /\ row.maker = tunnels[r].maker
      /\ row.item = tunnels[r].item
      /\ row.gist = tunnels[r].gist
      /\ row.alive = FALSE
  BY <1>1 DEF Tunnel
<1> HIDE DEF row
<1>4. tunnels' = [tunnels EXCEPT ![r] = row]
  BY DEF row
<1>5. tunnels' \in Seq(Tunnel) /\ Len(tunnels') = Len(tunnels) /\ DOMAIN tunnels' = DOMAIN tunnels
  <2>1. Len(tunnels) \in Nat /\ tunnels \in [1 .. Len(tunnels) -> Tunnel]
    OBVIOUS
  <2>2. tunnels' \in [1 .. Len(tunnels) -> Tunnel] /\ DOMAIN tunnels' = DOMAIN tunnels
    BY <1>2, <1>4, <2>1
  <2> QED BY <2>1, <2>2
<1>6. \A q \in DOMAIN tunnels : tunnels'[q] = IF q = r THEN row ELSE tunnels[q]
  BY <1>4
<1> QED BY <1>3, <1>5, <1>6

LEMMA OneMoreItem ==
  ASSUME NEW report \in Seq(Items), NEW item \in Items
  PROVE  /\ Append(report, item) \in Seq(Items)
         /\ Len(Append(report, item)) = Len(report) + 1
         /\ Len(report) \in Nat
         /\ DOMAIN report = 1 .. Len(report)
         /\ DOMAIN Append(report, item) = 1 .. Len(report) + 1
         /\ Append(report, item)[Len(report) + 1] = item
         /\ \A k \in DOMAIN report : Append(report, item)[k] = report[k]
  OBVIOUS

-----------------------------------------------------------------------------
(***************************************************************************)
(* The variables keep their shape.                                         *)
(***************************************************************************)

Shaped(i) ==
  /\ Len(jobs[i].report) <= Len(DraftsOf(i))
  /\ jobs[i].phase = "done" => Len(jobs[i].report) = Len(DraftsOf(i))
  /\ i \in Handlers /\ jobs[i].phase # "idle" => Len(jobs[i].own) = Len(DraftsOf(i))

LEMMA TypeParts ==
  ImportTypeOK <=> /\ tunnels \in Seq(Tunnel)
                   /\ jobs \in [Importers -> Job]
                   /\ faults \in 0 .. MaxFaults
                   /\ \A i \in Importers : Shaped(i)
  BY DEF ImportTypeOK, Shaped

LEMMA DraftCount ==
  ASSUME jobs \in [Importers -> Job], NEW i \in Importers
  PROVE  /\ Len(DraftsOf(i)) \in Nat
         /\ DOMAIN DraftsOf(i) = 1 .. Len(DraftsOf(i))
         /\ \A k \in DOMAIN DraftsOf(i) : DraftsOf(i)[k].name \in TunnelName
         /\ Len(jobs[i].report) \in Nat
         /\ jobs[i] \in Job
<1>1. jobs[i] \in Job
  OBVIOUS
<1>2. jobs[i].file \in DOMAIN Files /\ jobs[i].report \in Seq(Items)
  BY <1>1, JobParts
<1>3. DraftsOf(i) \in Seq(Gist)
  BY <1>2, DraftsAreSound DEF DraftsOf
<1>4. \A k \in DOMAIN DraftsOf(i) : DraftsOf(i)[k] \in Gist
  BY <1>3
<1> QED BY <1>1, <1>2, <1>3, <1>4, GistParts

LEMMA ShapeStays ==
  ASSUME NEW i \in Importers, jobs'[i] = jobs[i], Shaped(i) PROVE Shaped(i)'
  BY DEF Shaped, DraftsOf

LEMMA SameLength ==
  ASSUME NEW i \in Importers, jobs'[i].file = jobs[i].file
  PROVE  Len(DraftsOf(i))' = Len(DraftsOf(i)) /\ DraftsOf(i)' = DraftsOf(i)
  BY DEF DraftsOf

LEMMA NewJobParts ==
  ASSUME NEW brought \in [file : DOMAIN Files, strategy : Strategies]
  PROVE  /\ NewJob(brought) \in Job
         /\ NewJob(brought).phase = "idle"
         /\ NewJob(brought).report = <<>>
         /\ NewJob(brought).foretold = NoReport
         /\ NewJob(brought).dry = FALSE
         /\ NewJob(brought).since = 0
<1>1. NoReport \in [phase : Phases, found : SUBSET TunnelName, report : Reports]
  BY DEF NoReport, Phases, Reports
<1>2. <<>> \in Reports /\ <<>> \in Seq({"rename", ""}) /\ "idle" \in Phases
  BY DEF Reports, Phases
<1>3. brought.file \in DOMAIN Files /\ brought.strategy \in Strategies
  OBVIOUS
<1>4. NewJob(brought) \in Job
  BY <1>1, <1>2, <1>3 DEF NewJob, Job
<1> QED BY <1>4 DEF NewJob

LEMMA FirstJobs ==
  ASSUME ImportInit, NEW i \in Importers
  PROVE  /\ jobs \in [Importers -> Job]
         /\ jobs[i].phase = "idle"
         /\ jobs[i].report = <<>>
         /\ jobs[i].foretold = NoReport
         /\ jobs[i].dry = FALSE
         /\ jobs[i].since = 0
<1>1. PICK plan \in Plans : jobs = [j \in Importers |-> NewJob(plan[j])]
  BY DEF ImportInit
<1>2. \A j \in Importers : plan[j] \in [file : DOMAIN Files, strategy : Strategies]
  BY PlansAssumption
<1>3. \A j \in Importers : NewJob(plan[j]) \in Job
  BY <1>2, NewJobParts
<1>4. jobs \in [Importers -> Job] /\ jobs[i] = NewJob(plan[i])
  BY <1>1, <1>3
<1>5. plan[i] \in [file : DOMAIN Files, strategy : Strategies]
  BY <1>2
<1>6. /\ NewJob(plan[i]).phase = "idle"
      /\ NewJob(plan[i]).report = <<>>
      /\ NewJob(plan[i]).foretold = NoReport
      /\ NewJob(plan[i]).dry = FALSE
      /\ NewJob(plan[i]).since = 0
  BY <1>5, NewJobParts
<1> QED BY <1>4, <1>6

LEMMA ImportTypeInit == ImportInit => ImportTypeOK
<1> SUFFICES ASSUME ImportInit PROVE ImportTypeOK
  OBVIOUS
<1>1. tunnels \in Seq(Tunnel) /\ faults \in 0 .. MaxFaults
  BY FaultsAssumption DEF ImportInit
<1>2. jobs \in [Importers -> Job]
  <2>1. PICK plan \in Plans : jobs = [j \in Importers |-> NewJob(plan[j])]
    BY DEF ImportInit
  <2>2. \A j \in Importers : plan[j] \in [file : DOMAIN Files, strategy : Strategies]
    BY PlansAssumption
  <2> QED BY <2>1, <2>2, NewJobParts
<1>3. ASSUME NEW i \in Importers PROVE Shaped(i)
  <2>0. jobs[i].phase = "idle" /\ jobs[i].report = <<>>
    BY FirstJobs
  <2>1. jobs[i].phase = "idle" /\ Len(jobs[i].report) = 0
    BY <2>0
  <2> QED BY <1>2, <2>1, DraftCount DEF Shaped
<1> QED BY <1>1, <1>2, <1>3, TypeParts

\* What holds of a step of the loop that reports an item.
LEMMA ReportKeepsType ==
  ASSUME ImportTypeOK, NEW i \in Importers, HasNext(i), NEW item \in Items,
         NEW taken \in SUBSET TunnelName, Reported(i, item, taken),
         tunnels' \in Seq(Tunnel), faults' \in 0 .. MaxFaults
  PROVE  ImportTypeOK'
<1>1. jobs \in [Importers -> Job] /\ \A j \in Importers : Shaped(j)
  BY TypeParts
<1>2. jobs' \in [Importers -> Job] /\ \A j \in Importers \ {i} : jobs'[j] = jobs[j]
  BY <1>1, ReportedJob
<1>3. /\ jobs'[i].report = Append(jobs[i].report, item)
      /\ jobs'[i].phase = jobs[i].phase
      /\ jobs'[i].own = jobs[i].own
      /\ jobs'[i].file = jobs[i].file
  BY <1>1, ReportedParts
<1>4. Shaped(i)'
  <2>1. Len(DraftsOf(i))' = Len(DraftsOf(i))
    BY <1>3, SameLength
  <2>2. /\ Len(jobs[i].report) + 1 <= Len(DraftsOf(i))
        /\ jobs[i].phase = "running"
    BY DEF HasNext, Place
  <2>3. Len(jobs'[i].report) = Len(jobs[i].report) + 1
    <3>1. jobs[i].report \in Seq(Items)
      BY <1>1, JobParts
    <3> QED BY <1>3, <3>1, OneMoreItem
  <2> QED BY <1>1, <1>3, <2>1, <2>2, <2>3 DEF Shaped
<1>5. \A j \in Importers : Shaped(j)'
  BY <1>1, <1>2, <1>4, ShapeStays
<1>6. (/\ tunnels \in Seq(Tunnel)
       /\ jobs \in [Importers -> Job]
       /\ faults \in 0 .. MaxFaults
       /\ \A j \in Importers : Shaped(j))'
  BY <1>2, <1>5
<1> QED BY <1>6 DEF ImportTypeOK, Shaped

LEMMA TunnelsKeepType ==
  ASSUME ImportTypeOK, UNCHANGED <<jobs, faults>>, tunnels' \in Seq(Tunnel)
  PROVE  ImportTypeOK'
  BY DEF ImportTypeOK, DraftsOf

\* A step that changes one job, and what must be known of it.
LEMMA JobKeepsType ==
  ASSUME ImportTypeOK, NEW i \in Importers, jobs' \in [Importers -> Job],
         \A j \in Importers \ {i} : jobs'[j] = jobs[j],
         tunnels' \in Seq(Tunnel), faults' \in 0 .. MaxFaults, Shaped(i)'
  PROVE  ImportTypeOK'
<1>1. \A j \in Importers : Shaped(j)'
  BY TypeParts, ShapeStays
<1>2. (/\ tunnels \in Seq(Tunnel)
       /\ jobs \in [Importers -> Job]
       /\ faults \in 0 .. MaxFaults
       /\ \A j \in Importers : Shaped(j))'
  BY <1>1
<1> QED BY <1>2 DEF ImportTypeOK, Shaped

LEMMA PreviewEffect ==
  ASSUME ImportTypeOK, NEW h \in Handlers, Preview(h)
  PROVE  /\ jobs[h].phase = "idle"
         /\ jobs'[h].phase = "previewed"
         /\ jobs'[h].report = jobs[h].report
         /\ jobs'[h].taken = jobs[h].taken
         /\ jobs'[h].file = jobs[h].file
         /\ jobs'[h].dry = jobs[h].dry
         /\ jobs'[h].found = jobs[h].found
         /\ jobs'[h].since = jobs[h].since
         /\ jobs'[h].foretold = jobs[h].foretold
         /\ jobs' \in [Importers -> Job]
         /\ \A j \in Importers \ {h} : jobs'[j] = jobs[j]
         /\ UNCHANGED <<tunnels, faults>>
         /\ ImportTypeOK'
<1> DEFINE drafts == DraftsOf(h)
           own == [k \in DOMAIN drafts |-> IF Key(drafts[k].name) \in Names THEN "rename" ELSE ""]
           job == [jobs[h] EXCEPT !.phase = "previewed", !.own = own]
<1>1. h \in Importers
  BY DEF Importers
<1>2. jobs \in [Importers -> Job] /\ jobs[h] \in Job /\ Shaped(h)
  BY <1>1, TypeParts
<1>3. own \in Seq({"rename", ""}) /\ Len(own) = Len(drafts)
  <2>1. Len(drafts) \in Nat /\ DOMAIN drafts = 1 .. Len(drafts)
    BY <1>1, <1>2, DraftCount
  <2> QED BY <2>1
<1>4. jobs' = [jobs EXCEPT ![h] = job]
  BY DEF Preview
<1> HIDE DEF own
<1>5. /\ job \in Job /\ job.phase = "previewed" /\ job.own = own /\ job.file = jobs[h].file
      /\ job.report = jobs[h].report
      /\ job.taken = jobs[h].taken
      /\ job.dry = jobs[h].dry
      /\ job.found = jobs[h].found
      /\ job.since = jobs[h].since
      /\ job.foretold = jobs[h].foretold
  BY <1>2, <1>3, PreviewedJob
<1> HIDE DEF job, drafts
<1>6. jobs' \in [Importers -> Job] /\ jobs'[h] = job /\ \A j \in Importers \ {h} : jobs'[j] = jobs[j]
  BY <1>1, <1>2, <1>4, <1>5
<1>7. UNCHANGED <<tunnels, faults>> /\ jobs[h].phase = "idle"
  BY DEF Preview
<1>8. Shaped(h)'
  <2>1. Len(DraftsOf(h))' = Len(DraftsOf(h))
    BY <1>1, <1>5, <1>6, SameLength
  <2>2. Len(jobs[h].report) <= Len(DraftsOf(h))
    BY <1>2 DEF Shaped
  <2> QED BY <1>3, <1>5, <1>6, <2>1, <2>2 DEF Shaped, drafts
<1>9. ImportTypeOK'
  <2>1. tunnels' \in Seq(Tunnel) /\ faults' \in 0 .. MaxFaults
    BY <1>7, TypeParts
  <2> QED BY <1>1, <1>6, <1>8, <2>1, JobKeepsType
<1> QED BY <1>5, <1>6, <1>7, <1>9

\* A job that begins, from what was left of it.
LEMMA BeginEffect ==
  ASSUME ImportTypeOK, NEW i \in Importers, NEW job \in Job, NEW dry \in BOOLEAN,
         jobs' = [jobs EXCEPT ![i] = Began(job, dry)], UNCHANGED <<tunnels, faults>>,
         job.file = jobs[i].file, job.own = jobs[i].own,
         Len(job.report) <= Len(DraftsOf(i)), i \in Handlers => jobs[i].phase # "idle"
  PROVE  /\ jobs'[i].phase = "running"
         /\ jobs'[i].dry = dry
         /\ jobs'[i].taken = Names
         /\ jobs'[i].found = Names
         /\ jobs'[i].since = Len(tunnels)
         /\ jobs'[i].file = jobs[i].file
         /\ jobs'[i].own = job.own
         /\ jobs'[i].strategy = job.strategy
         /\ jobs'[i].report = job.report
         /\ jobs'[i].foretold = job.foretold
         /\ jobs' \in [Importers -> Job]
         /\ \A j \in Importers \ {i} : jobs'[j] = jobs[j]
         /\ UNCHANGED <<tunnels, faults>>
         /\ ImportTypeOK'
<1> DEFINE began == Began(job, dry)
<1>1. tunnels \in Seq(Tunnel) /\ jobs \in [Importers -> Job] /\ Shaped(i) /\ faults \in 0 .. MaxFaults
  BY TypeParts
<1>2. Names \in SUBSET TunnelName
  BY <1>1, NamesAreNames
<1>3. /\ began \in Job /\ began.phase = "running" /\ began.dry = dry /\ began.taken = Names
      /\ began.found = Names /\ began.since = Len(tunnels) /\ began.file = job.file
      /\ began.own = job.own /\ began.strategy = job.strategy /\ began.report = job.report
      /\ began.foretold = job.foretold
  BY <1>1, <1>2, BeganJob
<1> HIDE DEF began
<1>4. jobs' = [jobs EXCEPT ![i] = began]
  BY DEF began
<1>5. jobs' \in [Importers -> Job] /\ jobs'[i] = began /\ \A j \in Importers \ {i} : jobs'[j] = jobs[j]
  BY <1>1, <1>3, <1>4
<1>6. Shaped(i)'
  <2>1. Len(DraftsOf(i))' = Len(DraftsOf(i))
    BY <1>3, <1>5, SameLength
  <2> QED BY <1>1, <1>3, <1>5, <2>1 DEF Shaped
<1>7. ImportTypeOK'
  BY <1>1, <1>5, <1>6, JobKeepsType
<1> QED BY <1>3, <1>5, <1>7

LEMMA BeginCommitEffect ==
  ASSUME ImportTypeOK, NEW h \in Handlers, BeginCommit(h)
  PROVE  /\ jobs[h].phase = "previewed"
         /\ jobs'[h].phase = "running"
         /\ jobs'[h].dry = FALSE
         /\ jobs'[h].taken = Names
         /\ jobs'[h].found = Names
         /\ jobs'[h].since = Len(tunnels)
         /\ jobs'[h].file = jobs[h].file
         /\ jobs'[h].report = jobs[h].report
         /\ jobs'[h].foretold = jobs[h].foretold
         /\ jobs' \in [Importers -> Job]
         /\ \A j \in Importers \ {h} : jobs'[j] = jobs[j]
         /\ UNCHANGED <<tunnels, faults>>
         /\ ImportTypeOK'
<1>1. h \in Importers
  BY DEF Importers
<1>2. jobs[h] \in Job /\ Len(jobs[h].report) <= Len(DraftsOf(h))
  BY <1>1, TypeParts DEF Shaped
<1>3. /\ jobs[h].phase = "previewed" /\ jobs' = [jobs EXCEPT ![h] = Began(jobs[h], FALSE)]
      /\ UNCHANGED <<tunnels, faults>>
  BY DEF BeginCommit
<1> QED BY <1>1, <1>2, <1>3, BeginEffect

LEMMA BeginCommandEffect ==
  ASSUME ImportTypeOK, NEW s \in Commands, NEW dry \in BOOLEAN, BeginCommand(s, dry)
  PROVE  /\ jobs[s].phase = "idle"
         /\ jobs'[s].phase = "running"
         /\ jobs'[s].dry = dry
         /\ jobs'[s].taken = Names
         /\ jobs'[s].found = Names
         /\ jobs'[s].since = Len(tunnels)
         /\ jobs'[s].file = jobs[s].file
         /\ jobs'[s].strategy = jobs[s].strategy
         /\ jobs'[s].report = jobs[s].report
         /\ jobs'[s].foretold = jobs[s].foretold
         /\ jobs' \in [Importers -> Job]
         /\ \A j \in Importers \ {s} : jobs'[j] = jobs[j]
         /\ UNCHANGED <<tunnels, faults>>
         /\ ImportTypeOK'
<1>1. s \in Importers /\ s \notin Handlers
  BY ImportersAssumption DEF Importers
<1>2. jobs[s] \in Job /\ Len(jobs[s].report) <= Len(DraftsOf(s))
  BY <1>1, TypeParts DEF Shaped
<1>3. /\ jobs[s].phase = "idle" /\ jobs' = [jobs EXCEPT ![s] = Began(jobs[s], dry)]
      /\ UNCHANGED <<tunnels, faults>>
  BY DEF BeginCommand
<1> QED BY <1>1, <1>2, <1>3, BeginEffect

LEMMA RepeatEffect ==
  ASSUME ImportTypeOK, NEW s \in Commands, RepeatCommand(s)
  PROVE  /\ jobs[s].phase \in {"done", "aborted"}
         /\ jobs[s].dry
         /\ jobs'[s].phase = "running"
         /\ jobs'[s].dry = FALSE
         /\ jobs'[s].taken = Names
         /\ jobs'[s].found = Names
         /\ jobs'[s].since = Len(tunnels)
         /\ jobs'[s].file = jobs[s].file
         /\ jobs'[s].strategy = jobs[s].strategy
         /\ jobs'[s].report = <<>>
         /\ jobs'[s].foretold =
              [phase |-> jobs[s].phase, found |-> jobs[s].found, report |-> jobs[s].report]
         /\ jobs' \in [Importers -> Job]
         /\ \A j \in Importers \ {s} : jobs'[j] = jobs[j]
         /\ UNCHANGED <<tunnels, faults>>
         /\ ImportTypeOK'
<1>1. s \in Importers /\ s \notin Handlers
  BY ImportersAssumption DEF Importers
<1>2. jobs[s] \in Job /\ jobs \in [Importers -> Job]
  BY <1>1, TypeParts
<1>3. /\ jobs[s].phase \in {"done", "aborted"} /\ jobs[s].dry
      /\ jobs' = [jobs EXCEPT ![s] = Began(Repeated(jobs[s]), FALSE)]
      /\ UNCHANGED <<tunnels, faults>>
  BY DEF RepeatCommand, Repeated
<1>4. PICK job \in Job :
        /\ job = Repeated(jobs[s])
        /\ job.file = jobs[s].file /\ job.own = jobs[s].own
        /\ job.strategy = jobs[s].strategy /\ job.report = <<>>
        /\ job.foretold =
             [phase |-> jobs[s].phase, found |-> jobs[s].found, report |-> jobs[s].report]
  BY <1>2, RepeatedJob
<1>5. Len(job.report) <= Len(DraftsOf(s))
  BY <1>1, <1>2, <1>4, DraftCount
<1>6. jobs' = [jobs EXCEPT ![s] = Began(job, FALSE)] /\ UNCHANGED <<tunnels, faults>>
  BY <1>3, <1>4
<1>7. /\ jobs'[s].phase = "running" /\ jobs'[s].dry = FALSE /\ jobs'[s].taken = Names
      /\ jobs'[s].found = Names /\ jobs'[s].since = Len(tunnels) /\ jobs'[s].file = jobs[s].file
      /\ jobs'[s].strategy = job.strategy /\ jobs'[s].report = job.report
      /\ jobs'[s].foretold = job.foretold /\ jobs' \in [Importers -> Job]
      /\ \A j \in Importers \ {s} : jobs'[j] = jobs[j]
      /\ ImportTypeOK'
  <2>1. job \in Job /\ job.file = jobs[s].file /\ job.own = jobs[s].own
    BY <1>4
  <2>2. s \in Handlers => jobs[s].phase # "idle"
    BY <1>1
  <2>3. ImportTypeOK'
    BY <1>1, <1>5, <1>6, <2>1, <2>2, BeginEffect
  <2>4. jobs'[s].phase = "running" /\ jobs'[s].dry = FALSE /\ jobs'[s].taken = Names
    BY <1>1, <1>5, <1>6, <2>1, <2>2, BeginEffect
  <2>5. /\ jobs'[s].found = Names /\ jobs'[s].since = Len(tunnels)
        /\ jobs'[s].file = jobs[s].file /\ jobs'[s].strategy = job.strategy
    BY <1>1, <1>5, <1>6, <2>1, <2>2, BeginEffect
  <2>6. jobs'[s].report = job.report /\ jobs'[s].foretold = job.foretold
    BY <1>1, <1>5, <1>6, <2>1, <2>2, BeginEffect
  <2>7. jobs' \in [Importers -> Job] /\ \A j \in Importers \ {s} : jobs'[j] = jobs[j]
    BY <1>1, <1>5, <1>6, <2>1, <2>2, BeginEffect
  <2> QED BY <2>3, <2>4, <2>5, <2>6, <2>7
<1> QED BY <1>3, <1>4, <1>7

LEMMA PhaseEffect ==
  ASSUME ImportTypeOK, NEW i \in Importers, NEW phase \in {"done", "lost"},
         jobs[i].phase = "running", phase = "done" => Len(jobs[i].report) >= Len(DraftsOf(i)),
         jobs' = [jobs EXCEPT ![i].phase = phase], UNCHANGED tunnels, faults' \in 0 .. MaxFaults
  PROVE  ImportTypeOK'
<1>1. phase \in Phases
  BY DEF Phases
<1>2. jobs \in [Importers -> Job] /\ tunnels \in Seq(Tunnel) /\ Shaped(i)
  BY TypeParts
<1>3. /\ jobs' \in [Importers -> Job] /\ \A j \in Importers \ {i} : jobs'[j] = jobs[j]
      /\ jobs'[i].phase = phase /\ jobs'[i].report = jobs[i].report /\ jobs'[i].own = jobs[i].own
      /\ jobs'[i].file = jobs[i].file
  BY <1>1, <1>2, PhaseJob
<1>4. Shaped(i)'
  <2>1. Len(DraftsOf(i))' = Len(DraftsOf(i))
    BY <1>3, SameLength
  <2>2. Len(DraftsOf(i)) \in Nat /\ Len(jobs[i].report) \in Nat
    BY <1>2, DraftCount
  <2> QED BY <1>2, <1>3, <2>1, <2>2 DEF Shaped
<1> QED BY <1>2, <1>3, <1>4, JobKeepsType

\* The loop passes a draft over.
LEMMA PassEffect ==
  ASSUME ImportTypeOK, NEW i \in Importers, Pass(i)
  PROVE  /\ HasNext(i)
         /\ UNCHANGED <<tunnels, faults>>
         /\ ImportTypeOK'
         /\ \E result \in {"skipped", "error"} :
              /\ result = "skipped" => Conflicts(i) /\ Strategy(i) = "skip"
              /\ result = "error" => i \in Handlers
              /\ Item(result, Current(i).name, 0) \in Items
              /\ Reported(i, Item(result, Current(i).name, 0), jobs[i].taken)
<1>1. HasNext(i) /\ UNCHANGED <<tunnels, faults>>
  BY DEF Pass
<1>2. Current(i).name \in TunnelName
  BY <1>1, CurrentIsSound
<1>3. PICK result \in {"skipped", "error"} :
              /\ result = "skipped" => Conflicts(i) /\ Strategy(i) = "skip"
              /\ result = "error" => i \in Handlers
              /\ Reported(i, Item(result, Current(i).name, 0), jobs[i].taken)
  BY DEF Pass
<1>4. Item(result, Current(i).name, 0) \in Items
  BY <1>2, ItemIsItem
<1>5. jobs[i].taken \in SUBSET TunnelName /\ tunnels' \in Seq(Tunnel) /\ faults' \in 0 .. MaxFaults
  <2>1. jobs[i] \in Job /\ tunnels \in Seq(Tunnel) /\ faults \in 0 .. MaxFaults
    BY TypeParts
  <2> QED BY <1>1, <2>1, JobParts
<1>6. ImportTypeOK'
  BY <1>1, <1>3, <1>4, <1>5, ReportKeepsType
<1> QED BY <1>1, <1>3, <1>4, <1>6

LEMMA MakeEffect ==
  ASSUME ImportTypeOK, NEW i \in Importers, Make(i)
  PROVE  /\ Importable(i) /\ ~jobs[i].dry
         /\ tunnels' = Append(tunnels, RowOf(i))
         /\ faults' = faults
         /\ Len(tunnels) \in Nat
         /\ Item("created", NewTunnel(i).name, Len(tunnels) + 1) \in Items
         /\ jobs[i].taken \cup {Key(NewTunnel(i).name)} \in SUBSET TunnelName
         /\ Reported(i, Item("created", NewTunnel(i).name, Len(tunnels) + 1),
                     jobs[i].taken \cup {Key(NewTunnel(i).name)})
         /\ ImportTypeOK'
<1>1. /\ Importable(i) /\ ~jobs[i].dry /\ tunnels' = Append(tunnels, RowOf(i)) /\ faults' = faults
      /\ Reported(i, Item("created", NewTunnel(i).name, Len(tunnels) + 1),
                     jobs[i].taken \cup {Key(NewTunnel(i).name)})
  BY DEF Make, RowOf
<1>2. HasNext(i)
  BY <1>1 DEF Importable
<1>3. jobs[i] \in Job /\ tunnels \in Seq(Tunnel) /\ faults \in 0 .. MaxFaults
  BY TypeParts
<1>4. Len(tunnels) \in Nat /\ tunnels' \in Seq(Tunnel)
  <2>1. RowOf(i) \in Tunnel
    BY <1>2, RowIsSound
  <2> QED BY <1>1, <1>3, <2>1
<1>5. NewTunnel(i).name \in TunnelName /\ Key(NewTunnel(i).name) \in TunnelName
  BY <1>2, NewTunnelIsSound
<1>6. jobs[i].taken \cup {Key(NewTunnel(i).name)} \in SUBSET TunnelName
  BY <1>3, <1>5, JobParts
<1>7. Item("created", NewTunnel(i).name, Len(tunnels) + 1) \in Items
  <2>1. Len(tunnels) + 1 \in Nat
    BY <1>4
  <2> QED BY <1>5, <2>1, ItemIsItem
<1>8. ImportTypeOK'
  BY <1>1, <1>2, <1>3, <1>4, <1>6, <1>7, ReportKeepsType
<1> QED BY <1>1, <1>4, <1>6, <1>7, <1>8

LEMMA MakeFailsEffect ==
  ASSUME ImportTypeOK, NEW i \in Importers, MakeFails(i)
  PROVE  /\ Importable(i) /\ ~jobs[i].dry
         /\ tunnels' = tunnels
         /\ faults' = faults + 1
         /\ Item("error", Current(i).name, 0) \in Items
         /\ Reported(i, Item("error", Current(i).name, 0), jobs[i].taken)
         /\ ImportTypeOK'
<1>1. /\ Importable(i) /\ ~jobs[i].dry /\ tunnels' = tunnels /\ faults' = faults + 1
      /\ faults < MaxFaults
      /\ Reported(i, Item("error", Current(i).name, 0), jobs[i].taken)
  BY DEF MakeFails
<1>2. HasNext(i)
  BY <1>1 DEF Importable
<1>3. Item("error", Current(i).name, 0) \in Items
  BY <1>2, CurrentIsSound, ItemIsItem
<1>4. jobs[i].taken \in SUBSET TunnelName /\ tunnels' \in Seq(Tunnel) /\ faults' \in 0 .. MaxFaults
  <2>1. jobs[i] \in Job /\ tunnels \in Seq(Tunnel) /\ faults \in 0 .. MaxFaults
    BY TypeParts
  <2>2. faults' \in 0 .. MaxFaults
    BY <1>1, <2>1, FaultsAssumption
  <2> QED BY <1>1, <2>1, <2>2, JobParts
<1>5. ImportTypeOK'
  BY <1>1, <1>2, <1>3, <1>4, ReportKeepsType
<1> QED BY <1>1, <1>3, <1>5

LEMMA ForeseeEffect ==
  ASSUME ImportTypeOK, NEW s \in Commands, Foresee(s)
  PROVE  /\ Importable(s) /\ jobs[s].dry
         /\ UNCHANGED <<tunnels, faults>>
         /\ Item("would-create", NewTunnel(s).name, 0) \in Items
         /\ jobs[s].taken \cup {Key(NewTunnel(s).name)} \in SUBSET TunnelName
         /\ Reported(s, Item("would-create", NewTunnel(s).name, 0),
                     jobs[s].taken \cup {Key(NewTunnel(s).name)})
         /\ ImportTypeOK'
<1>1. /\ Importable(s) /\ jobs[s].dry /\ UNCHANGED <<tunnels, faults>>
      /\ Reported(s, Item("would-create", NewTunnel(s).name, 0),
                     jobs[s].taken \cup {Key(NewTunnel(s).name)})
  BY DEF Foresee
<1>2. HasNext(s) /\ s \in Importers
  BY <1>1 DEF Importable, Importers
<1>3. jobs[s] \in Job /\ tunnels' \in Seq(Tunnel) /\ faults' \in 0 .. MaxFaults
  BY <1>1, <1>2, TypeParts
<1>4. NewTunnel(s).name \in TunnelName /\ Key(NewTunnel(s).name) \in TunnelName
  BY <1>2, NewTunnelIsSound
<1>5. jobs[s].taken \cup {Key(NewTunnel(s).name)} \in SUBSET TunnelName
  BY <1>3, <1>4, JobParts
<1>6. Item("would-create", NewTunnel(s).name, 0) \in Items
  BY <1>4, ItemIsItem
<1>7. ImportTypeOK'
  BY <1>1, <1>2, <1>3, <1>5, <1>6, ReportKeepsType
<1> QED BY <1>1, <1>5, <1>6, <1>7

LEMMA AbortEffect ==
  ASSUME ImportTypeOK, NEW s \in Commands, Abort(s)
  PROVE  /\ HasNext(s) /\ Conflicts(s) /\ Strategy(s) = "error"
         /\ UNCHANGED <<tunnels, faults>>
         /\ Item("error", Current(s).name, 0) \in Items
         /\ jobs' = [jobs EXCEPT ![s].phase = "aborted",
                                 ![s].report = Append(@, Item("error", Current(s).name, 0))]
         /\ ImportTypeOK'
<1>1. /\ HasNext(s) /\ Conflicts(s) /\ Strategy(s) = "error" /\ UNCHANGED <<tunnels, faults>>
      /\ jobs' = [jobs EXCEPT ![s].phase = "aborted",
                              ![s].report = Append(@, Item("error", Current(s).name, 0))]
  BY DEF Abort
<1>2. s \in Importers /\ s \notin Handlers
  BY ImportersAssumption DEF Importers
<1>3. Item("error", Current(s).name, 0) \in Items
  BY <1>1, <1>2, CurrentIsSound, ItemIsItem
<1>4. jobs \in [Importers -> Job] /\ tunnels' \in Seq(Tunnel) /\ faults' \in 0 .. MaxFaults
  BY <1>1, TypeParts
<1>5. /\ jobs' \in [Importers -> Job] /\ \A j \in Importers \ {s} : jobs'[j] = jobs[j]
      /\ jobs'[s].phase = "aborted" /\ jobs'[s].file = jobs[s].file
      /\ jobs'[s].report = Append(jobs[s].report, Item("error", Current(s).name, 0))
  BY <1>1, <1>2, <1>3, <1>4, AbortedJob
<1>6. Shaped(s)'
  <2>1. Len(DraftsOf(s))' = Len(DraftsOf(s))
    BY <1>2, <1>5, SameLength
  <2>2. jobs[s].report \in Seq(Items)
    BY <1>2, <1>4, JobParts
  <2>3. Len(jobs'[s].report) = Len(jobs[s].report) + 1
    BY <1>3, <1>5, <2>2, OneMoreItem
  <2> QED BY <1>1, <1>2, <1>5, <2>1, <2>3 DEF Shaped, HasNext, Place
<1>7. ImportTypeOK'
  BY <1>2, <1>4, <1>5, <1>6, JobKeepsType
<1> QED BY <1>1, <1>3, <1>7

LEMMA FinishEffect ==
  ASSUME ImportTypeOK, NEW i \in Importers, Finish(i)
  PROVE  /\ jobs[i].phase = "running" /\ Place(i) > Len(DraftsOf(i))
         /\ UNCHANGED <<tunnels, faults>>
         /\ jobs' = [jobs EXCEPT ![i].phase = "done"]
         /\ "done" \in Phases
         /\ ImportTypeOK'
<1>1. /\ jobs[i].phase = "running" /\ Place(i) > Len(DraftsOf(i)) /\ UNCHANGED <<tunnels, faults>>
      /\ jobs' = [jobs EXCEPT ![i].phase = "done"]
  BY DEF Finish
<1>2. Len(jobs[i].report) >= Len(DraftsOf(i))
  BY <1>1, TypeParts, DraftCount DEF Place
<1>3. faults' \in 0 .. MaxFaults
  BY <1>1, TypeParts
<1>4. ImportTypeOK'
  BY <1>1, <1>2, <1>3, PhaseEffect
<1> QED BY <1>1, <1>4 DEF Phases

LEMMA LoseEffect ==
  ASSUME ImportTypeOK, NEW i \in Importers, Lose(i)
  PROVE  /\ jobs[i].phase = "running"
         /\ UNCHANGED tunnels
         /\ faults' = faults + 1
         /\ jobs' = [jobs EXCEPT ![i].phase = "lost"]
         /\ "lost" \in Phases
         /\ ImportTypeOK'
<1>1. /\ jobs[i].phase = "running" /\ UNCHANGED tunnels /\ faults' = faults + 1 /\ faults < MaxFaults
      /\ jobs' = [jobs EXCEPT ![i].phase = "lost"]
  BY DEF Lose
<1>2. faults' \in 0 .. MaxFaults
  BY <1>1, TypeParts, FaultsAssumption
<1>3. ImportTypeOK'
  BY <1>1, <1>2, PhaseEffect
<1> QED BY <1>1, <1>3 DEF Phases

LEMMA CreateByHandEffect ==
  ASSUME ImportTypeOK, NEW n \in HandNames, CreateByHand(n)
  PROVE  /\ tunnels' = Append(tunnels, MadeByHand(n))
         /\ UNCHANGED <<jobs, faults>>
         /\ ImportTypeOK'
<1>1. tunnels' = Append(tunnels, MadeByHand(n)) /\ UNCHANGED <<jobs, faults>>
  BY DEF CreateByHand
<1>2. tunnels' \in Seq(Tunnel)
  <2>1. MadeByHand(n) \in Tunnel /\ tunnels \in Seq(Tunnel)
    BY HandRow, TypeParts
  <2> QED BY <1>1, <2>1
<1> QED BY <1>1, <1>2, TunnelsKeepType

LEMMA DeleteTunnelEffect ==
  ASSUME ImportTypeOK, NEW r \in DOMAIN tunnels, DeleteTunnel(r)
  PROVE  /\ tunnels' = [tunnels EXCEPT ![r].alive = FALSE]
         /\ UNCHANGED <<jobs, faults>>
         /\ ImportTypeOK'
<1>1. tunnels' = [tunnels EXCEPT ![r].alive = FALSE] /\ UNCHANGED <<jobs, faults>>
  BY DEF DeleteTunnel
<1>2. tunnels' \in Seq(Tunnel)
  BY <1>1, TypeParts, OneLess
<1> QED BY <1>1, <1>2, TunnelsKeepType

LEMMA ImportTypeStep == ImportTypeOK /\ [ImportNext]_importVars => ImportTypeOK'
<1> SUFFICES ASSUME ImportTypeOK, [ImportNext]_importVars PROVE ImportTypeOK'
  OBVIOUS
<1>1. ASSUME NEW n \in HandNames, CreateByHand(n) PROVE ImportTypeOK'
  BY <1>1, CreateByHandEffect
<1>2. ASSUME NEW r \in DOMAIN tunnels, DeleteTunnel(r) PROVE ImportTypeOK'
  BY <1>2, DeleteTunnelEffect
<1>3. ASSUME NEW h \in Handlers, Preview(h) \/ BeginCommit(h) PROVE ImportTypeOK'
  BY <1>3, PreviewEffect, BeginCommitEffect
<1>4. ASSUME NEW s \in Commands, NEW dry \in BOOLEAN, BeginCommand(s, dry) PROVE ImportTypeOK'
  BY <1>4, BeginCommandEffect
<1>5. ASSUME NEW s \in Commands, RepeatCommand(s) \/ Abort(s) \/ Foresee(s) PROVE ImportTypeOK'
  BY <1>5, RepeatEffect, AbortEffect, ForeseeEffect
<1>6. ASSUME NEW i \in Importers, Pass(i) \/ Make(i) \/ MakeFails(i) \/ Finish(i) \/ Lose(i)
      PROVE  ImportTypeOK'
  BY <1>6, PassEffect, MakeEffect, MakeFailsEffect, FinishEffect, LoseEffect
<1>7. CASE UNCHANGED importVars
  BY <1>7 DEF importVars, ImportTypeOK, DraftsOf
<1> QED BY <1>1, <1>2, <1>3, <1>4, <1>5, <1>6, <1>7 DEF ImportNext

\* The import never leaves its types: no report runs past its drafts, and the
\* rows it makes are rows (the store, the handlers and the command line).
THEOREM ImportTypeCorrect == ImportSpec => []ImportTypeOK
  BY ImportTypeInit, ImportTypeStep, PTL DEF ImportSpec

-----------------------------------------------------------------------------
(***************************************************************************)
(* What the reports say: HonestInv.  An import knows the tunnels that it read*)
(* and those that it made, and its report has a line for each of the latter.*)
(***************************************************************************)

\* i has made nothing so far.
NoneYet(i) ==
  jobs[i].phase \in {"idle", "previewed"} \/ jobs[i].dry
    => \A r \in DOMAIN tunnels : tunnels[r].maker # i

\* What i made came after it had read the names.
MadeSince(i) ==
  /\ jobs[i].since <= Len(tunnels)
  /\ \A r \in DOMAIN tunnels : tunnels[r].maker = i => r > jobs[i].since

\* It believes taken what it could see and what it made.
SeesTaken(i) ==
  jobs[i].phase = "running" =>
    \A q \in Live : q <= jobs[i].since \/ tunnels[q].maker = i
                      => Key(tunnels[q].name) \in jobs[i].taken

\* A tunnel bore the name t, or the first n items of the report announce one that will.
Bore(t) == \E r \in DOMAIN tunnels : Key(tunnels[r].name) = t
Announced(report, n, t) ==
  \E j \in 1 .. n : report[j].result = "would-create" /\ Key(report[j].name) = t
TakenExplained(i) ==
  jobs[i].phase = "running" =>
    \A t \in jobs[i].taken : Bore(t) \/ Announced(jobs[i].report, Len(jobs[i].report), t)

\* The clauses of ReportIsTrue.
CreatedExist(i) ==
  \A k \in DOMAIN jobs[i].report :
    LET item == jobs[i].report[k]
    IN  item.result = "created" =>
          /\ item.id \in DOMAIN tunnels
          /\ tunnels[item.id].maker = i /\ tunnels[item.id].item = k
          /\ tunnels[item.id].name = item.name
MadeReported(i) ==
  \A r \in DOMAIN tunnels :
    tunnels[r].maker = i =>
      /\ tunnels[r].item \in DOMAIN jobs[i].report
      /\ jobs[i].report[tunnels[r].item].result = "created"
SkippedExplained(i) ==
  \A k \in DOMAIN jobs[i].report :
    jobs[i].report[k].result = "skipped" =>
      LET t == Key(jobs[i].report[k].name) IN Bore(t) \/ Announced(jobs[i].report, k - 1, t)
BlankAtFirst(i) == jobs[i].phase \in {"idle", "previewed"} => jobs[i].report = <<>>

Honest(i) ==
  /\ NoneYet(i) /\ MadeSince(i) /\ SeesTaken(i) /\ TakenExplained(i)
  /\ CreatedExist(i) /\ MadeReported(i) /\ SkippedExplained(i) /\ BlankAtFirst(i)
HonestInv == ImportTypeOK /\ \A i \in Importers : Honest(i)

\* No tunnel is forgotten, and none is made in the name of i.
OthersOnly(i) ==
  /\ Len(tunnels) <= Len(tunnels')
  /\ \A r \in DOMAIN tunnels :
       /\ r \in DOMAIN tunnels'
       /\ tunnels'[r].name = tunnels[r].name
       /\ tunnels'[r].maker = tunnels[r].maker
       /\ tunnels'[r].item = tunnels[r].item
       /\ tunnels'[r].alive => tunnels[r].alive
  /\ \A r \in DOMAIN tunnels' \ DOMAIN tunnels :
       r > Len(tunnels) /\ tunnels'[r].maker # i

LEMMA SameTunnels == ASSUME UNCHANGED tunnels, tunnels \in Seq(Tunnel), NEW i PROVE OthersOnly(i)
  BY DEF OthersOnly

LEMMA MoreTunnels ==
  ASSUME tunnels \in Seq(Tunnel), NEW row \in Tunnel, tunnels' = Append(tunnels, row), NEW i,
         row.maker # i
  PROVE  OthersOnly(i)
<1>1. /\ Len(tunnels') = Len(tunnels) + 1 /\ Len(tunnels) \in Nat
      /\ DOMAIN tunnels = 1 .. Len(tunnels) /\ DOMAIN tunnels' = 1 .. Len(tunnels) + 1
      /\ tunnels'[Len(tunnels) + 1] = row
      /\ \A r \in DOMAIN tunnels : tunnels'[r] = tunnels[r]
  BY OneMore
<1> QED BY <1>1 DEF OthersOnly

LEMMA LessTunnels ==
  ASSUME tunnels \in Seq(Tunnel), NEW r \in DOMAIN tunnels,
         tunnels' = [tunnels EXCEPT ![r].alive = FALSE], NEW i
  PROVE  OthersOnly(i)
<1>1. Len(tunnels) \in Nat
  OBVIOUS
<1> QED BY <1>1, OneLess DEF OthersOnly

LEMMA BoreStays ==
  ASSUME NEW i, OthersOnly(i), NEW t, Bore(t) PROVE Bore(t)'
  BY DEF OthersOnly, Bore

\* Nothing that matters here happens to the job, and others make tunnels or delete them.
LEMMA QuietKeepsHonest ==
  ASSUME NEW i \in Importers, Honest(i), OthersOnly(i),
         tunnels \in Seq(Tunnel), jobs \in [Importers -> Job],
         jobs'[i].report = jobs[i].report, jobs'[i].taken = jobs[i].taken,
         jobs'[i].since = jobs[i].since, jobs'[i].dry = jobs[i].dry,
         jobs'[i].phase = "running" => jobs[i].phase = "running",
         jobs'[i].phase \in {"idle", "previewed"} => jobs[i].phase \in {"idle", "previewed"}
  PROVE  Honest(i)'
<1>0. Len(tunnels) \in Nat /\ jobs[i].since \in Nat /\ \A r \in DOMAIN tunnels : r \in Nat
  <2>1. jobs[i] \in Job
    OBVIOUS
  <2>2. jobs[i].since \in Nat
    BY <2>1, JobParts
  <2> QED BY <2>2
<1>1. NoneYet(i)'
  BY DEF Honest, NoneYet, OthersOnly
<1>2. MadeSince(i)'
  <2>1. jobs[i].since <= Len(tunnels')
    BY <1>0 DEF Honest, MadeSince, OthersOnly
  <2>2. \A r \in DOMAIN tunnels' : tunnels'[r].maker = i => r > jobs[i].since
    BY DEF Honest, MadeSince, OthersOnly
  <2> QED BY <2>1, <2>2 DEF MadeSince
<1>3. SeesTaken(i)'
  <2>1. SUFFICES ASSUME jobs'[i].phase = "running", NEW q \in Live',
                        q <= jobs[i].since \/ tunnels'[q].maker = i
                 PROVE  Key(tunnels'[q].name) \in jobs[i].taken
    BY DEF SeesTaken
  <2>2. q \in DOMAIN tunnels
    BY <1>0, <2>1 DEF OthersOnly, Live, Honest, MadeSince
  <2>3. q \in Live /\ tunnels'[q].name = tunnels[q].name /\ tunnels'[q].maker = tunnels[q].maker
    BY <2>2 DEF OthersOnly, Live
  <2> QED BY <2>1, <2>3 DEF Honest, SeesTaken
<1>4. TakenExplained(i)'
  <2>1. SUFFICES ASSUME jobs'[i].phase = "running", NEW t \in jobs[i].taken
                 PROVE  Bore(t)' \/ Announced(jobs[i].report, Len(jobs[i].report), t)
    BY DEF TakenExplained
  <2> QED BY <2>1, BoreStays DEF Honest, TakenExplained
<1>5. CreatedExist(i)'
  BY DEF Honest, CreatedExist, OthersOnly
<1>6. MadeReported(i)'
  BY DEF Honest, MadeReported, OthersOnly
<1>7. SkippedExplained(i)'
  BY BoreStays DEF Honest, SkippedExplained
<1>8. BlankAtFirst(i)'
  BY DEF Honest, BlankAtFirst
<1> QED BY <1>1, <1>2, <1>3, <1>4, <1>5, <1>6, <1>7, <1>8 DEF Honest

\* An import begins with the names that are there; it has made nothing.
LEMMA BeginKeepsHonest ==
  ASSUME NEW i \in Importers, Honest(i), tunnels \in Seq(Tunnel), UNCHANGED tunnels,
         jobs[i].phase \in {"idle", "previewed"} \/ jobs[i].dry,
         jobs'[i].phase = "running", jobs'[i].report = <<>>,
         jobs'[i].taken = Names, jobs'[i].since = Len(tunnels)
  PROVE  Honest(i)'
<1>0. \A r \in DOMAIN tunnels : tunnels[r].maker # i
  BY DEF Honest, NoneYet
<1>1. NoneYet(i)'
  BY <1>0 DEF NoneYet
<1>2. MadeSince(i)'
  BY <1>0 DEF MadeSince
<1>3. SeesTaken(i)'
  BY DEF SeesTaken, Names, Live
<1>4. TakenExplained(i)'
  <2>1. \A t \in Names : Bore(t)
    BY DEF Names, Bore, Live
  <2>2. \A t \in Names : Bore(t)'
    BY <2>1 DEF Bore
  <2> QED BY <2>2 DEF TakenExplained
<1>5. CreatedExist(i)' /\ SkippedExplained(i)' /\ BlankAtFirst(i)'
  BY DEF CreatedExist, SkippedExplained, BlankAtFirst
<1>6. MadeReported(i)'
  BY <1>0 DEF MadeReported
<1> QED BY <1>1, <1>2, <1>3, <1>4, <1>5, <1>6 DEF Honest

LEMMA AnnouncedStays ==
  ASSUME NEW report \in Seq(Items), NEW item \in Items, NEW t, NEW n \in 0 .. Len(report)
  PROVE  Announced(Append(report, item), n, t) <=> Announced(report, n, t)
<1>1. \A j \in 1 .. n : Append(report, item)[j] = report[j]
  BY OneMoreItem
<1> QED BY <1>1 DEF Announced

\* An item is reported that made nothing, and the job may go on or give up.
LEMMA ItemKeepsHonest ==
  ASSUME NEW i \in Importers, Honest(i), tunnels \in Seq(Tunnel), UNCHANGED tunnels,
         jobs \in [Importers -> Job], jobs[i].phase = "running", NEW item \in Items,
         item.result # "created",
         item.result = "skipped" => Key(item.name) \in jobs[i].taken,
         jobs'[i].report = Append(jobs[i].report, item),
         jobs'[i].since = jobs[i].since, jobs'[i].dry = jobs[i].dry,
         jobs'[i].phase \in {"running", "aborted"},
         \/ jobs'[i].taken = jobs[i].taken
         \/ /\ item.result = "would-create"
            /\ jobs'[i].taken = jobs[i].taken \cup {Key(item.name)}
  PROVE  Honest(i)'
<1> DEFINE report == jobs[i].report
           n == Len(report)
<1>1. report \in Seq(Items) /\ n \in Nat
  <2>1. jobs[i] \in Job
    OBVIOUS
  <2>2. report \in Seq(Items)
    BY <2>1, JobParts
  <2> QED BY <2>2
<1>2. /\ Append(report, item) \in Seq(Items) /\ Len(Append(report, item)) = n + 1
      /\ DOMAIN report = 1 .. n /\ DOMAIN Append(report, item) = 1 .. n + 1
      /\ Append(report, item)[n + 1] = item
      /\ \A k \in DOMAIN report : Append(report, item)[k] = report[k]
  BY <1>1, OneMoreItem
<1>3. \A t : Announced(report, n, t) => Announced(Append(report, item), n + 1, t)
  BY <1>1, <1>2 DEF Announced
<1>4. NoneYet(i)'
  BY DEF Honest, NoneYet
<1>5. MadeSince(i)'
  BY DEF Honest, MadeSince
<1>6. SeesTaken(i)'
  BY DEF Honest, SeesTaken, Live
<1>7. TakenExplained(i)'
  <2>1. SUFFICES ASSUME NEW t \in jobs'[i].taken
                 PROVE  Bore(t)' \/ Announced(Append(report, item), n + 1, t)
    BY <1>2 DEF TakenExplained
  <2>2. CASE t \in jobs[i].taken
    <3>1. Bore(t) \/ Announced(report, n, t)
      BY <2>2 DEF Honest, TakenExplained
    <3>2. Bore(t) => Bore(t)'
      BY DEF Bore
    <3> QED BY <1>3, <3>1, <3>2
  <2>3. CASE t \notin jobs[i].taken
    <3>1. item.result = "would-create" /\ t = Key(item.name)
      BY <2>1, <2>3
    <3>2. n + 1 \in 1 .. n + 1
      BY <1>1
    <3> QED BY <1>2, <3>1, <3>2 DEF Announced
  <2> QED BY <2>2, <2>3
<1>8. CreatedExist(i)'
  <2>1. SUFFICES ASSUME NEW k \in 1 .. n + 1, Append(report, item)[k].result = "created"
                 PROVE  LET it == Append(report, item)[k]
                        IN  /\ it.id \in DOMAIN tunnels
                            /\ tunnels[it.id].maker = i /\ tunnels[it.id].item = k
                            /\ tunnels[it.id].name = it.name
    BY <1>2 DEF CreatedExist
  <2>2. k # n + 1
    BY <1>2, <2>1
  <2>3. k \in DOMAIN report
    BY <1>1, <1>2, <2>2
  <2> QED BY <1>2, <2>1, <2>3 DEF Honest, CreatedExist
<1>9. MadeReported(i)'
  <2>1. SUFFICES ASSUME NEW r \in DOMAIN tunnels, tunnels[r].maker = i
                 PROVE  /\ tunnels[r].item \in 1 .. n + 1
                        /\ Append(report, item)[tunnels[r].item].result = "created"
    BY <1>2 DEF MadeReported
  <2>2. tunnels[r].item \in DOMAIN report /\ report[tunnels[r].item].result = "created"
    BY <2>1 DEF Honest, MadeReported
  <2> QED BY <1>1, <1>2, <2>2
<1>10. SkippedExplained(i)'
  <2>1. SUFFICES ASSUME NEW k \in 1 .. n + 1, Append(report, item)[k].result = "skipped"
                 PROVE  LET t == Key(Append(report, item)[k].name)
                        IN  Bore(t) \/ Announced(Append(report, item), k - 1, t)
    BY <1>2 DEF SkippedExplained, Bore
  <2>2. CASE k = n + 1
    <3>1. Key(item.name) \in jobs[i].taken
      BY <1>2, <2>1, <2>2
    <3>2. Bore(Key(item.name)) \/ Announced(report, n, Key(item.name))
      BY <3>1 DEF Honest, TakenExplained
    <3>3. n \in 0 .. Len(report) /\ k - 1 = n
      BY <1>1, <2>2
    <3> QED BY <1>1, <1>2, <2>2, <3>2, <3>3, AnnouncedStays
  <2>3. CASE k # n + 1
    <3>1. k \in DOMAIN report
      BY <1>1, <1>2, <2>3
    <3>2. LET t == Key(report[k].name) IN Bore(t) \/ Announced(report, k - 1, t)
      BY <1>2, <2>1, <3>1 DEF Honest, SkippedExplained
    <3>3. k - 1 \in 0 .. Len(report)
      BY <1>1, <1>2, <3>1
    <3> QED BY <1>1, <1>2, <3>1, <3>2, <3>3, AnnouncedStays
  <2> QED BY <2>2, <2>3
<1>11. BlankAtFirst(i)'
  BY DEF BlankAtFirst
<1> QED BY <1>4, <1>5, <1>6, <1>7, <1>8, <1>9, <1>10, <1>11 DEF Honest

\* A tunnel is made.
LEMMA MakeKeepsHonest ==
  ASSUME ImportTypeOK, NEW i \in Importers, Honest(i), Make(i)
  PROVE  Honest(i)'
<1> DEFINE report == jobs[i].report
           n == Len(report)
           row == RowOf(i)
           m == Len(tunnels) + 1
           item == Item("created", NewTunnel(i).name, m)
<1>1. /\ Importable(i) /\ ~jobs[i].dry /\ tunnels' = Append(tunnels, row) /\ Len(tunnels) \in Nat
      /\ item \in Items
      /\ jobs[i].taken \cup {Key(NewTunnel(i).name)} \in SUBSET TunnelName
      /\ Reported(i, item, jobs[i].taken \cup {Key(NewTunnel(i).name)})
  BY MakeEffect
<1>2. HasNext(i) /\ jobs[i].phase = "running"
  BY <1>1 DEF Importable, HasNext
<1>3. tunnels \in Seq(Tunnel) /\ jobs \in [Importers -> Job]
  BY TypeParts
<1>4. /\ jobs'[i].report = Append(report, item)
      /\ jobs'[i].taken = jobs[i].taken \cup {Key(NewTunnel(i).name)}
      /\ jobs'[i].phase = "running"
      /\ jobs'[i].since = jobs[i].since
      /\ ~jobs'[i].dry
  BY <1>1, <1>2, <1>3, ReportedParts
<1>5. item.result = "created" /\ item.name = NewTunnel(i).name /\ item.id = m
  <2>1. NewTunnel(i).name \in TunnelName
    BY <1>2, NewTunnelIsSound
  <2>2. Len(tunnels) \in Nat
    BY <1>1
  <2>3. m \in Nat
    BY <2>2
  <2> QED BY <2>1, <2>3, ItemIsItem
<1>6. row \in Tunnel /\ row.name = NewTunnel(i).name /\ row.maker = i /\ row.item = n + 1
  BY <1>2, RowIsSound DEF Place
<1> HIDE DEF row, item
<1>7. /\ Len(tunnels') = m /\ m \in Nat
      /\ DOMAIN tunnels = 1 .. Len(tunnels) /\ DOMAIN tunnels' = 1 .. m
      /\ tunnels'[m] = row /\ \A r \in DOMAIN tunnels : tunnels'[r] = tunnels[r]
  BY <1>1, <1>3, <1>6, OneMore
<1>8. report \in Seq(Items) /\ n \in Nat
  <2>1. jobs[i] \in Job
    BY <1>3
  <2>2. report \in Seq(Items)
    BY <2>1, JobParts
  <2> QED BY <2>2
<1>9. /\ Append(report, item) \in Seq(Items) /\ Len(Append(report, item)) = n + 1
      /\ DOMAIN report = 1 .. n /\ DOMAIN Append(report, item) = 1 .. n + 1
      /\ Append(report, item)[n + 1] = item
      /\ \A k \in DOMAIN report : Append(report, item)[k] = report[k]
  BY <1>1, <1>8, OneMoreItem
<1>10. \A t : Bore(t) => Bore(t)'
  BY <1>7 DEF Bore
<1>11. jobs[i].since \in Nat /\ jobs[i].since <= Len(tunnels)
  <2>1. jobs[i] \in Job
    BY <1>3
  <2> QED BY <2>1, JobParts DEF Honest, MadeSince
<1> HIDE DEF m, n, report
<1>12. NoneYet(i)'
  BY <1>4 DEF NoneYet
<1>13. MadeSince(i)'
  <2>1. \A r \in DOMAIN tunnels' : tunnels'[r].maker = i => r > jobs[i].since
    <3>1. m > jobs[i].since
      BY <1>1, <1>7, <1>11 DEF m
    <3>2. \A r \in DOMAIN tunnels' : r = m \/ r \in DOMAIN tunnels
      BY <1>1, <1>7 DEF m
    <3> QED BY <1>7, <3>1, <3>2 DEF Honest, MadeSince
  <2>2. jobs[i].since <= Len(tunnels')
    BY <1>1, <1>7, <1>11 DEF m
  <2> QED BY <1>4, <2>1, <2>2 DEF MadeSince
<1>14. SeesTaken(i)'
  <2>1. SUFFICES ASSUME NEW q \in Live', q <= jobs[i].since \/ tunnels'[q].maker = i
                 PROVE  Key(tunnels'[q].name) \in jobs[i].taken \cup {Key(NewTunnel(i).name)}
    BY <1>4 DEF SeesTaken
  <2>2. CASE q = m
    BY <1>6, <1>7, <2>2
  <2>3. CASE q # m
    <3>1. q \in DOMAIN tunnels
      BY <1>1, <1>7, <2>3 DEF Live, m
    <3>2. q \in Live /\ tunnels'[q] = tunnels[q]
      BY <1>7, <3>1 DEF Live
    <3> QED BY <1>2, <2>1, <3>2 DEF Honest, SeesTaken
  <2> QED BY <2>2, <2>3
<1>15. TakenExplained(i)'
  <2>1. SUFFICES ASSUME NEW t \in jobs[i].taken \cup {Key(NewTunnel(i).name)}
                 PROVE  Bore(t)' \/ Announced(Append(report, item), n + 1, t)
    BY <1>4, <1>9 DEF TakenExplained
  <2>2. CASE t \in jobs[i].taken
    <3>1. Bore(t) \/ Announced(report, n, t)
      BY <1>2, <2>2 DEF Honest, TakenExplained, report, n
    <3>2. Announced(report, n, t) => Announced(Append(report, item), n + 1, t)
      BY <1>8, <1>9 DEF Announced
    <3> QED BY <1>10, <3>1, <3>2
  <2>3. CASE t = Key(NewTunnel(i).name)
    <3>1. m \in DOMAIN tunnels' /\ Key(tunnels'[m].name) = t
      BY <1>1, <1>6, <1>7, <2>3 DEF m
    <3> QED BY <3>1 DEF Bore
  <2> QED BY <2>2, <2>3
<1>16. CreatedExist(i)'
  <2>1. SUFFICES ASSUME NEW k \in 1 .. n + 1, Append(report, item)[k].result = "created"
                 PROVE  LET it == Append(report, item)[k]
                        IN  /\ it.id \in DOMAIN tunnels'
                            /\ tunnels'[it.id].maker = i /\ tunnels'[it.id].item = k
                            /\ tunnels'[it.id].name = it.name
    BY <1>4, <1>9 DEF CreatedExist
  <2>2. CASE k = n + 1
    <3>1. m \in DOMAIN tunnels'
      BY <1>1, <1>7 DEF m
    <3> QED BY <1>5, <1>6, <1>7, <1>9, <2>2, <3>1
  <2>3. CASE k # n + 1
    <3>1. k \in DOMAIN report
      BY <1>8, <1>9, <2>3
    <3>2. /\ report[k].id \in DOMAIN tunnels
          /\ tunnels[report[k].id].maker = i /\ tunnels[report[k].id].item = k
          /\ tunnels[report[k].id].name = report[k].name
      BY <1>9, <2>1, <3>1 DEF Honest, CreatedExist, report
    <3>3. report[k].id \in DOMAIN tunnels'
      BY <1>1, <1>7, <3>2 DEF m
    <3> QED BY <1>7, <1>9, <3>1, <3>2, <3>3
  <2> QED BY <2>2, <2>3
<1>17. MadeReported(i)'
  <2>1. SUFFICES ASSUME NEW r \in DOMAIN tunnels', tunnels'[r].maker = i
                 PROVE  /\ tunnels'[r].item \in 1 .. n + 1
                        /\ Append(report, item)[tunnels'[r].item].result = "created"
    BY <1>4, <1>9 DEF MadeReported
  <2>2. CASE r = m
    BY <1>5, <1>6, <1>7, <1>8, <1>9, <2>2
  <2>3. CASE r # m
    <3>1. r \in DOMAIN tunnels
      BY <1>1, <1>7, <2>3 DEF m
    <3>2. tunnels[r].item \in DOMAIN report /\ report[tunnels[r].item].result = "created"
      BY <1>7, <2>1, <3>1 DEF Honest, MadeReported, report
    <3> QED BY <1>7, <1>8, <1>9, <3>1, <3>2
  <2> QED BY <2>2, <2>3
<1>18. SkippedExplained(i)'
  <2>1. SUFFICES ASSUME NEW k \in 1 .. n + 1, Append(report, item)[k].result = "skipped",
                        NEW t, t = Key(Append(report, item)[k].name)
                 PROVE  Bore(t)' \/ Announced(Append(report, item), k - 1, t)
    BY <1>4, <1>9 DEF SkippedExplained, Bore
  <2>2. k \in DOMAIN report
    BY <1>5, <1>8, <1>9, <2>1
  <2>3. Append(report, item)[k] = report[k]
    BY <1>9, <2>2
  <2>4. Bore(t) \/ Announced(report, k - 1, t)
    BY <2>1, <2>2, <2>3 DEF Honest, SkippedExplained, report
  <2>5. k - 1 \in 0 .. Len(report)
    BY <1>8, <1>9, <2>2 DEF n
  <2>6. Announced(report, k - 1, t) => Announced(Append(report, item), k - 1, t)
    BY <1>1, <1>8, <2>5, AnnouncedStays
  <2> QED BY <1>10, <2>4, <2>6
<1>19. BlankAtFirst(i)'
  BY <1>4 DEF BlankAtFirst
<1> QED BY <1>12, <1>13, <1>14, <1>15, <1>16, <1>17, <1>18, <1>19 DEF Honest

LEMMA HonestInit == ImportInit => HonestInv
<1> SUFFICES ASSUME ImportInit PROVE HonestInv
  OBVIOUS
<1>1. tunnels = <<>> /\ DOMAIN tunnels = {} /\ Len(tunnels) = 0
  BY DEF ImportInit
<1>2. ASSUME NEW i \in Importers PROVE Honest(i)
  <2>1. jobs[i].phase = "idle" /\ jobs[i].report = <<>> /\ jobs[i].since = 0
    BY FirstJobs
  <2>2. DOMAIN jobs[i].report = {}
    BY <2>1
  <2>3. NoneYet(i) /\ MadeSince(i) /\ MadeReported(i)
    BY <1>1, <2>1 DEF NoneYet, MadeSince, MadeReported
  <2>4. SeesTaken(i) /\ TakenExplained(i) /\ BlankAtFirst(i)
    BY <2>1 DEF SeesTaken, TakenExplained, BlankAtFirst
  <2>5. CreatedExist(i) /\ SkippedExplained(i)
    BY <2>2 DEF CreatedExist, SkippedExplained
  <2> QED BY <2>3, <2>4, <2>5 DEF Honest
<1> QED BY <1>2, ImportTypeInit DEF HonestInv

LEMMA SameJob ==
  ASSUME NEW i \in Importers, HonestInv, jobs'[i] = jobs[i], OthersOnly(i)
  PROVE  Honest(i)'
<1>1. Honest(i) /\ tunnels \in Seq(Tunnel) /\ jobs \in [Importers -> Job]
  BY TypeParts DEF HonestInv
<1> QED BY <1>1, QuietKeepsHonest

\* Each step is honest of each importer.
LEMMA HonestStep == HonestInv /\ [ImportNext]_importVars => HonestInv'
<1> SUFFICES ASSUME HonestInv, [ImportNext]_importVars PROVE HonestInv'
  OBVIOUS
<1>0. /\ ImportTypeOK /\ tunnels \in Seq(Tunnel) /\ jobs \in [Importers -> Job]
      /\ \A i \in Importers : Honest(i) /\ jobs[i] \in Job
  BY TypeParts DEF HonestInv
<1>a. ImportTypeOK'
  BY <1>0, ImportTypeStep
<1>b. SUFFICES ASSUME NEW j \in Importers PROVE Honest(j)'
  BY <1>a DEF HonestInv
<1>1. ASSUME NEW n \in HandNames, CreateByHand(n) PROVE Honest(j)'
  <2>1. jobs' = jobs /\ tunnels' = Append(tunnels, MadeByHand(n))
    BY <1>0, <1>1, CreateByHandEffect
  <2>2. MadeByHand(n) \in Tunnel /\ MadeByHand(n).maker # j
    BY HandRow, ImportersAssumption DEF Importers
  <2>3. OthersOnly(j)
    BY <1>0, <2>1, <2>2, MoreTunnels
  <2> QED BY <2>1, <2>3, SameJob
<1>2. ASSUME NEW r \in DOMAIN tunnels, DeleteTunnel(r) PROVE Honest(j)'
  <2>1. jobs' = jobs /\ tunnels' = [tunnels EXCEPT ![r].alive = FALSE]
    BY <1>0, <1>2, DeleteTunnelEffect
  <2>2. OthersOnly(j)
    BY <1>0, <2>1, LessTunnels
  <2> QED BY <2>1, <2>2, SameJob
<1>3. ASSUME NEW h \in Handlers, Preview(h) PROVE Honest(j)'
  <2>1. /\ UNCHANGED tunnels /\ \A i \in Importers \ {h} : jobs'[i] = jobs[i]
        /\ jobs[h].phase = "idle" /\ jobs'[h].phase = "previewed"
        /\ jobs'[h].report = jobs[h].report /\ jobs'[h].taken = jobs[h].taken
        /\ jobs'[h].since = jobs[h].since /\ jobs'[h].dry = jobs[h].dry
    BY <1>0, <1>3, PreviewEffect
  <2>2. OthersOnly(j)
    BY <1>0, <2>1, SameTunnels
  <2> QED BY <1>0, <2>1, <2>2, QuietKeepsHonest, SameJob
<1>4. ASSUME NEW h \in Handlers, BeginCommit(h) PROVE Honest(j)'
  <2>1. /\ UNCHANGED tunnels /\ \A i \in Importers \ {h} : jobs'[i] = jobs[i]
        /\ jobs[h].phase = "previewed" /\ jobs'[h].phase = "running"
        /\ jobs'[h].report = jobs[h].report /\ jobs'[h].taken = Names
        /\ jobs'[h].since = Len(tunnels)
    BY <1>0, <1>4, BeginCommitEffect
  <2>2. OthersOnly(j)
    BY <1>0, <2>1, SameTunnels
  <2>3. h \in Importers
    BY DEF Importers
  <2>4. jobs'[h].report = <<>>
    BY <1>0, <2>1, <2>3 DEF Honest, BlankAtFirst
  <2>5. Honest(h)'
    BY <1>0, <2>1, <2>3, <2>4, BeginKeepsHonest
  <2> QED BY <2>1, <2>2, <2>5, SameJob
<1>5. ASSUME NEW s \in Commands, NEW dry \in BOOLEAN, BeginCommand(s, dry) PROVE Honest(j)'
  <2>1. /\ UNCHANGED tunnels /\ \A i \in Importers \ {s} : jobs'[i] = jobs[i]
        /\ jobs[s].phase = "idle" /\ jobs'[s].phase = "running"
        /\ jobs'[s].report = jobs[s].report /\ jobs'[s].taken = Names
        /\ jobs'[s].since = Len(tunnels)
    BY <1>0, <1>5, BeginCommandEffect
  <2>2. OthersOnly(j)
    BY <1>0, <2>1, SameTunnels
  <2>3. s \in Importers
    BY DEF Importers
  <2>4. jobs'[s].report = <<>>
    BY <1>0, <2>1, <2>3 DEF Honest, BlankAtFirst
  <2>5. Honest(s)'
    BY <1>0, <2>1, <2>3, <2>4, BeginKeepsHonest
  <2> QED BY <2>1, <2>2, <2>5, SameJob
<1>6. ASSUME NEW s \in Commands, RepeatCommand(s) PROVE Honest(j)'
  <2>1. /\ UNCHANGED tunnels /\ \A i \in Importers \ {s} : jobs'[i] = jobs[i]
        /\ jobs[s].dry /\ jobs'[s].phase = "running"
        /\ jobs'[s].report = <<>> /\ jobs'[s].taken = Names
        /\ jobs'[s].since = Len(tunnels)
    BY <1>0, <1>6, RepeatEffect
  <2>2. OthersOnly(j)
    BY <1>0, <2>1, SameTunnels
  <2>3. s \in Importers
    BY DEF Importers
  <2>5. Honest(s)'
    BY <1>0, <2>1, <2>3, BeginKeepsHonest
  <2> QED BY <2>1, <2>2, <2>5, SameJob
<1>7. ASSUME NEW i \in Importers, Pass(i) PROVE Honest(j)'
  <2>1. HasNext(i) /\ UNCHANGED tunnels
    BY <1>0, <1>7, PassEffect
  <2>2. PICK result \in {"skipped", "error"} :
              /\ result = "skipped" => Conflicts(i)
              /\ Item(result, Current(i).name, 0) \in Items
              /\ Reported(i, Item(result, Current(i).name, 0), jobs[i].taken)
    BY <1>0, <1>7, PassEffect
  <2>3. jobs[i].taken \in SUBSET TunnelName
    BY <1>0, JobParts
  <2>4. \A k \in Importers \ {i} : jobs'[k] = jobs[k]
    BY <1>0, <2>2, <2>3, ReportedJob
  <2>5. OthersOnly(j)
    BY <1>0, <2>1, SameTunnels
  <2>6. Honest(i)'
    <3>1. PICK item \in Items : item = Item(result, Current(i).name, 0)
      BY <2>2
    <3>2. Current(i).name \in TunnelName
      BY <1>0, <2>1, CurrentIsSound
    <3>3. item.result = result /\ item.name = Current(i).name
      BY <3>1, <3>2, ItemIsItem
    <3>4. item.result # "created" /\ (item.result = "skipped" => Key(item.name) \in jobs[i].taken)
      BY <2>2, <3>3 DEF Conflicts
    <3>5. jobs[i].phase = "running"
      BY <2>1 DEF HasNext
    <3>6. /\ jobs'[i].report = Append(jobs[i].report, item) /\ jobs'[i].taken = jobs[i].taken
          /\ jobs'[i].phase = "running" /\ jobs'[i].since = jobs[i].since
          /\ jobs'[i].dry = jobs[i].dry
      BY <1>0, <2>2, <2>3, <3>1, <3>5, ReportedParts
    <3> QED BY <1>0, <2>1, <3>4, <3>5, <3>6, ItemKeepsHonest
  <2> QED BY <2>4, <2>5, <2>6, SameJob
<1>8. ASSUME NEW i \in Importers, Make(i) PROVE Honest(j)'
  <2>1. /\ tunnels' = Append(tunnels, RowOf(i)) /\ Importable(i)
        /\ Item("created", NewTunnel(i).name, Len(tunnels) + 1) \in Items
        /\ jobs[i].taken \cup {Key(NewTunnel(i).name)} \in SUBSET TunnelName
        /\ Reported(i, Item("created", NewTunnel(i).name, Len(tunnels) + 1),
                    jobs[i].taken \cup {Key(NewTunnel(i).name)})
    BY <1>0, <1>8, MakeEffect
  <2>2. Honest(i)'
    BY <1>0, <1>8, MakeKeepsHonest
  <2>3. \A k \in Importers \ {i} : jobs'[k] = jobs[k]
    BY <1>0, <2>1, ReportedJob
  <2>4. RowOf(i) \in Tunnel /\ RowOf(i).maker = i
    BY <1>0, <2>1, RowIsSound DEF Importable
  <2>5. j # i => OthersOnly(j)
    BY <1>0, <2>1, <2>4, MoreTunnels
  <2> QED BY <2>2, <2>3, <2>5, SameJob
<1>9. ASSUME NEW i \in Importers, MakeFails(i) PROVE Honest(j)'
  <2>1. /\ UNCHANGED tunnels /\ Importable(i)
        /\ Item("error", Current(i).name, 0) \in Items
        /\ Reported(i, Item("error", Current(i).name, 0), jobs[i].taken)
    BY <1>0, <1>9, MakeFailsEffect
  <2>2. HasNext(i) /\ jobs[i].phase = "running" /\ jobs[i].taken \in SUBSET TunnelName
    BY <1>0, <2>1, JobParts DEF Importable, HasNext
  <2>3. \A k \in Importers \ {i} : jobs'[k] = jobs[k]
    BY <1>0, <2>1, <2>2, ReportedJob
  <2>4. OthersOnly(j)
    BY <1>0, <2>1, SameTunnels
  <2>5. Honest(i)'
    <3>1. PICK item \in Items : item = Item("error", Current(i).name, 0)
      BY <2>1
    <3>2. Current(i).name \in TunnelName
      BY <1>0, <2>2, CurrentIsSound
    <3>3. item.result = "error"
      BY <3>1, <3>2, ItemIsItem
    <3>4. /\ jobs'[i].report = Append(jobs[i].report, item) /\ jobs'[i].taken = jobs[i].taken
          /\ jobs'[i].phase = "running" /\ jobs'[i].since = jobs[i].since
          /\ jobs'[i].dry = jobs[i].dry
      BY <1>0, <2>1, <2>2, <3>1, ReportedParts
    <3> QED BY <1>0, <2>1, <2>2, <3>3, <3>4, ItemKeepsHonest
  <2> QED BY <2>3, <2>4, <2>5, SameJob
<1>10. ASSUME NEW s \in Commands, Foresee(s) PROVE Honest(j)'
  <2>1. /\ UNCHANGED tunnels /\ Importable(s)
        /\ Item("would-create", NewTunnel(s).name, 0) \in Items
        /\ jobs[s].taken \cup {Key(NewTunnel(s).name)} \in SUBSET TunnelName
        /\ Reported(s, Item("would-create", NewTunnel(s).name, 0),
                    jobs[s].taken \cup {Key(NewTunnel(s).name)})
    BY <1>0, <1>10, ForeseeEffect
  <2>2. s \in Importers /\ HasNext(s) /\ jobs[s].phase = "running"
    BY <2>1 DEF Importable, HasNext, Importers
  <2>3. \A k \in Importers \ {s} : jobs'[k] = jobs[k]
    BY <1>0, <2>1, <2>2, ReportedJob
  <2>4. OthersOnly(j)
    BY <1>0, <2>1, SameTunnels
  <2>5. Honest(s)'
    <3>1. PICK item \in Items : item = Item("would-create", NewTunnel(s).name, 0)
      BY <2>1
    <3>2. NewTunnel(s).name \in TunnelName
      BY <1>0, <2>2, NewTunnelIsSound
    <3>3. item.result = "would-create" /\ item.name = NewTunnel(s).name
      BY <3>1, <3>2, ItemIsItem
    <3>4. /\ jobs'[s].report = Append(jobs[s].report, item)
          /\ jobs'[s].taken = jobs[s].taken \cup {Key(item.name)}
          /\ jobs'[s].phase = "running" /\ jobs'[s].since = jobs[s].since
          /\ jobs'[s].dry = jobs[s].dry
      BY <1>0, <2>1, <2>2, <3>1, <3>3, ReportedParts
    <3> QED BY <1>0, <2>1, <2>2, <3>3, <3>4, ItemKeepsHonest
  <2> QED BY <2>3, <2>4, <2>5, SameJob
<1>11. ASSUME NEW s \in Commands, Abort(s) PROVE Honest(j)'
  <2>1. /\ UNCHANGED tunnels /\ HasNext(s)
        /\ Item("error", Current(s).name, 0) \in Items
        /\ jobs' = [jobs EXCEPT ![s].phase = "aborted",
                                ![s].report = Append(@, Item("error", Current(s).name, 0))]
    BY <1>0, <1>11, AbortEffect
  <2>2. s \in Importers /\ jobs[s].phase = "running"
    BY <2>1 DEF HasNext, Importers
  <2>3. OthersOnly(j)
    BY <1>0, <2>1, SameTunnels
  <2>4. PICK item \in Items : item = Item("error", Current(s).name, 0)
    BY <2>1
  <2>5. item.result = "error"
    <3>1. Current(s).name \in TunnelName
      BY <1>0, <2>1, <2>2, CurrentIsSound
    <3> QED BY <2>4, <3>1, ItemIsItem
  <2>6. /\ \A k \in Importers \ {s} : jobs'[k] = jobs[k]
        /\ jobs'[s].report = Append(jobs[s].report, item) /\ jobs'[s].taken = jobs[s].taken
        /\ jobs'[s].phase = "aborted" /\ jobs'[s].since = jobs[s].since
        /\ jobs'[s].dry = jobs[s].dry
    <3>1. jobs' = [jobs EXCEPT ![s].phase = "aborted", ![s].report = Append(@, item)]
      BY <2>1, <2>4
    <3> QED BY <1>0, <2>2, <3>1, AbortedJob
  <2>7. Honest(s)'
    BY <1>0, <2>1, <2>2, <2>5, <2>6, ItemKeepsHonest
  <2> QED BY <2>3, <2>6, <2>7, SameJob
<1>12. ASSUME NEW i \in Importers, Finish(i) \/ Lose(i) PROVE Honest(j)'
  <2>1. UNCHANGED tunnels /\ jobs[i].phase = "running"
    BY <1>0, <1>12, FinishEffect, LoseEffect
  <2>2. PICK phase \in {"done", "lost"} : jobs' = [jobs EXCEPT ![i].phase = phase]
    BY <1>0, <1>12, FinishEffect, LoseEffect
  <2>3. phase \in Phases
    BY DEF Phases
  <2>4. /\ \A k \in Importers \ {i} : jobs'[k] = jobs[k]
        /\ jobs'[i].report = jobs[i].report /\ jobs'[i].taken = jobs[i].taken
        /\ jobs'[i].phase = phase /\ jobs'[i].since = jobs[i].since
        /\ jobs'[i].dry = jobs[i].dry
    BY <1>0, <2>2, <2>3, PhaseJob
  <2>5. OthersOnly(j)
    BY <1>0, <2>1, SameTunnels
  <2> QED BY <1>0, <2>4, <2>5, QuietKeepsHonest, SameJob
<1>13. CASE UNCHANGED importVars
  <2>1. jobs' = jobs /\ UNCHANGED tunnels
    BY <1>13 DEF importVars
  <2> QED BY <1>0, <2>1, SameTunnels, SameJob
<1> QED BY <1>1, <1>2, <1>3, <1>4, <1>5, <1>6, <1>7, <1>8, <1>9, <1>10, <1>11, <1>12, <1>13
        DEF ImportNext

LEMMA HonestSaysTrue == HonestInv => ReportIsTrue
<1> SUFFICES ASSUME HonestInv PROVE ReportIsTrue
  OBVIOUS
<1>1. ASSUME NEW i \in Importers
      PROVE  LET report == jobs[i].report
                 Created == {k \in DOMAIN report : report[k].result = "created"}
             IN  /\ \A k \in Created :
                      LET row == tunnels[report[k].id]
                      IN  row.maker = i /\ row.item = k /\ row.name = report[k].name
                 /\ \A r \in DOMAIN tunnels :
                      tunnels[r].maker = i => tunnels[r].item \in Created
                 /\ \A k \in DOMAIN report :
                      report[k].result = "skipped" =>
                        \/ \E r \in DOMAIN tunnels : Key(tunnels[r].name) = Key(report[k].name)
                        \/ \E j \in 1 .. k - 1 : /\ report[j].result = "would-create"
                                                 /\ Key(report[j].name) = Key(report[k].name)
  <2>1. Honest(i)
    BY DEF HonestInv
  <2> DEFINE Created == {k \in DOMAIN jobs[i].report : jobs[i].report[k].result = "created"}
  <2>2. \A k \in Created :
          LET row == tunnels[jobs[i].report[k].id]
          IN  row.maker = i /\ row.item = k /\ row.name = jobs[i].report[k].name
    BY <2>1 DEF Honest, CreatedExist
  <2>3. \A r \in DOMAIN tunnels : tunnels[r].maker = i => tunnels[r].item \in Created
    BY <2>1 DEF Honest, MadeReported
  <2>4. \A k \in DOMAIN jobs[i].report :
          jobs[i].report[k].result = "skipped" =>
            \/ \E r \in DOMAIN tunnels : Key(tunnels[r].name) = Key(jobs[i].report[k].name)
            \/ \E j \in 1 .. k - 1 : /\ jobs[i].report[j].result = "would-create"
                                     /\ Key(jobs[i].report[j].name) = Key(jobs[i].report[k].name)
    BY <2>1 DEF Honest, SkippedExplained, Bore, Announced
  <2> QED BY <2>2, <2>3, <2>4
<1> QED BY <1>1 DEF ReportIsTrue, HonestInv

\* What a report says is so, however many imports run beside each other while
\* tunnels are made and deleted by hand, inserts fail and importers die
\* (handleImportTunnelsCommit, frpdeck import).
THEOREM ReportIsTrueHolds == ImportSpec => []ReportIsTrue
  BY HonestInit, HonestStep, HonestSaysTrue, PTL DEF ImportSpec

-----------------------------------------------------------------------------
(***************************************************************************)
(* No clash that it could see.                                             *)
(***************************************************************************)

\* There are numbers left for whatever an import has to rename.
FewTunnels == \A i \in Importers : Len(tunnels) + Len(DraftsOf(i)) <= 998

\* Fewer names than numbers leave one of the numbers free.
LEMMA Pigeons ==
  ASSUME NEW n \in TunnelName, NEW taken, NEW W \in Nat, NEW NameAt,
         \A t \in taken : \E w \in 1 .. W : Key(NameAt[w]) = t,
         NEW last \in Nat, W + 1 < last
  PROVE  \E k \in 2 .. last : Key(Numbered(n, k)) \notin taken
<1> DEFINE Bearer(k) == CHOOSE w \in 1 .. W : Key(NameAt[w]) = Key(Numbered(n, k))
           Numbers == 2 .. last
           Places == 1 .. W
<1>1. SUFFICES ASSUME \A k \in Numbers : Key(Numbered(n, k)) \in taken PROVE FALSE
  OBVIOUS
<1>2. \A k \in Numbers : Bearer(k) \in Places /\ Key(NameAt[Bearer(k)]) = Key(Numbered(n, k))
  <2> TAKE k \in Numbers
  <2>1. \E w \in 1 .. W : Key(NameAt[w]) = Key(Numbered(n, k))
    BY <1>1
  <2> QED BY <2>1
<1> HIDE DEF Bearer
<1> DEFINE bearer == [k \in Numbers |-> Bearer(k)]
<1>3. bearer \in [Numbers -> Places]
  BY <1>2
<1>4. \A k \in Numbers : bearer[k] = Bearer(k)
  OBVIOUS
<1>5. IsFiniteSet(Numbers) /\ IsFiniteSet(Places) /\ Cardinality(Places) < Cardinality(Numbers)
  <2>1. /\ IsFiniteSet(2 .. last)
        /\ Cardinality(2 .. last) = IF 2 > last THEN 0 ELSE last - 2 + 1
    BY FS_Interval
  <2>2. IsFiniteSet(1 .. W) /\ Cardinality(1 .. W) = IF 1 > W THEN 0 ELSE W - 1 + 1
    BY FS_Interval
  <2> QED BY <2>1, <2>2
<1> HIDE DEF bearer, Places
<1>6. PICK j \in Numbers, k \in Numbers : j # k /\ bearer[j] = bearer[k]
  <2> HIDE DEF Numbers
  <2> QED BY <1>3, <1>5, FS_PigeonHole
<1>7. Key(Numbered(n, j)) = Key(Numbered(n, k))
  BY <1>2, <1>4, <1>6
<1>8. j \in Nat /\ k \in Nat
  OBVIOUS
<1> QED BY <1>6, <1>7, <1>8, NumbersTellApart

LEMMA NumberLeft ==
  ASSUME ImportTypeOK, NEW i \in Importers, Honest(i), HasNext(i), FewTunnels,
         NEW n \in TunnelName
  PROVE  Free(n, jobs[i].taken) # {}
<1> DEFINE report == jobs[i].report
           T == Len(tunnels)
           R == Len(report)
           NameAt == [w \in 1 .. T + R |-> IF w <= T THEN tunnels[w].name ELSE report[w - T].name]
<1>1. T \in Nat /\ R \in Nat /\ T + R < 998
  <2>1. tunnels \in Seq(Tunnel) /\ jobs \in [Importers -> Job]
    BY TypeParts
  <2>2. Len(DraftsOf(i)) \in Nat /\ R \in Nat
    BY <2>1, DraftCount
  <2>3. R + 1 <= Len(DraftsOf(i)) /\ T + Len(DraftsOf(i)) <= 998
    BY DEF HasNext, Place, FewTunnels
  <2> QED BY <2>1, <2>2, <2>3
<1>2. DOMAIN tunnels = 1 .. T /\ DOMAIN report = 1 .. R
  <2>1. tunnels \in Seq(Tunnel) /\ jobs[i] \in Job
    BY TypeParts
  <2>2. report \in Seq(Items)
    BY <2>1, JobParts
  <2> QED BY <2>1, <2>2
<1> HIDE DEF T, R
<1>3. \A t \in jobs[i].taken : \E w \in 1 .. T + R : Key(NameAt[w]) = t
  <2> TAKE t \in jobs[i].taken
  <2>1. Bore(t) \/ Announced(report, R, t)
    BY DEF Honest, TakenExplained, HasNext, R
  <2>2. CASE Bore(t)
    <3>1. PICK r \in 1 .. T : Key(tunnels[r].name) = t
      BY <1>2, <2>2 DEF Bore
    <3>2. r \in 1 .. T + R /\ r <= T
      BY <1>1
    <3> QED BY <3>1, <3>2
  <2>3. CASE Announced(report, R, t)
    <3>1. PICK j \in 1 .. R : Key(report[j].name) = t
      BY <2>3 DEF Announced
    <3>2. T + j \in 1 .. T + R /\ ~(T + j <= T) /\ (T + j) - T = j
      BY <1>1
    <3> QED BY <3>1, <3>2
  <2> QED BY <2>1, <2>2, <2>3
<1> HIDE DEF NameAt
<1>4. T + R \in Nat /\ (T + R) + 1 < 999
  BY <1>1
<1>5. \E k \in 2 .. 999 : Key(Numbered(n, k)) \notin jobs[i].taken
  <2> DEFINE last == 999
  <2>1. last \in Nat /\ (T + R) + 1 < last
    BY <1>4
  <2> HIDE DEF last
  <2>2. \E k \in 2 .. last : Key(Numbered(n, k)) \notin jobs[i].taken
    BY <1>3, <1>4, <2>1, Pigeons
  <2> QED BY <2>2 DEF last
<1> QED BY <1>5 DEF Free, IsFree

\* So the name of what is made is none of those believed taken.
LEMMA NewNameIsFree ==
  ASSUME ImportTypeOK, NEW i \in Importers, Honest(i), HasNext(i), FewTunnels
  PROVE  Key(NewTunnel(i).name) \notin jobs[i].taken
<1>1. /\ Key(NewTunnel(i).name) = Key(Renamed(i).name)
      /\ Renamed(i).name = IF Conflicts(i) THEN Unique(Base(i), jobs[i].taken) ELSE Current(i).name
  BY NewTunnelIsSound, RenamedIsSound
<1>2. CASE Conflicts(i)
  <2>1. Base(i) \in TunnelName
    BY BaseIsName
  <2>2. Free(Base(i), jobs[i].taken) # {}
    BY <2>1, NumberLeft
  <2> QED BY <1>1, <1>2, <2>1, <2>2, UniqueIsFree
<1>3. CASE ~Conflicts(i)
  BY <1>1, <1>3 DEF Conflicts
<1> QED BY <1>2, <1>3

\* What stands of the tunnels stands also when some are deleted, or made by hand, and when
\* imports that have made nothing yet read the names again.
LEMMA NoClashStays ==
  ASSUME NoClashItCouldSee, tunnels \in Seq(Tunnel), tunnels' \in Seq(Tunnel),
         \A r \in DOMAIN tunnels :
           /\ r \in DOMAIN tunnels'
           /\ tunnels'[r].name = tunnels[r].name /\ tunnels'[r].maker = tunnels[r].maker
           /\ tunnels'[r].alive => tunnels[r].alive
           /\ tunnels[r].maker # "hand" =>
                jobs'[tunnels[r].maker].since = jobs[tunnels[r].maker].since,
         \A r \in DOMAIN tunnels' \ DOMAIN tunnels :
           r > Len(tunnels) /\ tunnels'[r].maker = "hand"
  PROVE  NoClashItCouldSee'
<1>1. SUFFICES ASSUME NEW r \in Live', NEW q \in Live', q < r, tunnels'[r].maker # "hand",
                      Key(tunnels'[q].name) = Key(tunnels'[r].name)
               PROVE  q > jobs'[tunnels'[r].maker].since /\ tunnels'[q].maker # tunnels'[r].maker
  BY DEF NoClashItCouldSee, Imported
<1>2. r \in DOMAIN tunnels
  BY <1>1 DEF Live
<1>3. q \in DOMAIN tunnels
  <2>1. q \in Nat /\ r \in Nat /\ r <= Len(tunnels) /\ Len(tunnels) \in Nat /\ q \in DOMAIN tunnels'
    BY <1>1, <1>2 DEF Live
  <2> QED BY <1>1, <2>1
<1>4. r \in Live /\ q \in Live
  BY <1>1, <1>2, <1>3 DEF Live
<1> QED BY <1>1, <1>2, <1>3, <1>4 DEF NoClashItCouldSee, Imported

\* An import keeps its file, and reads the names again only as long as it has made nothing.
JobsKept ==
  \A j \in Importers :
    /\ jobs'[j].file = jobs[j].file
    /\ \/ jobs'[j].since = jobs[j].since
       \/ jobs[j].phase \in {"idle", "previewed"}
       \/ jobs[j].dry

LEMMA StepKeepsJobs == ImportTypeOK /\ [ImportNext]_importVars => JobsKept
<1> SUFFICES ASSUME ImportTypeOK, [ImportNext]_importVars PROVE JobsKept
  OBVIOUS
<1>0. jobs \in [Importers -> Job] /\ \A i \in Importers : jobs[i].taken \in SUBSET TunnelName
  BY TypeParts, JobParts
<1>1. ASSUME NEW n \in HandNames, CreateByHand(n) PROVE JobsKept
  BY <1>1 DEF CreateByHand, JobsKept
<1>2. ASSUME NEW r \in DOMAIN tunnels, DeleteTunnel(r) PROVE JobsKept
  BY <1>2 DEF DeleteTunnel, JobsKept
<1>3. ASSUME NEW h \in Handlers, Preview(h) PROVE JobsKept
  <2>1. \A j \in Importers : jobs'[j].since = jobs[j].since /\ jobs'[j].file = jobs[j].file
    BY <1>3, PreviewEffect
  <2> QED BY <2>1 DEF JobsKept
<1>4. ASSUME NEW h \in Handlers, BeginCommit(h) PROVE JobsKept
  BY <1>4, BeginCommitEffect DEF JobsKept
<1>5. ASSUME NEW s \in Commands, NEW dry \in BOOLEAN, BeginCommand(s, dry) PROVE JobsKept
  BY <1>5, BeginCommandEffect DEF JobsKept
<1>6. ASSUME NEW s \in Commands, RepeatCommand(s) PROVE JobsKept
  BY <1>6, RepeatEffect DEF JobsKept
<1>7. ASSUME NEW i \in Importers, NEW item \in Items, NEW taken \in SUBSET TunnelName,
             Reported(i, item, taken)
      PROVE  JobsKept
  <2>1. jobs'[i].since = jobs[i].since /\ jobs'[i].file = jobs[i].file
    BY <1>0, <1>7, ReportedParts
  <2>2. \A j \in Importers \ {i} : jobs'[j] = jobs[j]
    BY <1>0, <1>7, ReportedJob
  <2> QED BY <2>1, <2>2 DEF JobsKept
<1>8. ASSUME NEW i \in Importers, Pass(i) PROVE JobsKept
  <2>1. PICK result \in {"skipped", "error"} :
          /\ Item(result, Current(i).name, 0) \in Items
          /\ Reported(i, Item(result, Current(i).name, 0), jobs[i].taken)
    BY <1>8, PassEffect
  <2> QED BY <1>0, <1>7, <2>1
<1>9. ASSUME NEW i \in Importers, Make(i) PROVE JobsKept
  BY <1>7, <1>9, MakeEffect
<1>10. ASSUME NEW i \in Importers, MakeFails(i) PROVE JobsKept
  BY <1>0, <1>7, <1>10, MakeFailsEffect
<1>11. ASSUME NEW s \in Commands, Foresee(s) PROVE JobsKept
  <2>1. s \in Importers
    BY DEF Importers
  <2> QED BY <1>7, <1>11, <2>1, ForeseeEffect
<1>12. ASSUME NEW s \in Commands, Abort(s) PROVE JobsKept
  <2>1. s \in Importers
    BY DEF Importers
  <2>2. PICK item \in Items :
          jobs' = [jobs EXCEPT ![s].phase = "aborted", ![s].report = Append(@, item)]
    BY <1>12, AbortEffect
  <2>3. \A j \in Importers : jobs'[j].since = jobs[j].since /\ jobs'[j].file = jobs[j].file
    BY <1>0, <2>1, <2>2, AbortedJob
  <2> QED BY <2>3 DEF JobsKept
<1>13. ASSUME NEW i \in Importers, Finish(i) \/ Lose(i) PROVE JobsKept
  <2>1. PICK phase \in Phases : jobs' = [jobs EXCEPT ![i].phase = phase]
    BY <1>13, FinishEffect, LoseEffect
  <2>2. \A j \in Importers : jobs'[j].since = jobs[j].since /\ jobs'[j].file = jobs[j].file
    BY <1>0, <2>1, PhaseJob
  <2> QED BY <2>2 DEF JobsKept
<1>14. CASE UNCHANGED importVars
  BY <1>14 DEF importVars, JobsKept
<1> QED BY <1>1, <1>2, <1>3, <1>4, <1>5, <1>6, <1>8, <1>9, <1>10, <1>11, <1>12, <1>13, <1>14
        DEF ImportNext

\* Only Make makes a tunnel that is not made by hand.
TunnelsKept ==
  /\ \A r \in DOMAIN tunnels :
       /\ r \in DOMAIN tunnels'
       /\ tunnels'[r].name = tunnels[r].name /\ tunnels'[r].maker = tunnels[r].maker
       /\ tunnels'[r].item = tunnels[r].item /\ tunnels'[r].gist = tunnels[r].gist
       /\ tunnels'[r].alive => tunnels[r].alive
  /\ \A r \in DOMAIN tunnels' \ DOMAIN tunnels :
       r > Len(tunnels) /\ tunnels'[r].maker = "hand"

LEMMA StepKeepsTunnels ==
  ImportTypeOK /\ [ImportNext]_importVars => TunnelsKept \/ \E i \in Importers : Make(i)
<1> SUFFICES ASSUME ImportTypeOK, [ImportNext]_importVars
             PROVE  TunnelsKept \/ \E i \in Importers : Make(i)
  OBVIOUS
<1>0. tunnels \in Seq(Tunnel)
  BY TypeParts
<1>1. ASSUME NEW n \in HandNames, CreateByHand(n) PROVE TunnelsKept
  <2>1. tunnels' = Append(tunnels, MadeByHand(n))
    BY <1>1, CreateByHandEffect
  <2>2. MadeByHand(n) \in Tunnel /\ MadeByHand(n).maker = "hand"
    BY HandRow
  <2>3. /\ Len(tunnels) \in Nat
        /\ DOMAIN tunnels = 1 .. Len(tunnels)
        /\ DOMAIN tunnels' = 1 .. Len(tunnels) + 1
        /\ tunnels'[Len(tunnels) + 1] = MadeByHand(n)
        /\ \A r \in DOMAIN tunnels : tunnels'[r] = tunnels[r]
    BY <1>0, <2>1, <2>2, OneMore
  <2> QED BY <2>2, <2>3 DEF TunnelsKept
<1>2. ASSUME NEW r \in DOMAIN tunnels, DeleteTunnel(r) PROVE TunnelsKept
  <2>1. tunnels' = [tunnels EXCEPT ![r].alive = FALSE]
    BY <1>2, DeleteTunnelEffect
  <2> QED BY <1>0, <2>1, OneLess DEF TunnelsKept
<1>3. UNCHANGED tunnels => TunnelsKept
  BY DEF TunnelsKept
<1>4. ASSUME NEW h \in Handlers, Preview(h) \/ BeginCommit(h) PROVE UNCHANGED tunnels
  BY <1>4 DEF Preview, BeginCommit
<1>5. ASSUME NEW s \in Commands, NEW dry \in BOOLEAN, BeginCommand(s, dry) PROVE UNCHANGED tunnels
  BY <1>5 DEF BeginCommand
<1>6. ASSUME NEW s \in Commands, RepeatCommand(s) \/ Abort(s) \/ Foresee(s) PROVE UNCHANGED tunnels
  BY <1>6 DEF RepeatCommand, Abort, Foresee
<1>7. ASSUME NEW i \in Importers, Pass(i) \/ MakeFails(i) \/ Finish(i) \/ Lose(i)
      PROVE  UNCHANGED tunnels
  BY <1>7 DEF Pass, MakeFails, Finish, Lose
<1>8. CASE UNCHANGED importVars
  BY <1>3, <1>8 DEF importVars
<1> QED BY <1>1, <1>2, <1>3, <1>4, <1>5, <1>6, <1>7, <1>8 DEF ImportNext

LEMMA MakeKeepsNoClash ==
  ASSUME HonestInv, NoClashItCouldSee, FewTunnels, NEW i \in Importers, Make(i)
  PROVE  NoClashItCouldSee'
<1> DEFINE m == Len(tunnels) + 1
<1>1. ImportTypeOK /\ Honest(i) /\ tunnels \in Seq(Tunnel) /\ jobs \in [Importers -> Job]
  BY TypeParts DEF HonestInv
<1>2. /\ tunnels' = Append(tunnels, RowOf(i)) /\ HasNext(i) /\ Len(tunnels) \in Nat
      /\ Item("created", NewTunnel(i).name, m) \in Items
      /\ jobs[i].taken \cup {Key(NewTunnel(i).name)} \in SUBSET TunnelName
      /\ Reported(i, Item("created", NewTunnel(i).name, m),
                  jobs[i].taken \cup {Key(NewTunnel(i).name)})
  BY <1>1, MakeEffect DEF Importable
<1>3. \A j \in Importers : jobs'[j].since = jobs[j].since
  <2>1. jobs'[i].since = jobs[i].since
    BY <1>1, <1>2, ReportedParts
  <2>2. \A j \in Importers \ {i} : jobs'[j] = jobs[j]
    BY <1>1, <1>2, ReportedJob
  <2> QED BY <2>1, <2>2
<1>4. RowOf(i) \in Tunnel /\ RowOf(i).name = NewTunnel(i).name /\ RowOf(i).maker = i
  BY <1>1, <1>2, RowIsSound
<1>5. /\ DOMAIN tunnels = 1 .. Len(tunnels) /\ DOMAIN tunnels' = 1 .. m
      /\ tunnels'[m] = RowOf(i) /\ \A r \in DOMAIN tunnels : tunnels'[r] = tunnels[r]
  BY <1>1, <1>2, <1>4, OneMore
<1>6. Key(NewTunnel(i).name) \notin jobs[i].taken
  BY <1>1, <1>2, NewNameIsFree
<1> HIDE DEF m
<1>7. SUFFICES ASSUME NEW r \in Live', NEW q \in Live', q < r, tunnels'[r].maker # "hand",
                      Key(tunnels'[q].name) = Key(tunnels'[r].name)
               PROVE  q > jobs'[tunnels'[r].maker].since /\ tunnels'[q].maker # tunnels'[r].maker
  BY DEF NoClashItCouldSee, Imported
<1>8. r \in 1 .. m /\ q \in DOMAIN tunnels /\ q \in Live /\ tunnels'[q] = tunnels[q]
  <2>1. r \in 1 .. m /\ q \in 1 .. m
    BY <1>5, <1>7 DEF Live
  <2>2. q \in DOMAIN tunnels
    BY <1>2, <1>5, <1>7, <2>1 DEF m
  <2> QED BY <1>5, <2>1, <2>2 DEF Live
<1>9. CASE r = m
  <2>1. Key(tunnels[q].name) \notin jobs[i].taken
    BY <1>4, <1>5, <1>6, <1>7, <1>8, <1>9
  <2>2. ~(q <= jobs[i].since) /\ tunnels[q].maker # i
    BY <1>1, <1>2, <1>8, <2>1 DEF Honest, SeesTaken, HasNext
  <2>3. q \in Nat /\ jobs[i].since \in Nat
    <3>1. jobs[i] \in Job
      BY <1>1
    <3>2. jobs[i].since \in Nat
      BY <3>1, JobParts
    <3> QED BY <1>5, <1>8, <3>2
  <2> QED BY <1>3, <1>4, <1>5, <1>8, <1>9, <2>2, <2>3
<1>10. CASE r # m
  <2>1. r \in DOMAIN tunnels
    BY <1>2, <1>5, <1>8, <1>10 DEF m
  <2>2. r \in Live /\ tunnels'[r] = tunnels[r]
    BY <1>5, <2>1 DEF Live
  <2>3. tunnels[r].maker \in Importers
    <3>1. tunnels[r] \in Tunnel
      BY <1>1, <2>1
    <3> QED BY <1>7, <2>2, <3>1, TunnelParts
  <2>4. q > jobs[tunnels[r].maker].since /\ tunnels[q].maker # tunnels[r].maker
    BY <1>7, <1>8, <2>2 DEF NoClashItCouldSee, Imported
  <2> QED BY <1>3, <1>8, <2>2, <2>3, <2>4
<1> QED BY <1>9, <1>10

LEMMA NoClashStep ==
  HonestInv /\ NoClashItCouldSee /\ FewTunnels /\ [ImportNext]_importVars => NoClashItCouldSee'
<1> SUFFICES ASSUME HonestInv, NoClashItCouldSee, FewTunnels, [ImportNext]_importVars
             PROVE  NoClashItCouldSee'
  OBVIOUS
<1>1. ImportTypeOK /\ tunnels \in Seq(Tunnel) /\ tunnels' \in Seq(Tunnel)
  <2>1. ImportTypeOK /\ ImportTypeOK'
    BY ImportTypeStep DEF HonestInv
  <2> QED BY <2>1 DEF ImportTypeOK
<1>2. CASE \E i \in Importers : Make(i)
  BY <1>2, MakeKeepsNoClash
<1>3. CASE TunnelsKept
  <2>1. JobsKept
    BY <1>1, StepKeepsJobs
  <2>2. ASSUME NEW r \in DOMAIN tunnels, tunnels[r].maker # "hand"
        PROVE  jobs'[tunnels[r].maker].since = jobs[tunnels[r].maker].since
    <3>1. tunnels[r].maker \in Importers
      <4>1. tunnels[r] \in Tunnel
        BY <1>1
      <4> QED BY <2>2, <4>1, TunnelParts
    <3>2. Honest(tunnels[r].maker)
      BY <3>1 DEF HonestInv
    <3> QED BY <2>1, <3>1, <3>2 DEF Honest, NoneYet, JobsKept
  <2> QED BY <1>1, <1>3, <2>2, NoClashStays DEF TunnelsKept
<1> QED BY <1>1, <1>2, <1>3, StepKeepsTunnels

LEMMA NoClashInit == ImportInit => NoClashItCouldSee
  BY DEF ImportInit, NoClashItCouldSee, Live

\* An import makes no tunnel with the name of one that it had read or made, as
\* long as the numbers that uniqueImportName tries do not run out: past 999 it
\* uses a name that it does not compare with the others.
THEOREM NoClashItCouldSeeHolds == ImportSpec /\ []FewTunnels => []NoClashItCouldSee
<1>1. ImportSpec => []HonestInv
  BY HonestInit, HonestStep, PTL DEF ImportSpec
<1> QED BY <1>1, NoClashInit, NoClashStep, PTL DEF ImportSpec

-----------------------------------------------------------------------------
(***************************************************************************)
(* What a command line says is settled by the names it found: a dry run    *)
(* and the run after it, that find the same, say the same.                 *)
(***************************************************************************)

Done == {"created", "would-create"}
TakenBy(found, report, k) ==
  found \cup {Key(report[j].name) : j \in {l \in 1 .. k - 1 : report[l].result \in Done}}
Clash(file, found, report, k) == Key(Drafts[file][k].name) \in TakenBy(found, report, k)
GivesUp(file, strategy, found, report, k) == Clash(file, found, report, k) /\ strategy = "error"

\* What the command says of its draft k, when no call fails; result is what it says of those
\* it imports.
Verdict(file, strategy, found, report, result, k) ==
  LET clash == Clash(file, found, report, k)
      name == Drafts[file][k].name
  IN  IF clash /\ strategy = "skip" THEN report[k].result = "skipped" /\ report[k].name = name
      ELSE IF clash /\ strategy = "error" THEN report[k].result = "error" /\ report[k].name = name
      ELSE /\ report[k].result = result
           /\ report[k].name =
                IF clash THEN Unique(name, TakenBy(found, report, k)) ELSE name

\* A command in that phase has said this much.
Runs(file, strategy, found, report, phase, result) ==
  /\ \A k \in DOMAIN report : Verdict(file, strategy, found, report, result, k)
  /\ phase \in {"running", "done"} =>
       \A k \in DOMAIN report : ~GivesUp(file, strategy, found, report, k)
  /\ phase = "aborted" =>
       /\ Len(report) \in DOMAIN report
       /\ GivesUp(file, strategy, found, report, Len(report))

\* What was foretold and what is reported, as far as the report goes.
Agree(report, foretold) ==
  /\ Len(report) <= Len(foretold)
  /\ \A k \in DOMAIN report :
       /\ foretold[k].name = report[k].name
       /\ foretold[k].result = "would-create" <=> report[k].result = "created"

LEMMA TakenByAppend ==
  ASSUME NEW report \in Seq(Items), NEW item \in Items, NEW found
  PROVE  /\ \A k \in 1 .. Len(report) + 1 :
              TakenBy(found, Append(report, item), k) = TakenBy(found, report, k)
         /\ TakenBy(found, Append(report, item), Len(report) + 2) =
              TakenBy(found, report, Len(report) + 1)
                \cup IF item.result \in Done THEN {Key(item.name)} ELSE {}
<1> DEFINE n == Len(report)
           more == Append(report, item)
<1>1. n \in Nat /\ DOMAIN report = 1 .. n /\ more[n + 1] = item
      /\ \A k \in 1 .. n : more[k] = report[k]
  BY OneMoreItem
<1> HIDE DEF more, n
<1>2. ASSUME NEW k \in 1 .. n + 1 PROVE TakenBy(found, more, k) = TakenBy(found, report, k)
  <2>1. \A l \in 1 .. k - 1 : more[l] = report[l]
    BY <1>1
  <2>2. {l \in 1 .. k - 1 : more[l].result \in Done} = {l \in 1 .. k - 1 : report[l].result \in Done}
    BY <2>1
  <2> QED BY <2>1, <2>2 DEF TakenBy
<1>3. TakenBy(found, more, n + 2) =
        TakenBy(found, report, n + 1) \cup IF item.result \in Done THEN {Key(item.name)} ELSE {}
  <2> DEFINE Before == {l \in 1 .. n : report[l].result \in Done}
             Now == {l \in 1 .. n + 1 : more[l].result \in Done}
  <2>1. Now = Before \cup IF item.result \in Done THEN {n + 1} ELSE {}
    <3>1. 1 .. n + 1 = (1 .. n) \cup {n + 1}
      BY <1>1
    <3> QED BY <1>1, <3>1
  <2>2. (n + 2) - 1 = n + 1 /\ (n + 1) - 1 = n
    BY <1>1
  <2>3. TakenBy(found, more, n + 2) = found \cup {Key(more[j].name) : j \in Now}
    BY <2>2 DEF TakenBy
  <2>4. TakenBy(found, report, n + 1) = found \cup {Key(report[j].name) : j \in Before}
    BY <2>2 DEF TakenBy
  <2>5. \A j \in Before : more[j] = report[j]
    BY <1>1
  <2> HIDE DEF Before, Now
  <2> QED BY <1>1, <2>1, <2>3, <2>4, <2>5
<1> QED BY <1>2, <1>3 DEF more, n

LEMMA VerdictStays ==
  ASSUME NEW report \in Seq(Items), NEW item \in Items, NEW k \in 1 .. Len(report),
         NEW file, NEW strategy, NEW found, NEW result
  PROVE  /\ Verdict(file, strategy, found, Append(report, item), result, k)
              <=> Verdict(file, strategy, found, report, result, k)
         /\ GivesUp(file, strategy, found, Append(report, item), k)
              <=> GivesUp(file, strategy, found, report, k)
<1>1. Len(report) \in Nat /\ k \in 1 .. Len(report) + 1
  OBVIOUS
<1>2. TakenBy(found, Append(report, item), k) = TakenBy(found, report, k)
  BY <1>1, TakenByAppend
<1>3. Append(report, item)[k] = report[k]
  BY OneMoreItem
<1>4. Clash(file, found, Append(report, item), k) <=> Clash(file, found, report, k)
  BY <1>2 DEF Clash
<1>5. GivesUp(file, strategy, found, Append(report, item), k)
        <=> GivesUp(file, strategy, found, report, k)
  BY <1>4 DEF GivesUp
<1>6. Verdict(file, strategy, found, Append(report, item), result, k)
        <=> Verdict(file, strategy, found, report, result, k)
  BY <1>2, <1>3, <1>4 DEF Verdict
<1> QED BY <1>5, <1>6

\* The draft in hand clashes with what the loop believes taken.
LEMMA ClashNow ==
  ASSUME NEW report \in Seq(Items), NEW item \in Items, NEW file, NEW found, NEW taken,
         taken = TakenBy(found, report, Len(report) + 1)
  PROVE  /\ TakenBy(found, Append(report, item), Len(report) + 1) = taken
         /\ Clash(file, found, Append(report, item), Len(report) + 1)
              <=> Key(Drafts[file][Len(report) + 1].name) \in taken
<1>1. Len(report) + 1 \in 1 .. Len(report) + 1
  <2>1. Len(report) \in Nat
    OBVIOUS
  <2> QED BY <2>1
<1>2. TakenBy(found, Append(report, item), Len(report) + 1) = taken
  BY <1>1, TakenByAppend
<1> QED BY <1>2 DEF Clash

LEMMA RunGoesOn ==
  ASSUME NEW report \in Seq(Items), NEW item \in Items,
         NEW file, NEW strategy, NEW found, NEW result,
         Runs(file, strategy, found, report, "running", result),
         Verdict(file, strategy, found, Append(report, item), result, Len(report) + 1)
  PROVE  /\ ~GivesUp(file, strategy, found, Append(report, item), Len(report) + 1)
              => Runs(file, strategy, found, Append(report, item), "running", result)
         /\ GivesUp(file, strategy, found, Append(report, item), Len(report) + 1)
              => Runs(file, strategy, found, Append(report, item), "aborted", result)
<1> DEFINE n == Len(report)
           more == Append(report, item)
<1>1. /\ n \in Nat /\ Len(more) = n + 1 /\ DOMAIN more = 1 .. n + 1 /\ DOMAIN report = 1 .. n
      /\ n + 1 \in DOMAIN more
  BY OneMoreItem
<1>2. \A k \in DOMAIN more : k = n + 1 \/ k \in 1 .. n
  BY <1>1
<1>3. ASSUME NEW k \in 1 .. n
      PROVE  /\ Verdict(file, strategy, found, more, result, k)
             /\ ~GivesUp(file, strategy, found, more, k)
  <2>1. /\ Verdict(file, strategy, found, report, result, k)
        /\ ~GivesUp(file, strategy, found, report, k)
    BY <1>1 DEF Runs
  <2> QED BY <2>1, VerdictStays
<1> HIDE DEF n, more
<1>4. \A k \in DOMAIN more : Verdict(file, strategy, found, more, result, k)
  BY <1>2, <1>3 DEF n, more
<1>5. ~GivesUp(file, strategy, found, more, n + 1)
        => Runs(file, strategy, found, more, "running", result)
  BY <1>2, <1>3, <1>4 DEF Runs
<1>6. GivesUp(file, strategy, found, more, n + 1)
        => Runs(file, strategy, found, more, "aborted", result)
  BY <1>1, <1>4 DEF Runs
<1> QED BY <1>5, <1>6 DEF n, more

LEMMA DoneIsResult ==
  ASSUME NEW report, NEW file, NEW strategy, NEW found, NEW phase, NEW result \in Done,
         Runs(file, strategy, found, report, phase, result)
  PROVE  \A k \in DOMAIN report : report[k].result \in Done <=> report[k].result = result
<1> TAKE k \in DOMAIN report
<1>1. Verdict(file, strategy, found, report, result, k)
  BY DEF Runs
<1>2. report[k].result \in {"skipped", "error", result}
  BY <1>1 DEF Verdict
<1> QED BY <1>2 DEF Done

LEMMA AgreeTaken ==
  ASSUME NEW report \in Seq(Items), NEW foretold \in Seq(Items), Agree(report, foretold),
         NEW file, NEW strategy, NEW found, NEW phase, NEW fphase,
         Runs(file, strategy, found, report, phase, "created"),
         Runs(file, strategy, found, foretold, fphase, "would-create"),
         NEW k \in 1 .. Len(report) + 1
  PROVE  /\ TakenBy(found, report, k) = TakenBy(found, foretold, k)
         /\ Clash(file, found, report, k) <=> Clash(file, found, foretold, k)
         /\ GivesUp(file, strategy, found, report, k) <=> GivesUp(file, strategy, found, foretold, k)
<1>1. \A j \in 1 .. k - 1 : j \in DOMAIN report /\ j \in DOMAIN foretold
  <2>1. /\ DOMAIN report = 1 .. Len(report) /\ DOMAIN foretold = 1 .. Len(foretold)
        /\ Len(report) \in Nat /\ Len(foretold) \in Nat /\ Len(report) <= Len(foretold)
    BY DEF Agree
  <2> QED BY <2>1
<1>2. \A j \in DOMAIN report : report[j].result \in Done <=> report[j].result = "created"
  BY DoneIsResult DEF Done
<1>3. \A j \in DOMAIN foretold : foretold[j].result \in Done <=> foretold[j].result = "would-create"
  BY DoneIsResult DEF Done
<1>4. \A j \in 1 .. k - 1 : /\ report[j].result \in Done <=> foretold[j].result \in Done
                            /\ report[j].name = foretold[j].name
  BY <1>1, <1>2, <1>3 DEF Agree
<1>5. {l \in 1 .. k - 1 : report[l].result \in Done} = {l \in 1 .. k - 1 : foretold[l].result \in Done}
  BY <1>4
<1>6. TakenBy(found, report, k) = TakenBy(found, foretold, k)
  BY <1>4, <1>5 DEF TakenBy
<1> QED BY <1>6 DEF Clash, GivesUp

LEMMA AgreeGoesOn ==
  ASSUME NEW report \in Seq(Items), NEW foretold \in Seq(Items), NEW item \in Items,
         Agree(report, foretold), NEW file \in DOMAIN Files, NEW strategy, NEW found,
         NEW fphase \in {"done", "aborted"},
         Runs(file, strategy, found, report, "running", "created"),
         Runs(file, strategy, found, foretold, fphase, "would-create"),
         fphase = "done" => Len(foretold) = Len(Drafts[file]),
         Len(report) + 1 <= Len(Drafts[file]),
         Verdict(file, strategy, found, Append(report, item), "created", Len(report) + 1)
  PROVE  Agree(Append(report, item), foretold)
<1> DEFINE n == Len(report)
           L == Len(foretold)
<1>1. n \in Nat /\ L \in Nat /\ n <= L /\ DOMAIN report = 1 .. n /\ DOMAIN foretold = 1 .. L
  BY DEF Agree
<1>2. n < L
  <2>0. n < L \/ n = L
    <3>1. n \in Nat /\ L \in Nat /\ n <= L
      BY <1>1
    <3> HIDE DEF n, L
    <3> QED BY <3>1
  <2>1. CASE fphase = "done"
    BY <1>1, <2>1
  <2>2. CASE fphase = "aborted"
    <3>1. SUFFICES ASSUME n = L PROVE FALSE
      BY <2>0
    <3>2. L \in 1 .. L /\ GivesUp(file, strategy, found, foretold, L)
      BY <1>1, <2>2 DEF Runs
    <3>3. n \in DOMAIN report /\ n \in 1 .. n + 1
      BY <1>1, <3>1, <3>2
    <3>4. GivesUp(file, strategy, found, report, n)
      BY <3>1, <3>2, <3>3, AgreeTaken
    <3> QED BY <3>3, <3>4 DEF Runs
  <2> QED BY <2>1, <2>2
<1>3. n + 1 \in DOMAIN foretold /\ n + 1 \in 1 .. n + 1
  BY <1>1, <1>2
<1>4. /\ TakenBy(found, report, n + 1) = TakenBy(found, foretold, n + 1)
      /\ TakenBy(found, Append(report, item), n + 1) = TakenBy(found, report, n + 1)
  BY <1>3, AgreeTaken, TakenByAppend
<1>5. Verdict(file, strategy, found, foretold, "would-create", n + 1)
  BY <1>3 DEF Runs
<1>6. /\ Len(Append(report, item)) = n + 1 /\ DOMAIN Append(report, item) = 1 .. n + 1
      /\ Append(report, item)[n + 1] = item
      /\ \A k \in 1 .. n : Append(report, item)[k] = report[k]
  BY OneMoreItem
<1>7. /\ foretold[n + 1].name = Append(report, item)[n + 1].name
      /\ foretold[n + 1].result = "would-create" <=> Append(report, item)[n + 1].result = "created"
  BY <1>4, <1>5 DEF Verdict, Clash
<1>8. \A k \in 1 .. n + 1 : k = n + 1 \/ k \in 1 .. n
  BY <1>1
<1> HIDE DEF n, L
<1>9. \A k \in 1 .. n + 1 :
        /\ foretold[k].name = Append(report, item)[k].name
        /\ foretold[k].result = "would-create" <=> Append(report, item)[k].result = "created"
  BY <1>1, <1>6, <1>7, <1>8 DEF Agree
<1>10. n + 1 <= L
  BY <1>1, <1>2
<1> QED BY <1>6, <1>9, <1>10 DEF Agree, n, L

LEMMA SameEnd ==
  ASSUME NEW report \in Seq(Items), NEW foretold \in Seq(Items), Agree(report, foretold),
         NEW file, NEW strategy, NEW found, NEW D,
         NEW phase \in {"done", "aborted"}, NEW fphase \in {"done", "aborted"},
         Runs(file, strategy, found, report, phase, "created"),
         Runs(file, strategy, found, foretold, fphase, "would-create"),
         phase = "done" => Len(report) = D, Len(foretold) <= D
  PROVE  fphase = phase
<1> DEFINE n == Len(report)
           L == Len(foretold)
<1>1. n \in Nat /\ L \in Nat /\ n <= L /\ DOMAIN report = 1 .. n /\ DOMAIN foretold = 1 .. L
  BY DEF Agree
<1>2. ASSUME phase = "done", fphase = "aborted" PROVE FALSE
  <2>1. n = L
    BY <1>1, <1>2
  <2>2. L \in 1 .. L /\ GivesUp(file, strategy, found, foretold, L)
    BY <1>1, <1>2 DEF Runs
  <2>3. n \in DOMAIN report /\ n \in 1 .. n + 1
    BY <1>1, <2>1, <2>2
  <2>4. GivesUp(file, strategy, found, report, n)
    BY <2>1, <2>2, <2>3, AgreeTaken
  <2> QED BY <1>2, <2>3, <2>4 DEF Runs
<1>3. ASSUME phase = "aborted", fphase = "done" PROVE FALSE
  <2>1. n \in 1 .. n /\ GivesUp(file, strategy, found, report, n)
    BY <1>1, <1>3 DEF Runs
  <2>2. n \in DOMAIN foretold /\ n \in 1 .. n + 1
    BY <1>1, <2>1
  <2>3. GivesUp(file, strategy, found, foretold, n)
    BY <2>1, <2>2, AgreeTaken
  <2> QED BY <1>3, <2>2, <2>3 DEF Runs
<1> QED BY <1>2, <1>3

CommandRuns(s) ==
  LET job == jobs[s]
  IN  faults = 0 =>
        /\ Runs(job.file, job.strategy, job.found, job.report, job.phase,
                IF job.dry THEN "would-create" ELSE "created")
        /\ job.phase = "running" => job.taken = TakenBy(job.found, job.report, Len(job.report) + 1)
DryRunFirst(s) == jobs[s].phase = "idle" \/ jobs[s].dry => jobs[s].foretold.phase = "idle"
Foretold(s) ==
  LET job == jobs[s]
      foretold == job.foretold
  IN  foretold.phase # "idle" /\ faults = 0 =>
        /\ foretold.phase \in {"done", "aborted"}
        /\ Len(foretold.report) <= Len(DraftsOf(s))
        /\ foretold.phase = "done" => Len(foretold.report) = Len(DraftsOf(s))
        /\ Runs(job.file, job.strategy, foretold.found, foretold.report, foretold.phase,
                "would-create")
        /\ foretold.found = job.found => Agree(job.report, foretold.report)

Settled(s) == CommandRuns(s) /\ DryRunFirst(s) /\ Foretold(s)
ForetellInv == HonestInv /\ \A s \in Commands : Settled(s)

LEMMA CommandParts ==
  ASSUME ImportTypeOK, NEW s \in Commands
  PROVE  /\ s \in Importers /\ s \notin Handlers /\ jobs[s] \in Job
         /\ jobs[s].report \in Seq(Items) /\ jobs[s].foretold.report \in Seq(Items)
         /\ jobs[s].file \in DOMAIN Files /\ jobs[s].strategy \in Strategies
         /\ jobs[s].taken \in SUBSET TunnelName
         /\ DraftsOf(s) = Drafts[jobs[s].file]
         /\ Strategy(s) = jobs[s].strategy
         /\ Base(s) = Current(s).name
<1>1. s \in Importers /\ s \notin Handlers
  BY ImportersAssumption DEF Importers
<1>2. jobs[s] \in Job
  BY <1>1, TypeParts
<1>3. jobs[s].report \in Seq(Items) /\ jobs[s].file \in DOMAIN Files /\ jobs[s].strategy \in Strategies
      /\ jobs[s].taken \in SUBSET TunnelName
      /\ jobs[s].foretold \in [phase : Phases, found : SUBSET TunnelName, report : Reports]
  BY <1>2, JobParts
<1>4. jobs[s].foretold.report \in Seq(Items)
  BY <1>3 DEF Reports
<1>5. DraftsOf(s) = Drafts[jobs[s].file] /\ Strategy(s) = jobs[s].strategy /\ Base(s) = Current(s).name
  BY <1>1 DEF DraftsOf, Strategy, Base
<1> QED BY <1>1, <1>2, <1>3, <1>4, <1>5

LEMMA JobSettled ==
  ASSUME NEW s \in Commands, Settled(s), jobs'[s] = jobs[s], faults' = 0 => faults = 0
  PROVE  Settled(s)'
<1>1. CommandRuns(s)'
  BY DEF Settled, CommandRuns
<1>2. DryRunFirst(s)'
  BY DEF Settled, DryRunFirst
<1>3. Foretold(s)'
  BY DEF Settled, Foretold, DraftsOf
<1> QED BY <1>1, <1>2, <1>3 DEF Settled

\* An item more is reported, as it must be; the loop goes on, or gives up.
LEMMA ItemSettled ==
  ASSUME ImportTypeOK, NEW s \in Commands, Settled(s), HasNext(s), faults' = faults,
         NEW item \in Items,
         jobs'[s].report = Append(jobs[s].report, item),
         jobs'[s].file = jobs[s].file, jobs'[s].strategy = jobs[s].strategy,
         jobs'[s].found = jobs[s].found, jobs'[s].foretold = jobs[s].foretold,
         jobs'[s].dry = jobs[s].dry,
         item.result = "skipped" => Conflicts(s) /\ Strategy(s) = "skip" /\ item.name = Current(s).name,
         item.result = "error" => Conflicts(s) /\ Strategy(s) = "error" /\ item.name = Current(s).name,
         item.result \in Done =>
           /\ item.result = IF jobs[s].dry THEN "would-create" ELSE "created"
           /\ Conflicts(s) => Strategy(s) = "rename"
           /\ item.name = IF Conflicts(s) THEN Unique(Current(s).name, jobs[s].taken)
                          ELSE Current(s).name,
         jobs'[s].phase = IF item.result = "error" THEN "aborted" ELSE "running",
         jobs'[s].phase = "running" =>
           jobs'[s].taken = jobs[s].taken \cup IF item.result \in Done THEN {Key(item.name)} ELSE {}
  PROVE  Settled(s)'
<1> DEFINE job == jobs[s]
           report == job.report
           n == Len(report)
           result == IF job.dry THEN "would-create" ELSE "created"
           more == Append(report, item)
           Is(k) == Verdict(job.file, job.strategy, job.found, more, result, k)
           Ends(k) == GivesUp(job.file, job.strategy, job.found, more, k)
<1>1. /\ report \in Seq(Items) /\ job.foretold.report \in Seq(Items) /\ job.file \in DOMAIN Files
      /\ DraftsOf(s) = Drafts[job.file] /\ Strategy(s) = job.strategy
  BY CommandParts
<1>2. /\ Current(s) = Drafts[job.file][n + 1] /\ n + 1 <= Len(Drafts[job.file])
      /\ job.phase = "running"
  BY <1>1 DEF Current, Place, HasNext
<1>3. item.result \in {"created", "would-create", "skipped", "error"}
  BY DEF Items
<1>4. /\ Len(more) = n + 1 /\ more[n + 1] = item /\ n \in Nat
  BY <1>1, OneMoreItem
<1>5. DryRunFirst(s)'
  BY <1>3 DEF Settled, DryRunFirst
<1>6. CASE faults # 0
  <2>1. CommandRuns(s)' /\ Foretold(s)'
    BY <1>6 DEF CommandRuns, Foretold
  <2> QED BY <1>5, <2>1 DEF Settled
<1>7. CASE faults = 0
  <2>1. /\ Runs(job.file, job.strategy, job.found, report, "running", result)
        /\ job.taken = TakenBy(job.found, report, n + 1)
    BY <1>2, <1>7 DEF Settled, CommandRuns
  <2> HIDE DEF more, n, report, result, job
  <2>2. /\ TakenBy(job.found, more, n + 1) = job.taken
        /\ Clash(job.file, job.found, more, n + 1) <=> Conflicts(s)
    <3>1. Conflicts(s) <=> Key(Drafts[job.file][n + 1].name) \in job.taken
      BY <1>2 DEF Conflicts, job
    <3> QED BY <1>1, <2>1, <3>1, ClashNow DEF more, n
  <2>3. Is(n + 1) /\ (Ends(n + 1) <=> item.result = "error")
    <3>1. Ends(n + 1) <=> Conflicts(s) /\ job.strategy = "error"
      BY <2>2 DEF GivesUp
    <3>2. CASE item.result = "skipped"
      <4>1. Conflicts(s) /\ job.strategy = "skip" /\ item.name = Drafts[job.file][n + 1].name
        BY <1>1, <1>2, <3>2
      <4> QED BY <1>4, <2>2, <3>1, <3>2, <4>1 DEF Verdict
    <3>3. CASE item.result = "error"
      <4>1. Conflicts(s) /\ job.strategy = "error" /\ item.name = Drafts[job.file][n + 1].name
        BY <1>1, <1>2, <3>3
      <4> QED BY <1>4, <2>2, <3>1, <3>3, <4>1 DEF Verdict
    <3>4. CASE item.result \in Done
      <4>1. /\ item.result = result
            /\ Conflicts(s) => job.strategy = "rename"
            /\ item.name = IF Conflicts(s) THEN Unique(Drafts[job.file][n + 1].name, job.taken)
                           ELSE Drafts[job.file][n + 1].name
        BY <1>1, <1>2, <3>4 DEF result, job
      <4> QED BY <1>4, <2>2, <3>1, <3>4, <4>1 DEF Verdict, Done
    <3> QED BY <1>3, <3>2, <3>3, <3>4 DEF Done
  <2>4. Runs(job.file, job.strategy, job.found, more,
             IF item.result = "error" THEN "aborted" ELSE "running", result)
    BY <1>1, <2>1, <2>3, RunGoesOn DEF more, n
  <2>5. item.result # "error" =>
          jobs'[s].taken = TakenBy(job.found, more, Len(more) + 1)
    <3>1. TakenBy(job.found, more, n + 2) =
            job.taken \cup IF item.result \in Done THEN {Key(item.name)} ELSE {}
      <4>1. TakenBy(job.found, Append(report, item), Len(report) + 2) =
              TakenBy(job.found, report, Len(report) + 1)
                \cup IF item.result \in Done THEN {Key(item.name)} ELSE {}
        BY <1>1, TakenByAppend
      <4> QED BY <2>1, <4>1 DEF more, n
    <3>2. Len(more) + 1 = n + 2
      BY <1>4
    <3> QED BY <3>1, <3>2 DEF job
  <2>6. CommandRuns(s)'
    BY <2>4, <2>5 DEF CommandRuns, more, report, job, result
  <2>7. Foretold(s)'
    <3> DEFINE foretold == job.foretold
    <3>1. SUFFICES ASSUME foretold.phase # "idle"
          PROVE /\ foretold.phase \in {"done", "aborted"}
                /\ Len(foretold.report) <= Len(DraftsOf(s))
                /\ foretold.phase = "done" => Len(foretold.report) = Len(DraftsOf(s))
                /\ Runs(job.file, job.strategy, foretold.found, foretold.report, foretold.phase,
                        "would-create")
                /\ foretold.found = job.found => Agree(more, foretold.report)
      BY <1>7 DEF Foretold, DraftsOf, more, report, job
    <3>2. /\ foretold.phase \in {"done", "aborted"}
          /\ Len(foretold.report) <= Len(DraftsOf(s))
          /\ foretold.phase = "done" => Len(foretold.report) = Len(DraftsOf(s))
          /\ Runs(job.file, job.strategy, foretold.found, foretold.report, foretold.phase,
                  "would-create")
          /\ foretold.found = job.found => Agree(report, foretold.report)
      BY <1>7, <3>1 DEF Settled, Foretold, job, report
    <3>3. result = "created"
      BY <3>1 DEF Settled, DryRunFirst, job, result
    <3>4. ASSUME foretold.found = job.found PROVE Agree(more, foretold.report)
      <4>1. Agree(report, foretold.report)
        BY <3>2, <3>4
      <4>2. /\ Runs(job.file, job.strategy, job.found, foretold.report, foretold.phase, "would-create")
            /\ foretold.phase = "done" => Len(foretold.report) = Len(Drafts[job.file])
            /\ foretold.phase \in {"done", "aborted"}
        BY <1>1, <3>2, <3>4
      <4>3. /\ Runs(job.file, job.strategy, job.found, report, "running", "created")
            /\ Verdict(job.file, job.strategy, job.found, more, "created", n + 1)
        BY <2>1, <2>3, <3>3
      <4> QED BY <1>1, <1>2, <4>1, <4>2, <4>3, AgreeGoesOn DEF more, n
    <3> QED BY <3>2, <3>4
  <2> QED BY <1>5, <2>6, <2>7 DEF Settled
<1> QED BY <1>6, <1>7

LEMMA FaultSettled ==
  ASSUME NEW s \in Commands, ImportTypeOK, Settled(s), faults' = faults + 1,
         jobs'[s].dry = jobs[s].dry, jobs'[s].foretold = jobs[s].foretold,
         jobs'[s].phase # "idle"
  PROVE  Settled(s)'
<1>1. faults' # 0
  <2>1. faults \in Nat
    BY FaultsAssumption DEF ImportTypeOK
  <2> QED BY <2>1
<1>2. DryRunFirst(s)'
  BY DEF Settled, DryRunFirst
<1>3. CommandRuns(s)' /\ Foretold(s)'
  BY <1>1 DEF CommandRuns, Foretold
<1> QED BY <1>2, <1>3 DEF Settled

LEMMA NothingSaid ==
  ASSUME NEW file, NEW strategy, NEW found, NEW result
  PROVE  /\ Runs(file, strategy, found, <<>>, "running", result)
         /\ Runs(file, strategy, found, <<>>, "idle", result)
         /\ TakenBy(found, <<>>, Len(<<>>) + 1) = found
<1>1. DOMAIN <<>> = {} /\ Len(<<>>) = 0
  OBVIOUS
<1>2. Runs(file, strategy, found, <<>>, "running", result)
  BY <1>1 DEF Runs
<1>3. Runs(file, strategy, found, <<>>, "idle", result)
  BY <1>1 DEF Runs
<1>4. TakenBy(found, <<>>, 1) = found
  <2>1. 1 .. 1 - 1 = {}
    OBVIOUS
  <2>2. {l \in 1 .. 1 - 1 : <<>>[l].result \in Done} = {}
    BY <2>1
  <2> QED BY <2>2 DEF TakenBy
<1> QED BY <1>1, <1>2, <1>3, <1>4

LEMMA BeginSettled ==
  ASSUME HonestInv, NEW s \in Commands, Settled(s), NEW dry \in BOOLEAN, BeginCommand(s, dry)
  PROVE  Settled(s)'
<1>0. ImportTypeOK /\ s \in Importers /\ BlankAtFirst(s)
  BY DEF HonestInv, Honest, Importers
<1>1. /\ jobs[s].phase = "idle" /\ jobs'[s].phase = "running"
      /\ jobs'[s].taken = Names /\ jobs'[s].found = Names
      /\ jobs'[s].report = jobs[s].report /\ jobs'[s].foretold = jobs[s].foretold
  BY <1>0, BeginCommandEffect
<1>2. jobs'[s].report = <<>> /\ jobs'[s].foretold.phase = "idle"
  BY <1>0, <1>1 DEF BlankAtFirst, Settled, DryRunFirst
<1>3. CommandRuns(s)'
  BY <1>1, <1>2, NothingSaid DEF CommandRuns
<1>4. DryRunFirst(s)' /\ Foretold(s)'
  BY <1>2 DEF DryRunFirst, Foretold
<1> QED BY <1>3, <1>4 DEF Settled

LEMMA RepeatSettled ==
  ASSUME HonestInv, NEW s \in Commands, Settled(s), RepeatCommand(s)
  PROVE  Settled(s)'
<1>0. ImportTypeOK /\ s \in Importers
  BY DEF HonestInv, Importers
<1>1. /\ jobs[s].phase \in {"done", "aborted"} /\ jobs[s].dry
      /\ jobs'[s].phase = "running" /\ jobs'[s].dry = FALSE
      /\ jobs'[s].taken = Names /\ jobs'[s].found = Names
      /\ jobs'[s].file = jobs[s].file /\ jobs'[s].strategy = jobs[s].strategy
      /\ jobs'[s].report = <<>>
      /\ jobs'[s].foretold =
           [phase |-> jobs[s].phase, found |-> jobs[s].found, report |-> jobs[s].report]
      /\ UNCHANGED <<tunnels, faults>>
  BY <1>0, RepeatEffect
<1>2. CommandRuns(s)'
  BY <1>1, NothingSaid DEF CommandRuns
<1>3. DryRunFirst(s)'
  BY <1>1 DEF DryRunFirst
<1>4. Foretold(s)'
  <2>1. SUFFICES ASSUME faults = 0
        PROVE /\ Len(jobs[s].report) <= Len(DraftsOf(s))
              /\ jobs[s].phase = "done" => Len(jobs[s].report) = Len(DraftsOf(s))
              /\ Runs(jobs[s].file, jobs[s].strategy, jobs[s].found, jobs[s].report, jobs[s].phase,
                      "would-create")
              /\ Agree(<<>>, jobs[s].report)
    BY <1>1 DEF Foretold, DraftsOf
  <2>2. /\ Len(jobs[s].report) <= Len(DraftsOf(s))
        /\ jobs[s].phase = "done" => Len(jobs[s].report) = Len(DraftsOf(s))
    BY <1>0, TypeParts DEF Shaped
  <2>3. Runs(jobs[s].file, jobs[s].strategy, jobs[s].found, jobs[s].report, jobs[s].phase,
             "would-create")
    BY <1>1, <2>1 DEF Settled, CommandRuns
  <2>4. Agree(<<>>, jobs[s].report)
    <3>1. jobs[s].report \in Seq(Items)
      BY <1>0, CommandParts
    <3>2. Len(<<>>) <= Len(jobs[s].report) /\ DOMAIN <<>> = {}
      BY <3>1
    <3> QED BY <3>2 DEF Agree
  <2> QED BY <2>2, <2>3, <2>4
<1> QED BY <1>2, <1>3, <1>4 DEF Settled

LEMMA FinishSettled ==
  ASSUME ImportTypeOK, NEW s \in Commands, Settled(s), Finish(s)
  PROVE  Settled(s)'
<1>0. s \in Importers /\ jobs \in [Importers -> Job]
  BY TypeParts DEF Importers
<1>1. /\ jobs[s].phase = "running" /\ faults' = faults /\ "done" \in Phases
      /\ jobs' = [jobs EXCEPT ![s].phase = "done"]
  BY <1>0, FinishEffect
<1>2. /\ jobs'[s].phase = "done" /\ jobs'[s].report = jobs[s].report
      /\ jobs'[s].file = jobs[s].file /\ jobs'[s].strategy = jobs[s].strategy
      /\ jobs'[s].dry = jobs[s].dry /\ jobs'[s].found = jobs[s].found
      /\ jobs'[s].foretold = jobs[s].foretold
  BY <1>0, <1>1, PhaseJob
<1>3. CommandRuns(s)'
  BY <1>1, <1>2 DEF Settled, CommandRuns, Runs
<1>4. DryRunFirst(s)'
  BY <1>1, <1>2 DEF Settled, DryRunFirst
<1>5. Foretold(s)'
  BY <1>1, <1>2 DEF Settled, Foretold, DraftsOf
<1> QED BY <1>3, <1>4, <1>5 DEF Settled

\* Items reported by Reported.
LEMMA ReportSettled ==
  ASSUME ImportTypeOK, NEW s \in Commands, Settled(s), HasNext(s), faults' = faults,
         NEW item \in Items, NEW taken \in SUBSET TunnelName, Reported(s, item, taken),
         item.result # "error",
         item.result = "skipped" => Conflicts(s) /\ Strategy(s) = "skip" /\ item.name = Current(s).name,
         item.result \in Done =>
           /\ item.result = IF jobs[s].dry THEN "would-create" ELSE "created"
           /\ Conflicts(s) => Strategy(s) = "rename"
           /\ item.name = IF Conflicts(s) THEN Unique(Current(s).name, jobs[s].taken)
                          ELSE Current(s).name,
         taken = jobs[s].taken \cup IF item.result \in Done THEN {Key(item.name)} ELSE {}
  PROVE  Settled(s)'
<1>1. s \in Importers /\ jobs \in [Importers -> Job]
  BY TypeParts DEF Importers
<1>2. /\ jobs'[s].report = Append(jobs[s].report, item) /\ jobs'[s].taken = taken
      /\ jobs'[s].phase = jobs[s].phase
      /\ jobs'[s].file = jobs[s].file /\ jobs'[s].strategy = jobs[s].strategy
      /\ jobs'[s].dry = jobs[s].dry /\ jobs'[s].found = jobs[s].found
      /\ jobs'[s].foretold = jobs[s].foretold
  BY <1>1, ReportedParts
<1>3. jobs'[s].phase = IF item.result = "error" THEN "aborted" ELSE "running"
  BY <1>2 DEF HasNext
<1> QED BY <1>2, <1>3, ItemSettled

LEMMA CommandName ==
  ASSUME ImportTypeOK, NEW s \in Commands, HasNext(s)
  PROVE  /\ NewTunnel(s).name \in TunnelName
         /\ NewTunnel(s).name = IF Conflicts(s) THEN Unique(Current(s).name, jobs[s].taken)
                                ELSE Current(s).name
<1>1. s \in Importers /\ s \notin Handlers /\ Base(s) = Current(s).name
  BY CommandParts
<1> QED BY <1>1, NewTunnelIsSound, RenamedIsSound

LEMMA PassSettled ==
  ASSUME ImportTypeOK, NEW s \in Commands, Settled(s), Pass(s)
  PROVE  Settled(s)'
<1>1. s \in Importers /\ s \notin Handlers /\ jobs[s].taken \in SUBSET TunnelName
  BY CommandParts
<1>2. PICK result \in {"skipped", "error"} :
              /\ result = "skipped" => Conflicts(s) /\ Strategy(s) = "skip"
              /\ result = "error" => s \in Handlers
              /\ Item(result, Current(s).name, 0) \in Items
              /\ Reported(s, Item(result, Current(s).name, 0), jobs[s].taken)
  BY <1>1, PassEffect
<1>3. HasNext(s) /\ faults' = faults
  BY <1>1, PassEffect
<1>4. PICK item \in Items : item = Item(result, Current(s).name, 0)
  BY <1>2
<1>5. item.result = "skipped" /\ item.name = Current(s).name
  <2>1. Current(s).name \in TunnelName
    BY <1>1, <1>3, CurrentIsSound
  <2> QED BY <1>1, <1>2, <1>4, <2>1, ItemIsItem
<1>6. Reported(s, item, jobs[s].taken) /\ Conflicts(s) /\ Strategy(s) = "skip"
  BY <1>1, <1>2, <1>4
<1>7. item.result \notin Done
  BY <1>5 DEF Done
<1> QED BY <1>1, <1>3, <1>5, <1>6, <1>7, ReportSettled

LEMMA ImportSettled ==
  ASSUME ImportTypeOK, NEW s \in Commands, Settled(s), Make(s) \/ Foresee(s)
  PROVE  Settled(s)'
<1>1. s \in Importers /\ s \notin Handlers
  BY CommandParts
<1>2. PICK result \in Done, id \in Nat :
        /\ result = IF jobs[s].dry THEN "would-create" ELSE "created"
        /\ Item(result, NewTunnel(s).name, id) \in Items
        /\ jobs[s].taken \cup {Key(NewTunnel(s).name)} \in SUBSET TunnelName
        /\ Reported(s, Item(result, NewTunnel(s).name, id), jobs[s].taken \cup {Key(NewTunnel(s).name)})
        /\ Importable(s) /\ faults' = faults
  <2>1. CASE Make(s)
    <3>1. /\ Importable(s) /\ ~jobs[s].dry
          /\ faults' = faults
          /\ Len(tunnels) \in Nat
          /\ Item("created", NewTunnel(s).name, Len(tunnels) + 1) \in Items
          /\ jobs[s].taken \cup {Key(NewTunnel(s).name)} \in SUBSET TunnelName
          /\ Reported(s, Item("created", NewTunnel(s).name, Len(tunnels) + 1),
                      jobs[s].taken \cup {Key(NewTunnel(s).name)})
      BY <1>1, <2>1, MakeEffect
    <3>2. Len(tunnels) + 1 \in Nat /\ "created" \in Done
      BY <3>1 DEF Done
    <3> QED BY <3>1, <3>2
  <2>2. CASE Foresee(s)
    <3>1. 0 \in Nat /\ "would-create" \in Done
      BY DEF Done
    <3> QED BY <1>1, <2>2, <3>1, ForeseeEffect
  <2> QED BY <2>1, <2>2
<1>3. HasNext(s) /\ (Conflicts(s) => Strategy(s) = "rename")
  BY <1>2 DEF Importable
<1>4. /\ NewTunnel(s).name \in TunnelName
      /\ NewTunnel(s).name = IF Conflicts(s) THEN Unique(Current(s).name, jobs[s].taken)
                             ELSE Current(s).name
  BY <1>3, CommandName
<1>5. PICK item \in Items : item = Item(result, NewTunnel(s).name, id)
  BY <1>2
<1>6. item.result = result /\ item.name = NewTunnel(s).name /\ item.result # "error"
        /\ item.result # "skipped"
  BY <1>2, <1>4, <1>5, ItemIsItem DEF Done
<1>7. PICK taken \in SUBSET TunnelName : taken = jobs[s].taken \cup {Key(item.name)}
  BY <1>2, <1>6
<1>8. Reported(s, item, taken)
  BY <1>2, <1>5, <1>6, <1>7
<1>9. item.result \in Done /\ item.result = IF jobs[s].dry THEN "would-create" ELSE "created"
  BY <1>2, <1>6
<1>10. item.name = IF Conflicts(s) THEN Unique(Current(s).name, jobs[s].taken) ELSE Current(s).name
  BY <1>4, <1>6
<1>11. taken = jobs[s].taken \cup IF item.result \in Done THEN {Key(item.name)} ELSE {}
  BY <1>7, <1>9
<1>12. faults' = faults
  BY <1>2
<1> QED BY <1>3, <1>6, <1>8, <1>9, <1>10, <1>11, <1>12, ReportSettled

LEMMA AbortSettled ==
  ASSUME ImportTypeOK, NEW s \in Commands, Settled(s), Abort(s)
  PROVE  Settled(s)'
<1>1. s \in Importers /\ s \notin Handlers /\ jobs \in [Importers -> Job]
  BY CommandParts, TypeParts
<1>2. /\ HasNext(s) /\ Conflicts(s) /\ Strategy(s) = "error" /\ faults' = faults
      /\ Item("error", Current(s).name, 0) \in Items
      /\ jobs' = [jobs EXCEPT ![s].phase = "aborted",
                              ![s].report = Append(@, Item("error", Current(s).name, 0))]
  BY AbortEffect
<1>3. PICK item \in Items : item = Item("error", Current(s).name, 0)
  BY <1>2
<1>4. item.result = "error" /\ item.name = Current(s).name
  <2>1. Current(s).name \in TunnelName
    BY <1>1, <1>2, CurrentIsSound
  <2> QED BY <1>3, <2>1, ItemIsItem
<1>5. jobs' = [jobs EXCEPT ![s].phase = "aborted", ![s].report = Append(@, item)]
  BY <1>2, <1>3
<1>6. /\ jobs'[s].report = Append(jobs[s].report, item)
      /\ jobs'[s].phase = "aborted"
      /\ jobs'[s].file = jobs[s].file /\ jobs'[s].strategy = jobs[s].strategy
      /\ jobs'[s].dry = jobs[s].dry /\ jobs'[s].found = jobs[s].found
      /\ jobs'[s].foretold = jobs[s].foretold
  BY <1>1, <1>5, AbortedJob
<1>7. item.result # "skipped" /\ item.result \notin Done
  BY <1>4 DEF Done
<1> QED BY <1>2, <1>4, <1>6, <1>7, ItemSettled

LEMMA FaultyStep ==
  ASSUME ImportTypeOK, NEW s \in Commands, Settled(s), MakeFails(s) \/ Lose(s)
  PROVE  Settled(s)'
<1>1. s \in Importers /\ jobs \in [Importers -> Job] /\ jobs[s].taken \in SUBSET TunnelName
  BY CommandParts, TypeParts
<1>2. CASE MakeFails(s)
  <2>1. /\ HasNext(s) /\ faults' = faults + 1
        /\ Item("error", Current(s).name, 0) \in Items
        /\ Reported(s, Item("error", Current(s).name, 0), jobs[s].taken)
    BY <1>1, <1>2, MakeFailsEffect DEF Importable
  <2>2. /\ jobs'[s].phase = jobs[s].phase /\ jobs'[s].dry = jobs[s].dry
        /\ jobs'[s].foretold = jobs[s].foretold
    BY <1>1, <2>1, ReportedParts
  <2>3. jobs'[s].phase # "idle"
    BY <2>1, <2>2 DEF HasNext
  <2> QED BY <2>1, <2>2, <2>3, FaultSettled
<1>3. CASE Lose(s)
  <2>1. /\ faults' = faults + 1 /\ "lost" \in Phases
        /\ jobs' = [jobs EXCEPT ![s].phase = "lost"]
    BY <1>1, <1>3, LoseEffect
  <2>2. /\ jobs'[s].phase = "lost" /\ jobs'[s].dry = jobs[s].dry
        /\ jobs'[s].foretold = jobs[s].foretold
    BY <1>1, <2>1, PhaseJob
  <2> QED BY <2>1, <2>2, FaultSettled
<1> QED BY <1>2, <1>3

LEMMA ForetellInit == ImportInit => ForetellInv
<1> SUFFICES ASSUME ImportInit PROVE ForetellInv
  OBVIOUS
<1>1. HonestInv
  BY HonestInit
<1>2. ASSUME NEW s \in Commands PROVE Settled(s)
  <2>1. s \in Importers
    BY DEF Importers
  <2>2. jobs[s].phase = "idle" /\ jobs[s].report = <<>> /\ jobs[s].foretold.phase = "idle"
    <3>1. jobs[s].phase = "idle" /\ jobs[s].report = <<>> /\ jobs[s].foretold = NoReport
      BY <2>1, FirstJobs
    <3>2. NoReport.phase = "idle"
      BY DEF NoReport
    <3> QED BY <3>1, <3>2
  <2>3. CommandRuns(s)
    BY <2>2, NothingSaid DEF CommandRuns
  <2>4. DryRunFirst(s) /\ Foretold(s)
    BY <2>2 DEF DryRunFirst, Foretold
  <2> QED BY <2>3, <2>4 DEF Settled
<1> QED BY <1>1, <1>2 DEF ForetellInv

\* A step of one importer leaves the jobs of the others, and takes no fault back.
LEMMA OthersJobs ==
  ASSUME jobs \in [Importers -> Job], faults \in Nat, NEW i \in Importers,
         Pass(i) \/ Make(i) \/ MakeFails(i) \/ Finish(i) \/ Lose(i) \/ Abort(i) \/ Foresee(i)
  PROVE  /\ \A j \in Importers \ {i} : jobs'[j] = jobs[j]
         /\ faults' = 0 => faults = 0
<1>1. faults' = 0 => faults = 0
  <2>1. faults' = faults \/ faults' = faults + 1
    BY DEF Pass, Make, MakeFails, Finish, Lose, Abort, Foresee
  <2> QED BY <2>1
<1>2. ASSUME NEW item, NEW taken, Reported(i, item, taken), NEW j \in Importers \ {i}
      PROVE  jobs'[j] = jobs[j]
  BY <1>2 DEF Reported
<1>3. Pass(i) => \E item, taken : Reported(i, item, taken)
  BY DEF Pass
<1>4. Make(i) \/ MakeFails(i) \/ Foresee(i) => \E item, taken : Reported(i, item, taken)
  BY DEF Make, MakeFails, Foresee
<1>5. ASSUME Finish(i) \/ Lose(i) \/ Abort(i), NEW j \in Importers \ {i} PROVE jobs'[j] = jobs[j]
  BY <1>5 DEF Finish, Lose, Abort
<1> QED BY <1>1, <1>2, <1>3, <1>4, <1>5

LEMMA ForetellStep == ForetellInv /\ [ImportNext]_importVars => ForetellInv'
<1> SUFFICES ASSUME ForetellInv, [ImportNext]_importVars PROVE ForetellInv'
  OBVIOUS
<1>0. /\ HonestInv /\ ImportTypeOK /\ jobs \in [Importers -> Job] /\ faults \in Nat
      /\ \A s \in Commands : Settled(s)
  <2>1. HonestInv /\ ImportTypeOK /\ \A s \in Commands : Settled(s)
    BY DEF ForetellInv, HonestInv
  <2>2. faults \in Nat
    BY <2>1, FaultsAssumption DEF ImportTypeOK
  <2> QED BY <2>1, <2>2, TypeParts
<1>a. HonestInv'
  BY <1>0, HonestStep
<1>b. SUFFICES ASSUME NEW s \in Commands PROVE Settled(s)'
  BY <1>a DEF ForetellInv
<1>c. s \in Importers /\ s \notin Handlers /\ Settled(s)
  BY <1>0, CommandParts
<1>1. ASSUME UNCHANGED <<jobs, faults>> PROVE Settled(s)'
  BY <1>1, <1>c, JobSettled
<1>2. ASSUME NEW h \in Handlers, Preview(h) \/ BeginCommit(h) PROVE Settled(s)'
  <2>1. jobs'[s] = jobs[s] /\ faults' = faults
    BY <1>0, <1>2, <1>c, PreviewEffect, BeginCommitEffect
  <2> QED BY <2>1, <1>c, JobSettled
<1>3. ASSUME NEW q \in Commands, NEW dry \in BOOLEAN, BeginCommand(q, dry) PROVE Settled(s)'
  <2>0. (\A j \in Importers \ {q} : jobs'[j] = jobs[j]) /\ faults' = faults
    <3>1. ImportTypeOK
      BY <1>0
    <3> QED BY <3>1, <1>3, BeginCommandEffect
  <2>1. q # s => jobs'[s] = jobs[s] /\ faults' = faults
    BY <2>0, <1>c
  <2> QED BY <1>0, <1>3, <1>c, <2>1, JobSettled, BeginSettled
<1>4. ASSUME NEW q \in Commands, RepeatCommand(q) PROVE Settled(s)'
  <2>0. (\A j \in Importers \ {q} : jobs'[j] = jobs[j]) /\ faults' = faults
    <3>1. ImportTypeOK
      BY <1>0
    <3> QED BY <3>1, <1>4, RepeatEffect
  <2>1. q # s => jobs'[s] = jobs[s] /\ faults' = faults
    BY <2>0, <1>c
  <2> QED BY <1>0, <1>4, <1>c, <2>1, JobSettled, RepeatSettled
<1>5. ASSUME NEW i \in Importers,
             Pass(i) \/ Make(i) \/ MakeFails(i) \/ Finish(i) \/ Lose(i) \/ Abort(i) \/ Foresee(i),
             i # s
      PROVE  Settled(s)'
  <2>1. jobs'[s] = jobs[s] /\ (faults' = 0 => faults = 0)
    BY <1>0, <1>5, <1>c, OthersJobs
  <2> QED BY <2>1, <1>c, JobSettled
<1>6. ASSUME Pass(s) \/ Make(s) \/ MakeFails(s) \/ Finish(s) \/ Lose(s) \/ Abort(s) \/ Foresee(s)
      PROVE  Settled(s)'
  BY <1>0, <1>6, <1>c, PassSettled, ImportSettled, FaultyStep, FinishSettled, AbortSettled
<1>7. ASSUME NEW i \in Importers,
             Pass(i) \/ Make(i) \/ MakeFails(i) \/ Finish(i) \/ Lose(i) \/ Abort(i) \/ Foresee(i)
      PROVE  Settled(s)'
  BY <1>5, <1>6, <1>7
<1>8. \A q \in Commands : q \in Importers
  BY DEF Importers
<1>9. ASSUME NEW n \in HandNames, CreateByHand(n) PROVE UNCHANGED <<jobs, faults>>
  BY <1>9 DEF CreateByHand
<1>10. ASSUME NEW r \in DOMAIN tunnels, DeleteTunnel(r) PROVE UNCHANGED <<jobs, faults>>
  BY <1>10 DEF DeleteTunnel
<1>11. UNCHANGED importVars => UNCHANGED <<jobs, faults>>
  BY DEF importVars
<1> QED BY <1>1, <1>2, <1>3, <1>4, <1>7, <1>8, <1>9, <1>10, <1>11 DEF ImportNext

LEMMA SettledForetells == ForetellInv => DryRunForetells
<1> SUFFICES ASSUME ForetellInv PROVE DryRunForetells
  OBVIOUS
<1>1. SUFFICES ASSUME NEW s \in Commands,
                      jobs[s].foretold.phase # "idle", jobs[s].foretold.found = jobs[s].found,
                      jobs[s].phase \in {"done", "aborted"}, faults = 0
      PROVE  /\ jobs[s].foretold.phase = jobs[s].phase
             /\ \A k \in DOMAIN jobs[s].report :
                  /\ jobs[s].foretold.report[k].name = jobs[s].report[k].name
                  /\ (jobs[s].foretold.report[k].result = "would-create")
                       <=> (jobs[s].report[k].result = "created")
  BY DEF DryRunForetells
<1>2. ImportTypeOK /\ Settled(s)
  BY DEF ForetellInv, HonestInv
<1>3. /\ s \in Importers /\ jobs[s].report \in Seq(Items) /\ jobs[s].foretold.report \in Seq(Items)
      /\ Shaped(s)
  BY <1>2, CommandParts, TypeParts
<1>4. jobs[s].dry = FALSE
  <2>1. jobs[s].dry \in BOOLEAN
    BY <1>2, <1>3, JobParts, TypeParts
  <2>2. ~jobs[s].dry
    BY <1>1, <1>2 DEF Settled, DryRunFirst
  <2> QED BY <2>1, <2>2
<1>5. Runs(jobs[s].file, jobs[s].strategy, jobs[s].found, jobs[s].report, jobs[s].phase, "created")
  BY <1>1, <1>2, <1>4 DEF Settled, CommandRuns
<1>6. /\ jobs[s].foretold.phase \in {"done", "aborted"}
      /\ Len(jobs[s].foretold.report) <= Len(DraftsOf(s))
      /\ Runs(jobs[s].file, jobs[s].strategy, jobs[s].found, jobs[s].foretold.report,
              jobs[s].foretold.phase, "would-create")
      /\ Agree(jobs[s].report, jobs[s].foretold.report)
  BY <1>1, <1>2 DEF Settled, Foretold
<1>7. jobs[s].phase = "done" => Len(jobs[s].report) = Len(DraftsOf(s))
  BY <1>3 DEF Shaped
<1>8. jobs[s].foretold.phase = jobs[s].phase
  BY <1>1, <1>3, <1>5, <1>6, <1>7, SameEnd
<1> QED BY <1>6, <1>8 DEF Agree

\* What frpdeck import --dry-run says, the same command does, as long as it finds
\* the same names and no call fails: ForetellInv relates each line of the two
\* reports to the lines before it.
THEOREM DryRunForetellsHolds == ImportSpec => []DryRunForetells
<1> QED BY ForetellInit, ForetellStep, SettledForetells, PTL DEF ImportSpec

-----------------------------------------------------------------------------
(***************************************************************************)
(* What frp makes of the fields is the same whether it reads them in the   *)
(* file, in the draft, in the row or in what a driver says.                *)
(***************************************************************************)

LEMMA TrimTwice ==
  ASSUME NEW v \in Values
  PROVE  /\ Trim(Trim(v)) = Trim(v)
         /\ OrLoopback(OrLoopback(v)) = OrLoopback(v)
         /\ Trim(OrLoopback(v)) = OrLoopback(v)
         /\ OrLoopback(Trim(v)) = OrLoopback(v)
         /\ Trim(v) = "http" <=> v = "http"
  BY DEF Values, Trim, OrLoopback

LEMMA TrimNothing == Trim("") = "" /\ OrLoopback("") = "loopback"
  BY DEF Trim, OrLoopback

\* frp does not tell the sets a and b apart, for an entry of that type.
Alike(role, type, a, b) ==
  \A f \in Known(role, type) :
    /\ f = "localIP" => OrLoopback(a[f]) = OrLoopback(b[f])
    /\ f = "healthCheckPath" => (Trim(b["healthCheckType"]) = "http" => Trim(a[f]) = Trim(b[f]))
    /\ f = "groupKey" => (Has(b, "group") => Trim(a[f]) = Trim(b[f]))
    /\ f = "pluginOptions" => (Has(b, "plugin") => Trim(a[f]) = Trim(b[f]))
    /\ f \notin {"localIP", "healthCheckPath", "groupKey", "pluginOptions", "serverUser"}
         => Trim(a[f]) = Trim(b[f])

LEMMA KnownAreFields ==
  ASSUME NEW role, NEW type PROVE Known(role, type) \subseteq Fields
<1>1. ASSUME NEW f \in Known(role, type) PROVE f \in Fields
  <2>1. CASE role = "visitor"
    BY <1>1, <2>1 DEF Known, Addressed, Fields
  <2>2. CASE role # "visitor"
    <3>1. CASE type \in {"tcp", "udp"}
      BY <1>1, <2>2, <3>1 DEF Known, Addressed, Fields
    <3>2. CASE type = "http"
      BY <1>1, <2>2, <3>2 DEF Known, Addressed, Fields
    <3>3. CASE type = "https"
      BY <1>1, <2>2, <3>3 DEF Known, Addressed, Fields
    <3>4. CASE type = "tcpmux"
      BY <1>1, <2>2, <3>4 DEF Known, Addressed, Fields
    <3>5. CASE type \notin {"tcp", "udp", "http", "https", "tcpmux"}
      BY <1>1, <2>2, <3>5 DEF Known, Addressed, Fields
    <3> QED BY <3>1, <3>2, <3>3, <3>4, <3>5
  <2> QED BY <2>1, <2>2
<1> QED BY <1>1

LEMMA AlikeEffect ==
  ASSUME NEW x, NEW a \in [Fields -> Values], NEW b \in [Fields -> Values],
         Alike(x.role, x.type, a, b), Trim(a["plugin"]) = Trim(b["plugin"]),
         x.role # "visitor" =>
           Trim(a["group"]) = Trim(b["group"])
             /\ Trim(a["healthCheckType"]) = Trim(b["healthCheckType"])
  PROVE  Meant(x, a) = Meant(x, b)
<1> DEFINE A == [a EXCEPT !["serverUser"] = ""]
           B == [b EXCEPT !["serverUser"] = ""]
           EffectOf(set, f) ==
             CASE f \in {"localIP", "localPort"} /\ Has(set, "plugin") -> ""
               [] f = "localIP" /\ ~Has(set, "plugin") -> OrLoopback(set[f])
               [] f = "healthCheckPath" /\ Trim(set["healthCheckType"]) # "http" -> ""
               [] f = "groupKey" /\ ~Has(set, "group") -> ""
               [] f = "pluginOptions" /\ ~Has(set, "plugin") -> ""
               [] OTHER -> Trim(set[f])
<1>1. \A f \in Fields : A[f] = IF f = "serverUser" THEN "" ELSE a[f]
  OBVIOUS
<1>2. \A f \in Fields : B[f] = IF f = "serverUser" THEN "" ELSE b[f]
  OBVIOUS
<1>3. {"plugin", "group", "healthCheckType", "localIP", "healthCheckPath", "groupKey",
       "pluginOptions"} \subseteq Fields
  BY DEF Fields
<1>4. ASSUME NEW f \in Known(x.role, x.type) PROVE EffectOf(A, f) = EffectOf(B, f)
  <2>1. f \in Fields
    BY KnownAreFields
  <2>2. Has(A, "plugin") <=> Has(B, "plugin")
    BY <1>1, <1>2, <1>3 DEF Has
  <2>3. x.role = "visitor" => f \notin {"groupKey", "healthCheckPath", "pluginOptions"}
    BY DEF Known, Addressed
  <2>4. x.role # "visitor" => /\ Has(A, "group") <=> Has(B, "group")
                              /\ Trim(A["healthCheckType"]) = Trim(B["healthCheckType"])
    BY <1>1, <1>2, <1>3 DEF Has
  <2>5. /\ Has(b, "group") <=> Has(B, "group")
        /\ Has(b, "plugin") <=> Has(B, "plugin")
        /\ b["healthCheckType"] = B["healthCheckType"]
    BY <1>2, <1>3 DEF Has
  <2>6. A[f] = (IF f = "serverUser" THEN "" ELSE a[f]) /\ B[f] = IF f = "serverUser" THEN "" ELSE b[f]
    BY <1>1, <1>2, <2>1
  <2> HIDE DEF A, B
  <2>7. CASE f = "localIP"
    BY <2>2, <2>6, <2>7 DEF Alike
  <2>8. CASE f = "healthCheckPath"
    BY <2>3, <2>4, <2>5, <2>6, <2>8 DEF Alike
  <2>9. CASE f = "groupKey"
    BY <2>3, <2>4, <2>5, <2>6, <2>9 DEF Alike
  <2>10. CASE f = "pluginOptions"
    BY <2>2, <2>3, <2>5, <2>6, <2>10 DEF Alike
  <2>11. CASE f \notin {"localIP", "healthCheckPath", "groupKey", "pluginOptions"}
    <3>1. Trim(A[f]) = Trim(B[f])
      BY <2>6, <2>11 DEF Alike
    <3> QED BY <2>2, <2>11, <3>1
  <2> QED BY <2>7, <2>8, <2>9, <2>10, <2>11
<1>5. [f \in Known(x.role, x.type) |-> EffectOf(A, f)] = [f \in Known(x.role, x.type) |-> EffectOf(B, f)]
  <2> HIDE DEF EffectOf, A, B
  <2> QED BY <1>4
<1> QED BY <1>5 DEF Meant, Effect

\* The fields of a proxy, in four of the five tables.
LEMMA ProxyKnows ==
  ASSUME NEW type \in ProxyTypes, NEW role, role # "visitor"
  PROVE  /\ Known(role, type) =
              Addressed \cup {"bandwidthLimit", "group", "groupKey", "healthCheckType",
                              "healthCheckPath", "plugin", "pluginOptions"} \cup TableFields(type)
         /\ DraftFields(type) = TableFields(type)
         /\ ProxyFields(type) \cup ProxyLists(type) = TableFields(type)
         /\ TableFields(type) \subseteq
              {"remotePort", "customDomains", "subdomain", "locations", "httpUser",
               "httpPassword", "hostHeaderRewrite", "secretKey", "allowUsers"}
<1>1. Known(role, type) =
              Addressed \cup {"bandwidthLimit", "group", "groupKey", "healthCheckType",
                              "healthCheckPath", "plugin", "pluginOptions"} \cup TableFields(type)
  BY DEF Known, TableFields
<1>2. DraftFields(type) = TableFields(type)
  BY DEF DraftFields, TableFields
<1>3. CASE type \in {"tcp", "udp"}
  BY <1>1, <1>2, <1>3 DEF ProxyFields, ProxyLists, TableFields
<1>4. CASE type = "http"
  BY <1>1, <1>2, <1>4 DEF ProxyFields, ProxyLists, TableFields
<1>5. CASE type = "https"
  BY <1>1, <1>2, <1>5 DEF ProxyFields, ProxyLists, TableFields
<1>6. CASE type = "tcpmux"
  BY <1>1, <1>2, <1>6 DEF ProxyFields, ProxyLists, TableFields
<1>7. CASE type \in {"stcp", "xtcp", "sudp"}
  BY <1>1, <1>2, <1>7 DEF ProxyFields, ProxyLists, TableFields
<1> QED BY <1>3, <1>4, <1>5, <1>6, <1>7 DEF ProxyTypes

\* What a file may say.
LEMMA EntryParts ==
  ASSUME NEW x \in Entry("server") \cup Entry("visitor")
  PROVE  /\ x \in Gist /\ x.set \in [Fields -> Values] /\ x.type \in ProxyTypes
         /\ x.role \in {"server", "visitor"}
         /\ \A f \in Fields \ Known(x.role, x.type) : x.set[f] = ""
         /\ Trim(x.set["bandwidthLimit"]) \in {"", "v"}
         /\ x.set["pluginOptions"] # "broken"
<1>1. PICK role \in {"server", "visitor"} : x \in Entry(role)
  OBVIOUS
<1>2. x \in Gist /\ x.set \in [Fields -> Values] /\ x.role = role
  BY <1>1, EntryIsGist
<1>3. x.type \in ProxyTypes
  BY <1>2, GistParts
<1>4. /\ \A f \in Fields \ Known(x.role, x.type) : x.set[f] = ""
      /\ Trim(x.set["bandwidthLimit"]) \in {"", "v"}
      /\ x.set["pluginOptions"] # "broken"
  BY <1>1, <1>2 DEF Entry
<1> QED BY <1>2, <1>3, <1>4

LEMMA FieldNames ==
  {"localIP", "localPort", "useEncryption", "useCompression", "bandwidthLimit",
   "group", "groupKey", "healthCheckType", "healthCheckPath", "plugin",
   "pluginOptions", "serverName", "serverUser", "secretKey"} \subseteq Fields
  BY DEF Fields

\* Parsing keeps what the entry means.
LEMMA DraftMeans ==
  ASSUME NEW x \in Entry("server") \cup Entry("visitor")
  PROVE  /\ Meant(x, Draft(x).set) = Meant(x, x.set)
         /\ Trim(Draft(x).set["plugin"]) = Trim(x.set["plugin"])
         /\ Trim(Draft(x).set["bandwidthLimit"]) = Trim(x.set["bandwidthLimit"])
         /\ Draft(x).set["pluginOptions"] # "broken"
<1> DEFINE D == Draft(x).set
<1>0. /\ x \in Gist /\ x.set \in [Fields -> Values] /\ x.type \in ProxyTypes
      /\ x.role \in {"server", "visitor"}
      /\ \A f \in Fields \ Known(x.role, x.type) : x.set[f] = ""
      /\ x.set["pluginOptions"] # "broken"
  BY EntryParts
<1>1. Draft(x) \in Gist /\ D \in [Fields -> Values]
  BY <1>0, DraftIsGist, GistParts
<1>2. CASE x.role = "visitor"
  <2>1. D = [Only({"localPort", "serverName", "secretKey", "useEncryption", "useCompression"}, x.set)
             EXCEPT !["localIP"] = OrLoopback(x.set["localIP"])]
    BY <1>0, <1>2, MapVisitorIsGist DEF Draft
  <2>2. \A f \in Fields :
          D[f] = IF f = "localIP" THEN OrLoopback(x.set["localIP"])
                 ELSE IF f \in {"localPort", "serverName", "secretKey", "useEncryption",
                                "useCompression"} THEN x.set[f] ELSE ""
    BY <2>1 DEF Only
  <2>3. Known(x.role, x.type) = Addressed \cup {"serverName", "serverUser", "secretKey"}
    BY <1>2 DEF Known
  <2>4. /\ x.set["plugin"] = "" /\ D["plugin"] = "" /\ D["pluginOptions"] = ""
        /\ x.set["bandwidthLimit"] = "" /\ D["bandwidthLimit"] = ""
    BY <1>0, <2>2, <2>3, FieldNames DEF Addressed
  <2>5. x.set["localIP"] \in Values
    BY <1>0, FieldNames
  <2> HIDE DEF D
  <2>6. Alike(x.role, x.type, D, x.set)
    <3>1. SUFFICES ASSUME NEW f \in Known(x.role, x.type)
          PROVE /\ f = "localIP" => OrLoopback(D[f]) = OrLoopback(x.set[f])
                /\ f \notin {"localIP", "serverUser"} => D[f] = x.set[f]
                /\ f \notin {"healthCheckPath", "groupKey", "pluginOptions"}
      BY DEF Alike
    <3> QED BY <2>2, <2>3, <2>5, FieldNames, TrimTwice DEF Addressed
  <2>7. Meant(x, D) = Meant(x, x.set)
    BY <1>0, <1>1, <1>2, <2>4, <2>6, AlikeEffect
  <2> QED BY <2>4, <2>7 DEF D
<1>3. CASE x.role # "visitor"
  <2>1. D = [Only(DraftBase \cup DraftFields(x.type), x.set)
             EXCEPT !["localIP"] = OrLoopback(x.set["localIP"]),
                    !["healthCheckPath"] = IF x.set["healthCheckType"] # ""
                              THEN x.set["healthCheckPath"] ELSE "",
                    !["pluginOptions"] = IF x.set["plugin"] # ""
                              THEN x.set["pluginOptions"] ELSE ""]
    BY <1>0, <1>3, MapProxyIsGist DEF Draft
  <2>2. \A f \in Fields :
          D[f] = IF f = "localIP" THEN OrLoopback(x.set["localIP"])
                 ELSE IF f = "healthCheckPath"
                        THEN IF x.set["healthCheckType"] # "" THEN x.set["healthCheckPath"] ELSE ""
                 ELSE IF f = "pluginOptions"
                        THEN IF x.set["plugin"] # "" THEN x.set["pluginOptions"] ELSE ""
                 ELSE IF f \in DraftBase \cup DraftFields(x.type) THEN x.set[f] ELSE ""
    BY <2>1, FieldNames DEF Only
  <2>3. /\ Known(x.role, x.type) =
              Addressed \cup {"bandwidthLimit", "group", "groupKey", "healthCheckType",
                              "healthCheckPath", "plugin", "pluginOptions"} \cup DraftFields(x.type)
        /\ DraftFields(x.type) \subseteq
              {"remotePort", "customDomains", "subdomain", "locations", "httpUser",
               "httpPassword", "hostHeaderRewrite", "secretKey", "allowUsers"}
    BY <1>0, <1>3, ProxyKnows
  <2>4. /\ D["plugin"] = x.set["plugin"] /\ D["bandwidthLimit"] = x.set["bandwidthLimit"]
        /\ D["group"] = x.set["group"] /\ D["healthCheckType"] = x.set["healthCheckType"]
        /\ D["pluginOptions"] # "broken"
    BY <1>0, <2>2, FieldNames DEF DraftBase
  <2>5. x.set["localIP"] \in Values
    BY <1>0, FieldNames
  <2> HIDE DEF D
  <2>6. Alike(x.role, x.type, D, x.set)
    <3>1. SUFFICES ASSUME NEW f \in Known(x.role, x.type)
          PROVE /\ f = "localIP" => OrLoopback(D[f]) = OrLoopback(x.set[f])
                /\ f = "healthCheckPath" =>
                     (Trim(x.set["healthCheckType"]) = "http" => D[f] = x.set[f])
                /\ f = "pluginOptions" => (Has(x.set, "plugin") => D[f] = x.set[f])
                /\ f \notin {"localIP", "healthCheckPath", "pluginOptions", "serverUser"}
                     => D[f] = x.set[f]
      BY DEF Alike
    <3>2. f \in Fields
      BY KnownAreFields
    <3>3. CASE f = "localIP"
      BY <2>2, <2>5, <3>2, <3>3, TrimTwice
    <3>4. CASE f = "healthCheckPath"
      BY <2>2, <3>2, <3>4, TrimNothing
    <3>5. CASE f = "pluginOptions"
      BY <2>2, <3>2, <3>5, TrimNothing DEF Has
    <3>6. CASE f \notin {"localIP", "healthCheckPath", "pluginOptions"}
      <4>1. f \in DraftBase \cup DraftFields(x.type)
        BY <2>3, <3>6 DEF Addressed, DraftBase
      <4> QED BY <2>2, <3>2, <3>6, <4>1
    <3> QED BY <3>3, <3>4, <3>5, <3>6
  <2>7. Meant(x, D) = Meant(x, x.set)
    BY <1>0, <1>1, <2>4, <2>6, AlikeEffect
  <2> QED BY <2>4, <2>7 DEF D
<1> QED BY <1>2, <1>3

\* What the web interface and the command line make of the fields of a draft.
RowSet(i, set) ==
  IF i \in Handlers
  THEN [set EXCEPT !["serverUser"] = "", !["localIP"] = OrLoopback(set["localIP"])]
  ELSE [f \in Fields |-> IF f \in Trimmed THEN Trim(set[f]) ELSE set[f]]

\* A row means what its draft means.
LEMMA RowMeans ==
  ASSUME NEW i, NEW x, NEW set \in [Fields -> Values], set["pluginOptions"] # "broken"
  PROVE  /\ Meant(x, RowSet(i, set)) = Meant(x, set)
         /\ Trim(RowSet(i, set)["plugin"]) = Trim(set["plugin"])
         /\ Trim(RowSet(i, set)["bandwidthLimit"]) = Trim(set["bandwidthLimit"])
         /\ Trim(RowSet(i, set)["pluginOptions"]) # "broken"
<1> DEFINE R == RowSet(i, set)
<1>1. /\ R \in [Fields -> Values]
      /\ \A f \in Fields \ {"serverUser"} :
           /\ Trim(R[f]) = Trim(set[f]) \/ f = "localIP"
           /\ OrLoopback(R[f]) = OrLoopback(set[f])
      /\ R["pluginOptions"] = set["pluginOptions"]
  <2>1. "" \in Values
    BY DEF Values
  <2>2. \A f \in Fields : set[f] \in Values
    OBVIOUS
  <2>3. CASE i \in Handlers
    <3>1. R = [set EXCEPT !["serverUser"] = "", !["localIP"] = OrLoopback(set["localIP"])]
      BY <2>3 DEF RowSet
    <3>2. R \in [Fields -> Values]
      <4>1. set["localIP"] \in Values
        BY <2>2, FieldNames
      <4>2. OrLoopback(set["localIP"]) \in Values
        BY <4>1, OrLoopbackIsValue
      <4> QED BY <2>1, <3>1, <4>2
    <3>3. \A f \in Fields \ {"serverUser", "localIP"} : R[f] = set[f]
      BY <3>1
    <3>4. OrLoopback(R["localIP"]) = OrLoopback(set["localIP"])
      BY <3>1, FieldNames, TrimTwice
    <3> QED BY <3>2, <3>3, <3>4, FieldNames
  <2>4. CASE i \notin Handlers
    <3>1. R = [f \in Fields |-> IF f \in Trimmed THEN Trim(set[f]) ELSE set[f]]
      BY <2>4 DEF RowSet
    <3>2. R \in [Fields -> Values]
      BY <3>1, <2>2, TrimIsValue
    <3>3. ASSUME NEW f \in Fields
          PROVE  Trim(R[f]) = Trim(set[f]) /\ OrLoopback(R[f]) = OrLoopback(set[f])
      <4>1. R[f] = set[f] \/ R[f] = Trim(set[f])
        BY <3>1
      <4> QED BY <2>2, <4>1, TrimTwice
    <3>4. R["pluginOptions"] = set["pluginOptions"]
      BY <3>1, FieldNames DEF Trimmed
    <3> QED BY <3>2, <3>3, <3>4
  <2> QED BY <2>3, <2>4
<1> HIDE DEF R
<1>2. /\ Trim(R["plugin"]) = Trim(set["plugin"]) /\ Trim(R["group"]) = Trim(set["group"])
      /\ Trim(R["bandwidthLimit"]) = Trim(set["bandwidthLimit"])
      /\ Trim(R["healthCheckType"]) = Trim(set["healthCheckType"])
  BY <1>1, FieldNames
<1>3. Alike(x.role, x.type, R, set)
  <2>1. \A f \in Known(x.role, x.type) : f \in Fields
    BY KnownAreFields
  <2>2. SUFFICES ASSUME NEW f \in Known(x.role, x.type)
        PROVE /\ f = "localIP" => OrLoopback(R[f]) = OrLoopback(set[f])
              /\ f \notin {"localIP", "serverUser"} => Trim(R[f]) = Trim(set[f])
    BY DEF Alike
  <2> QED BY <1>1, <2>1
<1>4. Meant(x, R) = Meant(x, set)
  BY <1>1, <1>2, <1>3, AlikeEffect
<1>5. Trim(R["pluginOptions"]) # "broken"
  <2>1. set["pluginOptions"] \in Values
    BY FieldNames
  <2> QED BY <1>1, <2>1 DEF Trim, Values
<1> QED BY <1>2, <1>4, <1>5 DEF R

LEMMA GoodValues == "" \in Values /\ "v" \in Values
  BY DEF Values

\* The frpc.toml of a row means what the row means.
LEMMA TableMeans ==
  ASSUME NEW x, NEW row \in Gist, row.role = x.role, row.type = x.type,
         x.role = "visitor" => Trim(row.set["plugin"]) = ""
  PROVE  Meant(x, Table(row)) = Meant(x, row.set)
<1> DEFINE R == row.set
           T == Table(row)
<1>0. R \in [Fields -> Values] /\ row.type \in ProxyTypes /\ \A f \in Fields : R[f] \in Values
  BY GistParts
<1>1. CASE x.role = "visitor"
  <2>1. T = [f \in Fields |-> IF f \in {"serverName", "serverUser", "secretKey", "localIP",
                 "localPort", "useEncryption", "useCompression"} THEN R[f] ELSE ""]
    BY <1>1 DEF Table, VisitorTable, Only
  <2>2. T \in [Fields -> Values]
    BY <1>0, <2>1, GoodValues
  <2>3. Known(x.role, x.type) = Addressed \cup {"serverName", "serverUser", "secretKey"}
    BY <1>1 DEF Known
  <2>4. Trim(T["plugin"]) = Trim(R["plugin"])
    BY <1>1, <2>1, FieldNames, TrimNothing
  <2> HIDE DEF T, R
  <2>5. Alike(x.role, x.type, T, R)
    <3>1. \A f \in Known(x.role, x.type) : T[f] = R[f]
      BY <2>1, <2>3, FieldNames DEF Addressed
    <3> QED BY <3>1 DEF Alike
  <2> QED BY <1>0, <1>1, <2>2, <2>4, <2>5, AlikeEffect DEF T, R
<1>2. CASE x.role # "visitor"
  <2>0. T = ProxyTable(row)
    BY <1>2 DEF Table
  <2>1. /\ Known(x.role, x.type) =
              Addressed \cup {"bandwidthLimit", "group", "groupKey", "healthCheckType",
                              "healthCheckPath", "plugin", "pluginOptions"} \cup TableFields(x.type)
        /\ TableFields(x.type) \subseteq
              {"remotePort", "customDomains", "subdomain", "locations", "httpUser",
               "httpPassword", "hostHeaderRewrite", "secretKey", "allowUsers"}
    BY <1>0, <1>2, ProxyKnows
  <2> DEFINE Written(f) ==
               CASE f \in TableBase -> R[f]
                 [] f \in TableTrimmed -> Trim(R[f])
                 [] f \in TableFields(row.type) \cap TableLists -> splitCSV(R[f])
                 [] f \in TableFields(row.type) \ TableLists -> R[f]
                 [] f = "groupKey" /\ Has(R, "group") -> R[f]
                 [] f = "healthCheckPath" /\ Trim(R["healthCheckType"]) = "http" -> R[f]
                 [] f = "pluginOptions" /\ Has(R, "plugin") -> Trim(R[f])
                 [] OTHER -> ""
  <2>2. T = [f \in Fields |-> Written(f)]
    BY <2>0 DEF ProxyTable
  <2>3. \A f \in Fields : Written(f) \in {R[f], Trim(R[f]), ""}
    BY DEF splitCSV
  <2> HIDE DEF T, R
  <2>4. T \in [Fields -> Values]
    <3>1. ASSUME NEW f \in Fields PROVE Written(f) \in Values
      <4>1. R[f] \in Values /\ Trim(R[f]) \in Values
        BY <1>0, TrimIsValue
      <4> QED BY <2>3, <4>1, GoodValues
    <3> HIDE DEF Written
    <3> QED BY <2>2, <3>1
  <2>5. ASSUME NEW f \in Known(x.role, x.type)
        PROVE  /\ f \notin {"healthCheckPath", "groupKey", "pluginOptions"} =>
                    T[f] \in {R[f], Trim(R[f])}
               /\ f = "healthCheckPath" => (Trim(R["healthCheckType"]) = "http" => T[f] = R[f])
               /\ f = "groupKey" => (Has(R, "group") => T[f] = R[f])
               /\ f = "pluginOptions" => (Has(R, "plugin") => T[f] = Trim(R[f]))
    <3>1. f \in Fields /\ T[f] = Written(f)
      BY <2>2, KnownAreFields
    <3>2. CASE f = "healthCheckPath"
      BY <2>1, <3>1, <3>2 DEF TableBase, TableTrimmed
    <3>3. CASE f = "groupKey"
      BY <2>1, <3>1, <3>3 DEF TableBase, TableTrimmed
    <3>4. CASE f = "pluginOptions"
      BY <2>1, <3>1, <3>4 DEF TableBase, TableTrimmed
    <3>5. CASE f \notin {"healthCheckPath", "groupKey", "pluginOptions"}
      <4>1. f \in TableBase \cup TableTrimmed \cup TableFields(row.type)
        BY <2>1, <3>5 DEF TableBase, TableTrimmed, Addressed
      <4> QED BY <3>1, <3>5, <4>1 DEF splitCSV
    <3> QED BY <3>2, <3>3, <3>4, <3>5
  <2> HIDE DEF Written
  <2>6. \A f \in Known(x.role, x.type) :
          R[f] \in Values /\ (T[f] \in {R[f], Trim(R[f])} => /\ Trim(T[f]) = Trim(R[f])
                                                             /\ OrLoopback(T[f]) = OrLoopback(R[f]))
    BY <1>0, KnownAreFields, TrimTwice DEF R
  <2>7. Alike(x.role, x.type, T, R)
    <3>1. SUFFICES ASSUME NEW f \in Known(x.role, x.type)
          PROVE /\ f = "localIP" => OrLoopback(T[f]) = OrLoopback(R[f])
                /\ f = "healthCheckPath" =>
                     (Trim(R["healthCheckType"]) = "http" => Trim(T[f]) = Trim(R[f]))
                /\ f = "groupKey" => (Has(R, "group") => Trim(T[f]) = Trim(R[f]))
                /\ f = "pluginOptions" => (Has(R, "plugin") => Trim(T[f]) = Trim(R[f]))
                /\ f \notin {"localIP", "healthCheckPath", "groupKey", "pluginOptions", "serverUser"}
                     => Trim(T[f]) = Trim(R[f])
      BY DEF Alike
    <3> QED BY <2>5, <2>6
  <2>8. /\ Trim(T["plugin"]) = Trim(R["plugin"]) /\ Trim(T["group"]) = Trim(R["group"])
        /\ Trim(T["healthCheckType"]) = Trim(R["healthCheckType"])
    BY <2>1, <2>7 DEF Alike
  <2> QED BY <1>0, <2>4, <2>7, <2>8, AlikeEffect DEF T, R
<1> QED BY <1>1, <1>2


\* What the embedded driver builds of a row without a plugin means what the row means.
LEMMA EmbeddedMeans ==
  ASSUME NEW x, NEW row \in Gist, row.role = x.role, row.type = x.type,
         Trim(row.set["plugin"]) = "", Trim(row.set["bandwidthLimit"]) \in {"", "v"}
  PROVE  Meant(x, Embedded(row)) = Meant(x, row.set)
<1> DEFINE R == row.set
           T == Embedded(row)
<1>0. R \in [Fields -> Values] /\ row.type \in ProxyTypes /\ \A f \in Fields : R[f] \in Values
  BY GistParts
<1>1. CASE x.role = "visitor"
  <2>1. T = [f \in Fields |-> IF f \in {"serverName", "serverUser", "secretKey", "localIP",
                 "localPort", "useEncryption", "useCompression"} THEN R[f] ELSE ""]
    BY <1>1 DEF Embedded, BuildVisitor, Only
  <2>2. T \in [Fields -> Values]
    BY <1>0, <2>1, GoodValues
  <2>3. Known(x.role, x.type) = Addressed \cup {"serverName", "serverUser", "secretKey"}
    BY <1>1 DEF Known
  <2>4. Trim(T["plugin"]) = Trim(R["plugin"])
    BY <2>1, FieldNames, TrimNothing
  <2> HIDE DEF T, R
  <2>5. Alike(x.role, x.type, T, R)
    <3>1. \A f \in Known(x.role, x.type) : T[f] = R[f]
      BY <2>1, <2>3, FieldNames DEF Addressed
    <3> QED BY <3>1 DEF Alike
  <2> QED BY <1>0, <1>1, <2>2, <2>4, <2>5, AlikeEffect DEF T, R
<1>2. CASE x.role # "visitor"
  <2>0. T = BuildProxy(row)
    BY <1>2 DEF Embedded
  <2>1. /\ Known(x.role, x.type) =
              Addressed \cup {"bandwidthLimit", "group", "groupKey", "healthCheckType",
                              "healthCheckPath", "plugin", "pluginOptions"} \cup TableFields(x.type)
        /\ TableFields(x.type) = ProxyFields(x.type) \cup ProxyLists(x.type)
        /\ TableFields(x.type) \subseteq
              {"remotePort", "customDomains", "subdomain", "locations", "httpUser",
               "httpPassword", "hostHeaderRewrite", "secretKey", "allowUsers"}
    BY <1>0, <1>2, ProxyKnows
  <2> DEFINE Built(f) ==
               CASE f \in ProxyBase \cup ProxyFields(row.type) -> R[f]
                 [] f \in ProxyLists(row.type) -> splitCSV(R[f])
                 [] f = "bandwidthLimit" -> Parsed(R[f])
                 [] f = "healthCheckPath" /\ R["healthCheckType"] = "http" -> R[f]
                 [] OTHER -> ""
  <2>2. T = [f \in Fields |-> Built(f)]
    BY <2>0 DEF BuildProxy
  <2>3. \A f \in Fields : Built(f) \in {R[f], Trim(R[f]), "", "v"}
    BY DEF splitCSV, Parsed
  <2> HIDE DEF T, R
  <2>4. T \in [Fields -> Values]
    <3>1. ASSUME NEW f \in Fields PROVE Built(f) \in Values
      <4>1. R[f] \in Values /\ Trim(R[f]) \in Values
        BY <1>0, TrimIsValue
      <4> QED BY <2>3, <4>1, GoodValues
    <3> HIDE DEF Built
    <3> QED BY <2>2, <3>1
  <2>5. ASSUME NEW f \in Known(x.role, x.type)
        PROVE  /\ f \notin {"healthCheckPath", "plugin", "pluginOptions"} =>
                    T[f] \in {R[f], Trim(R[f])}
               /\ f = "healthCheckPath" => (R["healthCheckType"] = "http" => T[f] = R[f])
               /\ f = "plugin" => T[f] = ""
    <3>1. f \in Fields /\ T[f] = Built(f)
      BY <2>2, KnownAreFields
    <3>2. CASE f = "healthCheckPath"
      BY <2>1, <3>1, <3>2 DEF ProxyBase
    <3>3. CASE f = "plugin"
      BY <2>1, <3>1, <3>3 DEF ProxyBase
    <3>4. CASE f = "bandwidthLimit"
      <4>1. T[f] = Parsed(R[f])
        BY <2>1, <3>1, <3>4 DEF ProxyBase
      <4> QED BY <3>4, <4>1 DEF Parsed, R
    <3>5. CASE f \notin {"healthCheckPath", "plugin", "pluginOptions", "bandwidthLimit"}
      <4>1. f \in ProxyBase \cup ProxyFields(row.type) \cup ProxyLists(row.type)
        BY <2>1, <3>5 DEF ProxyBase, Addressed
      <4> QED BY <3>1, <3>5, <4>1 DEF splitCSV
    <3> QED BY <3>2, <3>3, <3>4, <3>5
  <2> HIDE DEF Built
  <2>6. \A f \in Known(x.role, x.type) :
          R[f] \in Values /\ (T[f] \in {R[f], Trim(R[f])} => /\ Trim(T[f]) = Trim(R[f])
                                                             /\ OrLoopback(T[f]) = OrLoopback(R[f]))
    BY <1>0, KnownAreFields, TrimTwice DEF R
  <2>7. R["healthCheckType"] \in Values /\ ~Has(R, "plugin") /\ "plugin" \in Known(x.role, x.type)
    BY <1>0, <2>1, FieldNames DEF R, Has
  <2>8. Alike(x.role, x.type, T, R)
    <3>1. SUFFICES ASSUME NEW f \in Known(x.role, x.type)
          PROVE /\ f = "localIP" => OrLoopback(T[f]) = OrLoopback(R[f])
                /\ f = "healthCheckPath" =>
                     (Trim(R["healthCheckType"]) = "http" => Trim(T[f]) = Trim(R[f]))
                /\ f = "plugin" => Trim(T[f]) = Trim(R[f])
                /\ f \notin {"localIP", "healthCheckPath", "plugin", "pluginOptions", "serverUser"}
                     => Trim(T[f]) = Trim(R[f])
      BY <2>7 DEF Alike
    <3>2. f = "healthCheckPath" =>
                     (Trim(R["healthCheckType"]) = "http" => Trim(T[f]) = Trim(R[f]))
      BY <2>5, <2>7, TrimTwice
    <3>3. f = "plugin" => Trim(T[f]) = Trim(R[f])
      BY <2>5, TrimNothing DEF R
    <3> QED BY <2>5, <2>6, <3>2, <3>3
  <2>9. /\ Trim(T["plugin"]) = Trim(R["plugin"]) /\ Trim(T["group"]) = Trim(R["group"])
        /\ Trim(T["healthCheckType"]) = Trim(R["healthCheckType"])
    BY <2>1, <2>8 DEF Alike
  <2> QED BY <1>0, <2>4, <2>8, <2>9, AlikeEffect DEF T, R
<1> QED BY <1>1, <1>2

-----------------------------------------------------------------------------
(***************************************************************************)
(* A row keeps the file, the draft and the fields it was made of: FaithInv.*)
(***************************************************************************)

\* Of what file a tunnel is, and what became of the fields on the way.
FromFile(r) ==
  Imported(r) =>
    /\ tunnels[r].item \in DOMAIN Entries(Files[jobs[tunnels[r].maker].file])
    /\ tunnels[r].gist \in Gist
    /\ tunnels[r].gist.role = Draft(Source(r)).role
    /\ tunnels[r].gist.type = Draft(Source(r)).type
    /\ tunnels[r].gist.set = RowSet(tunnels[r].maker, Draft(Source(r)).set)

FaithInv == ImportTypeOK /\ \A r \in DOMAIN tunnels : FromFile(r)

LEMMA FaithInit == ImportInit => FaithInv
<1> SUFFICES ASSUME ImportInit PROVE FaithInv
  OBVIOUS
<1>1. DOMAIN tunnels = {}
  <2>1. tunnels = <<>>
    BY DEF ImportInit
  <2> QED BY <2>1
<1> QED BY <1>1, ImportTypeInit DEF FaithInv

LEMMA MakeIsFromFile ==
  ASSUME ImportTypeOK, NEW i \in Importers, Make(i), jobs'[i].file = jobs[i].file,
         NEW m, m = Len(tunnels) + 1
  PROVE  FromFile(m)'
<1>1. /\ tunnels \in Seq(Tunnel) /\ tunnels' = Append(tunnels, RowOf(i)) /\ HasNext(i)
  BY MakeEffect, TypeParts DEF Importable
<1>2. /\ RowOf(i) \in Tunnel /\ RowOf(i).maker = i /\ RowOf(i).item = Place(i)
      /\ RowOf(i).gist = NewTunnel(i)
  BY <1>1, RowIsSound
<1>3. tunnels'[m] = RowOf(i)
  BY <1>1, <1>2, OneMore
<1>4. /\ Place(i) \in DOMAIN Entries(Files[jobs[i].file])
      /\ Current(i) = Draft(Entries(Files[jobs[i].file])[Place(i)])
  BY <1>1, CurrentIsSound
<1>5. /\ NewTunnel(i) \in Gist /\ NewTunnel(i).role = Current(i).role
      /\ NewTunnel(i).type = Current(i).type
      /\ NewTunnel(i).set = RowSet(i, Current(i).set)
  BY <1>1, NewTunnelIsSound DEF RowSet
<1>6. /\ tunnels'[m].item \in DOMAIN Entries(Files[jobs'[tunnels'[m].maker].file])
      /\ tunnels'[m].gist \in Gist
  BY <1>2, <1>3, <1>4, <1>5
<1>7. Entries(Files[jobs'[tunnels'[m].maker].file])[tunnels'[m].item] =
        Entries(Files[jobs[i].file])[Place(i)]
  BY <1>2, <1>3
<1>8. /\ tunnels'[m].gist.role = Draft(Entries(Files[jobs'[tunnels'[m].maker].file])[tunnels'[m].item]).role
      /\ tunnels'[m].gist.type = Draft(Entries(Files[jobs'[tunnels'[m].maker].file])[tunnels'[m].item]).type
      /\ tunnels'[m].gist.set =
           RowSet(tunnels'[m].maker,
                  Draft(Entries(Files[jobs'[tunnels'[m].maker].file])[tunnels'[m].item]).set)
  BY <1>2, <1>3, <1>4, <1>5, <1>7
<1> QED BY <1>6, <1>8 DEF FromFile, Source

LEMMA FaithStep == FaithInv /\ [ImportNext]_importVars => FaithInv'
<1> SUFFICES ASSUME FaithInv, [ImportNext]_importVars PROVE FaithInv'
  OBVIOUS
<1>1. /\ ImportTypeOK /\ ImportTypeOK' /\ JobsKept /\ tunnels \in Seq(Tunnel)
      /\ \A r \in DOMAIN tunnels : FromFile(r)
  BY ImportTypeStep, StepKeepsJobs, TypeParts DEF FaithInv
<1>2. ASSUME NEW r \in DOMAIN tunnels,
             tunnels'[r].maker = tunnels[r].maker, tunnels'[r].item = tunnels[r].item,
             tunnels'[r].gist = tunnels[r].gist
      PROVE  FromFile(r)'
  <2>1. SUFFICES ASSUME tunnels[r].maker # "hand" PROVE FromFile(r)'
    BY <1>2 DEF FromFile, Imported
  <2>2. tunnels[r].maker \in Importers
    <3>1. tunnels[r] \in Tunnel
      BY <1>1
    <3> QED BY <2>1, <3>1, TunnelParts
  <2>3. jobs'[tunnels[r].maker].file = jobs[tunnels[r].maker].file
    BY <1>1, <2>2 DEF JobsKept
  <2>4. Entries(Files[jobs'[tunnels'[r].maker].file])[tunnels'[r].item] =
          Entries(Files[jobs[tunnels[r].maker].file])[tunnels[r].item]
    BY <1>2, <2>3
  <2>5. FromFile(r)
    BY <1>1
  <2>6. /\ tunnels[r].item \in DOMAIN Entries(Files[jobs[tunnels[r].maker].file])
        /\ tunnels[r].gist \in Gist
        /\ tunnels[r].gist.role =
             Draft(Entries(Files[jobs[tunnels[r].maker].file])[tunnels[r].item]).role
        /\ tunnels[r].gist.type =
             Draft(Entries(Files[jobs[tunnels[r].maker].file])[tunnels[r].item]).type
        /\ tunnels[r].gist.set =
             RowSet(tunnels[r].maker,
                    Draft(Entries(Files[jobs[tunnels[r].maker].file])[tunnels[r].item]).set)
    BY <2>1, <2>5 DEF FromFile, Imported, Source
  <2>7. /\ tunnels'[r].item \in DOMAIN Entries(Files[jobs'[tunnels'[r].maker].file])
        /\ tunnels'[r].gist \in Gist
        /\ tunnels'[r].gist.role =
             Draft(Entries(Files[jobs'[tunnels'[r].maker].file])[tunnels'[r].item]).role
        /\ tunnels'[r].gist.type =
             Draft(Entries(Files[jobs'[tunnels'[r].maker].file])[tunnels'[r].item]).type
        /\ tunnels'[r].gist.set =
             RowSet(tunnels'[r].maker,
                    Draft(Entries(Files[jobs'[tunnels'[r].maker].file])[tunnels'[r].item]).set)
    BY <1>2, <2>3, <2>4, <2>6
  <2> QED BY <2>7 DEF FromFile, Source
<1>3. CASE TunnelsKept
  <2>1. ASSUME NEW r \in DOMAIN tunnels' PROVE FromFile(r)'
    <3>1. CASE r \in DOMAIN tunnels
      BY <1>2, <1>3, <3>1 DEF TunnelsKept
    <3>2. CASE r \notin DOMAIN tunnels
      <4>1. tunnels'[r].maker = "hand"
        BY <1>3, <3>2 DEF TunnelsKept
      <4> QED BY <4>1 DEF FromFile, Imported
    <3> QED BY <3>1, <3>2
  <2> QED BY <1>1, <2>1 DEF FaithInv
<1>4. ASSUME NEW i \in Importers, Make(i) PROVE FaithInv'
  <2>1. tunnels' = Append(tunnels, RowOf(i)) /\ RowOf(i) \in Tunnel
    BY <1>1, <1>4, MakeEffect, RowIsSound DEF Importable
  <2>2. /\ DOMAIN tunnels = 1 .. Len(tunnels) /\ DOMAIN tunnels' = 1 .. Len(tunnels) + 1
        /\ Len(tunnels) \in Nat
        /\ \A r \in DOMAIN tunnels : tunnels'[r] = tunnels[r]
    BY <1>1, <2>1, OneMore
  <2>3. ASSUME NEW m, m = Len(tunnels) + 1 PROVE FromFile(m)'
    BY <1>1, <1>4, <2>3, MakeIsFromFile DEF JobsKept
  <2>4. \A r \in DOMAIN tunnels : FromFile(r)'
    BY <1>2, <2>2
  <2>5. \A r \in DOMAIN tunnels' : r \in DOMAIN tunnels \/ r = Len(tunnels) + 1
    BY <2>2
  <2>6. \A r \in DOMAIN tunnels' : FromFile(r)'
    BY <2>3, <2>4, <2>5
  <2> QED BY <1>1, <2>6 DEF FaithInv
<1> QED BY <1>1, <1>3, <1>4, StepKeepsTunnels

LEMMA TunnelMeans ==
  ASSUME FaithInv, NEW r \in DOMAIN tunnels, Imported(r)
  PROVE  /\ Writable(tunnels[r].gist)
         /\ Meant(Source(r), Table(tunnels[r].gist)) = Meant(Source(r), Source(r).set)
         /\ ~Has(Source(r).set, "plugin") =>
              Meant(Source(r), Embedded(tunnels[r].gist)) = Meant(Source(r), Source(r).set)
<1> DEFINE x == Source(r)
           row == tunnels[r].gist
           i == tunnels[r].maker
<1>1. /\ x \in Entry("server") \cup Entry("visitor")
      /\ row \in Gist /\ row.role = Draft(x).role /\ row.type = Draft(x).type
      /\ row.set = RowSet(i, Draft(x).set)
  <2>1. FromFile(r) /\ tunnels \in Seq(Tunnel) /\ jobs \in [Importers -> Job]
    BY TypeParts DEF FaithInv
  <2>2. i \in Importers
    <3>1. tunnels[r] \in Tunnel
      BY <2>1
    <3> QED BY <3>1, TunnelParts DEF Imported
  <2>3. jobs[i].file \in DOMAIN Files
    <3>1. jobs[i] \in Job
      BY <2>1, <2>2
    <3> QED BY <3>1, JobParts
  <2>4. /\ tunnels[r].item \in DOMAIN Entries(Files[jobs[i].file])
        /\ row \in Gist /\ row.role = Draft(x).role /\ row.type = Draft(x).type
        /\ row.set = RowSet(i, Draft(x).set)
    BY <2>1 DEF FromFile
  <2>5. x \in Entry("server") \cup Entry("visitor")
    BY <2>3, <2>4, EntriesAreSound DEF Source
  <2> QED BY <2>4, <2>5
<1> HIDE DEF x, row, i
<1>2. /\ x \in Gist /\ x.set \in [Fields -> Values]
      /\ \A f \in Fields \ Known(x.role, x.type) : x.set[f] = ""
      /\ Trim(x.set["bandwidthLimit"]) \in {"", "v"}
  BY <1>1, EntryParts
<1>3. /\ Draft(x) \in Gist /\ Draft(x).role = x.role /\ Draft(x).type = x.type
      /\ Draft(x).set \in [Fields -> Values]
  BY <1>2, DraftIsGist, GistParts
<1>4. /\ Meant(x, Draft(x).set) = Meant(x, x.set)
      /\ Trim(Draft(x).set["plugin"]) = Trim(x.set["plugin"])
      /\ Trim(Draft(x).set["bandwidthLimit"]) = Trim(x.set["bandwidthLimit"])
      /\ Draft(x).set["pluginOptions"] # "broken"
  BY <1>1, DraftMeans
<1>5. /\ Meant(x, row.set) = Meant(x, x.set)
      /\ Trim(row.set["plugin"]) = Trim(x.set["plugin"])
      /\ Trim(row.set["bandwidthLimit"]) = Trim(x.set["bandwidthLimit"])
      /\ Trim(row.set["pluginOptions"]) # "broken"
  BY <1>1, <1>3, <1>4, RowMeans
<1>6. Writable(row)
  BY <1>5 DEF Writable
<1>7. x.role = "visitor" => Trim(row.set["plugin"]) = ""
  <2>1. x.role = "visitor" => "plugin" \notin Known(x.role, x.type)
    BY DEF Known, Addressed
  <2> QED BY <1>2, <1>5, <2>1, FieldNames, TrimNothing
<1>8. Meant(x, Table(row)) = Meant(x, x.set)
  BY <1>1, <1>3, <1>5, <1>7, TableMeans
<1>9. ~Has(x.set, "plugin") => Meant(x, Embedded(row)) = Meant(x, x.set)
  BY <1>1, <1>2, <1>3, <1>5, EmbeddedMeans DEF Has
<1> QED BY <1>6, <1>8, <1>9 DEF x, row

LEMMA FaithfulTunnels == FaithInv => TunnelsAreFaithful
<1> SUFFICES ASSUME FaithInv PROVE TunnelsAreFaithful
  OBVIOUS
<1> DEFINE Rows == {tunnels[r].gist : r \in {q \in Live : Imported(q)}}
<1>1. Live \subseteq DOMAIN tunnels
  BY DEF Live
<1>2. \A row \in Rows : Writable(row)
  BY <1>1, TunnelMeans
<1>3. SubprocessTunnels(Rows) =
        {[name |-> row.name, set |-> Table(row), others |-> OtherKeys(row)] : row \in Rows}
  BY <1>2 DEF SubprocessTunnels
<1>4. SUFFICES ASSUME NEW r \in DOMAIN tunnels, Imported(r)
      PROVE  /\ r \in Live =>
                  \E table \in SubprocessTunnels(Rows) :
                    /\ table.name = tunnels[r].gist.name
                    /\ Meant(Source(r), table.set) = Meant(Source(r), Source(r).set)
                    /\ (\A q \in Rows : q.role = "server")
                         => table \in FrpcReads(SubprocessTunnels(Rows))
             /\ ~Has(Source(r).set, "plugin") =>
                  Meant(Source(r), Embedded(tunnels[r].gist)) = Meant(Source(r), Source(r).set)
  BY DEF TunnelsAreFaithful
<1>5. ASSUME r \in Live
      PROVE  \E table \in SubprocessTunnels(Rows) :
               /\ table.name = tunnels[r].gist.name
               /\ Meant(Source(r), table.set) = Meant(Source(r), Source(r).set)
               /\ (\A q \in Rows : q.role = "server")
                    => table \in FrpcReads(SubprocessTunnels(Rows))
  <2>1. tunnels[r].gist \in Rows
    BY <1>4, <1>5
  <2> DEFINE table == [name |-> tunnels[r].gist.name, set |-> Table(tunnels[r].gist),
                       others |-> OtherKeys(tunnels[r].gist)]
  <2>2. table \in SubprocessTunnels(Rows)
    BY <1>3, <2>1
  <2>3. table.name = tunnels[r].gist.name /\ table.set = Table(tunnels[r].gist)
    OBVIOUS
  <2>4. Meant(Source(r), table.set) = Meant(Source(r), Source(r).set)
    BY <1>4, <2>3, TunnelMeans
  <2>5. ASSUME \A q \in Rows : q.role = "server"
        PROVE  FrpcReads(SubprocessTunnels(Rows)) = SubprocessTunnels(Rows)
    <3>1. \A q \in Rows : OtherKeys(q) = {}
      BY <2>5 DEF OtherKeys
    <3> HIDE DEF Rows
    <3>2. \A t \in SubprocessTunnels(Rows) : t.others = {}
      BY <1>3, <3>1
    <3> QED BY <3>2 DEF FrpcReads
  <2> HIDE DEF table, Rows
  <2> QED BY <2>2, <2>3, <2>4, <2>5
<1> QED BY <1>4, <1>5, TunnelMeans

-----------------------------------------------------------------------------
(***************************************************************************)
(* The server.                                                             *)
(***************************************************************************)

LEMMA CommonEffectOf ==
  ASSUME NEW c, NEW f \in CommonFields \ {"other"}
  PROVE  CommonEffect(c)[f] = IF f = "tls" /\ Trim(c[f]) = "" THEN "on" ELSE Trim(c[f])
<1>1. OnlyCommon(CommonFields \ {"other"}, c)[f] = c[f]
  BY DEF OnlyCommon
<1>2. TrimCommon(CommonFields, OnlyCommon(CommonFields \ {"other"}, c))[f] = Trim(c[f])
  BY <1>1 DEF TrimCommon
<1>3. DOMAIN TrimCommon(CommonFields, OnlyCommon(CommonFields \ {"other"}, c)) = CommonFields
  BY DEF TrimCommon
<1> HIDE DEF OnlyCommon, TrimCommon
<1> QED BY <1>2, <1>3 DEF CommonEffect

LEMMA EndpointDraftOf ==
  ASSUME NEW c, NEW f \in CommonFields \ {"other"}
  PROVE  /\ DOMAIN mapEndpoint(c) = CommonFields
         /\ mapEndpoint(c)[f] =
              IF f = "tls" THEN IF c[f] = "" THEN "on" ELSE c[f]
              ELSE IF f \in {"heartbeatInterval", "heartbeatTimeout"} THEN Positive(c[f])
              ELSE IF f \in CommonTrimmed \cup {"token"} THEN Trim(c[f]) ELSE c[f]
<1> DEFINE d == TrimCommon(CommonTrimmed \cup {"token"}, OnlyCommon(CommonFields \ {"other"}, c))
<1>1. OnlyCommon(CommonFields \ {"other"}, c)[f] = c[f]
  BY DEF OnlyCommon
<1>2. DOMAIN d = CommonFields /\ d[f] = IF f \in CommonTrimmed \cup {"token"} THEN Trim(c[f]) ELSE c[f]
  BY <1>1 DEF TrimCommon
<1>3. mapEndpoint(c) = [d EXCEPT !["heartbeatInterval"] = Positive(@),
                                 !["heartbeatTimeout"] = Positive(@),
                                 !["tls"] = IF @ = "" THEN "on" ELSE @]
  BY DEF mapEndpoint
<1>4. {"tls", "heartbeatInterval", "heartbeatTimeout"} \cap (CommonTrimmed \cup {"token"}) = {}
  BY DEF CommonTrimmed
<1> HIDE DEF d
<1> QED BY <1>2, <1>3, <1>4

LEMMA RootTableOf ==
  ASSUME NEW row, NEW f \in CommonFields \ {"other"}
  PROVE  RootTable(row)[f] =
           IF f \in {"heartbeatInterval", "heartbeatTimeout"} THEN Positive(row[f])
           ELSE IF f \in {"user", "protocol"} THEN Trim(row[f]) ELSE row[f]
<1> DEFINE d == TrimCommon({"user", "protocol"}, row)
<1>1. DOMAIN d = CommonFields /\ d[f] = IF f \in {"user", "protocol"} THEN Trim(row[f]) ELSE row[f]
  BY DEF TrimCommon
<1>2. RootTable(row) = [d EXCEPT !["heartbeatInterval"] = Positive(@),
                                 !["heartbeatTimeout"] = Positive(@),
                                 !["other"] = ""]
  BY DEF RootTable
<1> HIDE DEF d
<1> QED BY <1>1, <1>2

LEMMA TrimAgain == ASSUME NEW v PROVE Trim(Trim(v)) = Trim(v)
  BY DEF Trim

LEMMA ServerMeans ==
  ASSUME NEW c \in Common, NEW f \in CommonFields \ {"other"}, c[f] = "off" => f = "tls"
  PROVE  LET row == applyToEndpoint(mapEndpoint(c))
         IN  /\ CommonEffect(EndpointCommon(row))[f] = CommonEffect(c)[f]
             /\ CommonEffect(RootTable(row))[f] = CommonEffect(c)[f]
<1> DEFINE d == mapEndpoint(c)
           row == applyToEndpoint(d)
           e == EndpointCommon(row)
           t == RootTable(row)
<1>1. DOMAIN row = CommonFields /\ row[f] = IF f \in CommonTrimmed THEN Trim(d[f]) ELSE d[f]
  BY DEF applyToEndpoint, TrimCommon
<1>2. d[f] = IF f = "tls" THEN IF c[f] = "" THEN "on" ELSE c[f]
             ELSE IF f \in {"heartbeatInterval", "heartbeatTimeout"} THEN Positive(c[f])
             ELSE IF f \in CommonTrimmed \cup {"token"} THEN Trim(c[f]) ELSE c[f]
  BY EndpointDraftOf
<1>3. t[f] = IF f \in {"heartbeatInterval", "heartbeatTimeout"} THEN Positive(row[f])
             ELSE IF f \in {"user", "protocol"} THEN Trim(row[f]) ELSE row[f]
  BY RootTableOf
<1> HIDE DEF d, row
<1>4. e[f] = IF f = "tls" THEN IF row[f] = "off" THEN "off" ELSE "" ELSE row[f]
  BY <1>1 DEF EndpointCommon
<1>5. /\ CommonEffect(c)[f] = IF f = "tls" /\ Trim(c[f]) = "" THEN "on" ELSE Trim(c[f])
      /\ CommonEffect(e)[f] = IF f = "tls" /\ Trim(e[f]) = "" THEN "on" ELSE Trim(e[f])
      /\ CommonEffect(t)[f] = IF f = "tls" /\ Trim(t[f]) = "" THEN "on" ELSE Trim(t[f])
  BY CommonEffectOf
<1> HIDE DEF e, t
<1>6. CASE f = "tls"
  <2>1. c[f] \in {"", "on", "off"}
    BY <1>6 DEF Common
  <2>2. Trim("on") = "on" /\ Trim("off") = "off" /\ Trim("") = ""
    BY DEF Trim
  <2>3. row[f] = IF c[f] = "" THEN "on" ELSE c[f]
    BY <1>1, <1>2, <1>6 DEF CommonTrimmed
  <2>4. CommonEffect(e)[f] = CommonEffect(c)[f] /\ CommonEffect(t)[f] = CommonEffect(c)[f]
    BY <1>3, <1>4, <1>5, <1>6, <2>1, <2>2, <2>3
  <2> QED BY <2>4 DEF e, t, row, d
<1>7. CASE f # "tls"
  <2>1. Positive(c[f]) = c[f]
    BY <1>7 DEF Positive
  <2>2. row[f] \in {c[f], Trim(c[f])}
    BY <1>1, <1>2, <1>7, <2>1, TrimAgain
  <2>3. Trim(row[f]) = Trim(c[f])
    BY <2>2, TrimAgain
  <2>4. f \in {"heartbeatInterval", "heartbeatTimeout"} => row[f] = c[f]
    BY <1>1, <1>2, <1>7, <2>1 DEF CommonTrimmed
  <2>5. Trim(t[f]) = Trim(c[f]) /\ Trim(e[f]) = Trim(c[f])
    BY <1>3, <1>4, <1>7, <2>1, <2>3, <2>4, TrimAgain
  <2>6. CommonEffect(e)[f] = CommonEffect(c)[f] /\ CommonEffect(t)[f] = CommonEffect(c)[f]
    BY <1>5, <1>7, <2>5
  <2> QED BY <2>6 DEF e, t, row, d
<1> QED BY <1>6, <1>7

LEMMA FaithfulEndpoint == ImportTypeOK => EndpointIsFaithful
<1> SUFFICES ASSUME ImportTypeOK, NEW i \in Importers PROVE Files[jobs[i].file].common \in Common
  BY ServerMeans DEF EndpointIsFaithful
<1>1. jobs[i] \in Job
  BY TypeParts
<1>2. Files[jobs[i].file] \in File
  BY <1>1, JobParts, FilesAssumption
<1> QED BY <1>2 DEF File

\* Whatever a file says in the fields that frpc has, both drivers say the same to
\* frp of the tunnels and the endpoint that FrpDeck makes of it, on both roads
\* (frpcimport, applyToTunnel, tunnelFromDraft, BuildProxy, buildProxyTable).
THEOREM ImportIsFaithfulHolds == ImportSpec => []ImportIsFaithful
<1>1. FaithInv => ImportIsFaithful
  BY FaithfulTunnels, FaithfulEndpoint DEF FaithInv, ImportIsFaithful
<1> QED BY <1>1, FaithInit, FaithStep, PTL DEF ImportSpec
=============================================================================
