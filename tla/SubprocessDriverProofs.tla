------------------------ MODULE SubprocessDriverProofs ------------------------
(***************************************************************************)
(* Proofs about SubprocessDriver, for any callers, tunnels, runners,       *)
(* failures and exits.  Unlike the embedded driver, this one looks whether *)
(* a runner has been stopped before it spawns, under the lock that stop    *)
(* takes to say so; hence nothing is asked of the callers here.            *)
(*                                                                         *)
(* A runner that anybody works on, or that has a process, is in the hands  *)
(* of the map, of a stop that has still to mark it, or it is marked        *)
(* (Handled); so a process that is spawned is one that a stop will find    *)
(* (Reachable).                                                            *)
(***************************************************************************)
EXTENDS SubprocessDriver, FiniteSetTheorems, TLAPS

\* The places of a call that works on a runner, and those of a stop that has
\* marked its runner.
Working == {"render", "write", "spawn", "ready", "watch", "change", "reload",
            "stop", "kill", "cancel", "join"}
Marking == {"kill", "cancel", "join"}

Stopping(r) == \E c \in Callers : calls[c].runner = r /\ calls[c].pc = "stop"
Ending(r) == \E c \in Callers : calls[c].runner = r /\ calls[c].pc \in {"stop", "kill"}

Handled(r) == r = registered \/ runners[r].stopRequested \/ Stopping(r)
InUse(r) ==
  \/ \E c \in Callers : calls[c].runner = r
  \/ runners[r].frpc # "none" \/ runners[r].watch # "off"

AllHandled == \A r \in Runners : InUse(r) => Handled(r)

\* A frpc that runs is one that Stop will find, or is finding.
Reachable == \A r \in Up : r = registered \/ Ending(r)

\* A stop goes on only once it has marked its runner.
Marked == \A c \in Callers : calls[c].pc \in Marking => runners[calls[c].runner].stopRequested

\* The loop is cancelled, sees a stop and ends only when there was one.
EndsByStop(runner) ==
  runner.cancelled \/ runner.saw \/ runner.watch = "over" => runner.stopRequested

\* While calls do not overlap there is one, and what it stops is out of the map.
Lone ==
  ~overlapped =>
    /\ \A c, d \in Callers : calls[c] # NoCall /\ calls[d] # NoCall => c = d
    /\ \A c \in Callers : calls[c].pc \in {"stop"} \cup Marking => registered = NoRunner

SubprocessInv ==
  /\ TypeOK
  /\ \A c \in Callers : calls[c].pc \in Working => calls[c].runner # NoRunner
  /\ AllHandled
  /\ Reachable
  /\ Marked
  /\ \A r \in Runners : EndsByStop(runners[r])
  /\ Lone

-----------------------------------------------------------------------------
LEMMA NoCallTyped ==
  NoCall \in Call /\ NoCall.pc = "idle" /\ NoCall.runner = NoRunner /\ NoCall.pc \notin Working
BY DEF NoCall, Call, PC, Working

LEMMA NewRunnerTyped ==
  /\ NewRunner \in Runner /\ EndsByStop(NewRunner)
  /\ NewRunner.frpc = "none" /\ NewRunner.watch = "off" /\ NewRunner.tunnels = {}
BY DEF NewRunner, Runner, EndsByStop

LEMMA CallTyped ==
  ASSUME TypeOK, NEW c \in Callers
  PROVE  calls[c] \in Call /\ calls[c].runner \in Runners \cup {NoRunner}
BY DEF TypeOK, Call

\* The call is under way.
LEMMA Busy ==
  ASSUME NEW c \in Callers, calls[c].pc # "idle"
  PROVE  calls[c] # NoCall
BY NoCallTyped

\* A call that works on a runner has got one.
LEMMA WorksOn ==
  ASSUME SubprocessInv, NEW c \in Callers, calls[c].pc \in Working
  PROVE  calls[c].runner \in Runners /\ runners[calls[c].runner] \in Runner
BY CallTyped DEF SubprocessInv, TypeOK

\* Replacing a call leaves the others alone.
LEMMA Replaced ==
  ASSUME SubprocessInv, NEW c \in Callers, NEW new \in Call,
         new.pc \in Working => new.runner # NoRunner,
         calls' = [calls EXCEPT ![c] = new]
  PROVE  /\ calls' \in [Callers -> Call]
         /\ \A d \in Callers : calls'[d].pc \in Working => calls'[d].runner # NoRunner
         /\ calls'[c] = new
         /\ \A d \in Callers \ {c} : calls'[d] = calls[d]
BY DEF SubprocessInv, TypeOK

-----------------------------------------------------------------------------
\* A step of a call that neither registers nor takes out a runner, and changes
\* at most the one it works on.
LEMMA CallStep ==
  ASSUME SubprocessInv, NEW c \in Callers, NEW new \in Call, NEW r, r = calls[c].runner,
         calls[c] # NoCall, calls' = [calls EXCEPT ![c] = new],
         new.pc \in Working => new.runner # NoRunner,
         new.runner \in {r, registered, NoRunner},
         new.pc # "stop",
         new.pc \in Marking =>
           /\ calls[c].pc \in {"stop"} \cup Marking
           /\ new.runner = r /\ runners'[r].stopRequested,
         calls[c].pc = "stop" => runners'[r].stopRequested,
         calls[c].pc \in {"stop", "kill"} => (new.pc = "kill" /\ new.runner = r) \/ r \notin Up',
         runners' \in [Runners -> Runner],
         \A q \in Runners : q # r => runners'[q] = runners[q],
         r \in Runners => /\ runners[r].stopRequested => runners'[r].stopRequested
                          /\ EndsByStop(runners'[r]),
         r \in Up' => r \in Up \/ (~runners[r].stopRequested /\ calls[c].pc # "stop"),
         UNCHANGED <<registered, overlapped>>, toml' \subseteq Tunnels,
         faults' \in 0 .. MaxFaults, exits' \in 0 .. MaxExits
  PROVE  SubprocessInv'
<1>1. /\ calls' \in [Callers -> Call]
      /\ \A d \in Callers : calls'[d].pc \in Working => calls'[d].runner # NoRunner
      /\ calls'[c] = new
      /\ \A d \in Callers \ {c} : calls'[d] = calls[d]
  BY Replaced
<1>2. TypeOK'
  BY <1>1 DEF SubprocessInv, TypeOK
<1>3. \A q \in Runners : runners[q].stopRequested => runners'[q].stopRequested
  OBVIOUS
<1>4. ASSUME NEW q \in Runners, Handled(q)
      PROVE  Handled(q)'
  <2>1. CASE q = registered \/ runners[q].stopRequested
    BY <1>3, <2>1 DEF Handled
  <2>2. CASE Stopping(q)
    <3>1. PICK d \in Callers : calls[d].runner = q /\ calls[d].pc = "stop"
      BY <2>2 DEF Stopping
    <3>2. CASE d = c
      BY <3>1, <3>2 DEF Handled
    <3>3. CASE d # c
      <4>1. calls'[d].runner = q /\ calls'[d].pc = "stop"
        BY <1>1, <3>1, <3>3
      <4>2. QED
        BY <4>1 DEF Handled, Stopping
    <3>4. QED
      BY <3>2, <3>3
  <2>3. QED
    BY <1>4, <2>1, <2>2 DEF Handled
<1>5. AllHandled'
  <2>1. ASSUME NEW q \in Runners, InUse(q)'
        PROVE  q = registered \/ InUse(q)
    <3>1. CASE q = r
      BY <3>1 DEF InUse
    <3>2. CASE q # r /\ \E d \in Callers : calls'[d].runner = q
      <4>1. PICK d \in Callers : calls'[d].runner = q
        BY <3>2
      <4>2. CASE d = c
        BY <1>1, <3>2, <4>1, <4>2, RunnersAssumption DEF NoRunner
      <4>3. CASE d # c
        BY <1>1, <4>1, <4>3 DEF InUse
      <4>4. QED
        BY <4>2, <4>3
    <3>3. CASE q # r /\ (runners'[q].frpc # "none" \/ runners'[q].watch # "off")
      BY <3>3 DEF InUse
    <3>4. QED
      BY <2>1, <3>1, <3>2, <3>3 DEF InUse
  <2>2. ASSUME NEW q \in Runners, InUse(q)'
        PROVE  Handled(q)
    BY <2>1, <2>2 DEF SubprocessInv, AllHandled, Handled
  <2>3. QED
    BY <1>4, <2>2 DEF AllHandled
<1>6. Reachable'
  <2>1. ASSUME NEW q \in Up', q # registered
        PROVE  Ending(q)'
    <3>0. q \in Runners
      BY DEF Up
    <3>1. CASE q \in Up
      <4>1. PICK d \in Callers : calls[d].runner = q /\ calls[d].pc \in {"stop", "kill"}
        BY <2>1, <3>1 DEF SubprocessInv, Reachable, Ending
      <4>2. CASE d = c
        BY <1>1, <2>1, <4>1, <4>2 DEF Ending
      <4>3. CASE d # c
        BY <1>1, <4>1, <4>3 DEF Ending
      <4>4. QED
        BY <4>2, <4>3
    <3>2. CASE q \notin Up
      <4>1. q = r /\ ~runners[r].stopRequested /\ calls[c].pc # "stop"
        BY <2>1, <3>0, <3>2 DEF Up
      <4>2. InUse(q)
        BY <4>1 DEF InUse
      <4>3. Stopping(q)
        BY <2>1, <3>0, <4>1, <4>2 DEF SubprocessInv, AllHandled, Handled
      <4>4. PICK d \in Callers : calls[d].runner = q /\ calls[d].pc = "stop"
        BY <4>3 DEF Stopping
      <4>5. calls'[d] = calls[d]
        BY <1>1, <4>1, <4>4
      <4>6. QED
        BY <4>4, <4>5 DEF Ending
    <3>3. QED
      BY <3>1, <3>2
  <2>2. QED
    BY <2>1 DEF Reachable
<1>7. Marked'
  <2>1. ASSUME NEW d \in Callers, calls'[d].pc \in Marking
        PROVE  runners'[calls'[d].runner].stopRequested
    <3>1. CASE d = c
      BY <1>1, <2>1, <3>1
    <3>2. CASE d # c
      <4>1. calls'[d] = calls[d] /\ calls[d].pc \in Marking /\ calls[d].pc \in Working
        BY <1>1, <2>1, <3>2 DEF Marking, Working
      <4>2. calls[d].runner \in Runners /\ runners[calls[d].runner].stopRequested
        BY <4>1, WorksOn DEF SubprocessInv, Marked
      <4>3. QED
        BY <1>3, <4>1, <4>2
    <3>3. QED
      BY <3>1, <3>2
  <2>2. QED
    BY <2>1 DEF Marked
<1>8. ASSUME NEW q \in Runners
      PROVE  EndsByStop(runners'[q])
  BY DEF SubprocessInv
<1>9. Lone'
  <2>1. ASSUME ~overlapped, NEW d \in Callers, NEW e \in Callers,
               calls'[d] # NoCall, calls'[e] # NoCall
        PROVE  d = e
    <3>1. calls[d] # NoCall /\ calls[e] # NoCall
      BY <1>1, <2>1
    <3>2. QED
      BY <2>1, <3>1 DEF SubprocessInv, Lone
  <2>2. ASSUME ~overlapped, NEW d \in Callers, calls'[d].pc \in {"stop"} \cup Marking
        PROVE  registered = NoRunner
    <3>1. calls[d].pc \in {"stop"} \cup Marking
      BY <1>1, <2>2
    <3>2. QED
      BY <2>2, <3>1 DEF SubprocessInv, Lone
  <2>3. QED
    BY <2>1, <2>2 DEF Lone
<1>10. QED
  BY <1>1, <1>2, <1>5, <1>6, <1>7, <1>8, <1>9 DEF SubprocessInv

\* A step that changes no runner, and that a stop does not take.
LEMMA QuietStep ==
  ASSUME SubprocessInv, NEW c \in Callers, NEW new \in Call,
         calls[c].pc \notin {"idle", "stop", "kill"}, calls' = [calls EXCEPT ![c] = new],
         new.pc \in Working => new.runner # NoRunner,
         new.runner \in {calls[c].runner, registered, NoRunner},
         new.pc \notin {"stop"} \cup Marking,
         UNCHANGED <<registered, runners, overlapped>>, toml' \subseteq Tunnels,
         faults' \in 0 .. MaxFaults, exits' \in 0 .. MaxExits
  PROVE  SubprocessInv'
<1>1. calls[c] # NoCall
  BY Busy
<1>2. runners' \in [Runners -> Runner] /\ Up' = Up
  BY DEF SubprocessInv, TypeOK, Up
<1>3. \A q \in Runners : /\ runners[q].stopRequested => runners'[q].stopRequested
                         /\ EndsByStop(runners'[q])
  BY DEF SubprocessInv
<1> DEFINE r == calls[c].runner
<1>4. r = calls[c].runner
  OBVIOUS
<1> HIDE DEF r
<1>5. r \in Runners => /\ runners[r].stopRequested => runners'[r].stopRequested
                       /\ EndsByStop(runners'[r])
  BY <1>3
<1>6. QED
  BY <1>1, <1>2, <1>4, <1>5, CallStep

\* The same, when nothing but the call changes.
LEMMA Unmoved ==
  ASSUME SubprocessInv, UNCHANGED <<registered, runners, toml, overlapped, faults, exits>>
  PROVE  /\ UNCHANGED <<registered, runners, overlapped>> /\ toml' \subseteq Tunnels
         /\ faults' \in 0 .. MaxFaults /\ exits' \in 0 .. MaxExits
BY DEF SubprocessInv, TypeOK

\* Returning, going on without a runner, or going on with one.
LEMMA Continues ==
  ASSUME SubprocessInv, NEW c \in Callers, calls[c].pc \notin {"idle", "stop", "kill"},
         UNCHANGED <<registered, runners, overlapped>>, toml' \subseteq Tunnels,
         faults' \in 0 .. MaxFaults, exits' \in 0 .. MaxExits,
         \/ Return(c)
         \/ \E pc \in {"register", "find again"} : Goto(c, pc)
         \/ calls[c].pc \in Working /\ \E pc \in {"spawn", "reload", "ready", "watch"} : Goto(c, pc)
         \/ GotoWith(c, "change", registered) /\ registered # NoRunner
  PROVE  SubprocessInv'
<1>0. /\ calls[c].pc \notin {"idle", "stop", "kill"}
      /\ UNCHANGED <<registered, runners, overlapped>> /\ toml' \subseteq Tunnels
      /\ faults' \in 0 .. MaxFaults /\ exits' \in 0 .. MaxExits
  OBVIOUS
<1>1. TypeOK /\ registered \in Runners \cup {NoRunner}
  BY DEF SubprocessInv, TypeOK
<1>2. CASE Return(c)
  <2>1. NoCall.pc \notin {"stop"} \cup Marking
    BY NoCallTyped DEF Marking
  <2>2. calls' = [calls EXCEPT ![c] = NoCall]
    BY <1>2 DEF Return
  <2>3. QED
    BY ONLY SubprocessInv, c \in Callers, <1>0, <2>1, <2>2, NoCallTyped, QuietStep
<1>3. ASSUME NEW pc \in {"register", "find again"}, Goto(c, pc)
      PROVE  SubprocessInv'
  <2> DEFINE new == [calls[c] EXCEPT !.pc = pc]
  <2>1. calls' = [calls EXCEPT ![c] = new]
    BY <1>3 DEF Goto
  <2>2. new \in Call /\ new.pc = pc /\ new.runner = calls[c].runner
    BY <1>1, CallTyped DEF Call, PC
  <2> HIDE DEF new
  <2>3. new.pc \notin Working /\ new.pc \notin {"stop"} \cup Marking
    BY <2>2 DEF Working, Marking
  <2>4. QED
    BY ONLY SubprocessInv, c \in Callers, <1>0, <2>1, <2>2, <2>3, QuietStep
<1>4. ASSUME calls[c].pc \in Working, NEW pc \in {"spawn", "reload", "ready", "watch"},
             Goto(c, pc)
      PROVE  SubprocessInv'
  <2> DEFINE new == [calls[c] EXCEPT !.pc = pc]
  <2>1. calls' = [calls EXCEPT ![c] = new]
    BY <1>4 DEF Goto
  <2>2. new \in Call /\ new.pc = pc /\ new.runner = calls[c].runner
    BY <1>1, CallTyped DEF Call, PC
  <2> HIDE DEF new
  <2>3. new.runner # NoRunner /\ new.pc \notin {"stop"} \cup Marking
    BY <1>4, <2>2 DEF SubprocessInv, Marking
  <2>4. QED
    BY ONLY SubprocessInv, c \in Callers, <1>0, <2>1, <2>2, <2>3, QuietStep
<1>5. CASE GotoWith(c, "change", registered) /\ registered # NoRunner
  <2> DEFINE new == [calls[c] EXCEPT !.pc = "change", !.runner = registered]
  <2>1. calls' = [calls EXCEPT ![c] = new]
    BY <1>5 DEF GotoWith
  <2>2. new \in Call /\ new.pc = "change" /\ new.runner = registered
    BY <1>1, CallTyped DEF Call, PC
  <2> HIDE DEF new
  <2>3. new.runner # NoRunner /\ new.pc \notin {"stop"} \cup Marking
    BY <1>5, <2>2 DEF Marking
  <2>4. QED
    BY ONLY SubprocessInv, c \in Callers, <1>0, <2>1, <2>2, <2>3, QuietStep
<1>6. QED
  BY <1>2, <1>3, <1>4, <1>5

\* A step of the loop of a runner, or of its process.
LEMMA LoopStep ==
  ASSUME SubprocessInv, NEW r \in Runners, NEW new \in Runner,
         runners' = [runners EXCEPT ![r] = new],
         new.stopRequested = runners[r].stopRequested, EndsByStop(new),
         new.watch # "off" => runners[r].watch # "off",
         new.frpc # "none" => runners[r].frpc # "none" \/ runners[r].watch # "off",
         new.frpc = "up" =>
           runners[r].frpc = "up" \/ (runners[r].watch # "off" /\ ~runners[r].stopRequested),
         UNCHANGED <<registered, toml, calls, overlapped>>,
         faults' \in 0 .. MaxFaults, exits' \in 0 .. MaxExits
  PROVE  SubprocessInv'
<1>1. /\ runners' \in [Runners -> Runner] /\ runners'[r] = new
      /\ \A q \in Runners \ {r} : runners'[q] = runners[q]
  BY DEF SubprocessInv, TypeOK
<1>2. TypeOK'
  BY <1>1 DEF SubprocessInv, TypeOK
<1>3. \A q \in Runners : runners'[q].stopRequested = runners[q].stopRequested
  BY <1>1
<1>4. AllHandled'
  <2>1. \A q \in Runners : InUse(q)' => InUse(q)
    BY <1>1 DEF InUse
  <2>2. \A q \in Runners : Handled(q) => Handled(q)'
    BY <1>3 DEF Handled, Stopping
  <2>3. QED
    BY <2>1, <2>2 DEF SubprocessInv, AllHandled
<1>5. Reachable'
  <2>1. ASSUME NEW q \in Up', q # registered
        PROVE  Ending(q)'
    <3>0. q \in Runners /\ runners'[q].frpc = "up"
      BY DEF Up
    <3>1. CASE q \in Up
      BY <2>1, <3>1 DEF SubprocessInv, Reachable, Ending
    <3>2. CASE q \notin Up
      <4>1. q = r /\ ~runners[r].stopRequested /\ runners[r].watch # "off"
        BY <1>1, <3>0, <3>2 DEF Up
      <4>2. Stopping(q)
        BY <2>1, <4>1 DEF SubprocessInv, AllHandled, Handled, InUse
      <4>3. QED
        BY <4>2 DEF Stopping, Ending
    <3>3. QED
      BY <3>1, <3>2
  <2>2. QED
    BY <2>1 DEF Reachable
<1>6. Marked'
  <2>1. \A d \in Callers : calls[d].pc \in Marking => calls[d].runner \in Runners
    BY WorksOn DEF Marking, Working
  <2>2. QED
    BY <1>3, <2>1 DEF SubprocessInv, Marked
<1>7. \A q \in Runners : EndsByStop(runners'[q])
  BY <1>1 DEF SubprocessInv
<1>8. QED
  BY <1>2, <1>4, <1>5, <1>6, <1>7 DEF SubprocessInv, Lone

-----------------------------------------------------------------------------
LEMMA SubprocessInit ==
  ASSUME Init
  PROVE  SubprocessInv
<1>1. TypeOK
  <2>1. /\ registered \in Runners \cup {NoRunner} /\ runners \in [Runners -> Runner]
        /\ toml \subseteq Tunnels /\ calls \in [Callers -> Call]
    BY NoCallTyped, NewRunnerTyped DEF Init
  <2>2. faults \in 0 .. MaxFaults /\ exits \in 0 .. MaxExits
    BY BoundAssumption DEF Init
  <2>3. overlapped \in BOOLEAN
    BY DEF Init
  <2>4. QED
    BY <2>1, <2>2, <2>3 DEF TypeOK
<1>2. \A c \in Callers : calls[c] = NoCall
  BY DEF Init
<1>3. \A r \in Runners : runners[r] = NewRunner
  BY DEF Init
<1>4. \A c \in Callers : calls[c].pc = "idle" /\ calls[c].pc \notin Working
                         /\ calls[c].runner = NoRunner
  BY <1>2, NoCallTyped
<1>5. AllHandled
  BY <1>3, <1>4, NewRunnerTyped, RunnersAssumption DEF AllHandled, InUse, NoRunner
<1>6. Reachable
  BY <1>3, NewRunnerTyped DEF Reachable, Up
<1>7. Marked /\ Lone
  BY <1>2, <1>4 DEF Marked, Lone, Marking
<1>8. \A r \in Runners : EndsByStop(runners[r])
  BY <1>3, NewRunnerTyped
<1>9. QED
  BY <1>1, <1>4, <1>5, <1>6, <1>7, <1>8 DEF SubprocessInv

LEMMA BeginCallKeeps ==
  ASSUME SubprocessInv, NEW c \in Callers, NEW op \in {"add", "remove", "start", "stop"},
         NEW t \in Tunnels, BeginCall(c, op, t)
  PROVE  SubprocessInv'
<1> DEFINE new == [NoCall EXCEPT !.op = op,
                     !.tunnels = IF op \in {"add", "remove"} THEN {t} ELSE {},
                     !.pc = IF op = "start" THEN "register" ELSE "find"]
<1>1. new \in Call /\ new.pc \in {"register", "find"} /\ new.runner = NoRunner
  BY NoCallTyped DEF NoCall, Call, PC
<1>2. /\ calls' = [calls EXCEPT ![c] = new] /\ calls[c] = NoCall
      /\ overlapped' = (overlapped \/ ~Quiet)
      /\ UNCHANGED <<registered, runners, toml, faults, exits>>
  BY DEF BeginCall
<1> HIDE DEF new
<1>3. new.pc \notin Working /\ new.pc \notin {"stop"} \cup Marking
  BY <1>1 DEF Working, Marking
<1>4. /\ calls' \in [Callers -> Call]
      /\ \A d \in Callers : calls'[d].pc \in Working => calls'[d].runner # NoRunner
      /\ calls'[c] = new
      /\ \A d \in Callers \ {c} : calls'[d] = calls[d]
  BY <1>1, <1>2, <1>3, Replaced
<1>5. TypeOK'
  <2>1. overlapped' \in BOOLEAN
    BY <1>2 DEF SubprocessInv, TypeOK, Quiet
  <2>2. QED
    BY <1>2, <1>4, <2>1 DEF SubprocessInv, TypeOK
<1>6. \A d \in Callers : calls[d].pc \in {"stop", "kill"} => calls'[d] = calls[d]
  BY <1>2, <1>4, NoCallTyped
<1>7. AllHandled'
  <2>1. \A q \in Runners : InUse(q)' => InUse(q)
    BY <1>1, <1>2, <1>4, RunnersAssumption DEF InUse, NoRunner
  <2>2. \A q \in Runners : Handled(q) => Handled(q)'
    BY <1>2, <1>6 DEF Handled, Stopping
  <2>3. QED
    BY <2>1, <2>2 DEF SubprocessInv, AllHandled
<1>8. Reachable'
  <2>1. Up' = Up
    BY <1>2 DEF Up
  <2>2. \A q \in Runners : Ending(q) => Ending(q)'
    BY <1>6 DEF Ending
  <2>3. QED
    BY <1>2, <2>1, <2>2 DEF SubprocessInv, Reachable, Up
<1>9. Marked'
  BY <1>2, <1>3, <1>4 DEF SubprocessInv, Marked
<1>10. \A q \in Runners : EndsByStop(runners'[q])
  BY <1>2 DEF SubprocessInv
<1>11. Lone'
  <2>1. ASSUME ~overlapped'
        PROVE  \A d \in Callers : d # c => calls'[d] = NoCall
    BY <1>2, <1>4, <2>1 DEF Quiet
  <2>2. ASSUME ~overlapped', NEW d \in Callers
        PROVE  calls'[d].pc \notin {"stop"} \cup Marking
    BY <1>3, <1>4, <2>1, <2>2, NoCallTyped DEF Marking
  <2>3. QED
    BY <2>1, <2>2 DEF Lone
<1>12. QED
  BY <1>4, <1>5, <1>7, <1>8, <1>9, <1>10, <1>11 DEF SubprocessInv

LEMMA FindKeeps ==
  ASSUME SubprocessInv, UNCHANGED overlapped, NEW c \in Callers, Find(c)
  PROVE  SubprocessInv'
<1>1. /\ calls[c].pc = "find"
      /\ UNCHANGED <<registered, runners, toml, faults, exits>>
      /\ \/ GotoWith(c, "change", registered) /\ registered # NoRunner
         \/ Goto(c, "register")
         \/ Return(c)
  BY DEF Find
<1>2. QED
  BY <1>1, Unmoved, Continues

LEMMA FindAgainKeeps ==
  ASSUME SubprocessInv, UNCHANGED overlapped, NEW c \in Callers, FindAgain(c)
  PROVE  SubprocessInv'
<1>1. /\ calls[c].pc = "find again"
      /\ UNCHANGED <<registered, runners, toml, faults, exits>>
      /\ \/ GotoWith(c, "change", registered) /\ registered # NoRunner
         \/ Return(c)
  BY DEF FindAgain
<1>2. QED
  BY <1>1, Unmoved, Continues

\* The runner leaves the map for the hands of the stop.
LEMMA UnregisterKeeps ==
  ASSUME SubprocessInv, UNCHANGED overlapped, NEW c \in Callers, Unregister(c)
  PROVE  SubprocessInv'
<1>1. /\ calls[c].pc = "find" /\ registered' = NoRunner
      /\ UNCHANGED <<runners, toml, faults, exits>>
  BY DEF Unregister
<1>2. CASE registered = NoRunner
  <2>1. Return(c) /\ UNCHANGED registered
    BY <1>1, <1>2 DEF Unregister
  <2>2. QED
    BY <1>1, <2>1, Unmoved, Continues
<1>3. CASE registered # NoRunner
  <2> DEFINE new == [calls[c] EXCEPT !.pc = "stop", !.runner = registered]
  <2>1. TypeOK /\ calls[c] \in Call /\ registered \in Runners
    BY <1>3, CallTyped DEF SubprocessInv, TypeOK
  <2>2. new \in Call /\ new.pc = "stop" /\ new.runner = registered
    BY <2>1 DEF Call, PC
  <2>3. calls' = [calls EXCEPT ![c] = new]
    BY <1>3 DEF Unregister, GotoWith
  <2> HIDE DEF new
  <2>4. /\ calls' \in [Callers -> Call]
        /\ \A d \in Callers : calls'[d].pc \in Working => calls'[d].runner # NoRunner
        /\ calls'[c] = new
        /\ \A d \in Callers \ {c} : calls'[d] = calls[d]
    BY <1>3, <2>2, <2>3, Replaced
  <2>5. TypeOK'
    BY <1>1, <2>4 DEF SubprocessInv, TypeOK
  <2>6. \A d \in Callers : calls[d].pc \in {"stop"} \cup Marking => calls'[d] = calls[d]
    BY <1>1, <2>4 DEF Marking
  <2>7. AllHandled'
    <3>1. ASSUME NEW q \in Runners, InUse(q)'
          PROVE  q = registered \/ InUse(q)
      BY <1>1, <2>2, <2>4, <3>1 DEF InUse
    <3>2. ASSUME NEW q \in Runners, Handled(q)
          PROVE  Handled(q)'
      <4>1. CASE q = registered
        <5>1. calls'[c].runner = q /\ calls'[c].pc = "stop"
          BY <2>2, <2>4, <4>1
        <5>2. QED
          BY <5>1 DEF Handled, Stopping
      <4>2. CASE runners[q].stopRequested
        BY <1>1, <4>2 DEF Handled
      <4>3. CASE Stopping(q)
        BY <2>6, <4>3 DEF Handled, Stopping
      <4>4. QED
        BY <3>2, <4>1, <4>2, <4>3 DEF Handled
    <3>3. \A q \in Runners : InUse(q)' => Handled(q)
      BY <3>1 DEF SubprocessInv, AllHandled, Handled
    <3>4. QED
      BY <3>2, <3>3 DEF AllHandled
  <2>8. Reachable'
    <3>1. ASSUME NEW q \in Up'
          PROVE  Ending(q)'
      <4>1. q \in Up
        BY <1>1 DEF Up
      <4>2. CASE q = registered
        <5>1. calls'[c].runner = q /\ calls'[c].pc = "stop"
          BY <2>2, <2>4, <4>2
        <5>2. QED
          BY <5>1 DEF Ending
      <4>3. CASE Ending(q)
        BY <2>6, <4>3 DEF Ending, Marking
      <4>4. QED
        BY <4>1, <4>2, <4>3 DEF SubprocessInv, Reachable
    <3>2. QED
      BY <3>1 DEF Reachable
  <2>9. Marked'
    <3>1. ASSUME NEW d \in Callers, calls'[d].pc \in Marking
          PROVE  runners'[calls'[d].runner].stopRequested
      <4>1. d # c
        BY <2>2, <2>4, <3>1 DEF Marking
      <4>2. QED
        BY <1>1, <2>4, <3>1, <4>1 DEF SubprocessInv, Marked
    <3>2. QED
      BY <3>1 DEF Marked
  <2>10. \A q \in Runners : EndsByStop(runners'[q])
    BY <1>1 DEF SubprocessInv
  <2>11. Lone'
    <3>1. calls[c] # NoCall
      BY <1>1, Busy
    <3>2. \A d \in Callers : calls'[d] # NoCall => calls[d] # NoCall
      BY <2>4, <3>1
    <3>3. QED
      BY <1>1, <3>2 DEF SubprocessInv, Lone
  <2>12. QED
    BY <2>4, <2>5, <2>7, <2>8, <2>9, <2>10, <2>11 DEF SubprocessInv
<1>4. QED
  BY <1>2, <1>3

-----------------------------------------------------------------------------
\* The new runner is one that nobody works on, and it is put into the map.
LEMMA RegisterKeeps ==
  ASSUME SubprocessInv, UNCHANGED overlapped, NEW c \in Callers, Register(c)
  PROVE  SubprocessInv'
<1>1. calls[c].pc = "register" /\ UNCHANGED <<toml, faults, exits>> /\ calls[c] # NoCall
  BY Busy DEF Register
<1>2. CASE registered # NoRunner /\ AfterStart(c) /\ UNCHANGED <<registered, runners>>
  <2>1. Goto(c, "find again") \/ Return(c)
    BY <1>2 DEF AfterStart
  <2>2. QED
    BY <1>1, <1>2, <2>1, Unmoved, Continues
<1>3. ASSUME NEW r \in Runners, registered = NoRunner, Fresh(r), registered' = r,
             runners' = [runners EXCEPT ![r] = NewRunner],
             calls' = [calls EXCEPT ![c].pc = "render", ![c].runner = r, ![c].starting = TRUE]
      PROVE  SubprocessInv'
  <2> DEFINE new == [calls[c] EXCEPT !.pc = "render", !.runner = r, !.starting = TRUE]
  <2>1. new \in Call /\ new.pc = "render" /\ new.runner = r
    BY CallTyped DEF SubprocessInv, Call, PC
  <2>2. calls' = [calls EXCEPT ![c] = new]
    BY <1>3
  <2> HIDE DEF new
  <2>3. /\ calls' \in [Callers -> Call]
        /\ \A d \in Callers : calls'[d].pc \in Working => calls'[d].runner # NoRunner
        /\ calls'[c] = new
        /\ \A d \in Callers \ {c} : calls'[d] = calls[d]
    BY <2>1, <2>2, Replaced, RunnersAssumption DEF NoRunner
  <2>4. /\ runners' \in [Runners -> Runner] /\ runners'[r] = NewRunner
        /\ \A q \in Runners \ {r} : runners'[q] = runners[q]
    BY <1>3, NewRunnerTyped DEF SubprocessInv, TypeOK
  <2>5. TypeOK'
    BY <1>1, <1>3, <2>3, <2>4 DEF SubprocessInv, TypeOK
  <2>6. \A d \in Callers : calls[d].runner # r
    BY <1>3 DEF Fresh
  <2>7. \A d \in Callers : calls[d].pc \in {"stop"} \cup Marking => calls'[d] = calls[d]
    BY <1>1, <2>3 DEF Marking
  <2>8. AllHandled'
    <3>1. ASSUME NEW q \in Runners, q # r, InUse(q)'
          PROVE  InUse(q)
      BY <2>1, <2>3, <2>4, <3>1 DEF InUse
    <3>2. ASSUME NEW q \in Runners, q # r, Handled(q)
          PROVE  Handled(q)'
      <4>1. q # registered
        BY <1>3, RunnersAssumption DEF NoRunner
      <4>2. CASE runners[q].stopRequested
        BY <2>4, <3>2, <4>2 DEF Handled
      <4>3. CASE Stopping(q)
        BY <2>7, <4>3 DEF Handled, Stopping
      <4>4. QED
        BY <3>2, <4>1, <4>2, <4>3 DEF Handled
    <3>3. Handled(r)'
      BY <1>3 DEF Handled
    <3>4. ASSUME NEW q \in Runners, InUse(q)'
          PROVE  Handled(q)'
      <4>1. CASE q = r
        BY <1>3, <4>1 DEF Handled
      <4>2. CASE q # r
        BY <3>1, <3>2, <3>4, <4>2 DEF SubprocessInv, AllHandled
      <4>3. QED
        BY <4>1, <4>2
    <3>5. QED
      BY <3>4 DEF AllHandled
  <2>9. Reachable'
    <3>1. ASSUME NEW q \in Up'
          PROVE  Ending(q)'
      <4>1. q # r /\ q \in Runners /\ q \in Up
        BY <2>4, NewRunnerTyped DEF Up
      <4>2. Ending(q)
        BY <1>3, <4>1, RunnersAssumption DEF SubprocessInv, Reachable, NoRunner
      <4>3. QED
        BY <2>7, <4>2 DEF Ending, Marking
    <3>2. QED
      BY <3>1 DEF Reachable
  <2>10. Marked'
    <3>1. ASSUME NEW d \in Callers, calls'[d].pc \in Marking
          PROVE  runners'[calls'[d].runner].stopRequested
      <4>1. d # c
        BY <2>1, <2>3, <3>1 DEF Marking
      <4>2. calls'[d] = calls[d] /\ calls[d].pc \in Marking /\ calls[d].pc \in Working
        BY <2>3, <3>1, <4>1 DEF Marking, Working
      <4>3. calls[d].runner \in Runners \ {r} /\ runners[calls[d].runner].stopRequested
        BY <2>6, <4>2, WorksOn DEF SubprocessInv, Marked
      <4>4. QED
        BY <2>4, <4>2, <4>3
    <3>2. QED
      BY <3>1 DEF Marked
  <2>11. \A q \in Runners : EndsByStop(runners'[q])
    BY <2>4, NewRunnerTyped DEF SubprocessInv
  <2>12. Lone'
    <3>1. ASSUME ~overlapped
          PROVE  \A d \in Callers : calls'[d] # NoCall => d = c
      BY <1>1, <2>3, <3>1 DEF SubprocessInv, Lone
    <3>2. ASSUME ~overlapped, NEW d \in Callers
          PROVE  calls'[d].pc \notin {"stop"} \cup Marking
      <4>1. CASE d = c
        BY <2>1, <2>3, <4>1 DEF Marking
      <4>2. CASE d # c
        BY <3>1, <3>2, <4>2, NoCallTyped DEF Marking
      <4>3. QED
        BY <4>1, <4>2
    <3>3. QED
      BY <3>1, <3>2 DEF Lone
  <2>13. QED
    BY <2>3, <2>5, <2>8, <2>9, <2>10, <2>11, <2>12 DEF SubprocessInv
<1>4. QED
  BY <1>2, <1>3 DEF Register

-----------------------------------------------------------------------------
LEMMA RenderKeeps ==
  ASSUME SubprocessInv, UNCHANGED overlapped, NEW c \in Callers, Render(c)
  PROVE  SubprocessInv'
<1> DEFINE new == [calls[c] EXCEPT !.pc = "write", !.copy = Rendered(c)]
<1>1. /\ calls[c].pc = "render" /\ UNCHANGED <<registered, runners, toml, faults, exits>>
      /\ calls' = [calls EXCEPT ![c] = new]
  BY DEF Render
<1>2. /\ calls[c].runner \in Runners /\ runners[calls[c].runner] \in Runner
      /\ TypeOK /\ calls[c] \in Call
  BY <1>1, WorksOn, CallTyped DEF Working, SubprocessInv
<1>3. Rendered(c) \subseteq Tunnels
  BY <1>2 DEF Rendered, Runner
<1>4. new \in Call /\ new.pc = "write" /\ new.runner = calls[c].runner
  BY <1>2, <1>3 DEF Call, PC
<1> HIDE DEF new
<1>5. new.runner # NoRunner /\ new.pc \notin {"stop"} \cup Marking
  BY <1>2, <1>4, RunnersAssumption DEF NoRunner, Marking
<1>6. QED
  BY <1>1, <1>4, <1>5, Unmoved, QuietStep

\* A call that gives up, in a start or not, leaves the map as it is.
LEMMA GiveUpReturns ==
  ASSUME NEW c \in Callers, GiveUp(c)
  PROVE  UNCHANGED registered /\ calls' = [calls EXCEPT ![c] = NoCall]
BY DEF GiveUp, FailedStart, AfterFailedStart, Return

LEMMA FailsBounded ==
  ASSUME SubprocessInv, UNCHANGED faults \/ Fails
  PROVE  faults' \in 0 .. MaxFaults
BY BoundAssumption DEF Fails, SubprocessInv, TypeOK

\* A start that fails, for whatever reason, changes no runner.
LEMMA FailedStartKeeps ==
  ASSUME SubprocessInv, UNCHANGED overlapped, NEW c \in Callers,
         calls[c].pc \in {"spawn", "ready"}, FailedStart(c), UNCHANGED <<runners, toml, exits>>,
         UNCHANGED faults \/ Fails
  PROVE  SubprocessInv'
<1>1. UNCHANGED registered /\ Return(c)
  BY DEF FailedStart, AfterFailedStart
<1>2. faults' \in 0 .. MaxFaults
  BY BoundAssumption DEF Fails, SubprocessInv, TypeOK
<1>3. toml' \subseteq Tunnels /\ exits' \in 0 .. MaxExits
  BY DEF SubprocessInv, TypeOK
<1>4. QED
  BY <1>1, <1>2, <1>3, Continues

\* A step of a call on its runner that neither stops nor cancels it.
LEMMA WorkStep ==
  ASSUME SubprocessInv, NEW c \in Callers, NEW r \in Runners, r = calls[c].runner,
         calls[c].pc \in {"render", "write", "spawn", "watch", "change", "reload"},
         NEW rec \in Runner, runners' = [runners EXCEPT ![r] = rec],
         rec.stopRequested = runners[r].stopRequested, rec.saw = runners[r].saw,
         rec.cancelled = runners[r].cancelled, rec.watch \in {runners[r].watch, "top"},
         rec.frpc = "up" => runners[r].frpc = "up" \/ ~runners[r].stopRequested,
         NEW new \in Call, calls' = [calls EXCEPT ![c] = new],
         new.pc \notin {"stop"} \cup Marking, new.runner \in {r, NoRunner},
         new.pc \in Working => new.runner = r,
         UNCHANGED <<registered, overlapped, exits>>,
         UNCHANGED toml \/ toml' \subseteq Tunnels, UNCHANGED faults \/ Fails
  PROVE  SubprocessInv'
<1>1. /\ runners' \in [Runners -> Runner] /\ runners'[r] = rec
      /\ \A q \in Runners : q # r => runners'[q] = runners[q]
  BY DEF SubprocessInv, TypeOK
<1>2. /\ r \in Runners => /\ runners[r].stopRequested => runners'[r].stopRequested
                          /\ EndsByStop(runners'[r])
      /\ r \in Up' => r \in Up \/ (~runners[r].stopRequested /\ calls[c].pc # "stop")
  BY <1>1 DEF SubprocessInv, EndsByStop, Up
<1>3. /\ toml' \subseteq Tunnels /\ faults' \in 0 .. MaxFaults /\ exits' \in 0 .. MaxExits
      /\ UNCHANGED <<registered, overlapped>>
  BY FailsBounded DEF SubprocessInv, TypeOK
<1>4. /\ calls[c] # NoCall
      /\ new.pc \in Working => new.runner # NoRunner
      /\ new.runner \in {r, registered, NoRunner} /\ new.pc # "stop"
  BY Busy, RunnersAssumption DEF NoRunner
<1>5. /\ r = calls[c].runner /\ calls' = [calls EXCEPT ![c] = new]
      /\ new.pc \in Marking =>
           /\ calls[c].pc \in {"stop"} \cup Marking
           /\ new.runner = r /\ runners'[r].stopRequested
      /\ calls[c].pc = "stop" => runners'[r].stopRequested
      /\ calls[c].pc \in {"stop", "kill"} => (new.pc = "kill" /\ new.runner = r) \/ r \notin Up'
  OBVIOUS
<1>6. QED
  BY <1>1, <1>2, <1>3, <1>4, <1>5, CallStep

\* What a step on a runner starts from.
LEMMA AtWork ==
  ASSUME SubprocessInv, NEW c \in Callers, calls[c].pc \in Working
  PROVE  /\ calls[c].runner \in Runners /\ runners[calls[c].runner] \in Runner
         /\ calls[c] \in Call /\ toml \subseteq Tunnels
BY WorksOn, CallTyped DEF SubprocessInv, TypeOK

LEMMA WriteKeeps ==
  ASSUME SubprocessInv, UNCHANGED overlapped, NEW c \in Callers, Write(c)
  PROVE  SubprocessInv'
<1> DEFINE r == calls[c].runner
           new == [calls[c] EXCEPT !.pc = IF calls[c].starting THEN "spawn" ELSE "reload"]
           rec == [runners[r] EXCEPT !.missed = @ \ {"file"}]
<1>1. /\ calls[c].pc = "write" /\ UNCHANGED <<registered, faults, exits>>
      /\ calls' = [calls EXCEPT ![c] = new] /\ runners' = [runners EXCEPT ![r] = rec]
      /\ toml' = calls[c].copy
  BY DEF Write, Goto
<1>2. r \in Runners /\ runners[r] \in Runner /\ calls[c] \in Call
  BY <1>1, AtWork DEF Working
<1>3. toml' \subseteq Tunnels
  BY <1>1, <1>2 DEF Call
<1>4. /\ rec \in Runner /\ rec.stopRequested = runners[r].stopRequested
      /\ rec.cancelled = runners[r].cancelled /\ rec.saw = runners[r].saw
      /\ rec.watch = runners[r].watch /\ rec.frpc = runners[r].frpc
  BY <1>2 DEF Runner
<1>5. new \in Call /\ new.pc \in {"spawn", "reload"} /\ new.runner = r
  BY <1>2 DEF Call, PC
<1> HIDE DEF new, rec
<1>6. new.pc \notin {"stop"} \cup Marking
  BY <1>5 DEF Marking
<1>7. QED
  BY <1>1, <1>2, <1>3, <1>4, <1>5, <1>6, WorkStep

\* A call that fails changes what its runner has missed and what frpc has read.
LEMMA FailureKeeps ==
  ASSUME SubprocessInv, UNCHANGED overlapped, NEW c \in Callers,
         RenderFails(c) \/ WriteFails(c) \/ ReloadFails(c)
  PROVE  SubprocessInv'
<1> DEFINE r == calls[c].runner
<1>1. /\ calls[c].pc \in {"render", "write", "reload"} /\ Fails /\ UNCHANGED <<registered, exits>>
      /\ calls' = [calls EXCEPT ![c] = NoCall]
  BY GiveUpReturns DEF RenderFails, WriteFails, ReloadFails, Return
<1>2. r \in Runners /\ runners[r] \in Runner /\ toml \subseteq Tunnels
  BY <1>1, AtWork DEF Working
<1>3. toml' \subseteq Tunnels
  BY <1>2 DEF RenderFails, WriteFails, ReloadFails
<1>4. PICK config \in SUBSET Tunnels, missed \in SUBSET {"file", "frpc"} :
        runners' = [runners EXCEPT ![r] = [@ EXCEPT !.config = config, !.missed = missed]]
  <2>1. runners[r].config \in SUBSET Tunnels /\ runners[r].missed \in SUBSET {"file", "frpc"}
    BY <1>2 DEF Runner
  <2>2. \A missed : [runners[r] EXCEPT !.missed = missed]
                     = [runners[r] EXCEPT !.config = runners[r].config, !.missed = missed]
    BY <1>2 DEF Runner
  <2>3. CASE RenderFails(c)
    BY <2>1, <2>2, <2>3 DEF RenderFails
  <2>4. CASE WriteFails(c)
    BY <2>1, <2>2, <2>4 DEF WriteFails
  <2>5. CASE ReloadFails(c)
    <3>1. PICK config \in {runners[r].config, toml} :
            runners' = [runners EXCEPT ![r].config = config, ![r].missed = @ \cup {"frpc"}]
      BY <2>5 DEF ReloadFails
    <3>2. runners' = [runners EXCEPT ![r] =
                       [runners[r] EXCEPT !.config = config,
                                          !.missed = runners[r].missed \cup {"frpc"}]]
      BY <1>2, <3>1 DEF SubprocessInv, TypeOK, Runner
    <3>3. config \in SUBSET Tunnels /\ runners[r].missed \cup {"frpc"} \in SUBSET {"file", "frpc"}
      BY <1>2, <2>1
    <3>4. QED
      BY <3>2, <3>3
  <2>6. QED
    BY <2>3, <2>4, <2>5
<1> DEFINE rec == [runners[r] EXCEPT !.config = config, !.missed = missed]
<1>5. /\ rec \in Runner /\ rec.stopRequested = runners[r].stopRequested
      /\ rec.cancelled = runners[r].cancelled /\ rec.saw = runners[r].saw
      /\ rec.watch = runners[r].watch /\ rec.frpc = runners[r].frpc
  BY <1>2 DEF Runner
<1>6. runners' = [runners EXCEPT ![r] = rec]
  BY <1>4
<1> HIDE DEF rec
<1>7. NoCall.pc \notin {"stop"} \cup Marking
  BY NoCallTyped DEF Marking
<1>8. QED
  BY <1>1, <1>2, <1>3, <1>5, <1>6, <1>7, NoCallTyped, WorkStep

LEMMA RegisterFailsKeeps ==
  ASSUME SubprocessInv, UNCHANGED overlapped, NEW c \in Callers, RegisterFails(c)
  PROVE  SubprocessInv'
<1>1. calls[c].pc = "register" /\ UNCHANGED <<registered, runners, toml, exits>> /\ Return(c)
  BY DEF RegisterFails
<1>2. faults' \in 0 .. MaxFaults
  BY FailsBounded DEF RegisterFails
<1>3. toml' \subseteq Tunnels /\ exits' \in 0 .. MaxExits
  BY <1>1 DEF SubprocessInv, TypeOK
<1>4. QED
  BY <1>1, <1>2, <1>3, Continues

\* What is spawned has not been stopped, so that a stop still to come finds it.
LEMMA SpawnKeeps ==
  ASSUME SubprocessInv, UNCHANGED overlapped, NEW c \in Callers, Spawn(c)
  PROVE  SubprocessInv'
<1> DEFINE r == calls[c].runner
<1>1. calls[c].pc = "spawn" /\ UNCHANGED <<toml, exits>>
  BY DEF Spawn
<1>2. r \in Runners /\ runners[r] \in Runner /\ calls[c] \in Call /\ toml \subseteq Tunnels
  BY <1>1, AtWork DEF Working
<1>3. CASE /\ MaySpawn(r) /\ runners' = Spawned(r) /\ Goto(c, "ready")
           /\ UNCHANGED <<registered, faults>>
  <2> DEFINE new == [calls[c] EXCEPT !.pc = "ready"]
             rec == [runners[r] EXCEPT !.frpc = "up", !.config = toml, !.missed = @ \ {"frpc"}]
  <2>1. new \in Call /\ new.pc = "ready" /\ new.runner = r
    BY <1>2 DEF Call, PC
  <2>2. calls' = [calls EXCEPT ![c] = new] /\ runners' = [runners EXCEPT ![r] = rec]
    BY <1>3 DEF Goto, Spawned
  <2>3. /\ rec \in Runner /\ rec.stopRequested = runners[r].stopRequested
        /\ rec.cancelled = runners[r].cancelled /\ rec.saw = runners[r].saw
        /\ rec.watch = runners[r].watch
    BY <1>2 DEF Runner
  <2> HIDE DEF new, rec
  <2>4. ~runners[r].stopRequested /\ new.pc \notin {"stop"} \cup Marking
    BY <1>3, <2>1 DEF MaySpawn, Marking
  <2>5. QED
    BY <1>1, <1>2, <1>3, <2>1, <2>2, <2>3, <2>4, WorkStep
<1>4. CASE FailedStart(c) /\ UNCHANGED runners /\ (UNCHANGED faults \/ Fails)
  BY <1>1, <1>4, FailedStartKeeps
<1>5. QED
  BY <1>3, <1>4 DEF Spawn

LEMMA ReadyKeeps ==
  ASSUME SubprocessInv, UNCHANGED overlapped, NEW c \in Callers, Ready(c)
  PROVE  SubprocessInv'
<1>1. calls[c].pc = "ready" /\ UNCHANGED <<runners, toml, exits>> /\ calls[c].pc \in Working
  BY DEF Ready, Working
<1>2. CASE Goto(c, "watch") /\ UNCHANGED <<registered, faults>>
  BY <1>1, <1>2, Unmoved, Continues
<1>3. CASE FailedStart(c) /\ (UNCHANGED faults \/ Fails)
  BY <1>1, <1>3, FailedStartKeeps
<1>4. QED
  BY <1>2, <1>3 DEF Ready

LEMMA WatchKeeps ==
  ASSUME SubprocessInv, UNCHANGED overlapped, NEW c \in Callers, Watch(c)
  PROVE  SubprocessInv'
<1> DEFINE r == calls[c].runner
           new == IF calls[c].op = "add"
                  THEN [calls[c] EXCEPT !.pc = "find again", !.starting = FALSE] ELSE NoCall
           rec == [runners[r] EXCEPT !.watch = "top", !.poll = "on"]
<1>1. /\ calls[c].pc = "watch" /\ UNCHANGED <<registered, toml, faults, exits>>
      /\ calls' = [calls EXCEPT ![c] = new] /\ runners' = [runners EXCEPT ![r] = rec]
  BY DEF Watch
<1>2. r \in Runners /\ runners[r] \in Runner /\ calls[c] \in Call
  BY <1>1, AtWork DEF Working
<1>3. /\ rec \in Runner /\ rec.stopRequested = runners[r].stopRequested
      /\ rec.cancelled = runners[r].cancelled /\ rec.saw = runners[r].saw
      /\ rec.watch = "top" /\ rec.frpc = runners[r].frpc
  BY <1>2 DEF Runner
<1>4. new \in Call /\ new.pc \in {"find again", "idle"} /\ new.runner \in {r, NoRunner}
  BY <1>2, NoCallTyped DEF Call, PC
<1> HIDE DEF new, rec
<1>5. new.pc \notin Working /\ new.pc \notin {"stop"} \cup Marking
  BY <1>4 DEF Working, Marking
<1>6. QED
  BY <1>1, <1>2, <1>3, <1>4, <1>5, WorkStep

LEMMA ChangeKeeps ==
  ASSUME SubprocessInv, UNCHANGED overlapped, NEW c \in Callers, Change(c)
  PROVE  SubprocessInv'
<1> DEFINE r == calls[c].runner
           tunnels == IF calls[c].op = "add" THEN runners[r].tunnels \cup calls[c].tunnels
                      ELSE runners[r].tunnels \ calls[c].tunnels
           new == [calls[c] EXCEPT !.pc = "render"]
           rec == [runners[r] EXCEPT !.tunnels = tunnels]
<1>1. /\ calls[c].pc = "change" /\ UNCHANGED <<registered, toml, faults, exits>>
      /\ calls' = [calls EXCEPT ![c] = new] /\ runners' = [runners EXCEPT ![r] = rec]
  BY DEF Change, Goto
<1>2. r \in Runners /\ runners[r] \in Runner /\ calls[c] \in Call
  BY <1>1, AtWork DEF Working
<1>3. tunnels \subseteq Tunnels
  BY <1>2 DEF Runner, Call
<1> HIDE DEF tunnels
<1>4. /\ rec \in Runner /\ rec.stopRequested = runners[r].stopRequested
      /\ rec.cancelled = runners[r].cancelled /\ rec.saw = runners[r].saw
      /\ rec.watch = runners[r].watch /\ rec.frpc = runners[r].frpc
  BY <1>2, <1>3 DEF Runner
<1>5. new \in Call /\ new.pc = "render" /\ new.runner = r
  BY <1>2 DEF Call, PC
<1> HIDE DEF new, rec
<1>6. new.pc \notin {"stop"} \cup Marking
  BY <1>5 DEF Marking
<1>7. QED
  BY <1>1, <1>2, <1>4, <1>5, <1>6, WorkStep

LEMMA ReloadKeeps ==
  ASSUME SubprocessInv, UNCHANGED overlapped, NEW c \in Callers, Reload(c)
  PROVE  SubprocessInv'
<1> DEFINE r == calls[c].runner
           rec == IF runners[r].frpc = "up"
                  THEN [runners[r] EXCEPT !.frpc = "up", !.config = toml, !.missed = @ \ {"frpc"}]
                  ELSE runners[r]
<1>1. /\ calls[c].pc = "reload" /\ UNCHANGED <<registered, toml, faults, exits>>
      /\ calls' = [calls EXCEPT ![c] = NoCall]
  BY DEF Reload, Return
<1>2. r \in Runners /\ runners[r] \in Runner /\ toml \subseteq Tunnels
  BY <1>1, AtWork DEF Working
<1>3. runners' = [runners EXCEPT ![r] = rec]
  BY <1>2 DEF Reload, Spawned, SubprocessInv, TypeOK
<1>4. /\ rec \in Runner /\ rec.stopRequested = runners[r].stopRequested
      /\ rec.cancelled = runners[r].cancelled /\ rec.saw = runners[r].saw
      /\ rec.watch = runners[r].watch /\ rec.frpc = runners[r].frpc
  BY <1>2 DEF Runner
<1> HIDE DEF rec
<1>5. NoCall.pc \notin {"stop"} \cup Marking
  BY NoCallTyped DEF Marking
<1>6. QED
  BY <1>1, <1>2, <1>3, <1>4, <1>5, NoCallTyped, WorkStep

-----------------------------------------------------------------------------
\* A step of a stop on its runner: the runner is marked when it is done, and
\* its process is left only for the next step.
LEMMA StopStep ==
  ASSUME SubprocessInv, NEW c \in Callers, NEW r \in Runners, r = calls[c].runner,
         calls[c].pc \in {"stop"} \cup Marking,
         NEW rec \in Runner, runners' = [runners EXCEPT ![r] = rec],
         rec.stopRequested, rec.frpc = "up" => runners[r].frpc = "up",
         NEW new \in Call, calls' = [calls EXCEPT ![c] = new],
         new.pc \in Marking, new.runner = r,
         calls[c].pc \in {"stop", "kill"} => new.pc = "kill" \/ rec.frpc # "up",
         UNCHANGED <<registered, toml, overlapped, faults, exits>>
  PROVE  SubprocessInv'
<1>1. /\ runners' \in [Runners -> Runner] /\ runners'[r] = rec
      /\ \A q \in Runners : q # r => runners'[q] = runners[q]
  BY DEF SubprocessInv, TypeOK
<1>2. /\ r \in Runners => /\ runners[r].stopRequested => runners'[r].stopRequested
                          /\ EndsByStop(runners'[r])
      /\ r \in Up' => r \in Up \/ (~runners[r].stopRequested /\ calls[c].pc # "stop")
  BY <1>1 DEF EndsByStop, Up
<1>3. /\ toml' \subseteq Tunnels /\ faults' \in 0 .. MaxFaults /\ exits' \in 0 .. MaxExits
      /\ UNCHANGED <<registered, overlapped>>
  BY DEF SubprocessInv, TypeOK
<1>4. /\ calls[c] # NoCall
      /\ new.pc \in Working => new.runner # NoRunner
      /\ new.runner \in {r, registered, NoRunner} /\ new.pc # "stop"
  BY Busy, RunnersAssumption DEF NoRunner, Marking
<1>5. /\ r = calls[c].runner /\ calls' = [calls EXCEPT ![c] = new]
      /\ new.pc \in Marking =>
           /\ calls[c].pc \in {"stop"} \cup Marking
           /\ new.runner = r /\ runners'[r].stopRequested
      /\ calls[c].pc = "stop" => runners'[r].stopRequested
      /\ calls[c].pc \in {"stop", "kill"} => (new.pc = "kill" /\ new.runner = r) \/ r \notin Up'
  BY <1>1 DEF Up
<1>6. QED
  BY ZenonT(40), <1>1, <1>2, <1>3, <1>4, <1>5, CallStep

LEMMA StopKeeps ==
  ASSUME SubprocessInv, UNCHANGED overlapped, NEW c \in Callers, Stop(c)
  PROVE  SubprocessInv'
<1> DEFINE r == calls[c].runner
           pc == IF runners[r].frpc = "none" THEN "cancel" ELSE "kill"
           new == [calls[c] EXCEPT !.pc = pc, !.cancel = runners[r].watch # "off"]
           rec == [runners[r] EXCEPT !.stopRequested = TRUE]
<1>1. /\ calls[c].pc = "stop" /\ UNCHANGED <<registered, toml, faults, exits>>
      /\ calls' = [calls EXCEPT ![c] = new] /\ runners' = [runners EXCEPT ![r] = rec]
  BY DEF Stop
<1>2. r \in Runners /\ runners[r] \in Runner /\ calls[c] \in Call
  BY <1>1, AtWork DEF Working
<1>3. rec \in Runner /\ rec.stopRequested /\ rec.frpc = runners[r].frpc
  BY <1>2 DEF Runner
<1>4. new \in Call /\ new.pc = pc /\ new.runner = r
  BY <1>2 DEF Call, PC
<1>5. pc \in Marking /\ (pc = "kill" \/ runners[r].frpc # "up")
  BY DEF Marking
<1> HIDE DEF new, rec, pc
<1>6. QED
  BY <1>1, <1>2, <1>3, <1>4, <1>5, StopStep

LEMMA KillKeeps ==
  ASSUME SubprocessInv, UNCHANGED overlapped, NEW c \in Callers, Kill(c)
  PROVE  SubprocessInv'
<1> DEFINE r == calls[c].runner
           new == [calls[c] EXCEPT !.pc = "cancel"]
           rec == [runners[r] EXCEPT !.frpc = "dead", !.config = {}]
<1>1. /\ calls[c].pc = "kill" /\ UNCHANGED <<registered, toml, faults, exits>>
      /\ calls' = [calls EXCEPT ![c] = new] /\ runners' = [runners EXCEPT ![r] = rec]
      /\ calls[c].pc \in Marking
  BY DEF Kill, Goto, Marking
<1>2. /\ r \in Runners /\ runners[r] \in Runner /\ calls[c] \in Call
      /\ runners[r].stopRequested
  BY <1>1, AtWork DEF Working, SubprocessInv, Marked
<1>3. rec \in Runner /\ rec.stopRequested /\ rec.frpc = "dead"
  BY <1>2 DEF Runner
<1>4. new \in Call /\ new.pc = "cancel" /\ new.runner = r
  BY <1>2 DEF Call, PC
<1> HIDE DEF new, rec
<1>5. new.pc \in Marking
  BY <1>4 DEF Marking
<1>6. QED
  BY <1>1, <1>2, <1>3, <1>4, <1>5, StopStep

LEMMA CancelKeeps ==
  ASSUME SubprocessInv, UNCHANGED overlapped, NEW c \in Callers, Cancel(c)
  PROVE  SubprocessInv'
<1> DEFINE r == calls[c].runner
           new == [calls[c] EXCEPT !.pc = "join"]
           rec == [runners[r] EXCEPT !.cancelled = runners[r].cancelled \/ calls[c].cancel]
<1>1. /\ calls[c].pc = "cancel" /\ UNCHANGED <<registered, toml, faults, exits>>
      /\ calls' = [calls EXCEPT ![c] = new] /\ runners' = [runners EXCEPT ![r] = rec]
      /\ calls[c].pc \in Marking
  BY DEF Cancel, Goto, Marking
<1>2. /\ r \in Runners /\ runners[r] \in Runner /\ calls[c] \in Call
      /\ runners[r].stopRequested
  BY <1>1, AtWork DEF Working, SubprocessInv, Marked
<1>3. rec \in Runner /\ rec.stopRequested /\ rec.frpc = runners[r].frpc
  BY <1>2 DEF Runner, Call
<1>4. new \in Call /\ new.pc = "join" /\ new.runner = r
  BY <1>2 DEF Call, PC
<1> HIDE DEF new, rec
<1>5. new.pc \in Marking
  BY <1>4 DEF Marking
<1>6. QED
  BY <1>1, <1>2, <1>3, <1>4, <1>5, StopStep

LEMMA JoinKeeps ==
  ASSUME SubprocessInv, UNCHANGED overlapped, NEW c \in Callers, Join(c)
  PROVE  SubprocessInv'
BY Unmoved, Continues DEF Join

-----------------------------------------------------------------------------
LEMMA LookAtCmdKeeps ==
  ASSUME SubprocessInv, UNCHANGED overlapped, NEW r \in Runners, LookAtCmd(r)
  PROVE  SubprocessInv'
<1> DEFINE new == [runners[r] EXCEPT !.watch = "wait", !.saw = runners[r].stopRequested]
<1>1. /\ runners[r].watch = "top" /\ runners' = [runners EXCEPT ![r] = new]
      /\ UNCHANGED <<registered, toml, calls, faults, exits>>
  BY DEF LookAtCmd
<1>2. runners[r] \in Runner /\ EndsByStop(runners[r])
      /\ faults \in 0 .. MaxFaults /\ exits \in 0 .. MaxExits
  BY DEF SubprocessInv, TypeOK
<1>3. /\ new \in Runner /\ new.watch = "wait" /\ new.saw = runners[r].stopRequested
      /\ new.stopRequested = runners[r].stopRequested
      /\ new.cancelled = runners[r].cancelled /\ new.frpc = runners[r].frpc
  BY <1>2 DEF Runner
<1> HIDE DEF new
<1>4. EndsByStop(new)
  BY <1>2, <1>3 DEF EndsByStop
<1>5. QED
  BY <1>1, <1>2, <1>3, <1>4, LoopStep

LEMMA WaitReturnsKeeps ==
  ASSUME SubprocessInv, UNCHANGED overlapped, NEW r \in Runners, WaitReturns(r)
  PROVE  SubprocessInv'
<1> DEFINE watch == IF runners[r].cancelled \/ runners[r].saw THEN "over" ELSE "backoff"
           new == [runners[r] EXCEPT !.watch = watch]
<1>1. /\ runners[r].watch = "wait" /\ runners' = [runners EXCEPT ![r] = new]
      /\ UNCHANGED <<registered, toml, calls, faults, exits>>
  BY DEF WaitReturns
<1>2. runners[r] \in Runner /\ EndsByStop(runners[r])
      /\ faults \in 0 .. MaxFaults /\ exits \in 0 .. MaxExits
  BY DEF SubprocessInv, TypeOK
<1>3. watch \in {"over", "backoff"}
      /\ (watch = "over" => runners[r].cancelled \/ runners[r].saw)
  OBVIOUS
<1> HIDE DEF watch
<1>4. /\ new \in Runner /\ new.watch = watch /\ new.saw = runners[r].saw
      /\ new.stopRequested = runners[r].stopRequested
      /\ new.cancelled = runners[r].cancelled /\ new.frpc = runners[r].frpc
  BY <1>2, <1>3 DEF Runner
<1> HIDE DEF new
<1>5. EndsByStop(new)
  BY <1>2, <1>3, <1>4 DEF EndsByStop
<1>6. QED
  BY <1>1, <1>2, <1>4, <1>5, LoopStep

LEMMA RespawnKeeps ==
  ASSUME SubprocessInv, UNCHANGED overlapped, NEW r \in Runners, Respawn(r)
  PROVE  SubprocessInv'
<1>1. runners[r].watch = "backoff" /\ UNCHANGED <<registered, toml, calls, exits>>
  BY DEF Respawn
<1>2. runners[r] \in Runner /\ EndsByStop(runners[r]) /\ toml \subseteq Tunnels
      /\ faults \in 0 .. MaxFaults /\ exits \in 0 .. MaxExits
  BY DEF SubprocessInv, TypeOK
<1>3. faults' \in 0 .. MaxFaults
  BY <1>2, BoundAssumption DEF Respawn, Fails
<1>4. CASE MaySpawn(r) /\ runners' = [Spawned(r) EXCEPT ![r].watch = "top"]
  <2> DEFINE new == [runners[r] EXCEPT !.frpc = "up", !.config = toml, !.missed = @ \ {"frpc"},
                                       !.watch = "top"]
  <2>1. runners' = [runners EXCEPT ![r] = new]
    BY <1>2, <1>4 DEF Spawned, SubprocessInv, TypeOK
  <2>2. /\ new \in Runner /\ new.watch = "top" /\ new.saw = runners[r].saw
        /\ new.stopRequested = runners[r].stopRequested
        /\ new.cancelled = runners[r].cancelled /\ new.frpc = "up"
    BY <1>2 DEF Runner
  <2> HIDE DEF new
  <2>3. EndsByStop(new) /\ ~runners[r].stopRequested
    BY <1>2, <1>4, <2>2 DEF EndsByStop, MaySpawn
  <2>4. QED
    BY <1>1, <1>2, <1>3, <2>1, <2>2, <2>3, LoopStep
<1>5. CASE runners' = [runners EXCEPT ![r].watch = AfterFailure]
  <2> DEFINE new == [runners[r] EXCEPT !.watch = AfterFailure]
  <2>1. runners' = [runners EXCEPT ![r] = new]
    BY <1>5
  <2>2. /\ new \in Runner /\ new.watch = "top" /\ new.saw = runners[r].saw
        /\ new.stopRequested = runners[r].stopRequested
        /\ new.cancelled = runners[r].cancelled /\ new.frpc = runners[r].frpc
    BY <1>2 DEF Runner, AfterFailure
  <2> HIDE DEF new
  <2>3. EndsByStop(new)
    BY <1>2, <2>2 DEF EndsByStop
  <2>4. QED
    BY <1>1, <1>2, <1>3, <2>1, <2>2, <2>3, LoopStep
<1>6. QED
  BY <1>4, <1>5 DEF Respawn

LEMMA BackoffCancelledKeeps ==
  ASSUME SubprocessInv, UNCHANGED overlapped, NEW r \in Runners, BackoffCancelled(r)
  PROVE  SubprocessInv'
<1> DEFINE new == [runners[r] EXCEPT !.watch = "over"]
<1>1. /\ runners[r].watch = "backoff" /\ runners[r].cancelled
      /\ runners' = [runners EXCEPT ![r] = new]
      /\ UNCHANGED <<registered, toml, calls, faults, exits>>
  BY DEF BackoffCancelled
<1>2. runners[r] \in Runner /\ EndsByStop(runners[r])
      /\ faults \in 0 .. MaxFaults /\ exits \in 0 .. MaxExits
  BY DEF SubprocessInv, TypeOK
<1>3. /\ new \in Runner /\ new.watch = "over" /\ new.saw = runners[r].saw
      /\ new.stopRequested = runners[r].stopRequested
      /\ new.cancelled = runners[r].cancelled /\ new.frpc = runners[r].frpc
  BY <1>2 DEF Runner
<1> HIDE DEF new
<1>4. EndsByStop(new)
  BY <1>1, <1>2, <1>3 DEF EndsByStop
<1>5. QED
  BY <1>1, <1>2, <1>3, <1>4, LoopStep

LEMMA PollCancelledKeeps ==
  ASSUME SubprocessInv, UNCHANGED overlapped, NEW r \in Runners, PollCancelled(r)
  PROVE  SubprocessInv'
<1> DEFINE new == [runners[r] EXCEPT !.poll = "over"]
<1>1. /\ runners' = [runners EXCEPT ![r] = new]
      /\ UNCHANGED <<registered, toml, calls, faults, exits>>
  BY DEF PollCancelled
<1>2. runners[r] \in Runner /\ EndsByStop(runners[r])
      /\ faults \in 0 .. MaxFaults /\ exits \in 0 .. MaxExits
  BY DEF SubprocessInv, TypeOK
<1>3. /\ new \in Runner /\ new.watch = runners[r].watch /\ new.saw = runners[r].saw
      /\ new.stopRequested = runners[r].stopRequested
      /\ new.cancelled = runners[r].cancelled /\ new.frpc = runners[r].frpc
  BY <1>2 DEF Runner
<1> HIDE DEF new
<1>4. EndsByStop(new)
  BY <1>2, <1>3 DEF EndsByStop
<1>5. QED
  BY <1>1, <1>2, <1>3, <1>4, LoopStep

LEMMA FrpcExitsKeeps ==
  ASSUME SubprocessInv, UNCHANGED overlapped, NEW r \in Runners, FrpcExits(r)
  PROVE  SubprocessInv'
<1> DEFINE new == [runners[r] EXCEPT !.frpc = "dead", !.config = {}]
<1>1. /\ runners[r].frpc = "up" /\ runners' = [runners EXCEPT ![r] = new]
      /\ exits < MaxExits /\ exits' = exits + 1
      /\ UNCHANGED <<registered, toml, calls, faults>>
  BY DEF FrpcExits
<1>2. runners[r] \in Runner /\ EndsByStop(runners[r])
      /\ faults \in 0 .. MaxFaults /\ exits \in 0 .. MaxExits
  BY DEF SubprocessInv, TypeOK
<1>3. /\ new \in Runner /\ new.watch = runners[r].watch /\ new.saw = runners[r].saw
      /\ new.stopRequested = runners[r].stopRequested
      /\ new.cancelled = runners[r].cancelled /\ new.frpc = "dead"
  BY <1>2 DEF Runner
<1> HIDE DEF new
<1>4. EndsByStop(new)
  BY <1>2, <1>3 DEF EndsByStop
<1>5. exits' \in 0 .. MaxExits
  BY <1>1, <1>2, BoundAssumption
<1>6. QED
  BY <1>1, <1>2, <1>3, <1>4, <1>5, LoopStep

-----------------------------------------------------------------------------
LEMMA SubprocessNext ==
  ASSUME SubprocessInv, [Next]_vars
  PROVE  SubprocessInv'
<1>1. ASSUME NEW c \in Callers, NEW op \in {"add", "remove", "start", "stop"},
             NEW t \in Tunnels, BeginCall(c, op, t)
      PROVE  SubprocessInv'
  BY <1>1, BeginCallKeeps
<1>2. ASSUME UNCHANGED overlapped, NEW c \in Callers, Proceed(c)
      PROVE  SubprocessInv'
  <2>1. CASE Find(c)
    BY <1>2, <2>1, FindKeeps
  <2>2. CASE Unregister(c)
    BY <1>2, <2>2, UnregisterKeeps
  <2>3. CASE Register(c)
    BY <1>2, <2>3, RegisterKeeps
  <2>4. CASE FindAgain(c)
    BY <1>2, <2>4, FindAgainKeeps
  <2>5. CASE Render(c)
    BY <1>2, <2>5, RenderKeeps
  <2>6. CASE Write(c)
    BY <1>2, <2>6, WriteKeeps
  <2>7. CASE Spawn(c)
    BY <1>2, <2>7, SpawnKeeps
  <2>8. CASE Ready(c)
    BY <1>2, <2>8, ReadyKeeps
  <2>9. CASE Watch(c)
    BY <1>2, <2>9, WatchKeeps
  <2>10. CASE Change(c)
    BY <1>2, <2>10, ChangeKeeps
  <2>11. CASE Reload(c)
    BY <1>2, <2>11, ReloadKeeps
  <2>12. CASE Stop(c)
    BY <1>2, <2>12, StopKeeps
  <2>13. CASE Kill(c)
    BY <1>2, <2>13, KillKeeps
  <2>14. CASE Cancel(c)
    BY <1>2, <2>14, CancelKeeps
  <2>15. CASE Join(c)
    BY <1>2, <2>15, JoinKeeps
  <2>16. CASE RenderFails(c) \/ WriteFails(c) \/ ReloadFails(c)
    BY <1>2, <2>16, FailureKeeps
  <2>17. CASE RegisterFails(c)
    BY <1>2, <2>17, RegisterFailsKeeps
  <2>18. QED
    BY <1>2, <2>1, <2>2, <2>3, <2>4, <2>5, <2>6, <2>7, <2>8, <2>9, <2>10, <2>11, <2>12,
       <2>13, <2>14, <2>15, <2>16, <2>17 DEF Proceed
<1>3. ASSUME UNCHANGED overlapped, NEW r \in Runners, Loops(r) \/ FrpcExits(r)
      PROVE  SubprocessInv'
  BY <1>3, LookAtCmdKeeps, WaitReturnsKeeps, RespawnKeeps, BackoffCancelledKeeps,
     PollCancelledKeeps, FrpcExitsKeeps DEF Loops
<1>4. CASE UNCHANGED vars
  BY <1>4 DEF vars, SubprocessInv, TypeOK, AllHandled, InUse, Handled, Stopping, Reachable,
     Up, Ending, Marked, Lone
<1>5. QED
  BY <1>1, <1>2, <1>3, <1>4 DEF Next

\* The invariant holds however calls, loops, exits and failures interleave.
THEOREM SubprocessInvariant == Spec => []SubprocessInv
<1>1. Init => SubprocessInv
  BY SubprocessInit
<1>2. SubprocessInv /\ [Next]_vars => SubprocessInv'
  BY SubprocessNext
<1>3. QED
  BY <1>1, <1>2, PTL DEF Spec

LEMMA InHand ==
  ASSUME SubprocessInv
  PROVE  ProcessInHand
<1>1. NoProcessLeaks
  <2>1. Quiet => \A r \in Runners : ~Ending(r)
    BY NoCallTyped DEF Quiet, Ending
  <2>2. QED
    BY <2>1 DEF NoProcessLeaks, SubprocessInv, Reachable, Up
<1>2. ~overlapped => \E x : Up \subseteq {x}
  <2>1. ASSUME ~overlapped, NEW c \in Callers, calls[c].pc \in {"stop", "kill"}
        PROVE  Up \subseteq {calls[c].runner}
    <3>1. calls[c] # NoCall /\ registered = NoRunner
      BY <2>1, Busy DEF SubprocessInv, Lone, Marking
    <3>2. ASSUME NEW r \in Up
          PROVE  r = calls[c].runner
      <4>1. Ending(r)
        BY <3>1, RunnersAssumption DEF SubprocessInv, Reachable, Up, NoRunner
      <4>2. PICK d \in Callers : calls[d].runner = r /\ calls[d].pc \in {"stop", "kill"}
        BY <4>1 DEF Ending
      <4>3. d = c
        BY <2>1, <3>1, <4>2, Busy DEF SubprocessInv, Lone
      <4>4. QED
        BY <4>2, <4>3
    <3>3. QED
      BY <3>2
  <2>2. ASSUME \A c \in Callers : calls[c].pc \notin {"stop", "kill"}
        PROVE  Up \subseteq {registered}
    BY <2>2 DEF SubprocessInv, Reachable, Ending
  <2>3. QED
    BY <2>1, <2>2
<1>3. OneProcess
  <2>1. SUFFICES ASSUME ~overlapped
                 PROVE  Cardinality(Up) <= 1
    BY DEF OneProcess
  <2>2. PICK x : Up \subseteq {x}
    BY <1>2, <2>1
  <2>3. IsFiniteSet({x}) /\ Cardinality({x}) = 1
    BY FS_Singleton
  <2>4. Cardinality(Up) \in Nat /\ Cardinality(Up) <= Cardinality({x})
    BY <2>2, <2>3, FS_Subset, FS_CardinalityType
  <2>5. QED
    BY <2>3, <2>4
<1>4. QED
  BY <1>1, <1>3 DEF ProcessInHand, SubprocessInv

\* However Start, AddTunnel, RemoveTunnel, Stop and the restarts of superviseLoop
\* overlap, a frpc that runs when the calls have returned belongs to the runner
\* of the map; and calls that do not overlap never run a second (subprocess.go,
\* subprocess_runner.go).
THEOREM ProcessInHandHolds == Spec => []ProcessInHand
BY SubprocessInvariant, InHand, PTL

\* superviseLoop does not end before its runner is stopped, however often frpc
\* exits and cannot be spawned.
THEOREM KeepsWatchingHolds == Spec => []KeepsWatching
<1>1. SubprocessInv => KeepsWatching
  BY DEF SubprocessInv, KeepsWatching, EndsByStop
<1>2. QED
  BY <1>1, SubprocessInvariant, PTL

-----------------------------------------------------------------------------
(***************************************************************************)
(* What frpc has read.  While calls do not overlap, frpc.toml holds the    *)
(* tunnels of the registered runner unless the call is about to write it   *)
(* or one has failed to, and frpc has read it unless it is about to be     *)
(* told, or could not be.                                                  *)
(***************************************************************************)
Starting == {"render", "write", "spawn", "ready", "watch"}
OnRunner == Starting \cup {"change", "reload"}

\* A call, the runner it meets in the map, and the file agree.
Agrees(call, r, runner, file) ==
  /\ call.pc \notin {"render", "write"} /\ "file" \notin runner.missed
       => file = runner.tunnels
  /\ call.pc # "reload" /\ runner.frpc = "up" /\ "frpc" \notin runner.missed
       => runner.config = file
  /\ call.pc = "write" => call.copy = runner.tunnels
  /\ call.pc \in OnRunner => call.runner = r
  /\ call.starting => call.pc \in Starting
  /\ call.starting /\ call.pc \in {"render", "write", "spawn"}
       => runner.frpc = "none" /\ runner.watch = "off"

Synced ==
  ~overlapped /\ registered # NoRunner =>
    /\ \A c \in Callers : calls[c] # NoCall
         => Agrees(calls[c], registered, runners[registered], toml)
    /\ Quiet => Agrees(NoCall, registered, runners[registered], toml)

SyncedInv == SubprocessInv /\ Synced

\* A step of the only call keeps them in agreement.
LEMMA SyncStep ==
  ASSUME SyncedInv, UNCHANGED overlapped, NEW c \in Callers, NEW new \in Call,
         calls[c].pc # "idle", calls' = [calls EXCEPT ![c] = new],
         \/ registered' = NoRunner
         \/ ~overlapped => Agrees(new, registered', runners'[registered'], toml')
  PROVE  Synced'
<1>1. SUFFICES ASSUME ~overlapped, registered' # NoRunner
               PROVE  /\ \A d \in Callers : calls'[d] # NoCall
                           => Agrees(calls'[d], registered', runners'[registered'], toml')
                      /\ Quiet' => Agrees(NoCall, registered', runners'[registered'], toml')
  BY DEF Synced
<1>2. calls'[c] = new /\ \A d \in Callers \ {c} : calls'[d] = calls[d]
  BY DEF SyncedInv, SubprocessInv, TypeOK
<1>3. \A d \in Callers \ {c} : calls'[d] = NoCall
  BY <1>1, <1>2, Busy DEF SyncedInv, SubprocessInv, Lone
<1>4. Agrees(new, registered', runners'[registered'], toml')
  BY <1>1
<1>5. ASSUME NEW d \in Callers, calls'[d] # NoCall
      PROVE  Agrees(calls'[d], registered', runners'[registered'], toml')
  <2>1. d = c /\ calls'[d] = new
    BY <1>2, <1>3, <1>5
  <2>2. QED
    BY <1>4, <2>1
<1>6. ASSUME Quiet'
      PROVE  Agrees(NoCall, registered', runners'[registered'], toml')
  <2>1. new = NoCall
    BY <1>2, <1>6 DEF Quiet
  <2>2. QED
    BY <1>4, <2>1
<1>7. QED
  BY <1>5, <1>6

\* What the only call finds in agreement.
LEMMA SyncedNow ==
  ASSUME SyncedInv, ~overlapped, registered # NoRunner, NEW c \in Callers, calls[c].pc # "idle"
  PROVE  /\ Agrees(calls[c], registered, runners[registered], toml)
         /\ registered \in Runners /\ runners[registered] \in Runner
         /\ calls[c] \in Call
BY Busy, CallTyped DEF SyncedInv, Synced, SubprocessInv, TypeOK

\* A call that returns, or looks something up, leaves what it found.
LEMMA AgreesOn ==
  ASSUME NEW call, NEW new, NEW r, NEW runner, NEW file, Agrees(call, r, runner, file),
         call.pc \notin {"render", "write", "reload"},
         \/ new = NoCall
         \/ /\ new.pc \in {"register", "find again"} \/ (new.pc = "change" /\ new.runner = r)
            /\ ~new.starting
         \/ /\ call.pc = "ready" /\ new.pc = "watch" /\ new.runner = call.runner
  PROVE  Agrees(new, r, runner, file)
<1>1. CASE new = NoCall
  <2>1. new.pc = "idle" /\ ~new.starting
    BY <1>1 DEF NoCall
  <2>2. QED
    BY <2>1 DEF Agrees, OnRunner, Starting
<1>2. CASE /\ new.pc \in {"register", "find again"} \/ (new.pc = "change" /\ new.runner = r)
           /\ ~new.starting
  BY <1>2 DEF Agrees, OnRunner, Starting
<1>3. CASE call.pc = "ready" /\ new.pc = "watch" /\ new.runner = call.runner
  BY <1>3 DEF Agrees, OnRunner, Starting
<1>4. QED
  BY <1>1, <1>2, <1>3

-----------------------------------------------------------------------------
\* The steps before a call has a runner, and those of a start that is over.
LEMMA LookupSynced ==
  ASSUME SyncedInv, UNCHANGED <<overlapped, registered, runners, toml>>, NEW c \in Callers,
         calls[c].pc \in {"find", "find again", "register", "spawn", "ready"},
         \/ Return(c)
         \/ \E pc \in {"register", "find again"} : Goto(c, pc) /\ calls[c].pc \notin Starting
         \/ GotoWith(c, "change", registered) /\ calls[c].pc \notin Starting
         \/ Goto(c, "watch") /\ calls[c].pc = "ready"
  PROVE  Synced'
<1>1. calls[c].pc # "idle" /\ calls[c].pc \notin {"render", "write", "reload"}
      /\ NoCall \in Call /\ calls[c] \in Call
      /\ registered \in Runners \cup {NoRunner}
  BY NoCallTyped, CallTyped DEF SyncedInv, SubprocessInv, TypeOK
<1>2. ASSUME ~overlapped, registered # NoRunner
      PROVE  /\ Agrees(calls[c], registered, runners[registered], toml)
             /\ calls[c].pc \notin Starting => ~calls[c].starting
  <2>1. Agrees(calls[c], registered, runners[registered], toml)
    BY <1>1, <1>2, SyncedNow
  <2>2. QED
    BY <2>1 DEF Agrees
<1>3. ASSUME NEW new \in Call, calls' = [calls EXCEPT ![c] = new],
             ~overlapped /\ registered # NoRunner =>
               \/ new = NoCall
               \/ /\ \/ new.pc \in {"register", "find again"}
                     \/ new.pc = "change" /\ new.runner = registered
                  /\ ~new.starting
               \/ calls[c].pc = "ready" /\ new.pc = "watch" /\ new.runner = calls[c].runner
      PROVE  Synced'
  <2>1. CASE registered = NoRunner \/ overlapped
    <3>1. registered' = NoRunner
          \/ (~overlapped => Agrees(new, registered', runners'[registered'], toml'))
      BY <2>1
    <3>2. QED
      BY <1>1, <1>3, <3>1, SyncStep
  <2>2. CASE registered # NoRunner /\ ~overlapped
    <3>1. Agrees(new, registered, runners[registered], toml)
      BY <1>1, <1>2, <1>3, <2>2, AgreesOn
    <3>2. registered' = registered /\ runners' = runners /\ toml' = toml
      OBVIOUS
    <3>3. Agrees(new, registered', runners'[registered'], toml')
      BY <3>1, <3>2
    <3>4. QED
      BY <1>1, <1>3, <3>3, SyncStep
  <2>3. QED
    BY <2>1, <2>2
<1>4. CASE Return(c)
  BY <1>1, <1>3, <1>4 DEF Return
<1>5. ASSUME NEW pc \in {"register", "find again"}, Goto(c, pc), calls[c].pc \notin Starting
      PROVE  Synced'
  <2> DEFINE new == [calls[c] EXCEPT !.pc = pc]
  <2>1. new \in Call /\ new.pc = pc /\ new.starting = calls[c].starting
    BY <1>1 DEF Call, PC
  <2>2. calls' = [calls EXCEPT ![c] = new]
    BY <1>5 DEF Goto
  <2> HIDE DEF new
  <2>3. QED
    BY <1>2, <1>3, <1>5, <2>1, <2>2
<1>6. CASE GotoWith(c, "change", registered) /\ calls[c].pc \notin Starting
  <2> DEFINE new == [calls[c] EXCEPT !.pc = "change", !.runner = registered]
  <2>1. new \in Call /\ new.pc = "change" /\ new.starting = calls[c].starting
        /\ new.runner = registered
    BY <1>1 DEF Call, PC
  <2>2. calls' = [calls EXCEPT ![c] = new]
    BY <1>6 DEF GotoWith
  <2> HIDE DEF new
  <2>3. QED
    BY <1>2, <1>3, <1>6, <2>1, <2>2
<1>7. CASE Goto(c, "watch") /\ calls[c].pc = "ready"
  <2> DEFINE new == [calls[c] EXCEPT !.pc = "watch"]
  <2>1. new \in Call /\ new.pc = "watch" /\ new.runner = calls[c].runner
    BY <1>1 DEF Call, PC
  <2>2. calls' = [calls EXCEPT ![c] = new]
    BY <1>7 DEF Goto
  <2> HIDE DEF new
  <2>3. QED
    BY <1>3, <1>7, <2>1, <2>2
<1>8. QED
  BY <1>4, <1>5, <1>6, <1>7

LEMMA BeginCallSynced ==
  ASSUME SyncedInv, NEW c \in Callers, NEW op \in {"add", "remove", "start", "stop"},
         NEW t \in Tunnels, BeginCall(c, op, t)
  PROVE  Synced'
<1> DEFINE new == [NoCall EXCEPT !.op = op,
                     !.tunnels = IF op \in {"add", "remove"} THEN {t} ELSE {},
                     !.pc = IF op = "start" THEN "register" ELSE "find"]
<1>1. new.pc \in {"register", "find"} /\ ~new.starting
  BY DEF NoCall
<1>2. /\ calls' = [calls EXCEPT ![c] = new] /\ overlapped' = (overlapped \/ ~Quiet)
      /\ UNCHANGED <<registered, runners, toml>>
  BY DEF BeginCall
<1> HIDE DEF new
<1>3. SUFFICES ASSUME ~overlapped', registered # NoRunner
               PROVE  /\ \A d \in Callers : calls'[d] # NoCall
                           => Agrees(calls'[d], registered, runners[registered], toml)
                      /\ Quiet' => Agrees(NoCall, registered, runners[registered], toml)
  BY <1>2 DEF Synced
<1>4. Agrees(NoCall, registered, runners[registered], toml) /\ Quiet
  BY <1>2, <1>3 DEF SyncedInv, Synced
<1>5. Agrees(new, registered, runners[registered], toml)
  BY <1>1, <1>4, NoCallTyped DEF Agrees, OnRunner, Starting
<1>6. calls'[c] = new /\ \A d \in Callers \ {c} : calls'[d] = NoCall
  BY <1>2, <1>4 DEF SyncedInv, SubprocessInv, TypeOK, Quiet
<1>7. ASSUME NEW d \in Callers, calls'[d] # NoCall
      PROVE  Agrees(calls'[d], registered, runners[registered], toml)
  <2>1. calls'[d] = new
    BY <1>6, <1>7
  <2>2. QED
    BY <1>5, <2>1
<1>8. QED
  BY <1>4, <1>7

LEMMA RegisterSynced ==
  ASSUME SyncedInv, UNCHANGED overlapped, NEW c \in Callers, Register(c)
  PROVE  Synced'
<1>1. calls[c].pc = "register" /\ UNCHANGED toml
  BY DEF Register
<1>2. CASE registered # NoRunner /\ AfterStart(c) /\ UNCHANGED <<registered, runners>>
  <2>1. Goto(c, "find again") \/ Return(c)
    BY <1>2 DEF AfterStart
  <2>2. QED
    BY <1>1, <1>2, <2>1, LookupSynced DEF Starting
<1>3. ASSUME NEW r \in Runners, registered' = r,
             runners' = [runners EXCEPT ![r] = NewRunner],
             calls' = [calls EXCEPT ![c].pc = "render", ![c].runner = r, ![c].starting = TRUE]
      PROVE  Synced'
  <2> DEFINE new == [calls[c] EXCEPT !.pc = "render", !.runner = r, !.starting = TRUE]
  <2>1. new \in Call /\ new.pc = "render" /\ new.runner = r
    BY CallTyped DEF SyncedInv, SubprocessInv, Call, PC
  <2>2. calls' = [calls EXCEPT ![c] = new]
    BY <1>3
  <2>3. runners'[r] = NewRunner
    BY <1>3 DEF SyncedInv, SubprocessInv, TypeOK
  <2> HIDE DEF new
  <2>4. Agrees(new, r, NewRunner, toml')
    BY <2>1, NewRunnerTyped DEF Agrees, OnRunner, Starting
  <2>5. Agrees(new, registered', runners'[registered'], toml')
    BY <1>3, <2>3, <2>4
  <2>6. QED
    BY <1>1, <2>1, <2>2, <2>5, SyncStep
<1>4. QED
  BY <1>2, <1>3 DEF Register

LEMMA RenderSynced ==
  ASSUME SyncedInv, UNCHANGED overlapped, NEW c \in Callers, Render(c)
  PROVE  Synced'
<1> DEFINE new == [calls[c] EXCEPT !.pc = "write", !.copy = Rendered(c)]
<1>1. /\ calls[c].pc = "render" /\ UNCHANGED <<registered, runners, toml>>
      /\ calls' = [calls EXCEPT ![c] = new]
  BY DEF Render
<1>2. /\ runners[calls[c].runner] \in Runner /\ calls[c] \in Call
  BY <1>1, AtWork DEF Working, SyncedInv
<1>3. /\ new \in Call /\ new.pc = "write" /\ new.runner = calls[c].runner
      /\ new.copy = Rendered(c) /\ new.starting = calls[c].starting
  BY <1>2 DEF Call, PC, Rendered, Runner
<1> HIDE DEF new
<1>4. ASSUME ~overlapped, registered # NoRunner
      PROVE  Agrees(new, registered, runners[registered], toml)
  <2>1. Agrees(calls[c], registered, runners[registered], toml)
    BY <1>1, <1>4, SyncedNow
  <2>2. calls[c].runner = registered
    BY <1>1, <2>1 DEF Agrees, OnRunner, Starting
  <2>3. new.copy = runners[registered].tunnels
    BY <1>3, <2>2 DEF Rendered
  <2>4. QED
    BY <1>1, <1>3, <2>1, <2>2, <2>3 DEF Agrees, OnRunner, Starting
<1>5. registered' = NoRunner \/ (~overlapped => Agrees(new, registered', runners'[registered'], toml'))
  <2>1. registered' = registered /\ runners' = runners /\ toml' = toml
    BY <1>1
  <2>2. QED
    BY <1>4, <2>1
<1>6. QED
  BY <1>1, <1>3, <1>5, SyncStep

\* A step of a call on its runner, which is the registered one when it matters.
LEMMA WorkSynced ==
  ASSUME SyncedInv, UNCHANGED <<overlapped, registered>>, NEW c \in Callers,
         calls[c].pc \in OnRunner,
         NEW r, r = calls[c].runner,
         NEW rec \in Runner, runners' = [runners EXCEPT ![r] = rec],
         NEW new \in Call, calls' = [calls EXCEPT ![c] = new],
         Agrees(calls[c], r, runners[r], toml) => Agrees(new, r, rec, toml')
  PROVE  Synced'
<1>1. r \in Runners /\ runners'[r] = rec /\ calls[c].pc # "idle"
  BY AtWork DEF Working, OnRunner, Starting, SyncedInv, SubprocessInv, TypeOK
<1>2. ASSUME ~overlapped, registered # NoRunner
      PROVE  Agrees(new, registered', runners'[registered'], toml')
  <2>1. Agrees(calls[c], registered, runners[registered], toml)
    BY <1>1, <1>2, SyncedNow
  <2>2. r = registered
    BY <2>1 DEF Agrees, OnRunner, Starting
  <2>3. Agrees(new, r, rec, toml')
    BY <2>1, <2>2
  <2>4. registered' = r /\ runners'[registered'] = rec
    BY <1>1, <2>2
  <2>5. QED
    BY <2>3, <2>4
<1>3. registered' = NoRunner
      \/ (~overlapped => Agrees(new, registered', runners'[registered'], toml'))
  BY <1>2
<1>4. UNCHANGED overlapped
  OBVIOUS
<1>5. QED
  BY <1>1, <1>3, <1>4, SyncStep

LEMMA WriteSynced ==
  ASSUME SyncedInv, UNCHANGED overlapped, NEW c \in Callers, Write(c)
  PROVE  Synced'
<1> DEFINE r == calls[c].runner
           pc == IF calls[c].starting THEN "spawn" ELSE "reload"
           new == [calls[c] EXCEPT !.pc = pc]
           rec == [runners[r] EXCEPT !.missed = @ \ {"file"}]
<1>1. /\ calls[c].pc = "write" /\ UNCHANGED registered
      /\ toml' = calls[c].copy /\ calls' = [calls EXCEPT ![c] = new]
      /\ runners' = [runners EXCEPT ![r] = rec]
  BY DEF Write, Goto
<1>2. runners[r] \in Runner /\ calls[c] \in Call
  BY <1>1, AtWork DEF Working, SyncedInv
<1>3. /\ new \in Call /\ new.pc = pc /\ new.runner = r
      /\ new.starting = calls[c].starting
  BY <1>2 DEF Call, PC
<1>4. pc = IF calls[c].starting THEN "spawn" ELSE "reload"
  OBVIOUS
<1>5. /\ rec \in Runner /\ rec.tunnels = runners[r].tunnels /\ rec.frpc = runners[r].frpc
      /\ rec.watch = runners[r].watch
  BY <1>2 DEF Runner
<1> HIDE DEF new, pc, rec
<1>6. Agrees(calls[c], r, runners[r], toml) => Agrees(new, r, rec, toml')
  <2> SUFFICES ASSUME Agrees(calls[c], r, runners[r], toml)
               PROVE  Agrees(new, r, rec, toml')
    OBVIOUS
  <2>1. toml' = rec.tunnels
    BY <1>1, <1>5 DEF Agrees
  <2>2. CASE calls[c].starting
    <3>1. new.pc = "spawn" /\ rec.frpc = "none" /\ rec.watch = "off"
      BY <1>1, <1>3, <1>4, <1>5, <2>2 DEF Agrees
    <3>2. QED
      BY <1>3, <2>1, <3>1 DEF Agrees, OnRunner, Starting
  <2>3. CASE ~calls[c].starting
    <3>1. new.pc = "reload"
      BY <1>3, <1>4, <2>3
    <3>2. QED
      BY <1>3, <2>1, <2>3, <3>1 DEF Agrees, OnRunner, Starting
  <2>4. QED
    BY <2>2, <2>3
<1>7. QED
  BY <1>1, <1>3, <1>5, <1>6, WorkSynced DEF OnRunner, Starting

\* A call that fails says what has been missed.
LEMMA FailureSynced ==
  ASSUME SyncedInv, UNCHANGED overlapped, NEW c \in Callers,
         RenderFails(c) \/ WriteFails(c) \/ ReloadFails(c)
  PROVE  Synced'
<1> DEFINE r == calls[c].runner
<1>1. /\ calls[c].pc \in {"render", "write", "reload"} /\ UNCHANGED registered
      /\ calls' = [calls EXCEPT ![c] = NoCall]
  BY GiveUpReturns DEF RenderFails, WriteFails, ReloadFails, Return
<1>2. /\ r \in Runners /\ runners[r] \in Runner /\ runners \in [Runners -> Runner]
      /\ toml \subseteq Tunnels
  BY <1>1, AtWork DEF Working, SyncedInv, SubprocessInv, TypeOK
<1>3. NoCall \in Call /\ NoCall.pc = "idle" /\ ~NoCall.starting
  BY NoCallTyped DEF NoCall
<1>4. CASE RenderFails(c)
  <2> DEFINE rec == [runners[r] EXCEPT !.missed = @ \cup {"file"}]
  <2>1. runners' = [runners EXCEPT ![r] = rec] /\ UNCHANGED toml /\ calls[c].pc = "render"
    BY <1>4 DEF RenderFails
  <2>2. /\ rec \in Runner /\ "file" \in rec.missed /\ rec.frpc = runners[r].frpc
        /\ rec.config = runners[r].config
        /\ "frpc" \in rec.missed <=> "frpc" \in runners[r].missed
    BY <1>2 DEF Runner
  <2> HIDE DEF rec
  <2>3. Agrees(calls[c], r, runners[r], toml) => Agrees(NoCall, r, rec, toml')
    BY <1>3, <2>1, <2>2 DEF Agrees, OnRunner, Starting
  <2>4. QED
    BY <1>1, <1>3, <2>1, <2>2, <2>3, WorkSynced DEF OnRunner, Starting
<1>5. CASE WriteFails(c)
  <2> DEFINE rec == [runners[r] EXCEPT !.missed = {"file", "frpc"}]
  <2>1. runners' = [runners EXCEPT ![r] = rec]
    BY <1>5 DEF WriteFails
  <2>2. rec \in Runner /\ rec.missed = {"file", "frpc"}
    BY <1>2 DEF Runner
  <2> HIDE DEF rec
  <2>3. Agrees(NoCall, r, rec, toml')
    BY <1>3, <2>2 DEF Agrees, OnRunner, Starting
  <2>4. QED
    BY <1>1, <1>3, <2>1, <2>2, <2>3, WorkSynced DEF OnRunner, Starting
<1>6. CASE ReloadFails(c)
  <2>1. PICK config \in {runners[r].config, toml} :
          runners' = [runners EXCEPT ![r].config = config, ![r].missed = @ \cup {"frpc"}]
    BY <1>6 DEF ReloadFails
  <2> DEFINE rec == [runners[r] EXCEPT !.config = config, !.missed = @ \cup {"frpc"}]
  <2>2. runners' = [runners EXCEPT ![r] = rec] /\ UNCHANGED toml /\ calls[c].pc = "reload"
    BY <1>2, <1>6, <2>1 DEF ReloadFails, Runner
  <2>3. config \subseteq Tunnels
    BY <1>2 DEF Runner
  <2>4. /\ rec \in Runner /\ "frpc" \in rec.missed /\ rec.tunnels = runners[r].tunnels
        /\ "file" \in rec.missed <=> "file" \in runners[r].missed
    BY <1>2, <2>3 DEF Runner
  <2> HIDE DEF rec
  <2>5. Agrees(calls[c], r, runners[r], toml) => Agrees(NoCall, r, rec, toml')
    BY <1>3, <2>2, <2>4 DEF Agrees, OnRunner, Starting
  <2>6. QED
    BY <1>1, <1>3, <2>2, <2>4, <2>5, WorkSynced DEF OnRunner, Starting
<1>7. QED
  BY <1>4, <1>5, <1>6

LEMMA SpawnSynced ==
  ASSUME SyncedInv, UNCHANGED overlapped, NEW c \in Callers, Spawn(c)
  PROVE  Synced'
<1> DEFINE r == calls[c].runner
<1>1. calls[c].pc = "spawn" /\ UNCHANGED toml
  BY DEF Spawn
<1>2. r \in Runners /\ runners[r] \in Runner /\ calls[c] \in Call
  BY <1>1, AtWork DEF Working, SyncedInv
<1>3. CASE runners' = Spawned(r) /\ Goto(c, "ready") /\ UNCHANGED registered
  <2> DEFINE new == [calls[c] EXCEPT !.pc = "ready"]
             rec == [runners[r] EXCEPT !.frpc = "up", !.config = toml, !.missed = @ \ {"frpc"}]
  <2>1. new \in Call /\ new.pc = "ready" /\ new.runner = r
        /\ new.starting = calls[c].starting
    BY <1>2 DEF Call, PC
  <2>2. calls' = [calls EXCEPT ![c] = new] /\ runners' = [runners EXCEPT ![r] = rec]
    BY <1>3 DEF Goto, Spawned
  <2>3. runners'[r] = rec
    BY <1>2, <2>2 DEF SyncedInv, SubprocessInv, TypeOK
  <2>4. /\ rec.config = toml /\ rec.tunnels = runners[r].tunnels
        /\ "file" \in rec.missed <=> "file" \in runners[r].missed
    BY <1>2 DEF Runner
  <2> HIDE DEF new, rec
  <2>5. ASSUME ~overlapped, registered # NoRunner
        PROVE  registered = r /\ Agrees(new, r, rec, toml)
    <3>1. Agrees(calls[c], registered, runners[registered], toml)
      BY <1>1, <2>5, SyncedNow
    <3>2. r = registered
      BY <1>1, <3>1 DEF Agrees, OnRunner, Starting
    <3>3. QED
      BY <1>1, <2>1, <2>4, <3>1, <3>2 DEF Agrees, OnRunner, Starting
  <2>6. registered' = NoRunner
        \/ (~overlapped => Agrees(new, registered', runners'[registered'], toml'))
    <3>1. registered' = registered /\ toml' = toml
      BY <1>1, <1>3
    <3>2. ASSUME ~overlapped, registered # NoRunner
          PROVE  Agrees(new, registered', runners'[registered'], toml')
      <4>1. registered' = r /\ runners'[registered'] = rec
        BY <2>3, <2>5, <3>1, <3>2
      <4>2. QED
        BY <2>5, <3>1, <3>2, <4>1
    <3>3. QED
      BY <3>1, <3>2
  <2>7. QED
    BY <1>1, <2>1, <2>2, <2>6, SyncStep
<1>4. CASE FailedStart(c) /\ UNCHANGED runners
  BY <1>1, <1>4, LookupSynced DEF FailedStart, AfterFailedStart
<1>5. QED
  BY <1>3, <1>4 DEF Spawn

LEMMA ReadySynced ==
  ASSUME SyncedInv, UNCHANGED overlapped, NEW c \in Callers, Ready(c)
  PROVE  Synced'
<1>1. /\ calls[c].pc = "ready" /\ UNCHANGED <<registered, runners, toml>>
      /\ Goto(c, "watch") \/ Return(c)
  BY DEF Ready, FailedStart, AfterFailedStart
<1>2. QED
  BY <1>1, LookupSynced

LEMMA WatchSynced ==
  ASSUME SyncedInv, UNCHANGED overlapped, NEW c \in Callers, Watch(c)
  PROVE  Synced'
<1> DEFINE r == calls[c].runner
           new == IF calls[c].op = "add"
                  THEN [calls[c] EXCEPT !.pc = "find again", !.starting = FALSE] ELSE NoCall
           rec == [runners[r] EXCEPT !.watch = "top", !.poll = "on"]
<1>1. /\ calls[c].pc = "watch" /\ UNCHANGED <<registered, toml>>
      /\ calls' = [calls EXCEPT ![c] = new] /\ runners' = [runners EXCEPT ![r] = rec]
  BY DEF Watch
<1>2. runners[r] \in Runner /\ calls[c] \in Call
  BY <1>1, AtWork DEF Working, SyncedInv
<1>3. /\ rec \in Runner /\ rec.frpc = runners[r].frpc /\ rec.tunnels = runners[r].tunnels
      /\ rec.config = runners[r].config /\ rec.missed = runners[r].missed
  BY <1>2 DEF Runner
<1>4. new \in Call /\ new.pc \in {"find again", "idle"} /\ ~new.starting
  BY <1>2, NoCallTyped DEF Call, PC, NoCall
<1> HIDE DEF new, rec
<1>5. Agrees(calls[c], r, runners[r], toml) => Agrees(new, r, rec, toml')
  BY <1>1, <1>3, <1>4 DEF Agrees, OnRunner, Starting
<1>6. QED
  BY <1>1, <1>3, <1>4, <1>5, WorkSynced DEF OnRunner, Starting

LEMMA ChangeSynced ==
  ASSUME SyncedInv, UNCHANGED overlapped, NEW c \in Callers, Change(c)
  PROVE  Synced'
<1> DEFINE r == calls[c].runner
           tunnels == IF calls[c].op = "add" THEN runners[r].tunnels \cup calls[c].tunnels
                      ELSE runners[r].tunnels \ calls[c].tunnels
           new == [calls[c] EXCEPT !.pc = "render"]
           rec == [runners[r] EXCEPT !.tunnels = tunnels]
<1>1. /\ calls[c].pc = "change" /\ UNCHANGED <<registered, toml>>
      /\ calls' = [calls EXCEPT ![c] = new] /\ runners' = [runners EXCEPT ![r] = rec]
  BY DEF Change, Goto
<1>2. runners[r] \in Runner /\ calls[c] \in Call
  BY <1>1, AtWork DEF Working, SyncedInv
<1>3. tunnels \subseteq Tunnels
  BY <1>2 DEF Runner, Call
<1> HIDE DEF tunnels
<1>4. /\ rec \in Runner /\ rec.frpc = runners[r].frpc /\ rec.config = runners[r].config
      /\ rec.missed = runners[r].missed
  BY <1>2, <1>3 DEF Runner
<1>5. /\ new \in Call /\ new.pc = "render" /\ new.runner = r
      /\ new.starting = calls[c].starting
  BY <1>2 DEF Call, PC
<1> HIDE DEF new, rec
<1>6. Agrees(calls[c], r, runners[r], toml) => Agrees(new, r, rec, toml')
  BY <1>1, <1>4, <1>5 DEF Agrees, OnRunner, Starting
<1>7. QED
  BY <1>1, <1>4, <1>5, <1>6, WorkSynced DEF OnRunner, Starting

LEMMA ReloadSynced ==
  ASSUME SyncedInv, UNCHANGED overlapped, NEW c \in Callers, Reload(c)
  PROVE  Synced'
<1> DEFINE r == calls[c].runner
           rec == IF runners[r].frpc = "up"
                  THEN [runners[r] EXCEPT !.frpc = "up", !.config = toml, !.missed = @ \ {"frpc"}]
                  ELSE runners[r]
<1>1. /\ calls[c].pc = "reload" /\ UNCHANGED <<registered, toml>>
      /\ calls' = [calls EXCEPT ![c] = NoCall]
  BY DEF Reload, Return
<1>2. r \in Runners /\ runners[r] \in Runner /\ toml \subseteq Tunnels
  BY <1>1, AtWork DEF Working, SyncedInv
<1>3. runners' = [runners EXCEPT ![r] = rec]
  BY <1>2 DEF Reload, Spawned, SyncedInv, SubprocessInv, TypeOK
<1>4. /\ rec \in Runner /\ rec.frpc = runners[r].frpc /\ rec.tunnels = runners[r].tunnels
      /\ runners[r].frpc = "up" => rec.config = toml
      /\ "file" \in rec.missed <=> "file" \in runners[r].missed
  BY <1>2 DEF Runner
<1> HIDE DEF rec
<1>5. NoCall \in Call /\ NoCall.pc = "idle" /\ ~NoCall.starting
  BY NoCallTyped DEF NoCall
<1>6. Agrees(calls[c], r, runners[r], toml) => Agrees(NoCall, r, rec, toml')
  BY <1>1, <1>4, <1>5 DEF Agrees, OnRunner, Starting
<1>7. QED
  BY <1>1, <1>3, <1>4, <1>5, <1>6, WorkSynced DEF OnRunner, Starting

\* While a stop that has taken its runner out is the only call, none is registered.
LEMMA StopSynced ==
  ASSUME SyncedInv, UNCHANGED overlapped, NEW c \in Callers,
         Unregister(c) \/ Stop(c) \/ Kill(c) \/ Cancel(c) \/ Join(c)
  PROVE  Synced'
<1>1. calls[c].pc \in {"find", "stop"} \cup Marking
      /\ registered' = IF calls[c].pc = "find" THEN NoRunner ELSE registered
  BY DEF Unregister, Stop, Kill, Cancel, Join, Marking
<1>2. ~overlapped => registered' = NoRunner
  BY <1>1 DEF SyncedInv, SubprocessInv, Lone
<1>3. QED
  BY <1>2 DEF Synced

-----------------------------------------------------------------------------
\* A step of a loop, or of frpc itself: if frpc comes up it reads the file.
LEMMA LoopSynced ==
  ASSUME SyncedInv, UNCHANGED <<overlapped, registered, toml, calls>>,
         NEW r \in Runners, NEW rec \in Runner, runners' = [runners EXCEPT ![r] = rec],
         rec.tunnels = runners[r].tunnels,
         rec.watch = "off" <=> runners[r].watch = "off",
         runners[r].watch = "off" /\ runners[r].frpc = "none" => rec.frpc = "none",
         "file" \in rec.missed <=> "file" \in runners[r].missed,
         \/ rec.frpc # "up"
         \/ /\ rec.frpc = runners[r].frpc /\ rec.config = runners[r].config
            /\ rec.missed = runners[r].missed
         \/ rec.config = toml
  PROVE  Synced'
<1>1. runners'[r] = rec /\ \A q \in Runners \ {r} : runners'[q] = runners[q]
  BY DEF SyncedInv, SubprocessInv, TypeOK
<1>2. ASSUME NEW call, Agrees(call, registered, runners[registered], toml),
             registered # NoRunner
      PROVE  Agrees(call, registered, runners'[registered], toml)
  <2>1. registered \in Runners
    BY <1>2 DEF SyncedInv, SubprocessInv, TypeOK
  <2>2. CASE registered # r
    BY <1>1, <1>2, <2>1, <2>2
  <2>3. CASE registered = r
    <3>1. Agrees(call, r, runners[r], toml)
      BY <1>2, <2>3
    <3>2. Agrees(call, r, rec, toml)
      BY <3>1 DEF Agrees
    <3>3. QED
      BY <1>1, <2>3, <3>2
  <2>4. QED
    BY <2>2, <2>3
<1>3. calls' = calls /\ registered' = registered /\ toml' = toml /\ (Quiet' <=> Quiet)
      /\ overlapped' = overlapped
  BY DEF Quiet
<1>4. QED
  BY <1>2, <1>3 DEF SyncedInv, Synced

LEMMA LoopsSynced ==
  ASSUME SyncedInv, UNCHANGED overlapped, NEW r \in Runners, Loops(r) \/ FrpcExits(r)
  PROVE  Synced'
<1>1. /\ UNCHANGED <<overlapped, registered, toml, calls>>
      /\ runners[r] \in Runner /\ runners \in [Runners -> Runner] /\ toml \subseteq Tunnels
  BY DEF Loops, FrpcExits, LookAtCmd, WaitReturns, Respawn, BackoffCancelled, PollCancelled,
     SyncedInv, SubprocessInv, TypeOK
<1>2. ASSUME NEW watch \in {"top", "wait", "backoff", "over"}, NEW saw \in BOOLEAN,
             runners[r].watch # "off",
             runners' = [runners EXCEPT ![r] = [runners[r] EXCEPT !.watch = watch, !.saw = saw]]
      PROVE  Synced'
  <2> DEFINE rec == [runners[r] EXCEPT !.watch = watch, !.saw = saw]
  <2>1. /\ rec \in Runner /\ rec.tunnels = runners[r].tunnels /\ rec.watch # "off"
        /\ rec.frpc = runners[r].frpc /\ rec.config = runners[r].config
        /\ rec.missed = runners[r].missed
    BY <1>1 DEF Runner
  <2>2. runners' = [runners EXCEPT ![r] = rec]
    BY <1>2
  <2> HIDE DEF rec
  <2>3. QED
    BY <1>1, <1>2, <2>1, <2>2, LoopSynced
<1>3. CASE LookAtCmd(r)
  BY <1>1, <1>2, <1>3 DEF LookAtCmd, Runner
<1>4. ASSUME NEW watch \in {"top", "wait", "backoff", "over"}, runners[r].watch # "off",
             runners' = [runners EXCEPT ![r].watch = watch]
      PROVE  Synced'
  <2>1. runners[r].saw \in BOOLEAN
        /\ [runners[r] EXCEPT !.watch = watch]
             = [runners[r] EXCEPT !.watch = watch, !.saw = runners[r].saw]
    BY <1>1 DEF Runner
  <2>2. QED
    BY <1>2, <1>4, <2>1
<1>5. CASE WaitReturns(r)
  BY <1>4, <1>5 DEF WaitReturns
<1>6. CASE Respawn(r)
  <2>1. runners[r].watch = "backoff"
    BY <1>6 DEF Respawn
  <2>2. CASE runners' = [Spawned(r) EXCEPT ![r].watch = "top"]
    <3> DEFINE rec == [runners[r] EXCEPT !.frpc = "up", !.config = toml,
                                         !.missed = @ \ {"frpc"}, !.watch = "top"]
    <3>1. /\ rec \in Runner /\ rec.tunnels = runners[r].tunnels /\ rec.watch = "top"
          /\ rec.config = toml /\ ("file" \in rec.missed <=> "file" \in runners[r].missed)
      BY <1>1 DEF Runner
    <3>2. runners' = [runners EXCEPT ![r] = rec]
      BY <1>1, <2>2 DEF Spawned
    <3> HIDE DEF rec
    <3>3. QED
      BY <1>1, <2>1, <3>1, <3>2, LoopSynced
  <2>3. CASE runners' = [runners EXCEPT ![r].watch = AfterFailure]
    BY <1>4, <2>1, <2>3 DEF AfterFailure
  <2>4. QED
    BY <1>6, <2>2, <2>3 DEF Respawn
<1>7. CASE BackoffCancelled(r)
  BY <1>4, <1>7 DEF BackoffCancelled
<1>8. CASE PollCancelled(r)
  <2> DEFINE rec == [runners[r] EXCEPT !.poll = "over"]
  <2>1. /\ rec \in Runner /\ rec.tunnels = runners[r].tunnels /\ rec.watch = runners[r].watch
        /\ rec.config = runners[r].config /\ rec.frpc = runners[r].frpc
        /\ rec.missed = runners[r].missed
    BY <1>1 DEF Runner
  <2>2. runners' = [runners EXCEPT ![r] = rec]
    BY <1>8 DEF PollCancelled
  <2> HIDE DEF rec
  <2>3. QED
    BY <1>1, <2>1, <2>2, LoopSynced
<1>9. CASE FrpcExits(r)
  <2> DEFINE rec == [runners[r] EXCEPT !.frpc = "dead", !.config = {}]
  <2>1. /\ rec \in Runner /\ rec.tunnels = runners[r].tunnels /\ rec.watch = runners[r].watch
        /\ rec.frpc = "dead" /\ runners[r].frpc = "up" /\ rec.missed = runners[r].missed
    BY <1>1, <1>9 DEF Runner, FrpcExits
  <2>2. runners' = [runners EXCEPT ![r] = rec]
    BY <1>9 DEF FrpcExits
  <2> HIDE DEF rec
  <2>3. QED
    BY <1>1, <2>1, <2>2, LoopSynced
<1>10. QED
  BY <1>3, <1>5, <1>6, <1>7, <1>8, <1>9 DEF Loops

LEMMA SyncedNext ==
  ASSUME SyncedInv, [Next]_vars
  PROVE  SyncedInv'
<1>1. SubprocessInv'
  BY SubprocessNext DEF SyncedInv
<1>2. ASSUME NEW c \in Callers, NEW op \in {"add", "remove", "start", "stop"},
             NEW t \in Tunnels, BeginCall(c, op, t)
      PROVE  Synced'
  BY <1>2, BeginCallSynced
<1>3. ASSUME UNCHANGED overlapped, NEW c \in Callers, Proceed(c)
      PROVE  Synced'
  <2>1. CASE Find(c)
    <3>1. /\ calls[c].pc = "find" /\ UNCHANGED <<registered, runners, toml>>
          /\ GotoWith(c, "change", registered) \/ Goto(c, "register") \/ Return(c)
      BY <2>1 DEF Find
    <3>2. QED
      BY <1>3, <3>1, LookupSynced DEF Starting
  <2>2. CASE FindAgain(c)
    <3>1. /\ calls[c].pc = "find again" /\ UNCHANGED <<registered, runners, toml>>
          /\ GotoWith(c, "change", registered) \/ Return(c)
      BY <2>2 DEF FindAgain
    <3>2. QED
      BY <1>3, <3>1, LookupSynced DEF Starting
  <2>3. CASE Register(c)
    BY <1>3, <2>3, RegisterSynced
  <2>4. CASE Render(c)
    BY <1>3, <2>4, RenderSynced
  <2>5. CASE Write(c)
    BY <1>3, <2>5, WriteSynced
  <2>6. CASE Spawn(c)
    BY <1>3, <2>6, SpawnSynced
  <2>7. CASE Ready(c)
    BY <1>3, <2>7, ReadySynced
  <2>8. CASE Watch(c)
    BY <1>3, <2>8, WatchSynced
  <2>9. CASE Change(c)
    BY <1>3, <2>9, ChangeSynced
  <2>10. CASE Reload(c)
    BY <1>3, <2>10, ReloadSynced
  <2>11. CASE Unregister(c) \/ Stop(c) \/ Kill(c) \/ Cancel(c) \/ Join(c)
    BY <1>3, <2>11, StopSynced
  <2>12. CASE RenderFails(c) \/ WriteFails(c) \/ ReloadFails(c)
    BY <1>3, <2>12, FailureSynced
  <2>13. CASE RegisterFails(c)
    <3>1. /\ calls[c].pc = "register" /\ UNCHANGED <<registered, runners, toml>>
          /\ Return(c)
      BY <2>13 DEF RegisterFails
    <3>2. QED
      BY <1>3, <3>1, LookupSynced
  <2>14. QED
    BY <1>3, <2>1, <2>2, <2>3, <2>4, <2>5, <2>6, <2>7, <2>8, <2>9, <2>10, <2>11, <2>12,
       <2>13 DEF Proceed
<1>4. ASSUME UNCHANGED overlapped, NEW r \in Runners, Loops(r) \/ FrpcExits(r)
      PROVE  Synced'
  BY <1>4, LoopsSynced
<1>5. CASE UNCHANGED vars
  BY <1>1, <1>5 DEF vars, SyncedInv, Synced, Quiet
<1>6. QED
  BY <1>1, <1>2, <1>3, <1>4, <1>5 DEF Next, SyncedInv

\* As long as calls do not overlap, between them frpc.toml holds the tunnels of
\* the runner and frpc has read it, by the reload of the last call or when
\* superviseLoop or a start has spawned it; unless a call failed at that, said so,
\* and none has succeeded since (renderTOML, applyAndReload, spawn).
THEOREM ReadsItsTunnelsHolds == Spec => []ReadsItsTunnels
<1>1. Init => SyncedInv
  BY SubprocessInit DEF Init, SyncedInv, Synced
<1>2. SyncedInv /\ [Next]_vars => SyncedInv'
  BY SyncedNext
<1>3. SyncedInv => ReadsItsTunnels
  <2> SUFFICES ASSUME SyncedInv, ~overlapped, Quiet, NEW r \in Up
               PROVE  /\ "file" \notin runners[r].missed => toml = runners[r].tunnels
                      /\ "frpc" \notin runners[r].missed => runners[r].config = toml
    BY DEF ReadsItsTunnels
  <2>1. r = registered /\ r \in Runners /\ runners[r].frpc = "up"
    BY InHand DEF SyncedInv, ProcessInHand, NoProcessLeaks, Up
  <2>2. Agrees(NoCall, r, runners[r], toml)
    BY <2>1, RunnersAssumption DEF SyncedInv, Synced, NoRunner
  <2>3. QED
    BY <2>1, <2>2, NoCallTyped DEF Agrees
<1>4. QED
  BY <1>1, <1>2, <1>3, PTL DEF Spec
=============================================================================
