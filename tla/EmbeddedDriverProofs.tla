------------------------ MODULE EmbeddedDriverProofs ------------------------
(***************************************************************************)
(* Proofs about EmbeddedDriver, for any callers, tunnels, runners and      *)
(* failed starts, whatever calls meet: what the methods do between two     *)
(* locks leaves no service out of reach but the one that a Stop came too   *)
(* early to close.                                                         *)
(*                                                                         *)
(* Led, the property, is inductive because the runner that somebody is     *)
(* about to launch is within reach already (Held).  The second part is     *)
(* about calls that have not overlapped: there is one then (Single), and   *)
(* its runner is the one of the map (Pinned).                              *)
(***************************************************************************)
EXTENDS EmbeddedDriver, TLAPS

\* The places of a call that works on a runner.
Working == {"launch", "change", "copy", "update", "close"}

\* The map leads to the runner, a Stop is about to close it, or one came too early.
Reached(r) == r = registered \/ Closing(r) \/ r \in overtaken

\* A service that runs is within reach, and so is one that is about to run.
Led == \A r \in Running : Reached(r)
Held ==
  \A c \in Callers, r \in Runners :
    calls[c].pc = "launch" /\ calls[c].runner = r => Reached(r)

Single ==
  ~overlapped => \A c, d \in Callers : calls[c] # NoCall /\ calls[d] # NoCall => c = d

Pinned ==
  ~overlapped =>
    /\ overtaken = {}
    /\ \A c \in Callers :
         /\ calls[c].pc = "launch" => calls[c].runner = registered
         /\ calls[c].pc = "close" => registered = NoRunner

EmbeddedInv == TypeOK /\ Led /\ Held /\ Single /\ Pinned

-----------------------------------------------------------------------------
LEMMA NoCallTyped ==
  NoCall \in Call /\ NoCall.pc = "idle" /\ NoCall.op = "start"
BY DEF NoCall, Call, PC

LEMMA NewRunnerTyped == NewRunner \in Runner /\ NewRunner.service = "none"
BY DEF NewRunner, Runner

LEMMA NoRunnerIsNone == NoRunner \notin Runners
BY RunnersAssumption DEF NoRunner

LEMMA CallTyped ==
  ASSUME TypeOK, NEW c \in Callers
  PROVE  calls[c] \in Call
BY DEF TypeOK

\* The call is under way.
LEMMA Busy ==
  ASSUME NEW c \in Callers, calls[c].pc # "idle"
  PROVE  calls[c] # NoCall
BY NoCallTyped

\* Replacing a call leaves the others alone, and what they are about to close.
LEMMA Replaced ==
  ASSUME TypeOK, NEW c \in Callers, NEW new \in Call,
         new.pc \in Working => new.runner # NoRunner,
         calls' = [calls EXCEPT ![c] = new]
  PROVE  /\ calls' \in [Callers -> Call]
         /\ \A d \in Callers : calls'[d].pc \in Working => calls'[d].runner # NoRunner
         /\ calls'[c] = new
         /\ \A d \in Callers \ {c} : calls'[d] = calls[d]
         /\ \A r : Closing(r) /\ (calls[c].pc = "close" => calls[c].runner # r) => Closing(r)'
<1>1. /\ calls' \in [Callers -> Call]
      /\ calls'[c] = new
      /\ \A d \in Callers \ {c} : calls'[d] = calls[d]
  BY DEF TypeOK
<1>2. \A d \in Callers : calls'[d].pc \in Working => calls'[d].runner # NoRunner
  BY <1>1 DEF TypeOK, Working
<1>3. ASSUME NEW r, Closing(r), calls[c].pc = "close" => calls[c].runner # r
      PROVE  Closing(r)'
  <2>1. PICK d \in Callers : calls[d].pc = "close" /\ calls[d].runner = r
    BY <1>3 DEF Closing
  <2>2. d # c
    BY <1>3, <2>1
  <2>3. QED
    BY <1>1, <2>1, <2>2 DEF Closing
<1>4. QED
  BY <1>1, <1>2, <1>3

\* A call that goes on or returns stays the only one.
LEMMA OnlyCall ==
  ASSUME EmbeddedInv, NEW c \in Callers, calls[c].pc # "idle",
         NEW new, calls' = [calls EXCEPT ![c] = new], UNCHANGED overlapped
  PROVE  /\ Single'
         /\ ~overlapped => \A d \in Callers \ {c} : calls'[d] = NoCall
<1>1. \A d \in Callers \ {c} : calls'[d] = calls[d]
  BY DEF EmbeddedInv, TypeOK
<1>2. QED
  BY <1>1, Busy DEF EmbeddedInv, Single

\* A step that launches and closes nothing, after which nothing runs but what
\* did and what was within reach.
LEMMA QuietStep ==
  ASSUME EmbeddedInv, NEW c \in Callers, NEW new \in Call,
         new.pc \in Working => new.runner # NoRunner,
         calls' = [calls EXCEPT ![c] = new],
         calls[c].pc \notin {"idle", "close"}, new.pc \notin {"launch", "close"},
         runners' \in [Runners -> Runner],
         \A r \in Running' : r \in Running \/ Reached(r),
         UNCHANGED <<registered, overlapped, overtaken>>, faults' \in 0 .. MaxFaults
  PROVE  EmbeddedInv'
<1>1. /\ calls' \in [Callers -> Call]
      /\ \A d \in Callers : calls'[d].pc \in Working => calls'[d].runner # NoRunner
      /\ calls'[c] = new
      /\ \A d \in Callers \ {c} : calls'[d] = calls[d]
      /\ \A r : Closing(r) => Closing(r)'
  BY Replaced DEF EmbeddedInv
<1>2. TypeOK'
  BY <1>1 DEF EmbeddedInv, TypeOK, Working
<1>3. \A r : Reached(r) => Reached(r)'
  BY <1>1 DEF Reached
<1>4. Held'
  BY <1>1, <1>3 DEF EmbeddedInv, Held
<1>5. Led'
  BY <1>3 DEF EmbeddedInv, Led
<1>6. Single'
  BY OnlyCall
<1>7. Pinned'
  BY <1>1 DEF EmbeddedInv, Pinned
<1>8. QED
  BY <1>2, <1>4, <1>5, <1>6, <1>7 DEF EmbeddedInv

\* The call returns, goes on, or goes on with the runner of the map, without
\* launching or closing anything.
LEMMA Continues ==
  ASSUME EmbeddedInv, NEW c \in Callers,
         calls[c].pc \notin {"idle", "close"},
         \/ Return(c)
         \/ \E pc \in {"register", "find again"} : Goto(c, pc)
         \/ Goto(c, "copy") /\ calls[c].pc = "change"
         \/ GotoWith(c, "change", registered) /\ registered # NoRunner,
         runners' \in [Runners -> Runner],
         \A r \in Running' : r \in Running \/ Reached(r),
         UNCHANGED <<registered, overlapped, overtaken>>, faults' \in 0 .. MaxFaults
  PROVE  EmbeddedInv'
<1>0. /\ calls[c].pc \notin {"idle", "close"}
      /\ runners' \in [Runners -> Runner]
      /\ \A r \in Running' : r \in Running \/ Reached(r)
      /\ UNCHANGED <<registered, overlapped, overtaken>> /\ faults' \in 0 .. MaxFaults
  OBVIOUS
<1>1. TypeOK /\ registered \in Runners \cup {NoRunner} /\ calls[c] \in Call
  BY CallTyped DEF EmbeddedInv, TypeOK
<1>2. ASSUME NEW new \in Call, calls' = [calls EXCEPT ![c] = new],
             new.pc \notin {"launch", "close"}, new.pc \in Working => new.runner # NoRunner
      PROVE  EmbeddedInv'
  BY ONLY EmbeddedInv, c \in Callers, <1>0, <1>2, QuietStep
<1>3. CASE Return(c)
  BY <1>2, <1>3, NoCallTyped DEF Return, Working
<1>4. ASSUME NEW pc \in {"register", "find again"}, Goto(c, pc)
      PROVE  EmbeddedInv'
  <2> DEFINE new == [calls[c] EXCEPT !.pc = pc]
  <2>1. new \in Call /\ new.pc = pc
    BY <1>1 DEF Call, PC
  <2>2. calls' = [calls EXCEPT ![c] = new]
    BY <1>4 DEF Goto
  <2> HIDE DEF new
  <2>3. QED
    BY <1>2, <2>1, <2>2 DEF Working
<1>5. CASE Goto(c, "copy") /\ calls[c].pc = "change"
  <2> DEFINE new == [calls[c] EXCEPT !.pc = "copy"]
  <2>1. new \in Call /\ new.pc = "copy" /\ new.runner = calls[c].runner
    BY <1>1 DEF Call, PC
  <2>2. calls' = [calls EXCEPT ![c] = new]
    BY <1>5 DEF Goto
  <2>3. calls[c].runner # NoRunner
    BY <1>1, <1>5 DEF TypeOK
  <2> HIDE DEF new
  <2>4. QED
    BY <1>2, <2>1, <2>2, <2>3
<1>6. CASE GotoWith(c, "change", registered) /\ registered # NoRunner
  <2> DEFINE new == [calls[c] EXCEPT !.pc = "change", !.runner = registered]
  <2>1. new \in Call /\ new.pc = "change" /\ new.runner = registered
    BY <1>1 DEF Call, PC
  <2>2. calls' = [calls EXCEPT ![c] = new]
    BY <1>6 DEF GotoWith
  <2> HIDE DEF new
  <2>3. QED
    BY <1>2, <1>6, <2>1, <2>2
<1>7. QED
  BY <1>3, <1>4, <1>5, <1>6

LEMMA Unmoved ==
  ASSUME EmbeddedInv, UNCHANGED <<registered, runners, faults, overlapped, overtaken>>
  PROVE  /\ runners' \in [Runners -> Runner]
         /\ \A r \in Running' : r \in Running \/ Reached(r)
         /\ UNCHANGED <<registered, overlapped, overtaken>> /\ faults' \in 0 .. MaxFaults
BY DEF EmbeddedInv, TypeOK, Running

-----------------------------------------------------------------------------
LEMMA EmbeddedInit ==
  ASSUME Init
  PROVE  EmbeddedInv
<1>1. TypeOK
  <2>1. /\ registered \in Runners \cup {NoRunner}
        /\ runners \in [Runners -> Runner]
        /\ calls \in [Callers -> Call]
    BY NoCallTyped, NewRunnerTyped DEF Init
  <2>2. faults \in 0 .. MaxFaults
    BY BoundAssumption DEF Init
  <2>3. overlapped \in BOOLEAN /\ overtaken \subseteq Runners
    BY DEF Init
  <2>4. \A c \in Callers : calls[c].pc = "idle"
    BY NoCallTyped DEF Init
  <2>5. QED
    BY <2>1, <2>2, <2>3, <2>4 DEF TypeOK
<1>2. \A c \in Callers : calls[c] = NoCall
  BY DEF Init
<1>3. Running = {}
  BY NewRunnerTyped DEF Init, Running
<1>4. Single /\ Held /\ Pinned
  BY <1>2, NoCallTyped DEF Single, Held, Pinned, Init
<1>5. QED
  BY <1>1, <1>3, <1>4 DEF EmbeddedInv, Led

\* A call that begins has no runner; unless it overlaps, it is the only one.
LEMMA BeginCallKeeps ==
  ASSUME EmbeddedInv, NEW c \in Callers, NEW op \in {"add", "remove", "start", "stop"},
         NEW t \in Tunnels, BeginCall(c, op, t)
  PROVE  EmbeddedInv'
<1> DEFINE new == [NoCall EXCEPT !.op = op,
                     !.tunnels = IF op \in {"add", "remove"} THEN {t} ELSE {},
                     !.pc = IF op = "start" THEN "register" ELSE "find"]
<1>1. new \in Call /\ new.pc \in {"register", "find"}
  BY NoCallTyped DEF NoCall, Call, PC
<1>2. /\ calls' = [calls EXCEPT ![c] = new] /\ calls[c] = NoCall
      /\ overlapped' = (overlapped \/ ~Quiet)
      /\ UNCHANGED <<registered, runners, faults, overtaken>>
  BY DEF BeginCall
<1> HIDE DEF new
<1>3. /\ calls' \in [Callers -> Call]
      /\ \A d \in Callers : calls'[d].pc \in Working => calls'[d].runner # NoRunner
      /\ calls'[c] = new
      /\ \A d \in Callers \ {c} : calls'[d] = calls[d]
      /\ \A r : Closing(r) => Closing(r)'
  BY <1>1, <1>2, NoCallTyped, Replaced DEF EmbeddedInv, Working
<1>4. TypeOK'
  <2>1. overlapped' \in BOOLEAN
    BY <1>2 DEF EmbeddedInv, TypeOK, Quiet
  <2>2. QED
    BY <1>2, <1>3, <2>1 DEF EmbeddedInv, TypeOK, Working
<1>5. \A r : Reached(r) => Reached(r)'
  BY <1>2, <1>3 DEF Reached
<1>6. Held'
  BY <1>1, <1>3, <1>5 DEF EmbeddedInv, Held
<1>7. Led'
  <2>1. Running' = Running
    BY <1>2 DEF Running
  <2>2. QED
    BY <1>5, <2>1 DEF EmbeddedInv, Led
<1>8. ~overlapped' => ~overlapped /\ \A d \in Callers \ {c} : calls'[d] = NoCall
  BY <1>2, <1>3 DEF Quiet
<1>9. Single'
  BY <1>8 DEF Single
<1>10. Pinned'
  BY <1>1, <1>2, <1>3, <1>8, NoCallTyped DEF EmbeddedInv, Pinned
<1>11. QED
  BY <1>4, <1>6, <1>7, <1>9, <1>10 DEF EmbeddedInv

LEMMA FindKeeps ==
  ASSUME EmbeddedInv, NEW c \in Callers, Find(c)
  PROVE  EmbeddedInv'
<1>1. /\ calls[c].pc = "find"
      /\ UNCHANGED <<registered, runners, faults, overlapped, overtaken>>
      /\ \/ GotoWith(c, "change", registered) /\ registered # NoRunner
         \/ Goto(c, "register")
         \/ Return(c)
  BY DEF Find
<1>2. QED
  BY <1>1, Unmoved, Continues

LEMMA FindAgainKeeps ==
  ASSUME EmbeddedInv, NEW c \in Callers, FindAgain(c)
  PROVE  EmbeddedInv'
<1>1. /\ calls[c].pc = "find again"
      /\ UNCHANGED <<registered, runners, faults, overlapped, overtaken>>
      /\ \/ GotoWith(c, "change", registered) /\ registered # NoRunner
         \/ Return(c)
  BY DEF FindAgain
<1>2. QED
  BY <1>1, Unmoved, Continues

LEMMA ChangeKeeps ==
  ASSUME EmbeddedInv, NEW c \in Callers, Change(c)
  PROVE  EmbeddedInv'
<1> DEFINE r == calls[c].runner
           proxies == IF calls[c].op = "add" THEN runners[r].proxies \cup calls[c].tunnels
                      ELSE runners[r].proxies \ calls[c].tunnels
<1>1. /\ calls[c].pc = "change" /\ Goto(c, "copy")
      /\ UNCHANGED <<registered, faults, overlapped, overtaken>>
      /\ runners' = [runners EXCEPT ![r].proxies = proxies]
  BY DEF Change
<1>2. r \in Runners /\ calls[c].tunnels \subseteq Tunnels
  BY <1>1, CallTyped DEF EmbeddedInv, TypeOK, Call
<1>3. runners \in [Runners -> Runner] /\ runners[r] \in Runner
  BY <1>2 DEF EmbeddedInv, TypeOK
<1>4. proxies \subseteq Tunnels
  BY <1>2, <1>3 DEF Runner
<1> HIDE DEF proxies, r
<1>5. /\ [runners[r] EXCEPT !.proxies = proxies] \in Runner
      /\ [runners[r] EXCEPT !.proxies = proxies].service = runners[r].service
  BY <1>3, <1>4 DEF Runner
<1>6. runners' \in [Runners -> Runner] /\ \A q \in Running' : q \in Running
  <2>1. /\ runners' \in [Runners -> Runner]
        /\ \A q \in Runners : runners'[q].service = runners[q].service
    BY <1>1, <1>2, <1>3, <1>5
  <2>2. QED
    BY <2>1 DEF Running
<1>7. faults' \in 0 .. MaxFaults
  BY <1>1 DEF EmbeddedInv, TypeOK
<1>8. QED
  BY <1>1, <1>6, <1>7, Continues

LEMMA CopyKeeps ==
  ASSUME EmbeddedInv, NEW c \in Callers, Copy(c)
  PROVE  EmbeddedInv'
<1>1. calls[c].pc = "copy" /\ UNCHANGED <<registered, runners, faults, overlapped, overtaken>>
  BY DEF Copy
<1>2. CASE Return(c)
  BY <1>1, <1>2, Unmoved, Continues
<1>3. CASE calls' = [calls EXCEPT ![c].pc = "update", ![c].copy = Copied(c)]
  <2> DEFINE new == [calls[c] EXCEPT !.pc = "update", !.copy = Copied(c)]
  <2>1. calls[c] \in Call /\ calls[c].runner # NoRunner
    BY <1>1, CallTyped DEF EmbeddedInv, TypeOK
  <2>2. Copied(c) \subseteq Tunnels
    <3>1. calls[c].runner \in Runners
      BY <2>1 DEF Call
    <3>2. runners[calls[c].runner] \in Runner
      BY <3>1 DEF EmbeddedInv, TypeOK
    <3>3. QED
      BY <3>2 DEF Copied, Runner
  <2>3. new \in Call /\ new.pc = "update" /\ new.runner = calls[c].runner
    BY <2>1, <2>2 DEF Call, PC
  <2>4. calls' = [calls EXCEPT ![c] = new]
    BY <1>3
  <2> HIDE DEF new
  <2>5. QED
    BY <1>1, <2>1, <2>3, <2>4, Unmoved, QuietStep
<1>4. QED
  BY <1>2, <1>3 DEF Copy

LEMMA UpdateKeeps ==
  ASSUME EmbeddedInv, NEW c \in Callers, Update(c)
  PROVE  EmbeddedInv'
<1> DEFINE r == calls[c].runner
           config == IF runners[r].service = "running" THEN calls[c].copy
                     ELSE runners[r].config
<1>1. /\ calls[c].pc = "update" /\ Return(c)
      /\ UNCHANGED <<registered, faults, overlapped, overtaken>>
      /\ runners' = [runners EXCEPT ![r].config = config]
  BY DEF Update
<1>2. r \in Runners /\ calls[c].copy \subseteq Tunnels
  BY <1>1, CallTyped DEF EmbeddedInv, TypeOK, Call
<1>3. runners \in [Runners -> Runner] /\ runners[r] \in Runner
  BY <1>2 DEF EmbeddedInv, TypeOK
<1>4. config \subseteq Tunnels
  BY <1>2, <1>3 DEF Runner
<1> HIDE DEF config, r
<1>5. /\ [runners[r] EXCEPT !.config = config] \in Runner
      /\ [runners[r] EXCEPT !.config = config].service = runners[r].service
  BY <1>3, <1>4 DEF Runner
<1>6. runners' \in [Runners -> Runner] /\ \A q \in Running' : q \in Running
  <2>1. /\ runners' \in [Runners -> Runner]
        /\ \A q \in Runners : runners'[q].service = runners[q].service
    BY <1>1, <1>2, <1>3, <1>5
  <2>2. QED
    BY <2>1 DEF Running
<1>7. faults' \in 0 .. MaxFaults
  BY <1>1 DEF EmbeddedInv, TypeOK
<1>8. QED
  BY <1>1, <1>6, <1>7, Continues

\* Stop takes the runner out of the map, and is the one that closes it.
LEMMA UnregisterKeeps ==
  ASSUME EmbeddedInv, NEW c \in Callers, Unregister(c)
  PROVE  EmbeddedInv'
<1>1. /\ calls[c].pc = "find" /\ registered' = NoRunner
      /\ UNCHANGED <<runners, faults, overlapped, overtaken>>
  BY DEF Unregister
<1>2. CASE registered = NoRunner
  <2>1. Return(c) /\ UNCHANGED <<registered, runners, faults, overlapped, overtaken>>
    BY <1>1, <1>2 DEF Unregister
  <2>2. QED
    BY <1>1, <2>1, Unmoved, Continues
<1>3. CASE registered # NoRunner
  <2> DEFINE new == [calls[c] EXCEPT !.pc = "close", !.runner = registered]
  <2>1. calls[c] \in Call /\ registered \in Runners \cup {NoRunner}
    BY CallTyped DEF EmbeddedInv, TypeOK
  <2>2. new \in Call /\ new.pc = "close" /\ new.runner = registered
    BY <2>1 DEF Call, PC
  <2>3. calls' = [calls EXCEPT ![c] = new]
    BY <1>1, <1>3 DEF Unregister, GotoWith
  <2> HIDE DEF new
  <2>4. /\ calls' \in [Callers -> Call]
        /\ \A d \in Callers : calls'[d].pc \in Working => calls'[d].runner # NoRunner
        /\ calls'[c] = new
        /\ \A d \in Callers \ {c} : calls'[d] = calls[d]
        /\ \A r : Closing(r) => Closing(r)'
    BY <1>1, <1>3, <2>2, <2>3, Replaced DEF EmbeddedInv
  <2>5. TypeOK'
    BY <1>1, <2>4 DEF EmbeddedInv, TypeOK, Working
  <2>6. \A r : Reached(r) => Reached(r)'
    <3>1. \A r : r = registered => Closing(r)'
      BY <2>2, <2>4 DEF Closing
    <3>2. QED
      BY <1>1, <2>4, <3>1 DEF Reached
  <2>7. Held'
    BY <2>2, <2>4, <2>6 DEF EmbeddedInv, Held
  <2>8. Led'
    <3>1. Running' = Running
      BY <1>1 DEF Running
    <3>2. QED
      BY <2>6, <3>1 DEF EmbeddedInv, Led
  <2>9. Single' /\ (~overlapped => \A d \in Callers \ {c} : calls'[d] = NoCall)
    BY <1>1, <2>3, OnlyCall
  <2>10. Pinned'
    BY <1>1, <2>2, <2>4, <2>9, NoCallTyped DEF EmbeddedInv, Pinned
  <2>11. QED
    BY <2>5, <2>7, <2>8, <2>9, <2>10 DEF EmbeddedInv
<1>4. QED
  BY <1>2, <1>3

\* A runner is registered when none is: the map leads to no other then, and
\* nobody works on the new one.
LEMMA RegisterKeeps ==
  ASSUME EmbeddedInv, NEW c \in Callers, Register(c)
  PROVE  EmbeddedInv'
<1>1. calls[c].pc = "register" /\ UNCHANGED <<faults, overlapped>>
  BY DEF Register
<1>2. CASE AfterStart(c) /\ UNCHANGED <<registered, runners, overtaken>>
  <2>1. Goto(c, "find again") \/ Return(c)
    BY <1>2 DEF AfterStart
  <2>2. UNCHANGED <<registered, runners, faults, overlapped, overtaken>>
    BY <1>1, <1>2
  <2>3. QED
    BY <1>1, <2>1, <2>2, Unmoved, Continues
<1>3. ASSUME NEW r \in Runners, registered = NoRunner, Fresh(r), registered' = r,
             runners' = [runners EXCEPT ![r] = NewRunner], overtaken' = overtaken \ {r},
             GotoWith(c, "launch", r)
      PROVE  EmbeddedInv'
  <2> DEFINE new == [calls[c] EXCEPT !.pc = "launch", !.runner = r]
  <2>1. new \in Call /\ new.pc = "launch" /\ new.runner = r
    BY CallTyped DEF EmbeddedInv, Call, PC
  <2>2. calls' = [calls EXCEPT ![c] = new]
    BY <1>3 DEF GotoWith
  <2> HIDE DEF new
  <2>3. /\ calls' \in [Callers -> Call]
        /\ \A d \in Callers : calls'[d].pc \in Working => calls'[d].runner # NoRunner
        /\ calls'[c] = new
        /\ \A d \in Callers \ {c} : calls'[d] = calls[d]
        /\ \A q : Closing(q) => Closing(q)'
    BY <1>1, <2>1, <2>2, NoRunnerIsNone, Replaced DEF EmbeddedInv
  <2>4. runners' \in [Runners -> Runner]
    BY <1>3, NewRunnerTyped DEF EmbeddedInv, TypeOK
  <2>5. TypeOK'
    BY <1>1, <1>3, <2>3, <2>4 DEF EmbeddedInv, TypeOK, Working
  <2>6. /\ Reached(r)'
        /\ \A q \in Runners \ {r} : Reached(q) => Reached(q)'
    BY <1>3, <2>3, NoRunnerIsNone DEF Reached
  <2>7. Held'
    <3>1. SUFFICES ASSUME NEW d \in Callers, NEW q \in Runners, q # r,
                          calls'[d].pc = "launch", calls'[d].runner = q
                   PROVE  Reached(q)'
      BY <2>6 DEF Held
    <3>2. calls[d].pc = "launch" /\ calls[d].runner = q
      BY <2>1, <2>3, <3>1
    <3>3. QED
      BY <2>6, <3>1, <3>2 DEF EmbeddedInv, Held
  <2>8. Led'
    <3>1. \A q \in Running' : q \in Running /\ q \in Runners \ {r}
      BY <1>3, NewRunnerTyped DEF Running, EmbeddedInv, TypeOK
    <3>2. QED
      BY <2>6, <3>1 DEF EmbeddedInv, Led
  <2>9. Single' /\ (~overlapped => \A d \in Callers \ {c} : calls'[d] = NoCall)
    BY <1>1, <2>2, OnlyCall
  <2>10. Pinned'
    BY <1>1, <1>3, <2>1, <2>3, <2>9, NoCallTyped DEF EmbeddedInv, Pinned
  <2>11. QED
    BY <2>5, <2>7, <2>8, <2>9, <2>10 DEF EmbeddedInv
<1>4. QED
  BY <1>2, <1>3 DEF Register

LEMMA LaunchKeeps ==
  ASSUME EmbeddedInv, NEW c \in Callers, Launch(c)
  PROVE  EmbeddedInv'
<1> DEFINE r == calls[c].runner
<1>1. /\ calls[c].pc = "launch" /\ UNCHANGED <<registered, overlapped, overtaken>>
      /\ r \in Runners
  BY CallTyped DEF Launch, EmbeddedInv, TypeOK, Call
<1>2. runners \in [Runners -> Runner] /\ faults \in 0 .. MaxFaults /\ Reached(r)
  <2>1. Reached(r)
    BY <1>1 DEF EmbeddedInv, Held
  <2>2. QED
    BY <2>1 DEF EmbeddedInv, TypeOK
<1>3. CASE /\ runners' = [runners EXCEPT ![r].service = "running", ![r].config = {}]
           /\ AfterStart(c) /\ UNCHANGED faults
  <2>1. runners' \in [Runners -> Runner]
    BY ZenonT(40), <1>1, <1>2, <1>3 DEF Runner
  <2>2. \A q \in Runners \ {r} : runners'[q] = runners[q]
    BY <1>1, <1>2, <1>3
  <2>3. \A q \in Running' : q \in Running \/ Reached(q)
    <3>1. \A q \in Running' : q = r \/ q \in Running
      BY <2>2 DEF Running
    <3>2. QED
      BY <1>2, <3>1
  <2>4. Goto(c, "find again") \/ Return(c)
    BY <1>3 DEF AfterStart
  <2>5. faults' \in 0 .. MaxFaults
    BY <1>2, <1>3
  <2>6. QED
    BY <1>1, <2>1, <2>3, <2>4, <2>5, Continues
<1>4. CASE faults < MaxFaults /\ faults' = faults + 1 /\ Return(c) /\ UNCHANGED runners
  <2>1. faults' \in 0 .. MaxFaults
    BY <1>2, <1>4, BoundAssumption
  <2>2. \A q \in Running' : q \in Running
    BY <1>4 DEF Running
  <2>3. runners' \in [Runners -> Runner]
    BY <1>2, <1>4
  <2>4. QED
    BY <1>1, <1>4, <2>1, <2>2, <2>3, Continues
<1>5. QED
  BY <1>3, <1>4 DEF Launch

\* A Stop closes the runner, or has come before a start that is yet to launch it.
LEMMA CloseKeeps ==
  ASSUME EmbeddedInv, NEW c \in Callers, Close(c)
  PROVE  EmbeddedInv'
<1> DEFINE r == calls[c].runner
           new == IF runners[r].service = "running"
                  THEN [runners[r] EXCEPT !.service = "closed", !.config = {}]
                  ELSE runners[r]
<1>1. /\ calls[c].pc = "close" /\ Return(c) /\ UNCHANGED <<registered, faults, overlapped>>
      /\ runners' = [runners EXCEPT ![r] = new]
      /\ overtaken' = IF Launching(r) THEN overtaken \cup {r} ELSE overtaken
  BY DEF Close
<1>2. r \in Runners
  BY <1>1, CallTyped DEF EmbeddedInv, TypeOK, Call
<1>3. runners \in [Runners -> Runner] /\ runners[r] \in Runner
  BY <1>2 DEF EmbeddedInv, TypeOK
<1>4. new \in Runner /\ new.service # "running"
  BY <1>3 DEF Runner
<1> HIDE DEF new
<1>5. /\ runners' \in [Runners -> Runner]
      /\ runners'[r] = new
      /\ \A q \in Runners \ {r} : runners'[q] = runners[q]
  BY <1>1, <1>2, <1>3, <1>4
<1>6. /\ calls' \in [Callers -> Call]
      /\ \A d \in Callers : calls'[d].pc \in Working => calls'[d].runner # NoRunner
      /\ calls'[c] = NoCall
      /\ \A d \in Callers \ {c} : calls'[d] = calls[d]
      /\ \A q : Closing(q) /\ q # r => Closing(q)'
  BY <1>1, NoCallTyped, Replaced DEF EmbeddedInv, Return, Working
<1>7. TypeOK'
  BY <1>1, <1>2, <1>5, <1>6 DEF EmbeddedInv, TypeOK, Working
<1>8. \A q : Reached(q) /\ q # r => Reached(q)'
  BY <1>1, <1>6 DEF Reached
<1>9. Held'
  <2>1. SUFFICES ASSUME NEW d \in Callers, NEW q \in Runners,
                        calls'[d].pc = "launch", calls'[d].runner = q
                 PROVE  Reached(q)'
    BY DEF Held
  <2>2. calls[d].pc = "launch" /\ calls[d].runner = q
    BY <1>6, <2>1, NoCallTyped
  <2>3. CASE q = r
    <3>1. Launching(r)
      BY <2>2, <2>3 DEF Launching
    <3>2. q \in overtaken'
      BY <1>1, <2>3, <3>1
    <3>3. QED
      BY <3>2 DEF Reached
  <2>4. CASE q # r
    <3>1. Reached(q)
      BY <2>2 DEF EmbeddedInv, Held
    <3>2. QED
      BY <1>8, <2>4, <3>1
  <2>5. QED
    BY <2>3, <2>4
<1>10. Led'
  <2>1. \A q \in Running' : q \in Running /\ q # r
    BY <1>4, <1>5 DEF Running
  <2>2. QED
    BY <1>8, <2>1 DEF EmbeddedInv, Led
<1>11. Single' /\ (~overlapped => \A d \in Callers \ {c} : calls'[d] = NoCall)
  BY <1>1, OnlyCall DEF Return
<1>12. Pinned'
  <2>1. ~overlapped => ~Launching(r)
    BY <1>1, Busy DEF EmbeddedInv, Single, Launching
  <2>2. QED
    BY <1>1, <1>6, <1>11, <2>1, NoCallTyped DEF EmbeddedInv, Pinned
<1>13. QED
  BY <1>7, <1>9, <1>10, <1>11, <1>12 DEF EmbeddedInv

LEMMA EmbeddedNext ==
  ASSUME EmbeddedInv, [Next]_vars
  PROVE  EmbeddedInv'
<1>1. ASSUME NEW c \in Callers, NEW op \in {"add", "remove", "start", "stop"},
             NEW t \in Tunnels, BeginCall(c, op, t)
      PROVE  EmbeddedInv'
  BY <1>1, BeginCallKeeps
<1>2. ASSUME NEW c \in Callers, Proceed(c)
      PROVE  EmbeddedInv'
  <2>1. CASE Find(c)
    BY <2>1, FindKeeps
  <2>2. CASE Unregister(c)
    BY <2>2, UnregisterKeeps
  <2>3. CASE Register(c)
    BY <2>3, RegisterKeeps
  <2>4. CASE Launch(c)
    BY <2>4, LaunchKeeps
  <2>5. CASE FindAgain(c)
    BY <2>5, FindAgainKeeps
  <2>6. CASE Change(c)
    BY <2>6, ChangeKeeps
  <2>7. CASE Copy(c)
    BY <2>7, CopyKeeps
  <2>8. CASE Update(c)
    BY <2>8, UpdateKeeps
  <2>9. CASE Close(c)
    BY <2>9, CloseKeeps
  <2>10. QED
    BY <1>2, <2>1, <2>2, <2>3, <2>4, <2>5, <2>6, <2>7, <2>8, <2>9 DEF Proceed
<1>3. CASE UNCHANGED vars
  BY <1>3 DEF vars, EmbeddedInv, TypeOK, Led, Held, Single, Pinned, Running, Reached, Closing
<1>4. QED
  BY <1>1, <1>2, <1>3 DEF Next

\* The endpoint's frp service stays in hand, however many callers start, add,
\* remove and stop at the same time and however many starts fail: the map leads
\* to a service that runs, or a Stop is about to close it, unless one came before
\* the start had launched it (Start, AddTunnel, RemoveTunnel and Stop of
\* embedded.go and the runner's start, apply and stop).
THEOREM ServiceInHandHolds == Spec => []ServiceInHand
<1>1. Init => EmbeddedInv
  BY EmbeddedInit
<1>2. EmbeddedInv /\ [Next]_vars => EmbeddedInv'
  BY EmbeddedNext
<1>3. EmbeddedInv => ServiceInHand
  BY DEF EmbeddedInv, Led, Reached, ServiceInHand
<1>4. QED
  BY <1>1, <1>2, <1>3, PTL DEF Spec

-----------------------------------------------------------------------------
(***************************************************************************)
(* What the service runs.  While calls do not overlap there is one, and    *)
(* the service has the proxies of the registered runner unless the call is *)
(* about to hand them over.                                                *)
(***************************************************************************)
\* Who changes the proxies adds or removes one.
Shaped(call) ==
  /\ call.op \in {"add", "remove"} => \E t \in Tunnels : call.tunnels = {t}
  /\ call.pc \in {"find again", "change"} => call.op \in {"add", "remove"}

\* A call and the runner it meets in the map agree.
Agrees(call, r, runner) ==
  /\ call.pc \notin {"launch", "copy", "update"} /\ runner.service = "running"
       => runner.config = runner.proxies
  /\ call.pc = "update" => call.copy = runner.proxies
  /\ call.pc \in {"launch", "change", "copy", "update"} => call.runner = r
  /\ call.pc = "launch" => runner.service = "none" /\ runner.proxies = {}

Synced ==
  ~overlapped /\ registered # NoRunner =>
    /\ \A c \in Callers : calls[c] # NoCall
         => Agrees(calls[c], registered, runners[registered])
    /\ Quiet => Agrees(NoCall, registered, runners[registered])

SyncedInv ==
  /\ EmbeddedInv
  /\ \A c \in Callers : Shaped(calls[c])
  /\ Synced

LEMMA NoCallShaped ==
  ASSUME NEW r, NEW runner
  PROVE  /\ Shaped(NoCall)
         /\ Agrees(NoCall, r, runner) <=>
              (runner.service = "running" => runner.config = runner.proxies)
BY DEF NoCall, Shaped, Agrees

\* A step of a call keeps it shaped.
LEMMA StaysShaped ==
  ASSUME SyncedInv, UNCHANGED overlapped, NEW c \in Callers, NEW new,
         calls[c].pc # "idle", calls' = [calls EXCEPT ![c] = new], Shaped(new)
  PROVE  /\ calls'[c] = new /\ \A d \in Callers \ {c} : calls'[d] = calls[d]
         /\ \A d \in Callers : Shaped(calls'[d])
<1>1. calls'[c] = new /\ \A d \in Callers \ {c} : calls'[d] = calls[d]
  BY DEF SyncedInv, EmbeddedInv, TypeOK
<1>2. QED
  BY <1>1 DEF SyncedInv

\* A step of the only call keeps call and runner in agreement.
LEMMA SyncStep ==
  ASSUME SyncedInv, EmbeddedInv', UNCHANGED overlapped, NEW c \in Callers, NEW new,
         calls[c].pc # "idle", calls' = [calls EXCEPT ![c] = new], Shaped(new),
         \/ registered' = NoRunner
         \/ ~overlapped => Agrees(new, registered', runners'[registered'])
  PROVE  SyncedInv'
<1>1. /\ calls'[c] = new /\ \A d \in Callers \ {c} : calls'[d] = calls[d]
      /\ \A d \in Callers : Shaped(calls'[d])
  BY StaysShaped
<1>2. ASSUME ~overlapped, registered' # NoRunner
      PROVE  /\ \A d \in Callers : calls'[d] # NoCall
                  => Agrees(calls'[d], registered', runners'[registered'])
             /\ Quiet' => Agrees(NoCall, registered', runners'[registered'])
  <2>1. \A d \in Callers \ {c} : calls'[d] = NoCall
    BY <1>1, <1>2, Busy DEF SyncedInv, EmbeddedInv, Single
  <2>2. Agrees(new, registered', runners'[registered'])
    BY <1>2
  <2>3. ASSUME NEW d \in Callers, calls'[d] # NoCall
        PROVE  Agrees(calls'[d], registered', runners'[registered'])
    <3>1. calls'[d] = new
      BY <1>1, <2>1, <2>3
    <3>2. QED
      BY <2>2, <3>1
  <2>4. ASSUME Quiet'
        PROVE  Agrees(NoCall, registered', runners'[registered'])
    <3>1. new = NoCall
      BY <1>1, <2>4 DEF Quiet
    <3>2. QED
      BY <2>2, <3>1
  <2>5. QED
    BY <2>3, <2>4
<1>3. Synced'
  BY <1>2 DEF Synced
<1>4. QED
  BY <1>1, <1>3 DEF SyncedInv

\* What the only call finds in agreement.
LEMMA SyncedNow ==
  ASSUME SyncedInv, ~overlapped, registered # NoRunner, NEW c \in Callers, calls[c].pc # "idle"
  PROVE  /\ Agrees(calls[c], registered, runners[registered])
         /\ registered \in Runners /\ runners[registered] \in Runner
BY Busy DEF SyncedInv, Synced, EmbeddedInv, TypeOK

\* The steps that change the call alone.
LEMMA LookupSynced ==
  ASSUME SyncedInv, EmbeddedInv', UNCHANGED <<overlapped, registered, runners>>,
         NEW c \in Callers, NEW new, calls' = [calls EXCEPT ![c] = new], Shaped(new),
         calls[c].pc # "idle",
         ~overlapped /\ registered # NoRunner /\ Agrees(calls[c], registered, runners[registered])
           => Agrees(new, registered, runners[registered])
  PROVE  SyncedInv'
<1>1. registered' = registered /\ runners' = runners
  OBVIOUS
<1>2. ASSUME ~overlapped, registered # NoRunner
      PROVE  Agrees(new, registered', runners'[registered'])
  BY <1>1, <1>2, SyncedNow
<1>3. registered' = NoRunner
      \/ (~overlapped => Agrees(new, registered', runners'[registered']))
  BY <1>1, <1>2
<1>4. UNCHANGED overlapped
  OBVIOUS
<1>5. QED
  BY <1>3, <1>4, SyncStep

LEMMA BeginCallSynced ==
  ASSUME SyncedInv, EmbeddedInv', NEW c \in Callers,
         NEW op \in {"add", "remove", "start", "stop"}, NEW t \in Tunnels, BeginCall(c, op, t)
  PROVE  SyncedInv'
<1> DEFINE new == [NoCall EXCEPT !.op = op,
                     !.tunnels = IF op \in {"add", "remove"} THEN {t} ELSE {},
                     !.pc = IF op = "start" THEN "register" ELSE "find"]
<1>1. /\ new.pc \in {"register", "find"} /\ new.op = op
      /\ (op \in {"add", "remove"} => new.tunnels = {t})
  BY DEF NoCall
<1>2. /\ calls' = [calls EXCEPT ![c] = new] /\ overlapped' = (overlapped \/ ~Quiet)
      /\ UNCHANGED <<registered, runners>>
  BY DEF BeginCall
<1> HIDE DEF new
<1>3. Shaped(new)
  BY <1>1 DEF Shaped
<1>4. calls'[c] = new /\ \A d \in Callers \ {c} : calls'[d] = calls[d]
  BY <1>2 DEF SyncedInv, EmbeddedInv, TypeOK
<1>5. \A d \in Callers : Shaped(calls'[d])
  BY <1>3, <1>4 DEF SyncedInv
<1>6. ~overlapped' => \A d \in Callers \ {c} : calls'[d] = NoCall
  BY <1>2, <1>4 DEF Quiet
<1>7. Synced'
  <2>1. SUFFICES ASSUME ~overlapped', registered # NoRunner
                 PROVE  /\ \A d \in Callers : calls'[d] # NoCall
                             => Agrees(calls'[d], registered, runners[registered])
                        /\ Quiet' => Agrees(NoCall, registered, runners[registered])
    BY <1>2 DEF Synced
  <2>2. Agrees(NoCall, registered, runners[registered])
    BY <1>2, <2>1 DEF SyncedInv, Synced
  <2>3. Agrees(new, registered, runners[registered])
    BY <1>1, <2>2, NoCallTyped DEF Agrees
  <2>4. ASSUME NEW d \in Callers, calls'[d] # NoCall
        PROVE  Agrees(calls'[d], registered, runners[registered])
    <3>1. calls'[d] = new
      BY <1>4, <1>6, <2>1, <2>4
    <3>2. QED
      BY <2>3, <3>1
  <2>5. QED
    BY <2>2, <2>4
<1>8. QED
  BY <1>5, <1>7 DEF SyncedInv

\* The call returns, having handed over nothing.
LEMMA ReturnSynced ==
  ASSUME SyncedInv, EmbeddedInv', UNCHANGED <<overlapped, registered, runners>>,
         NEW c \in Callers, Return(c), calls[c].pc # "idle",
         calls[c].pc \in {"copy", "update", "launch"} =>
           runners[registered].service # "running"
  PROVE  SyncedInv'
<1>1. calls' = [calls EXCEPT ![c] = NoCall] /\ Shaped(NoCall)
  BY NoCallShaped DEF Return
<1>2. ASSUME Agrees(calls[c], registered, runners[registered])
      PROVE  Agrees(NoCall, registered, runners[registered])
  <2>1. runners[registered].service = "running"
          => runners[registered].config = runners[registered].proxies
    <3>1. CASE calls[c].pc \in {"copy", "update", "launch"}
      BY <3>1
    <3>2. CASE calls[c].pc \notin {"copy", "update", "launch"}
      BY <1>2, <3>2 DEF Agrees
    <3>3. QED
      BY <3>1, <3>2
  <2>2. QED
    BY <2>1, NoCallShaped
<1>3. UNCHANGED <<overlapped, registered, runners>> /\ calls[c].pc # "idle"
  OBVIOUS
<1>4. QED
  BY <1>1, <1>2, <1>3, LookupSynced

\* The call goes on, for which there is nothing to hand over yet.
LEMMA GotoSynced ==
  ASSUME SyncedInv, EmbeddedInv', UNCHANGED <<overlapped, registered, runners>>,
         NEW c \in Callers, calls[c].pc \in {"find", "find again", "register"},
         \/ Goto(c, "register")
         \/ Goto(c, "find again") /\ calls[c].op = "add"
         \/ GotoWith(c, "change", registered) /\ calls[c].op \in {"add", "remove"}
  PROVE  SyncedInv'
<1>1. calls[c] \in Call /\ Shaped(calls[c])
  BY CallTyped DEF SyncedInv, EmbeddedInv
<1>2. ASSUME NEW new, calls' = [calls EXCEPT ![c] = new],
             new.op = calls[c].op, new.tunnels = calls[c].tunnels,
             \/ new.pc = "register"
             \/ new.pc = "find again" /\ calls[c].op = "add"
             \/ new.pc = "change" /\ new.runner = registered /\ calls[c].op \in {"add", "remove"}
      PROVE  SyncedInv'
  <2>1. Shaped(new)
    BY <1>1, <1>2 DEF Shaped
  <2>2. Agrees(calls[c], registered, runners[registered])
          => Agrees(new, registered, runners[registered])
    BY <1>2 DEF Agrees
  <2>3. UNCHANGED <<overlapped, registered, runners>> /\ calls[c].pc # "idle"
    OBVIOUS
  <2>4. QED
    BY <1>2, <2>1, <2>2, <2>3, LookupSynced
<1>3. ASSUME NEW pc \in {"register", "find again"}, Goto(c, pc),
             pc = "register" \/ calls[c].op = "add"
      PROVE  SyncedInv'
  <2> DEFINE new == [calls[c] EXCEPT !.pc = pc]
  <2>1. new.pc = pc /\ new.op = calls[c].op /\ new.tunnels = calls[c].tunnels
    BY <1>1 DEF Call
  <2>2. calls' = [calls EXCEPT ![c] = new]
    BY <1>3 DEF Goto
  <2> HIDE DEF new
  <2>3. QED
    BY <1>2, <1>3, <2>1, <2>2
<1>4. CASE GotoWith(c, "change", registered) /\ calls[c].op \in {"add", "remove"}
  <2> DEFINE new == [calls[c] EXCEPT !.pc = "change", !.runner = registered]
  <2>1. new.pc = "change" /\ new.op = calls[c].op /\ new.tunnels = calls[c].tunnels
        /\ new.runner = registered
    BY <1>1 DEF Call
  <2>2. calls' = [calls EXCEPT ![c] = new]
    BY <1>4 DEF GotoWith
  <2> HIDE DEF new
  <2>3. QED
    BY <1>2, <1>4, <2>1, <2>2
<1>5. QED
  BY <1>3, <1>4

LEMMA FindSynced ==
  ASSUME SyncedInv, EmbeddedInv', NEW c \in Callers, Find(c) \/ FindAgain(c)
  PROVE  SyncedInv'
<1>1. /\ calls[c].pc \in {"find", "find again"} /\ calls[c].op \in {"add", "remove"}
      /\ UNCHANGED <<overlapped, registered, runners>>
      /\ GotoWith(c, "change", registered) \/ Goto(c, "register") \/ Return(c)
  BY DEF Find, FindAgain, SyncedInv, Shaped
<1>2. QED
  BY <1>1, GotoSynced, ReturnSynced

LEMMA RegisterSynced ==
  ASSUME SyncedInv, EmbeddedInv', NEW c \in Callers, Register(c)
  PROVE  SyncedInv'
<1>1. calls[c].pc = "register" /\ UNCHANGED overlapped
  BY DEF Register
<1>2. CASE AfterStart(c) /\ UNCHANGED <<registered, runners>>
  <2>1. (Goto(c, "find again") /\ calls[c].op = "add") \/ Return(c)
    BY <1>2 DEF AfterStart
  <2>2. QED
    BY <1>1, <1>2, <2>1, GotoSynced, ReturnSynced
<1>3. ASSUME NEW r \in Runners, registered' = r,
             runners' = [runners EXCEPT ![r] = NewRunner], GotoWith(c, "launch", r)
      PROVE  SyncedInv'
  <2> DEFINE new == [calls[c] EXCEPT !.pc = "launch", !.runner = r]
  <2>1. calls[c] \in Call /\ Shaped(calls[c]) /\ runners'[r] = NewRunner
    BY <1>3, CallTyped DEF SyncedInv, EmbeddedInv, TypeOK
  <2>2. new.pc = "launch" /\ new.runner = r /\ new.op = calls[c].op
        /\ new.tunnels = calls[c].tunnels
    BY <2>1 DEF Call
  <2>3. calls' = [calls EXCEPT ![c] = new]
    BY <1>3 DEF GotoWith
  <2> HIDE DEF new
  <2>4. Shaped(new) /\ Agrees(new, r, NewRunner)
    BY <2>1, <2>2 DEF Shaped, Agrees, NewRunner
  <2>5. Agrees(new, registered', runners'[registered'])
    BY <1>3, <2>1, <2>4
  <2>6. QED
    BY <1>1, <2>3, <2>4, <2>5, SyncStep
<1>4. QED
  BY <1>2, <1>3 DEF Register

\* A step of a call on its runner, which is the registered one when it matters.
LEMMA WorkSynced ==
  ASSUME SyncedInv, EmbeddedInv', UNCHANGED <<overlapped, registered>>, NEW c \in Callers,
         calls[c].pc \in {"launch", "change", "update"},
         NEW r, r = calls[c].runner,
         NEW rec, runners' = [runners EXCEPT ![r] = rec],
         NEW new, calls' = [calls EXCEPT ![c] = new], Shaped(new),
         Agrees(calls[c], r, runners[r]) => Agrees(new, r, rec)
  PROVE  SyncedInv'
<1>1. r \in Runners /\ runners'[r] = rec /\ calls[c].pc # "idle"
  BY CallTyped DEF SyncedInv, EmbeddedInv, TypeOK, Call
<1>2. ASSUME ~overlapped, registered # NoRunner
      PROVE  Agrees(new, registered', runners'[registered'])
  <2>1. Agrees(calls[c], registered, runners[registered])
    BY <1>1, <1>2, SyncedNow
  <2>2. r = registered
    BY <2>1 DEF Agrees
  <2>3. Agrees(new, r, rec)
    BY <2>1, <2>2
  <2>4. registered' = r /\ runners'[registered'] = rec
    BY <1>1, <2>2
  <2>5. QED
    BY <2>3, <2>4
<1>3. registered' = NoRunner
      \/ (~overlapped => Agrees(new, registered', runners'[registered']))
  BY <1>2
<1>4. UNCHANGED overlapped
  OBVIOUS
<1>5. QED
  BY <1>1, <1>3, <1>4, SyncStep

\* What a step on a runner starts from.
LEMMA AtWork ==
  ASSUME SyncedInv, NEW c \in Callers, calls[c].pc \in Working
  PROVE  /\ calls[c].runner \in Runners /\ runners[calls[c].runner] \in Runner
         /\ calls[c] \in Call /\ Shaped(calls[c])
BY CallTyped DEF SyncedInv, EmbeddedInv, TypeOK, Call, Working

LEMMA LaunchSynced ==
  ASSUME SyncedInv, EmbeddedInv', NEW c \in Callers, Launch(c)
  PROVE  SyncedInv'
<1> DEFINE r == calls[c].runner
<1>1. calls[c].pc = "launch" /\ UNCHANGED <<overlapped, registered>>
  BY DEF Launch
<1>2. /\ r \in Runners /\ runners[r] \in Runner /\ calls[c] \in Call /\ Shaped(calls[c])
      /\ ~overlapped => calls[c].runner = registered
  BY <1>1, AtWork DEF Working, SyncedInv, EmbeddedInv, Pinned
<1>3. CASE runners' = [runners EXCEPT ![r].service = "running", ![r].config = {}] /\ AfterStart(c)
  <2> DEFINE new == IF calls[c].op = "add" THEN [calls[c] EXCEPT !.pc = "find again"] ELSE NoCall
             rec == [runners[r] EXCEPT !.service = "running", !.config = {}]
  <2>1. calls' = [calls EXCEPT ![c] = new] /\ runners' = [runners EXCEPT ![r] = rec]
    BY <1>3 DEF AfterStart, Goto, Return
  <2>2. new.pc \in {"find again", "idle"} /\ Shaped(new)
    BY <1>2, NoCallTyped, NoCallShaped DEF Call, Shaped
  <2>3. rec.config = {} /\ rec.proxies = runners[r].proxies
    BY <1>2 DEF Runner
  <2> HIDE DEF new, rec
  <2>4. Agrees(calls[c], r, runners[r]) => Agrees(new, r, rec)
    BY <1>1, <2>2, <2>3 DEF Agrees
  <2>5. QED
    BY <1>1, <2>1, <2>2, <2>4, WorkSynced
<1>4. CASE Return(c) /\ UNCHANGED runners
  <2>1. CASE ~overlapped /\ registered # NoRunner
    <3>1. Agrees(calls[c], registered, runners[registered])
      BY <1>1, <2>1, SyncedNow
    <3>2. runners[registered].service # "running"
      BY <1>1, <3>1 DEF Agrees
    <3>3. QED
      BY <1>1, <1>4, <3>2, ReturnSynced
  <2>2. CASE overlapped
    <3>1. calls' = [calls EXCEPT ![c] = NoCall] /\ Shaped(NoCall)
      BY <1>4, NoCallShaped DEF Return
    <3>2. QED
      BY <1>1, <2>2, <3>1, SyncStep
  <2>3. ~overlapped => registered # NoRunner
    BY <1>2, NoRunnerIsNone
  <2>4. QED
    BY <2>1, <2>2, <2>3
<1>5. QED
  BY <1>3, <1>4 DEF Launch

LEMMA ChangeSynced ==
  ASSUME SyncedInv, EmbeddedInv', NEW c \in Callers, Change(c)
  PROVE  SyncedInv'
<1> DEFINE r == calls[c].runner
           proxies == IF calls[c].op = "add" THEN runners[r].proxies \cup calls[c].tunnels
                      ELSE runners[r].proxies \ calls[c].tunnels
           new == [calls[c] EXCEPT !.pc = "copy"]
           rec == [runners[r] EXCEPT !.proxies = proxies]
<1>1. /\ calls[c].pc = "change" /\ UNCHANGED <<overlapped, registered>>
      /\ calls' = [calls EXCEPT ![c] = new] /\ runners' = [runners EXCEPT ![r] = rec]
  BY DEF Change, Goto
<1>2. calls[c] \in Call /\ Shaped(calls[c])
  BY <1>1, AtWork DEF Working
<1>3. /\ new.pc = "copy" /\ new.runner = r /\ new.op = calls[c].op
      /\ new.tunnels = calls[c].tunnels
  BY <1>2 DEF Call
<1> HIDE DEF new, rec
<1>4. Shaped(new)
  BY <1>2, <1>3 DEF Shaped
<1>5. Agrees(calls[c], r, runners[r]) => Agrees(new, r, rec)
  BY <1>1, <1>3 DEF Agrees
<1>6. QED
  BY <1>1, <1>4, <1>5, WorkSynced

LEMMA CopySynced ==
  ASSUME SyncedInv, EmbeddedInv', NEW c \in Callers, Copy(c)
  PROVE  SyncedInv'
<1>1. calls[c].pc = "copy" /\ UNCHANGED <<overlapped, registered, runners>>
  BY DEF Copy
<1>2. calls[c] \in Call /\ Shaped(calls[c])
  BY <1>1, AtWork DEF Working
<1>3. CASE runners[calls[c].runner].service = "none" /\ Return(c)
  <2>1. calls' = [calls EXCEPT ![c] = NoCall] /\ Shaped(NoCall)
    BY <1>3, NoCallShaped DEF Return
  <2>2. Agrees(calls[c], registered, runners[registered])
          => Agrees(NoCall, registered, runners[registered])
    BY <1>1, <1>3, NoCallShaped DEF Agrees
  <2>3. QED
    BY <1>1, <2>1, <2>2, LookupSynced
<1>4. CASE calls' = [calls EXCEPT ![c].pc = "update", ![c].copy = Copied(c)]
  <2> DEFINE new == [calls[c] EXCEPT !.pc = "update", !.copy = Copied(c)]
  <2>1. calls' = [calls EXCEPT ![c] = new]
    BY <1>4
  <2>2. /\ new.pc = "update" /\ new.copy = Copied(c) /\ new.op = calls[c].op
        /\ new.tunnels = calls[c].tunnels /\ new.runner = calls[c].runner
    BY <1>2 DEF Call
  <2> HIDE DEF new
  <2>3. Shaped(new)
    BY <1>2, <2>2 DEF Shaped
  <2>4. Agrees(calls[c], registered, runners[registered])
          => Agrees(new, registered, runners[registered])
    BY <1>1, <2>2 DEF Agrees, Copied
  <2>5. QED
    BY <1>1, <2>1, <2>3, <2>4, LookupSynced
<1>5. QED
  BY <1>3, <1>4 DEF Copy

LEMMA UpdateSynced ==
  ASSUME SyncedInv, EmbeddedInv', NEW c \in Callers, Update(c)
  PROVE  SyncedInv'
<1> DEFINE r == calls[c].runner
           rec == [runners[r] EXCEPT !.config =
                     IF runners[r].service = "running" THEN calls[c].copy ELSE @]
<1>1. /\ calls[c].pc = "update" /\ UNCHANGED <<overlapped, registered>>
      /\ calls' = [calls EXCEPT ![c] = NoCall] /\ runners' = [runners EXCEPT ![r] = rec]
  BY DEF Update, Return
<1>2. runners[r] \in Runner
  BY <1>1, AtWork DEF Working
<1>3. /\ rec.service = runners[r].service /\ rec.proxies = runners[r].proxies
      /\ runners[r].service = "running" => rec.config = calls[c].copy
  BY <1>2 DEF Runner
<1> HIDE DEF rec
<1>4. Agrees(calls[c], r, runners[r]) => Agrees(NoCall, r, rec)
  BY <1>1, <1>3, NoCallShaped DEF Agrees
<1>5. QED
  BY <1>1, <1>4, NoCallShaped, WorkSynced

\* While a stop that has taken its runner out is under way on its own, none is
\* registered.
LEMMA StopSynced ==
  ASSUME SyncedInv, EmbeddedInv', NEW c \in Callers, Unregister(c) \/ Close(c)
  PROVE  SyncedInv'
<1>1. /\ calls[c].pc # "idle" /\ UNCHANGED overlapped
      /\ ~overlapped => registered' = NoRunner
  BY DEF Unregister, Close, SyncedInv, EmbeddedInv, Pinned
<1>2. CASE Return(c)
  BY <1>1, <1>2, NoCallShaped, SyncStep DEF Return
<1>3. CASE Unregister(c) /\ GotoWith(c, "close", registered)
  <2> DEFINE new == [calls[c] EXCEPT !.pc = "close", !.runner = registered]
  <2>1. calls' = [calls EXCEPT ![c] = new]
    BY <1>3 DEF GotoWith
  <2>2. new.pc = "close" /\ new.op = "stop"
    BY <1>3, CallTyped DEF Unregister, SyncedInv, EmbeddedInv, Call
  <2> HIDE DEF new
  <2>3. Shaped(new)
    BY <2>2 DEF Shaped
  <2>4. QED
    BY <1>1, <2>1, <2>3, SyncStep
<1>4. QED
  BY <1>2, <1>3 DEF Unregister, Close

LEMMA SyncedInit ==
  ASSUME Init
  PROVE  SyncedInv
<1>1. registered = NoRunner /\ \A c \in Callers : calls[c] = NoCall
  BY DEF Init
<1>2. \A c \in Callers : Shaped(calls[c])
  BY <1>1, NoCallShaped
<1>3. Synced
  BY <1>1 DEF Synced
<1>4. QED
  BY <1>2, <1>3, EmbeddedInit DEF SyncedInv

LEMMA SyncedNext ==
  ASSUME SyncedInv, [Next]_vars
  PROVE  SyncedInv'
<1>1. EmbeddedInv'
  BY EmbeddedNext DEF SyncedInv
<1>2. ASSUME NEW c \in Callers, NEW op \in {"add", "remove", "start", "stop"},
             NEW t \in Tunnels, BeginCall(c, op, t)
      PROVE  SyncedInv'
  BY <1>1, <1>2, BeginCallSynced
<1>3. ASSUME NEW c \in Callers, Proceed(c)
      PROVE  SyncedInv'
  <2>1. CASE Find(c) \/ FindAgain(c)
    BY <1>1, <2>1, FindSynced
  <2>2. CASE Register(c)
    BY <1>1, <2>2, RegisterSynced
  <2>3. CASE Launch(c)
    BY <1>1, <2>3, LaunchSynced
  <2>4. CASE Change(c)
    BY <1>1, <2>4, ChangeSynced
  <2>5. CASE Copy(c)
    BY <1>1, <2>5, CopySynced
  <2>6. CASE Update(c)
    BY <1>1, <2>6, UpdateSynced
  <2>7. CASE Unregister(c) \/ Close(c)
    BY <1>1, <2>7, StopSynced
  <2>8. QED
    BY <1>3, <2>1, <2>2, <2>3, <2>4, <2>5, <2>6, <2>7 DEF Proceed
<1>4. CASE UNCHANGED vars
  BY <1>1, <1>4 DEF vars, SyncedInv, Synced, Quiet
<1>5. QED
  BY <1>2, <1>3, <1>4 DEF Next

\* Between calls the service that runs is the registered one, and they agree.
LEMMA InStep ==
  ASSUME SyncedInv
  PROVE  ServesItsProxies
<1>1. ASSUME Quiet, ~overlapped, NEW r \in Running
      PROVE  runners[r].config = runners[r].proxies
  <2>1. r = registered /\ r # NoRunner
    <3>1. Reached(r) /\ overtaken = {} /\ ~Closing(r)
      BY <1>1, NoCallTyped DEF SyncedInv, EmbeddedInv, Led, Pinned, Quiet, Closing
    <3>2. QED
      BY <1>1, <3>1, NoRunnerIsNone DEF Reached, Running
  <2>2. Agrees(NoCall, registered, runners[registered])
    BY <1>1, <2>1 DEF SyncedInv, Synced
  <2>3. QED
    BY <1>1, <2>1, <2>2, NoCallShaped DEF Running
<1>2. QED
  BY <1>1 DEF ServesItsProxies

\* A driver that is called by one goroutine at a time leaves the service, after
\* every call, with exactly the proxies of its runner (addTunnel, removeTunnel
\* and apply of embedded.go): nothing is lost between the locks.
THEOREM ServesItsProxiesHolds == Spec => []ServesItsProxies
<1>1. Init => SyncedInv
  BY SyncedInit
<1>2. SyncedInv /\ [Next]_vars => SyncedInv'
  BY SyncedNext
<1>3. SyncedInv => ServesItsProxies
  BY InStep
<1>4. QED
  BY <1>1, <1>2, <1>3, PTL DEF Spec

-----------------------------------------------------------------------------
(***************************************************************************)
(* The driver does what TunnelLifecycle assumes of it, step by step.       *)
(***************************************************************************)
ContractStep ==
  Contract!Ask \/ Contract!Serve \/ UNCHANGED <<Wanted, Served>>

\* Where the services that run, and their configs, are the same ones, so is
\* what is served.
LEMMA SameServed ==
  ASSUME \A r \in Runners : \A t :
           (runners'[r].service = "running" /\ t \in runners'[r].config)
             <=> (runners[r].service = "running" /\ t \in runners[r].config)
  PROVE  Served' = Served
<1>1. \A t : t \in Served' <=> t \in Served
  BY DEF Served, Running
<1>2. QED
  BY <1>1

LEMMA OnlyServed ==
  ASSUME NEW r, Running = {r}
  PROVE  Served = runners[r].config
BY DEF Served

\* The step changes neither the map nor the runners.
LEMMA LookupStutters ==
  ASSUME UNCHANGED <<registered, runners>>
  PROVE  ContractStep
<1>1. Wanted' = Wanted /\ Served' = Served
  BY DEF Wanted, Served, Running
<1>2. QED
  BY <1>1 DEF ContractStep

LEMMA UnregisterAsks ==
  ASSUME NEW c \in Callers, Unregister(c)
  PROVE  ContractStep
<1>1. registered' = NoRunner /\ runners' = runners
  BY DEF Unregister
<1>2. Wanted' = {} /\ Served' = Served
  BY <1>1 DEF Wanted, Served, Running
<1>3. QED
  BY <1>2 DEF ContractStep, Contract!Ask

LEMMA RegisterStutters ==
  ASSUME SyncedInv, NEW r \in Runners, registered = NoRunner, registered' = r, Fresh(r),
         runners' = [runners EXCEPT ![r] = NewRunner]
  PROVE  ContractStep
<1>1. /\ runners'[r] = NewRunner /\ runners[r].service # "running"
      /\ \A q \in Runners : q # r => runners'[q] = runners[q]
  BY DEF Fresh, SyncedInv, EmbeddedInv, TypeOK
<1>2. Served' = Served
  BY <1>1, NewRunnerTyped, SameServed
<1>3. Wanted = {} /\ Wanted' = {}
  BY <1>1, NoRunnerIsNone DEF Wanted, NewRunner
<1>4. QED
  BY <1>2, <1>3 DEF ContractStep

\* Without a call that closes, what runs is the registered runner.
LEMMA RegisteredRuns ==
  ASSUME SyncedInv, ~overlapped, NEW c \in Callers, calls[c].pc \notin {"idle", "close"}
  PROVE  Running \subseteq {registered}
<1>1. \A d \in Callers : calls[d].pc # "close"
  BY Busy, NoCallTyped DEF SyncedInv, EmbeddedInv, Single
<1>2. \A r \in Runners : Reached(r) => r = registered
  BY <1>1 DEF Reached, Closing, SyncedInv, EmbeddedInv, Pinned
<1>3. QED
  BY <1>2 DEF SyncedInv, EmbeddedInv, Led, Running

LEMMA LaunchStutters ==
  ASSUME SyncedInv, ~overlapped, NEW c \in Callers, Launch(c)
  PROVE  ContractStep
<1> DEFINE r == calls[c].runner
<1>1. calls[c].pc = "launch" /\ registered' = registered
  BY DEF Launch
<1>2. /\ r \in Runners /\ runners[r] \in Runner /\ r = registered /\ r # NoRunner
      /\ runners \in [Runners -> Runner]
  BY <1>1, AtWork, NoRunnerIsNone DEF Working, SyncedInv, EmbeddedInv, Pinned, TypeOK
<1>3. runners[r].service = "none"
  BY <1>1, <1>2, SyncedNow DEF Agrees
<1>4. CASE runners' = [runners EXCEPT ![r].service = "running", ![r].config = {}]
  <2> DEFINE rec == [runners[r] EXCEPT !.service = "running", !.config = {}]
  <2>1. runners' = [runners EXCEPT ![r] = rec]
    BY <1>4
  <2>2. rec.config = {} /\ rec.proxies = runners[r].proxies
    BY <1>2 DEF Runner
  <2> HIDE DEF rec
  <2>3. runners'[r] = rec /\ \A q \in Runners : q # r => runners'[q] = runners[q]
    BY <1>2, <2>1
  <2>4. Served' = Served
    BY <1>3, <2>2, <2>3, SameServed
  <2>5. Wanted' = Wanted
    BY <1>1, <1>2, <2>2, <2>3 DEF Wanted
  <2>6. QED
    BY <2>4, <2>5 DEF ContractStep
<1>5. CASE UNCHANGED runners
  BY <1>1, <1>5, LookupStutters
<1>6. QED
  BY <1>4, <1>5 DEF Launch

LEMMA ChangeAsks ==
  ASSUME SyncedInv, ~overlapped, NEW c \in Callers, Change(c)
  PROVE  ContractStep
<1> DEFINE r == calls[c].runner
           proxies == IF calls[c].op = "add" THEN runners[r].proxies \cup calls[c].tunnels
                      ELSE runners[r].proxies \ calls[c].tunnels
           rec == [runners[r] EXCEPT !.proxies = proxies]
<1>1. /\ calls[c].pc = "change" /\ registered' = registered
      /\ runners' = [runners EXCEPT ![r] = rec]
  BY DEF Change
<1>2. /\ r \in Runners /\ runners[r] \in Runner /\ Shaped(calls[c])
      /\ runners \in [Runners -> Runner]
  BY <1>1, AtWork DEF Working, SyncedInv, EmbeddedInv, TypeOK
<1>3. /\ rec.service = runners[r].service /\ rec.config = runners[r].config
      /\ rec.proxies = proxies
  BY <1>2 DEF Runner
<1> HIDE DEF rec
<1>4. runners'[r] = rec /\ \A q \in Runners : q # r => runners'[q] = runners[q]
  BY <1>1, <1>2
<1>5. Served' = Served
  BY <1>3, <1>4, SameServed
<1>6. CASE registered = NoRunner
  <2>1. Wanted' = Wanted
    BY <1>1, <1>6 DEF Wanted
  <2>2. QED
    BY <1>5, <2>1 DEF ContractStep
<1>7. CASE registered # NoRunner
  <2>1. r = registered
    BY <1>1, <1>7, SyncedNow DEF Agrees
  <2>2. Wanted = runners[r].proxies /\ Wanted' = proxies
    BY <1>1, <1>3, <1>4, <1>7, <2>1 DEF Wanted
  <2>3. PICK t \in Tunnels : calls[c].tunnels = {t}
    BY <1>1, <1>2 DEF Shaped
  <2>4. Wanted' \in {Wanted \cup {t}, Wanted \ {t}}
    BY <2>2, <2>3
  <2>5. QED
    BY <1>5, <2>4 DEF ContractStep, Contract!Ask
<1>8. QED
  BY <1>6, <1>7

LEMMA UpdateServes ==
  ASSUME SyncedInv, ~overlapped, NEW c \in Callers, Update(c)
  PROVE  ContractStep
<1> DEFINE r == calls[c].runner
           config == IF runners[r].service = "running" THEN calls[c].copy
                     ELSE runners[r].config
           rec == [runners[r] EXCEPT !.config = config]
<1>1. /\ calls[c].pc = "update" /\ registered' = registered
      /\ runners' = [runners EXCEPT ![r] = rec]
  BY DEF Update
<1>2. r \in Runners /\ runners[r] \in Runner /\ runners \in [Runners -> Runner]
  BY <1>1, AtWork DEF Working, SyncedInv, EmbeddedInv, TypeOK
<1>3. /\ rec.service = runners[r].service /\ rec.proxies = runners[r].proxies
      /\ rec.config = config
  BY <1>2 DEF Runner
<1> HIDE DEF rec
<1>4. runners'[r] = rec /\ \A q \in Runners : q # r => runners'[q] = runners[q]
  BY <1>1, <1>2
<1>5. Wanted' = Wanted
  <2>1. registered # NoRunner => registered \in Runners
    BY DEF SyncedInv, EmbeddedInv, TypeOK
  <2>2. QED
    BY <1>1, <1>3, <1>4, <2>1 DEF Wanted
<1>6. CASE runners[r].service # "running"
  <2>1. Served' = Served
    BY <1>3, <1>4, <1>6, SameServed
  <2>2. QED
    BY <1>5, <2>1 DEF ContractStep
<1>7. CASE runners[r].service = "running"
  <2>1. Running \subseteq {registered} /\ r \in Running
    BY <1>1, <1>2, <1>7, RegisteredRuns DEF Running
  <2>2. r = registered /\ r # NoRunner /\ Running = {r}
    BY <1>2, <2>1, NoRunnerIsNone
  <2>3. Running' = {r}
    BY <1>2, <1>3, <1>4, <2>2 DEF Running
  <2>4. calls[c].copy = runners[r].proxies
    BY <1>1, <2>2, SyncedNow DEF Agrees
  <2>5. Served' = rec.config
    BY <1>4, <2>3, OnlyServed DEF Served
  <2>6. Served' = Wanted
    BY <1>3, <1>7, <2>2, <2>4, <2>5 DEF Wanted
  <2>7. QED
    BY <1>5, <2>6 DEF ContractStep, Contract!Serve
<1>8. QED
  BY <1>6, <1>7

LEMMA CloseServes ==
  ASSUME SyncedInv, ~overlapped, NEW c \in Callers, Close(c)
  PROVE  ContractStep
<1> DEFINE r == calls[c].runner
           rec == IF runners[r].service = "running"
                  THEN [runners[r] EXCEPT !.service = "closed", !.config = {}]
                  ELSE runners[r]
<1>1. /\ calls[c].pc = "close" /\ registered' = registered
      /\ runners' = [runners EXCEPT ![r] = rec]
  BY DEF Close
<1>2. /\ r \in Runners /\ runners[r] \in Runner /\ runners \in [Runners -> Runner]
      /\ registered = NoRunner
  BY <1>1, AtWork DEF Working, SyncedInv, EmbeddedInv, TypeOK, Pinned
<1>3. rec.service # "running"
  BY <1>2 DEF Runner
<1> HIDE DEF rec
<1>4. runners'[r] = rec /\ \A q \in Runners : q # r => runners'[q] = runners[q]
  BY <1>1, <1>2
<1>5. Running \subseteq {r}
  <2>1. \A d \in Callers : calls[d].pc = "close" => d = c
    BY <1>1, Busy DEF SyncedInv, EmbeddedInv, Single
  <2>2. \A q \in Runners : Reached(q) => q = r
    BY <1>2, <2>1, NoRunnerIsNone DEF Reached, Closing, SyncedInv, EmbeddedInv, Pinned
  <2>3. QED
    BY <2>2 DEF SyncedInv, EmbeddedInv, Led, Running
<1>6. Running' = {}
  BY <1>3, <1>4, <1>5 DEF Running
<1>7. Served' = {} /\ Wanted = {} /\ Wanted' = {}
  BY <1>1, <1>2, <1>6 DEF Served, Wanted
<1>8. QED
  BY <1>7 DEF ContractStep, Contract!Serve

LEMMA DriverStep ==
  ASSUME SyncedInv, [Next]_vars
  PROVE  overlapped' \/ ContractStep
<1>1. ASSUME NEW c \in Callers, NEW op \in {"add", "remove", "start", "stop"},
             NEW t \in Tunnels, BeginCall(c, op, t)
      PROVE  ContractStep
  BY <1>1, LookupStutters DEF BeginCall
<1>2. ASSUME NEW c \in Callers, Proceed(c)
      PROVE  overlapped' \/ ContractStep
  <2>1. CASE Find(c) \/ FindAgain(c) \/ Copy(c)
    BY <2>1, LookupStutters DEF Find, FindAgain, Copy
  <2>2. CASE Register(c)
    BY <2>2, LookupStutters, RegisterStutters DEF Register
  <2>3. CASE Launch(c)
    BY <2>3, LaunchStutters DEF Launch
  <2>4. CASE Change(c)
    BY <2>4, ChangeAsks DEF Change
  <2>5. CASE Update(c)
    BY <2>5, UpdateServes DEF Update
  <2>6. CASE Unregister(c)
    BY <2>6, UnregisterAsks
  <2>7. CASE Close(c)
    BY <2>7, CloseServes DEF Close
  <2>8. QED
    BY <1>2, <2>1, <2>2, <2>3, <2>4, <2>5, <2>6, <2>7 DEF Proceed
<1>3. CASE UNCHANGED vars
  BY <1>3, LookupStutters DEF vars
<1>4. QED
  BY <1>1, <1>2, <1>3 DEF Next

\* The contract of the driver, for all tunnels and any number of calls: for as
\* long as they do not overlap, a call changes what is wanted by one tunnel or
\* empties it, and every update of the service runs exactly what is wanted
\* then (Start, AddTunnel, RemoveTunnel, Stop and apply of embedded.go).
THEOREM ImplementsContractHolds == Spec => ImplementsContract
<1>1. Init => SyncedInv
  BY SyncedInit
<1>2. SyncedInv /\ [Next]_vars => SyncedInv'
  BY SyncedNext
<1>3. Init => Contract!ContractInit
  BY DEF Init, NewRunner, Wanted, Served, Running, Contract!ContractInit
<1>4. SyncedInv /\ [Next]_vars
        => [overlapped' \/ Contract!Ask \/ Contract!Serve]_<<Wanted, Served>>
  BY DriverStep DEF ContractStep
<1>5. QED
  BY <1>1, <1>2, <1>3, <1>4, PTL DEF Spec, ImplementsContract
=============================================================================
