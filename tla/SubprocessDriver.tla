-------------------------- MODULE SubprocessDriver --------------------------
(***************************************************************************)
(* The subprocess driver, for one endpoint: a map that may hold a runner,  *)
(* and runners that write frpc.toml, spawn frpc, watch it and restart it.  *)
(* Callers are goroutines that call a method of the driver; each step is a *)
(* critical section or a call between two.  The run directory, and so      *)
(* frpc.toml, is one for all runners of the endpoint.                      *)
(*                                                                         *)
(* Tunnels are enabled ones: BuildSubprocessTOML leaves others out.  What  *)
(* the runner reports (setState, pollStatus) is left out.                  *)
(***************************************************************************)
EXTENDS Naturals, FiniteSets

CONSTANTS
  Tunnels,
  Callers,
  Runners,    \* runner objects, used again when nobody refers to them
  Requests,   \* the methods that are called
  MaxFaults,  \* bound: steps that fail: to make a runner, render or write the
              \* file, spawn frpc, see it ready, or have it reload
  MaxExits    \* bound: frpc processes that exit by themselves

ASSUME BoundAssumption == MaxFaults \in Nat /\ MaxExits \in Nat
ASSUME RunnersAssumption == "none" \notin Runners

VARIABLES
  registered,  \* s.runners[ep.ID], or NoRunner
  runners,     \* the runners
  toml,        \* the tunnels in frpc.toml
  calls,       \* the call each caller is in
  overlapped,  \* history: whether a call has begun before another returned
  faults, exits

vars == <<registered, runners, toml, calls, overlapped, faults, exits>>

NoRunner == "none"

(***************************************************************************)
(* frpc is the process behind r.cmd, and config what it has read; watch    *)
(* and poll say where superviseLoop and statusLoop are; saw is the         *)
(* stopRequested that superviseLoop has read.  missed is history: whether  *)
(* a call has failed, with an error, to bring the runner's tunnels to the  *)
(* file, or the file to frpc, and no later one has made that good.         *)
(***************************************************************************)
Runner == [frpc : {"none", "up", "dead"}, config : SUBSET Tunnels,
           tunnels : SUBSET Tunnels, stopRequested : BOOLEAN, cancelled : BOOLEAN,
           watch : {"off", "top", "wait", "backoff", "over"}, saw : BOOLEAN,
           poll : {"off", "on", "over"}, missed : SUBSET {"file", "frpc"}]
NewRunner == [frpc |-> "none", config |-> {}, tunnels |-> {}, stopRequested |-> FALSE,
              cancelled |-> FALSE, watch |-> "off", saw |-> FALSE, poll |-> "off",
              missed |-> {}]

PC == {"idle", "find", "register", "render", "write", "spawn", "ready", "watch",
       "find again", "change", "reload", "stop", "kill", "cancel", "join"}

\* copy is what renderTOML has read; cancel is whether stop has found r.cancel
\* set.
Call == [pc : PC, op : {"add", "remove", "start", "stop"}, tunnels : SUBSET Tunnels,
         runner : Runners \cup {NoRunner}, copy : SUBSET Tunnels, starting : BOOLEAN,
         cancel : BOOLEAN]
NoCall == [pc |-> "idle", op |-> "start", tunnels |-> {}, runner |-> NoRunner,
           copy |-> {}, starting |-> FALSE, cancel |-> FALSE]

Init ==
  /\ registered = NoRunner
  /\ runners = [r \in Runners |-> NewRunner]
  /\ toml = {}
  /\ calls = [c \in Callers |-> NoCall]
  /\ overlapped = FALSE
  /\ faults = 0
  /\ exits = 0

Quiet == \A c \in Callers : calls[c] = NoCall

Goto(c, pc) == calls' = [calls EXCEPT ![c].pc = pc]
GotoWith(c, pc, r) == calls' = [calls EXCEPT ![c].pc = pc, ![c].runner = r]
Return(c) == calls' = [calls EXCEPT ![c] = NoCall]

Fails == faults < MaxFaults /\ faults' = faults + 1

\* What s.runners holds when start has failed: the runner stays,
\* for its frpc may be up.
AfterFailedStart == registered

-----------------------------------------------------------------------------
(***************************************************************************)
(* The map of runners, under s.mu.                                         *)
(***************************************************************************)
BeginCall(c, op, t) ==
  /\ op \in Requests
  /\ calls[c] = NoCall
  /\ overlapped' = (overlapped \/ ~Quiet)
  /\ calls' = [calls EXCEPT ![c] =
       [NoCall EXCEPT !.op = op, !.tunnels = IF op \in {"add", "remove"} THEN {t} ELSE {},
                      !.pc = IF op = "start" THEN "register" ELSE "find"]]
  /\ UNCHANGED <<registered, runners, toml, faults, exits>>

Find(c) ==
  /\ calls[c].pc = "find"
  /\ calls[c].op \in {"add", "remove"}
  /\ IF registered # NoRunner
     THEN GotoWith(c, "change", registered)
     ELSE IF calls[c].op = "add" THEN Goto(c, "register") ELSE Return(c)
  /\ UNCHANGED <<registered, runners, toml, faults, exits>>

Unregister(c) ==
  /\ calls[c].pc = "find"
  /\ calls[c].op = "stop"
  /\ registered' = NoRunner
  /\ IF registered # NoRunner THEN GotoWith(c, "stop", registered) ELSE Return(c)
  /\ UNCHANGED <<runners, toml, faults, exits>>

AfterStart(c) == IF calls[c].op = "add" THEN Goto(c, "find again") ELSE Return(c)

\* A runner object that nobody refers to any more.
Fresh(r) ==
  /\ r # registered
  /\ runners[r].frpc # "up"
  /\ runners[r].watch \in {"off", "over"}
  /\ runners[r].poll # "on"
  /\ \A c \in Callers : calls[c].runner # r

Register(c) ==
  /\ calls[c].pc = "register"
  /\ \/ /\ registered # NoRunner
        /\ AfterStart(c)
        /\ UNCHANGED <<registered, runners>>
     \/ \E r \in Runners :
          /\ registered = NoRunner
          /\ Fresh(r)
          /\ registered' = r
          /\ runners' = [runners EXCEPT ![r] = NewRunner]
          /\ calls' = [calls EXCEPT ![c].pc = "render", ![c].runner = r,
                                    ![c].starting = TRUE]
  /\ UNCHANGED <<toml, faults, exits>>

\* No binary, port or secret: there is no runner.
RegisterFails(c) ==
  /\ calls[c].pc = "register"
  /\ registered = NoRunner
  /\ Fails
  /\ Return(c)
  /\ UNCHANGED <<registered, runners, toml, exits>>

FindAgain(c) ==
  /\ calls[c].pc = "find again"
  /\ IF registered # NoRunner THEN GotoWith(c, "change", registered) ELSE Return(c)
  /\ UNCHANGED <<registered, runners, toml, faults, exits>>

-----------------------------------------------------------------------------
(***************************************************************************)
(* start, addTunnel and removeTunnel of a runner.                          *)
(***************************************************************************)
\* The tunnels that renderTOML copies under r.mu; the mistake is to leave out
\* one that frpc has already.
Rendered_Wrong(c) == runners[calls[c].runner].tunnels \ runners[calls[c].runner].config
Rendered(c) == runners[calls[c].runner].tunnels

FailedStart(c) == registered' = AfterFailedStart /\ Return(c)

\* start and applyAndReload give up when renderTOML fails.
GiveUp(c) ==
  IF calls[c].starting THEN FailedStart(c) ELSE Return(c) /\ UNCHANGED registered

Render(c) ==
  /\ calls[c].pc = "render"
  /\ calls' = [calls EXCEPT ![c].pc = "write", ![c].copy = Rendered(c)]
  /\ UNCHANGED <<registered, runners, toml, faults, exits>>

\* The file is written outside of r.mu.
Write(c) ==
  LET r == calls[c].runner
  IN  /\ calls[c].pc = "write"
      /\ toml' = calls[c].copy
      /\ runners' = [runners EXCEPT ![r].missed = @ \ {"file"}]
      /\ Goto(c, IF calls[c].starting THEN "spawn" ELSE "reload")
      /\ UNCHANGED <<registered, faults, exits>>

\* BuildSubprocessTOML refuses a tunnel or the directory is missing: the file
\* stays.
RenderFails(c) ==
  LET r == calls[c].runner
  IN  /\ calls[c].pc = "render"
      /\ Fails
      /\ runners' = [runners EXCEPT ![r].missed = @ \cup {"file"}]
      /\ GiveUp(c)
      /\ UNCHANGED <<toml, exits>>

\* os.WriteFile may have emptied the file.
WriteFails(c) ==
  LET r == calls[c].runner
  IN  /\ calls[c].pc = "write"
      /\ Fails
      /\ toml' \in {toml, {}}
      /\ runners' = [runners EXCEPT ![r].missed = {"file", "frpc"}]
      /\ GiveUp(c)
      /\ UNCHANGED exits

\* Under r.mu spawn looks whether the runner has been stopped.  The mistake
\* is not to look.
MaySpawn_Wrong(r) == TRUE
MaySpawn(r) == ~runners[r].stopRequested

Spawned(r) == [runners EXCEPT ![r].frpc = "up", ![r].config = toml,
                              ![r].missed = @ \ {"frpc"}]

Spawn(c) ==
  LET r == calls[c].runner
  IN  /\ calls[c].pc = "spawn"
      /\ \/ /\ MaySpawn(r)
            /\ runners' = Spawned(r)
            /\ Goto(c, "ready")
            /\ UNCHANGED <<registered, faults>>
         \/ /\ ~MaySpawn(r)
            /\ FailedStart(c)
            /\ UNCHANGED <<runners, faults>>
         \/ /\ MaySpawn(r) /\ Fails
            /\ FailedStart(c)
            /\ UNCHANGED runners
      /\ UNCHANGED <<toml, exits>>

\* The admin port answers, or start gives up and leaves frpc unwatched.
Ready(c) ==
  LET r == calls[c].runner
  IN  /\ calls[c].pc = "ready"
      /\ \/ runners[r].frpc = "up" /\ Goto(c, "watch") /\ UNCHANGED <<registered, faults>>
         \/ runners[r].frpc = "dead" /\ FailedStart(c) /\ UNCHANGED faults
         \/ runners[r].frpc = "up" /\ Fails /\ FailedStart(c)
      /\ UNCHANGED <<runners, toml, exits>>

\* r.cancel is set and the two goroutines are launched: in between stop would
\* find nothing more to wait for, and they would end at once.
Watch(c) ==
  LET r == calls[c].runner
  IN  /\ calls[c].pc = "watch"
      /\ runners' = [runners EXCEPT ![r].watch = "top", ![r].poll = "on"]
      /\ calls' = [calls EXCEPT ![c] =
           IF @.op = "add" THEN [@ EXCEPT !.pc = "find again", !.starting = FALSE]
           ELSE NoCall]
      /\ UNCHANGED <<registered, toml, faults, exits>>

Change(c) ==
  LET r == calls[c].runner
  IN  /\ calls[c].pc = "change"
      /\ runners' = [runners EXCEPT ![r].tunnels =
           IF calls[c].op = "add" THEN @ \cup calls[c].tunnels ELSE @ \ calls[c].tunnels]
      /\ Goto(c, "render")
      /\ UNCHANGED <<registered, toml, faults, exits>>

\* /api/reload: a frpc that is up reads the file; to one that is not the call
\* fails, and it reads the file when it is spawned.
Reload(c) ==
  LET r == calls[c].runner
  IN  /\ calls[c].pc = "reload"
      /\ runners' = IF runners[r].frpc = "up" THEN Spawned(r) ELSE runners
      /\ Return(c)
      /\ UNCHANGED <<registered, toml, faults, exits>>

\* The admin port of a frpc that is up does not answer, or answers 300 or above:
\* frpc keeps its tunnels, or has read the file all the same.
ReloadFails(c) ==
  LET r == calls[c].runner
  IN  /\ calls[c].pc = "reload"
      /\ runners[r].frpc = "up"
      /\ Fails
      /\ \E config \in {runners[r].config, toml} :
           runners' = [runners EXCEPT ![r].config = config, ![r].missed = @ \cup {"frpc"}]
      /\ Return(c)
      /\ UNCHANGED <<registered, toml, exits>>

-----------------------------------------------------------------------------
(***************************************************************************)
(* stop of a runner.                                                       *)
(***************************************************************************)
Stop(c) ==
  LET r == calls[c].runner
  IN  /\ calls[c].pc = "stop"
      /\ runners' = [runners EXCEPT ![r].stopRequested = TRUE]
      /\ calls' = [calls EXCEPT ![c].pc = IF runners[r].frpc = "none" THEN "cancel" ELSE "kill",
                                ![c].cancel = runners[r].watch # "off"]
      /\ UNCHANGED <<registered, toml, faults, exits>>

\* /api/stop, then the signals: the process that stop has found ends.
Kill(c) ==
  LET r == calls[c].runner
  IN  /\ calls[c].pc = "kill"
      /\ runners' = [runners EXCEPT ![r].frpc = "dead", ![r].config = {}]
      /\ Goto(c, "cancel")
      /\ UNCHANGED <<registered, toml, faults, exits>>

Cancel(c) ==
  LET r == calls[c].runner
  IN  /\ calls[c].pc = "cancel"
      /\ runners' = [runners EXCEPT ![r].cancelled = @ \/ calls[c].cancel]
      /\ Goto(c, "join")
      /\ UNCHANGED <<registered, toml, faults, exits>>

\* supervise.Wait.
Join(c) ==
  LET r == calls[c].runner
  IN  /\ calls[c].pc = "join"
      /\ runners[r].watch \in {"off", "over"}
      /\ runners[r].poll # "on"
      /\ Return(c)
      /\ UNCHANGED <<registered, runners, toml, faults, exits>>

-----------------------------------------------------------------------------
(***************************************************************************)
(* superviseLoop, statusLoop and frpc.                                     *)
(***************************************************************************)
LookAtCmd(r) ==
  /\ runners[r].watch = "top"
  /\ runners' = [runners EXCEPT ![r].watch = "wait", ![r].saw = runners[r].stopRequested]
  /\ UNCHANGED <<registered, toml, calls, faults, exits>>

\* cmd.Wait returns when the process has ended.
WaitReturns(r) ==
  /\ runners[r].watch = "wait"
  /\ runners[r].frpc = "dead"
  /\ runners' = [runners EXCEPT ![r].watch =
       IF runners[r].cancelled \/ runners[r].saw THEN "over" ELSE "backoff"]
  /\ UNCHANGED <<registered, toml, calls, faults, exits>>

\* The loop after an attempt to spawn that failed.  The mistake is to give up.
AfterFailure_Wrong == "over"
AfterFailure == "top"

\* The backoff is over: the loop spawns again, or fails to.
Respawn(r) ==
  /\ runners[r].watch = "backoff"
  /\ \/ /\ MaySpawn(r)
        /\ runners' = [Spawned(r) EXCEPT ![r].watch = "top"]
        /\ UNCHANGED faults
     \/ /\ IF MaySpawn(r) THEN Fails ELSE UNCHANGED faults
        /\ runners' = [runners EXCEPT ![r].watch = AfterFailure]
  /\ UNCHANGED <<registered, toml, calls, exits>>

\* ctx is done during the backoff.
BackoffCancelled(r) ==
  /\ runners[r].watch = "backoff"
  /\ runners[r].cancelled
  /\ runners' = [runners EXCEPT ![r].watch = "over"]
  /\ UNCHANGED <<registered, toml, calls, faults, exits>>

PollCancelled(r) ==
  /\ runners[r].poll = "on"
  /\ runners[r].cancelled
  /\ runners' = [runners EXCEPT ![r].poll = "over"]
  /\ UNCHANGED <<registered, toml, calls, faults, exits>>

FrpcExits(r) ==
  /\ runners[r].frpc = "up"
  /\ exits < MaxExits
  /\ exits' = exits + 1
  /\ runners' = [runners EXCEPT ![r].frpc = "dead", ![r].config = {}]
  /\ UNCHANGED <<registered, toml, calls, faults>>

Proceed(c) ==
  \/ Find(c) \/ Unregister(c) \/ Register(c) \/ RegisterFails(c) \/ FindAgain(c)
  \/ Render(c) \/ RenderFails(c) \/ Write(c) \/ WriteFails(c)
  \/ Spawn(c) \/ Ready(c) \/ Watch(c)
  \/ Change(c) \/ Reload(c) \/ ReloadFails(c)
  \/ Stop(c) \/ Kill(c) \/ Cancel(c) \/ Join(c)

Loops(r) ==
  \/ LookAtCmd(r) \/ WaitReturns(r) \/ Respawn(r) \/ BackoffCancelled(r) \/ PollCancelled(r)

Next ==
  \/ \E c \in Callers :
       \/ \E op \in {"add", "remove", "start", "stop"}, t \in Tunnels : BeginCall(c, op, t)
       \/ Proceed(c) /\ UNCHANGED overlapped
  \/ \E r \in Runners : (Loops(r) \/ FrpcExits(r)) /\ UNCHANGED overlapped

Spec == Init /\ [][Next]_vars

-----------------------------------------------------------------------------
(***************************************************************************)
(* Properties.                                                             *)
(***************************************************************************)
\* The variables keep their shape.
TypeOK ==
  /\ registered \in Runners \cup {NoRunner}
  /\ runners \in [Runners -> Runner]
  /\ toml \subseteq Tunnels
  /\ calls \in [Callers -> Call]
  /\ overlapped \in BOOLEAN
  /\ faults \in 0 .. MaxFaults
  /\ exits \in 0 .. MaxExits

Up == {r \in Runners : runners[r].frpc = "up"}

\* However Start, AddTunnel, Stop and restarts overlap, when the calls have
\* returned a frpc that runs belongs to the runner that Stop can still reach:
\* none is spawned for a runner that was stopped.
NoProcessLeaks == Quiet => Up \subseteq {registered}

\* The endpoint owns one frpc process.  As long as calls do not overlap there is
\* never a second, whatever exits or fails to start.
OneProcess == ~overlapped => Cardinality(Up) <= 1

\* The endpoint's frpc stays in the driver's hand: Stop can reach what runs, and
\* calls that do not overlap run one.
ProcessInHand == TypeOK /\ NoProcessLeaks /\ OneProcess

\* As long as calls do not overlap, between them the file holds exactly the
\* tunnels of the endpoint's runner and frpc has read it, whether by a reload or by
\* a restart; unless a call has reported that it failed at just that, and none
\* that came later has succeeded.
ReadsItsTunnels ==
  ~overlapped /\ Quiet => \A r \in Up :
    /\ "file" \notin runners[r].missed => toml = runners[r].tunnels
    /\ "frpc" \notin runners[r].missed => runners[r].config = toml

\* A frpc that has exited under the eyes of its loop is to be replaced: however
\* often that fails, the loop does not end before the runner is stopped.
KeepsWatching ==
  \A r \in Runners : runners[r].watch = "over" => runners[r].stopRequested
=============================================================================
