--------------------------- MODULE ControlChannel ---------------------------
(***************************************************************************)
(* The control socket between the command line and the daemon, from the    *)
(* daemon's boot to its end, and the settings it exists to reload.         *)
(*                                                                         *)
(* A call is one connection, seen from both sides: `runtime set` writes    *)
(* the row itself and asks the daemon to reload, `logs` follows the        *)
(* events, and the other commands ask for something that leaves the        *)
(* settings alone.  Deadlines are steps that may come at any time.  There  *)
(* is one daemon per data directory.                                       *)
(***************************************************************************)
EXTENDS RuntimeSettings

CONSTANTS
  Calls,     \* command lines at work at the same time
  Sets,      \* keys and values that the command line sets
  Batches,   \* bodies of PUT /api/runtime-settings
  Raws,      \* keys and texts that PUT /api/settings saves
  MaxActs,   \* bound: calls, web requests and failed queries
  MaxFalls   \* bound: stops and crashes of the daemon

ASSUME InputsAssumption ==
  /\ Sets \subseteq Keys \X Values
  /\ Batches \subseteq Batch
  /\ Raws \subseteq Keys \X {Bad}
ASSUME LoadersAssumption == Loaders = Calls \cup {"boot"} /\ "boot" \notin Calls
ASSUME ActsAssumption == MaxActs \in Nat /\ MaxFalls \in Nat

VARIABLES
  daemon,   \* how far program.run or Runtime.Close is
  socket,   \* the socket file: none, live, or stale, with nobody listening
  control,  \* whether Runtime.Control is set: the daemon has opened its socket
  calls,
  excused,  \* history: memory and table may differ, for a reason the code admits
  acts, falls

channelVars == <<daemon, socket, control, calls>>
controlVars == <<settingsVars, channelVars, excused, acts, falls>>

Phases == {"down", "loading", "serving", "up", "draining", "closing"}
Live == {"loading", "serving", "up", "draining"}

\* The client and the daemon's goroutine, each where it stands; sent: the
\* request is written.
Call == [cmd : {"none", "set", "follow", "ask"},
         client : {"idle", "dialling", "connected", "streaming", "closed"},
         server : {"none", "queued", "reading", "dispatch", "working", "streaming"},
         sent : BOOLEAN]
NoCall == [cmd |-> "none", client |-> "idle", server |-> "none", sent |-> FALSE]

ControlInit ==
  /\ SettingsInit
  /\ daemon = "down"
  /\ socket = "none"
  /\ control = FALSE
  /\ calls = [c \in Calls |-> NoCall]
  /\ excused = FALSE
  /\ acts = 0
  /\ falls = 0

Act == acts < MaxActs /\ acts' = acts + 1
Excuse(reason) == excused' = (excused \/ reason)
IsSet(c) == calls[c].cmd = "set"

-----------------------------------------------------------------------------
(***************************************************************************)
(* The client: cmds/runtime.go, control.Client.                            *)
(***************************************************************************)
StartSet(c, k, v) ==
  /\ calls[c] = NoCall
  /\ SetRow(k, v)
  /\ calls' = [calls EXCEPT ![c].cmd = "set", ![c].client = "dialling"]
  /\ Act
  /\ UNCHANGED <<daemon, socket, control, excused, falls>>

StartCall(c, cmd) ==
  /\ calls[c] = NoCall
  /\ calls' = [calls EXCEPT ![c].cmd = cmd, ![c].client = "dialling"]
  /\ Act
  /\ UNCHANGED <<settingsVars, daemon, socket, control, excused, falls>>

\* No file, or nobody behind it: the daemon is taken to be off, and a set that
\* has saved its row has succeeded.  A daemon that is booting, or that could not
\* open its socket, is missed.
Dial(c) ==
  /\ calls[c].client = "dialling"
  /\ IF socket = "live"
     THEN /\ calls' = [calls EXCEPT ![c].client = "connected", ![c].server = "queued"]
          /\ UNCHANGED excused
     ELSE /\ calls' = [calls EXCEPT ![c] = NoCall]
          /\ Excuse(IsSet(c) /\ daemon \in Live /\ ~control)
  /\ UNCHANGED <<settingsVars, daemon, socket, control, acts, falls>>

Send(c) ==
  /\ calls[c].client = "connected"
  /\ ~calls[c].sent
  /\ calls[c].server # "none"
  /\ calls' = [calls EXCEPT ![c].sent = TRUE]
  /\ UNCHANGED <<settingsVars, daemon, socket, control, excused, acts, falls>>

\* The connection of a call that is over on this side.
Ended(call) == IF call.server = "none" THEN NoCall ELSE [call EXCEPT !.client = "closed"]

\* The deadline, an interrupt, or a connection that the daemon has closed.  A
\* request that is written is served all the same.
GiveUp(c) ==
  /\ calls[c].client \in {"dialling", "connected"}
  /\ calls' = [calls EXCEPT ![c] = Ended(@)]
  /\ Excuse(IsSet(c) /\ ~calls[c].sent)
  /\ UNCHANGED <<settingsVars, daemon, socket, control, acts, falls>>

HangUp(c) ==
  /\ calls[c].client = "streaming"
  /\ calls' = [calls EXCEPT ![c] = Ended(@)]
  /\ UNCHANGED <<settingsVars, daemon, socket, control, excused, acts, falls>>

-----------------------------------------------------------------------------
(***************************************************************************)
(* The server: a goroutine per connection.                                 *)
(***************************************************************************)
Accept(c) ==
  /\ calls[c].server = "queued"
  /\ socket = "live"
  /\ calls' = [calls EXCEPT ![c].server = "reading"]
  /\ UNCHANGED <<settingsVars, daemon, socket, control, excused, acts, falls>>

Listen(call) ==
  [call EXCEPT !.server = "streaming",
               !.client = IF @ = "connected" THEN "streaming" ELSE @]

ReadRequest(c) ==
  /\ calls[c].server = "reading"
  /\ calls[c].sent
  /\ calls' = [calls EXCEPT ![c] = IF @.cmd = "follow" THEN Listen(@)
                                   ELSE [@ EXCEPT !.server = "dispatch"]]
  /\ UNCHANGED <<settingsVars, daemon, socket, control, excused, acts, falls>>

Dropped(call) ==
  IF call.client = "connected" THEN [call EXCEPT !.server = "none"] ELSE NoCall

\* The client is gone, or is silent for five seconds.
ReadFails(c) ==
  /\ calls[c].server = "reading"
  /\ ~calls[c].sent
  /\ calls' = [calls EXCEPT ![c] = Dropped(@)]
  /\ UNCHANGED <<settingsVars, daemon, socket, control, excused, acts, falls>>

\* ping, reconcile, invoke: whether the answer arrives is the client's affair.
Answer(c) ==
  /\ calls[c].server = "dispatch"
  /\ calls[c].cmd = "ask"
  /\ calls' = [calls EXCEPT ![c] = NoCall]
  /\ UNCHANGED <<settingsVars, daemon, socket, control, excused, acts, falls>>

\* reload_runtime.  A web request that has changed the memory and is still
\* saving has its change undone, and its row saved afterwards.
Reload(c) ==
  /\ calls[c].server = "dispatch"
  /\ IsSet(c)
  /\ BeginLoad(c)
  /\ calls' = [calls EXCEPT ![c].server = "working"]
  /\ Excuse(Saving # {})
  /\ UNCHANGED <<daemon, socket, control, acts, falls>>

Reloaded(c) ==
  /\ LoadDone(c)
  /\ calls' = [calls EXCEPT ![c] = NoCall]
  /\ UNCHANGED <<daemon, socket, control, excused, acts, falls>>

BadRow == load.next \in Keys /\ table[load.next] = Bad

\* A query that fails by itself counts against the bound.
Fault == IF BadRow THEN UNCHANGED acts ELSE Act

ReloadFails(c) ==
  /\ LoadFails(c)
  /\ Fault
  /\ calls' = [calls EXCEPT ![c] = NoCall]
  /\ Excuse(TRUE)
  /\ UNCHANGED <<daemon, socket, control, falls>>

Load == LoadKey /\ UNCHANGED <<channelVars, excused, acts, falls>>

\* Only a failed write ends the stream.
EndStream_Wrong(c) ==
  /\ calls[c].server = "streaming"
  /\ calls[c].client = "closed"
  /\ daemon = "closing"
  /\ calls' = [calls EXCEPT ![c] = NoCall]
  /\ UNCHANGED <<settingsVars, daemon, socket, control, excused, acts, falls>>

\* A second goroutine reads the connection to notice that the client is gone.
EndStream(c) ==
  /\ calls[c].server = "streaming"
  /\ calls[c].client = "closed"
  /\ calls' = [calls EXCEPT ![c] = NoCall]
  /\ UNCHANGED <<settingsVars, daemon, socket, control, excused, acts, falls>>

-----------------------------------------------------------------------------
(***************************************************************************)
(* The web side of the settings.                                           *)
(***************************************************************************)
WebPut(p) ==
  /\ daemon \in {"serving", "up"}
  /\ \E batch \in Batches : BeginPut(p, batch)
  /\ Act
  /\ UNCHANGED <<channelVars, excused, falls>>

\* Two batches may be applied in one order and saved in the other.
WebApply(p) ==
  /\ Apply(p)
  /\ Excuse(Saving # {})
  /\ UNCHANGED <<channelVars, acts, falls>>

WebSave(p) == Save(p) /\ UNCHANGED <<channelVars, excused, acts, falls>>

WebSaveFails(p) ==
  /\ SaveFails(p)
  /\ Excuse(TRUE)
  /\ Act
  /\ UNCHANGED <<channelVars, falls>>

\* A text that validates is a set without its call.
WebRaw(k, v) ==
  /\ daemon \in {"serving", "up"}
  /\ PutRaw(k, v)
  /\ Excuse(TRUE)
  /\ Act
  /\ UNCHANGED <<channelVars, falls>>

-----------------------------------------------------------------------------
(***************************************************************************)
(* The daemon: bootstrap, program.run, program.Stop, Runtime.Close.        *)
(***************************************************************************)
Boot ==
  /\ daemon = "down"
  /\ BeginLoad("boot")
  /\ daemon' = "loading"
  /\ excused' = FALSE
  /\ UNCHANGED <<socket, control, calls, acts, falls>>

BootLoaded ==
  /\ LoadDone("boot")
  /\ daemon' = "serving"
  /\ UNCHANGED <<socket, control, calls, excused, acts, falls>>

\* The error is logged and the boot goes on.
BootLoadFails ==
  /\ LoadFails("boot")
  /\ Fault
  /\ daemon' = "serving"
  /\ Excuse(TRUE)
  /\ UNCHANGED <<socket, control, calls, falls>>

\* A file that is there already disables the channel.
StartControl_Wrong ==
  /\ daemon = "serving"
  /\ daemon' = "up"
  /\ socket' = IF socket = "stale" THEN socket ELSE "live"
  /\ control' = TRUE
  /\ UNCHANGED <<settingsVars, calls, excused, acts, falls>>

\* Whatever file a crash has left is removed before the listener is opened.
StartControl ==
  /\ daemon = "serving"
  /\ daemon' = "up"
  /\ socket' = "live"
  /\ control' = TRUE
  /\ UNCHANGED <<settingsVars, calls, excused, acts, falls>>

\* The file that is there cannot be removed, or no listener opened: the daemon
\* goes on without the channel.
StartControlFails ==
  /\ daemon = "serving"
  /\ daemon' = "up"
  /\ socket' \in {socket, "none"}
  /\ UNCHANGED <<settingsVars, control, calls, excused, acts, falls>>

BeginStop ==
  /\ daemon = "up"
  /\ falls < MaxFalls
  /\ daemon' = "draining"
  /\ falls' = falls + 1
  /\ UNCHANGED <<settingsVars, socket, control, calls, excused, acts>>

\* The web server has stopped, or ten seconds are over.  Closing the listener
\* removes the file and resets what nobody has accepted; a daemon without the
\* channel has none to close.
CloseSocket ==
  /\ daemon = "draining"
  /\ daemon' = "closing"
  /\ socket' = IF control THEN "none" ELSE socket
  /\ control' = FALSE
  /\ calls' = [c \in Calls |-> IF calls[c].server = "queued" THEN Dropped(calls[c])
                               ELSE calls[c]]
  /\ UNCHANGED <<settingsVars, excused, acts, falls>>

\* The process is gone: its connections are closed, its memory is lost.
Exit ==
  /\ Forget
  /\ daemon' = "down"
  /\ control' = FALSE
  /\ calls' = [c \in Calls |-> IF calls[c].server = "none" THEN calls[c]
                               ELSE Dropped(calls[c])]
  /\ UNCHANGED <<excused, acts>>

\* Waits for every connection.
Finish_Wrong ==
  /\ daemon = "closing"
  /\ \A c \in Calls : calls[c].server = "none"
  /\ Exit
  /\ UNCHANGED <<socket, falls>>

\* Runtime.Close waits for the connections, two seconds at most, and tears the
\* rest down.
Finish ==
  /\ daemon = "closing"
  /\ Exit
  /\ UNCHANGED <<socket, falls>>

Crash ==
  /\ daemon # "down"
  /\ falls < MaxFalls
  /\ Exit
  /\ socket' = IF socket = "live" THEN "stale" ELSE socket
  /\ falls' = falls + 1

-----------------------------------------------------------------------------
Client(c) ==
  \/ \E s \in Sets : StartSet(c, s[1], s[2])
  \/ \E cmd \in {"follow", "ask"} : StartCall(c, cmd)
  \/ Dial(c) \/ Send(c) \/ GiveUp(c) \/ HangUp(c)

Server(c) ==
  \/ Accept(c) \/ ReadRequest(c) \/ ReadFails(c) \/ Answer(c)
  \/ Reload(c) \/ Reloaded(c) \/ EndStream(c)

Web(p) ==
  \/ WebPut(p) \/ WebApply(p) \/ WebSave(p) \/ WebSaveFails(p)

Daemon == Boot \/ BootLoaded \/ BootLoadFails \/ StartControl \/ StartControlFails
            \/ BeginStop \/ Crash

ControlNext ==
  \/ \E c \in Calls : Client(c) \/ Server(c) \/ ReloadFails(c)
  \/ \E p \in Puts : Web(p)
  \/ \E r \in Raws : WebRaw(r[1], r[2])
  \/ Load \/ Daemon \/ CloseSocket \/ Finish

ControlSpec == ControlInit /\ [][ControlNext]_controlVars

\* A process runs its goroutines, and its deadlines expire; nobody has to call,
\* to hang up or to stop the daemon.
FairSpec ==
  /\ ControlSpec
  /\ \A c \in Calls : WF_controlVars(Server(c)) /\ WF_controlVars(BadRow /\ ReloadFails(c))
  /\ WF_controlVars(Load)
  /\ WF_controlVars(CloseSocket) /\ WF_controlVars(Finish)

-----------------------------------------------------------------------------
(***************************************************************************)
(* Properties.                                                             *)
(***************************************************************************)

\* All variables keep their shape; the memory holds only values that validate.
ControlTypeOK ==
  /\ SettingsTypeOK
  /\ daemon \in Phases
  /\ socket \in {"none", "live", "stale"}
  /\ control \in BOOLEAN
  /\ calls \in [Calls -> Call]
  /\ excused \in BOOLEAN
  /\ acts \in 0 .. MaxActs
  /\ falls \in 0 .. MaxFalls

\* When nobody is changing the settings, the daemon works with what the table
\* says: after a boot, a request of the web, a set of the command line whose
\* client gave up waiting, a crash.  The exceptions are those the code admits:
\* a row that was not saved or not loaded, a change to the table that passed
\* the daemon by (a set that found no socket, for one), and a reload or a second
\* request while one is saving.  At no
\* time does the memory hold a value that does not validate (ControlTypeOK).
Settled ==
  /\ ControlTypeOK
  /\ (/\ daemon \in {"serving", "up", "draining"}
      /\ load = NoLoad
      /\ Writing = {}
      /\ \A c \in Calls : ~IsSet(c)
      /\ ~excused)
     => \A k \in Keys : memory[k] = InForce(k)

\* A daemon that is told to stop is gone in the end, whoever follows its events
\* and does not hang up.
ShutdownEnds == daemon = "draining" ~> daemon = "down"

\* The daemon notices every client that has gone: no connection, and with it no
\* subscription, outlives its client.
Gone == {c \in Calls : calls[c].client = "closed"}
GoneIsNoticed == Gone # {} ~> Gone = {}
=============================================================================
