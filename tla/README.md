# FrpDeck in TLA+

FrpDeck is a daemon that manages [frp](https://github.com/fatedier/frp) clients:
operators describe *endpoints* (frp servers) and *tunnels* (proxies through an
endpoint, often temporary), the daemon keeps them in SQLite, runs them through a
driver, and takes a temporary tunnel down when it expires.  This directory
models the parts whose correctness depends on the order of events: goroutines
that interleave, stale copies of rows, timers, crashes, failing calls.

Contents: [inventory](#inventory), [plan](#plan),
[modules](#modules-and-how-they-correspond-to-the-code), [runs](#runs),
[fairness](#fairness), [proofs](#proofs),
[disagreements](#where-the-code-and-its-documentation-disagree),
[not modelled](#what-is-not-modelled).

Paths are relative to the repository's root.  `tlc -config X.cfg M` checks run
`X` of module `M` (PROJECT.json names the pairs), `tlapm M.tla` the proofs of `M`.

## Inventory

| component | state | operations | hard behaviour | what makes it correct |
|---|---|---|---|---|
| Lifecycle manager, `internal/lifecycle` | timer map under a mutex; warnings sent | Schedule, Extend, Renew, StopTunnel, Reconcile (boot, 30 s ticker, control socket), timer callbacks, ReconcileRemoteNodes | a callback that fires while its deadline moves; rows listed and visited later; timers that replace each other; crash | no tunnel expires before its time, every overdue one does, the tracked timer is the row's |
| HTTP handlers, `internal/api` | none beyond the store | create, update, start, stop, delete, renew of tunnels; endpoints; imports; profiles; users; settings | read, several calls, whole-row save, without a lock | deleted rows stay deleted, what is served is what runs |
| CLI, `internal/cli` | none; writes to SQLite itself | the same from another process, then a ping to the daemon | the daemon's memory knows nothing of the write | the ping brings the daemon in line |
| Store, `internal/store` | SQLite with one connection | each statement or transaction is atomic | `Save` is an upsert of a whole row | invariants over rows: one active profile, an admin left |
| Embedded driver, `internal/frpcd/embedded.go` | runner per endpoint, frp service in each | Start, Stop, AddTunnel, RemoveTunnel | three locks, calls made between them | one service per endpoint, with the proxies of its runner |
| Subprocess driver, `internal/frpcd/subprocess*.go` | runner per endpoint, frpc process, frpc.toml | the same, supervise loop, status loop | processes that exit, restart racing stop, shared run directory | one process per endpoint, none after Stop, restarted when it exits |
| Translation, `internal/frpcd/translate.go`, `subprocess_toml.go`; importer, `internal/frpcimport` | none | file to draft, draft to row, row to what a driver tells frp | five tables of fields, kept by hand | frp is told what the file said, by either driver |
| Import, `internal/api/api.go`, `internal/cli/cmds/import.go` | names believed taken | preview, commit, dry run | rows made one by one from names read once | no clash it could see, a true report |
| Event bus, `internal/frpcd/event.go`, bridges in `cmd/server` | ring, subscribers | Publish, Subscribe, cancel, Replay | full channels, ring that wraps, replay followed by live events | newest events recalled in order, nothing between replay and live |
| WebSocket, `internal/api/ws.go`; `frpdeck logs` | topics and a queue per connection; filter and queues per follower | subscribe, unsubscribe, pump, write; follow, interrupt | three goroutines per page, four queues per follower | a page gets what it was told it would, a vanished page is let go |
| Profiles, `internal/store/profile.go`, `internal/api/profile.go` | profile rows, bindings, enabled flags | create, update, activate, deactivate, delete | two transactions per request, stale rows | one active profile, whose flags are in force |
| User accounts, `internal/api/users.go` | user rows | create, update, delete | check and write in separate statements | an active admin is always left |
| Login, `internal/auth`, `internal/captcha` | rows of attempts, pending challenges | LoginHandler with its lockouts and its captcha | gates that count first and record last, settings that move | bounded guesses, a challenge is tried once |
| Runtime settings, `internal/runtime` | settings in memory and in a table | SetMany, LoadFromKV | a save that fails half way, a reload in between | memory and table agree |
| Control socket, `internal/control` | socket file, connections | bind, reload, subscribe, drain | stale sockets, silent clients, shutdown | a set reaches the daemon, the shutdown ends |
| Remote pairing, `internal/remoteops` | node, tunnel, token rows | invite, refresh, accept, exchange, revoke | several writes per operation, reconcile of nodes | a revoked node stays revoked, a standing invitation opens |
| Rate limiter, notifications, templates, diagnostics, download of frpc | little or none | | | |
| Frontend, Android, packaging | | | | |

The parts call each other as follows.  Handlers, the CLI and the manager write
rows; handlers and the manager call the driver (`pushToDriver`) and the timer
map; timers call back into the manager; the driver publishes on its bus, from
which browsers, the control socket and the manager read.  Profiles write the
enabled flags that the reconcile pass reads.  The command line reaches the
daemon by the table and by the control socket, which asks it to read the table
again.

The hazards of this code, each at the line where it bites, are the list
`hazards` of PROJECT.json, with the properties that would notice it going wrong
or the reason why none does.

## Plan

Order was by what matters most to users: a tunnel that expires too early, too
late, or not at all; then what keeps it served; then who may ask for it.

1. `TunnelLifecycle`: store, manager, handlers, CLI, driver as a contract.
2. `EventBus`, implementing `EventLog`; then `EventClients` over the bus.
3. `EmbeddedDriver`, implementing `DriverContract`, the driver that
   `TunnelLifecycle` assumes; then `SubprocessDriver`.
4. `Profiles` and `AdminAccounts`.
5. `RemotePairing`: nodes, their tunnels and tokens, with the pass over nodes.
6. `LoginGuard`: the gates of a login and the captcha.
7. `RuntimeSettings`, composed with the control socket in `ControlChannel`.
8. `TunnelTranslation`: pure algorithms, used by `ImportPipeline`.

All of it is done.  What could follow: a module for the warnings before expiry
(the timer and the pass both publish them) and for `Manager.Stop`; the boot and
the pumps of the mobile shell, which orders them differently from the daemon.

## Modules and how they correspond to the code

Three kinds of names recur.  `..._Wrong` is a definition changed the way a
mistake would change it; only the list `mutants` of PROJECT.json uses it.
*History* variables are for the properties; no action reads them, except to
bound a run.  `overlapped` is one of them in four modules: true once an operation
has begun while another was under way.

### TunnelLifecycle (MCTunnelLifecycle, TunnelLifecycleProofs)

State: `rows` and `endpoints` are the two tables; `wanted` and `live` are what
the driver has been given and what frp runs; `timers` is `Manager.timers`,
`orphans` are armed `time.AfterFunc` timers that the map has lost track of, and
`elapsed` callbacks that have been launched and not yet begun; `phase` says
whether the daemon is down, booting or up; `asked` is history, the earliest
deadline that anybody ever asked for.

The code holds no lock across an operation, so a thread (handler, reconcile
loop, callback, CLI process) is its *plan*: beginning an operation reads the row
and decides which calls follow, and each call (`Step`) is one atomic step: a
driver method, a SQL statement, a critical section of `Manager.mu`.  A plan
carries copies of the row as the handler's `model.Tunnel` does, so that a stale
save is what it is in the code: a save of the whole row, which inserts it when
it is gone.

What overlapping operations may do to a tunnel that is gone or not meant to run
is stated by two action properties, without a condition on the schedule:
`DeletedForGood` (only a thread that held a copy of the row before the delete,
`Holds`, can bring it back, and nobody newly gets hold of one) and
`ServedOnPurpose` (only a thread that makes the row run, or has meant to push it
since it ran, `ToPush`, hands its proxy to the driver).  That between operations
nothing but running rows is served (`ServedIsRunning`) is claimed of operations
one after the other only, since overlap, a failing driver, the CLI and a move
between endpoints each leave a proxy behind (see the disagreements).

Abstractions: names, ports and addresses of tunnels are left out; the ticker,
the boot and the ping of the control socket are all `BeginReconcile`; the lookup
of the endpoint and the driver call after it are one step; a crash ends the
embedded frp services with the daemon; callbacks of one tunnel that are on their
way at the same time are one element of `elapsed`; a new row is stored with the
defaults of gorm's tags; statements of SQLite do not fail.  The warnings before
expiry, `Manager.Stop` and the creation of endpoints are not modelled.

### DriverContract and EmbeddedDriver (EmbeddedDriverProofs)

`DriverContract` is the driver that `TunnelLifecycle` assumes: a set of proxies
wanted and a set served.  `EmbeddedDriver` models one endpoint: `registered` is
`e.runners[ep.ID]`, `runners` are the `endpointRunner` objects with their service,
and `calls` says where each goroutine is between two critical sections.
`Change`, `Copy` and `Update` are the three parts of `addTunnel`: change the map
under `r.mu`, copy it under `r.mu`, hand the copy to the service without a lock.
Any methods may overlap, `Stop` included.  `overtaken` is history: the runners
that a Stop closed between their registration and their launch; the start then
launches a service that the map does not lead to.  They are the one exception
`ServiceInHand` makes.

### SubprocessDriver (MCSubprocessDriver, SubprocessDriverProofs)

The same for frpc as a process.  `Render` and `Write` split `renderTOML` where it
releases the lock, `Spawn` is the critical section of `spawn` and `Ready` the
wait for the admin port, which may fail and then leaves frpc up and unwatched.
The other steps that can fail are actions of their own: no runner can be made
(`RegisterFails`), the file cannot be rendered (`RenderFails`) or written
(`WriteFails`, which may leave it empty), frpc does not answer the reload or
answers 300 or above (`ReloadFails`).  Each ends the call with an error and leaves
what the code leaves: the tunnels of the runner changed, file or frpc as before.
`missed` is history: which of the two steps, tunnels to file and file to frpc,
has failed since it last succeeded; `ReadsItsTunnels` excuses that step only.
`LookAtCmd`, `WaitReturns` and `Respawn` are `superviseLoop`; `PollCancelled` is
the only step of `statusLoop` that matters here.  `toml` is one file for all the
runners of the endpoint because the run directory depends on its id only.  The
tunnels are enabled ones: `BuildSubprocessTOML` leaves disabled ones out, which
the embedded driver does not.  A crash of the daemon, which leaves frpc running,
is not modelled.

### TunnelTranslation and ImportPipeline (SetupProofs, MCImportPipeline)

`TunnelTranslation` has no state: its operators are the five tables of fields
(the parser's drafts, the row of the web, the row of the command line, the typed
structures of the embedded driver, the frpc.toml of the other), each translated
from its own code, over a value abstraction: empty, set, set with blanks, out of
range, broken.  `OtherKeys` is what a table has beside these fields, the `role`
of a visitor; `FrpcReads` is external: frpc, which is strict, refuses a file
with a key that it does not know.  `Effect` is the reference: what frp makes of
an entry. The parsers of TOML, YAML, JSON and INI stand for the entries they
yield: `Entry` and `File` say what frpc accepts.  A name is a base out of
`Bases` and the numbers that renaming has appended; `Key` is what names are
compared by.  `Unique` tries the numbers 2 to 999, as the code does, and then
returns a name that it does not compare (`Unfit`).

`ImportPipeline` is the preview and the commit of the web and the dry run and
the run of `frpdeck import`, row by row, next to tunnels made and deleted by
hand.  `tunnels` are the rows of the endpoint in the order they were made, the
deleted ones included, and `jobs` says how far each importer is: `taken` is the
set of names it believes taken, read once.  `found`, `since` and `foretold` are
history, and so is what a row keeps of its maker and its draft; `faults` counts
inserts that failed and importers that were killed.

### EventLog, EventBus and EventClients (EventClientsProofs, MCEventClients)

`EventLog` is what the bus promises: a bounded memory of the newest events and
bounded inboxes.  `EventBus` is the ring with its indices, the channels with
their capacity, and the bridge goroutines that subscribe, replay and forward.
Publishers read the clock before they take the lock; an event is its instant.
`Record` is the critical section of `Publish`, `ReadHistory` that of `Replay`;
`Unsubscribe` and `CloseChannel` are the two halves of cancel.  What a bridge has
yet to replay keeps the places the events had in the ring (`Backlog`).  The
refinement maps the ring, read from its oldest slot, to the log's memory.

`EventClients` composes the bus with its two kinds of listeners.  A page is a
connection of `ws.go` with its reader, pumper and writer, each an action set of
its own; a follower is `frpdeck logs` with the bridge, the handler, the socket
and the channel of the command.  A frame in the queue of a page is known by its
number only.  `promises` is history: what a page was told, what it is owed, and
how many events reached it unasked since the last answer.

### Profiles (MCProfiles, SetupProofs)

`rows` holds the profiles with their bindings, `enabledEndpoints` and
`enabledTunnels` the flags that `ActivateProfile` sets.  Creating and updating
take two transactions when the profile is active (save, then activate): the
thread keeps the second as `Work`, and a crash forgets it.  The CLI reads a row
in one process step and saves the whole row in a later one (`ReadProfile`,
`SaveProfile`).  Bindings name endpoints and tunnels that exist.  Every tunnel
counts as running, and the reconcile pass is one step, as its interleavings are
the subject of `TunnelLifecycle`.  `unapplied` is history: the profiles that the
CLI has saved as active, or that a crash or a failure of the second transaction
(`ActivateSavedFails`: the request answers 500) has left between the two; their
bindings are not in force until they are activated again.  A transaction that
fails changes nothing, so that no other failure is an action.

### AdminAccounts (MCAdminAccounts, AdministrationProofs)

`users` is the table reduced to role and flag; a request is the copy of the
target it has read and what it decided.  `BeginChange` is `ensureAdmin` with the
read of the account, `CountActiveAdmins` the count, `UpdateUserFields` and
`DeleteUser` the statements that follow.  Every id is used once, as SQLite's
AUTOINCREMENT does.  Names and passwords are left out.

### LoginGuard (MCLoginGuard, LoginGuardProofs)

A request walks through `LoginHandler`: three lockouts (`Limit`), the captcha
gate (`Ask`, `Verify`), the comparison (`Compare`) and the row of the attempt
(`Record`).  The gates count rows and the request becomes one at its end.  Each
gate reads the settings again (`Reconfigure` changes them) and a count that
fails opens the gate, as in the code.  The rate limiter is not modelled: no
route asks it.

### RuntimeSettings and ControlChannel (MCControlChannel, AdministrationProofs)

`RuntimeSettings` is the memory, the table, the requests that change both and
the one call of `LoadFromKV` that holds the lock and reads key by key.
`ControlChannel` says when they happen: the daemon from its boot to its end, the
socket file (none, live, stale), and connections seen from both sides, whose
deadlines are steps that may come at any time.  `control` says whether the daemon
has its socket: `StartControlFails` lets it run on without one, as `StartControl`
of bootstrap.go does.  `excused` is history: a save that failed, a row that could
not be loaded, a change of the table that passed the daemon by (a set that found
no socket of a daemon that runs, for one), or a reload while another request was
saving.

### RemotePairing (RemotePairingProofs)

One daemon's rows for pairings it grants and pairings it was granted, with the
stcp tunnel, the proxy and the keys of each.  `issued` numbers the issuances:
one number stands for the stcp key, the token and its expiry made together.
An operation of `remoteops.Service` is a thread that reads the row and then
makes its calls one by one (`pc`); `Reconcile` is `ReconcileRemoteNodes`, a pass
over rows it listed before.  `voided` is history: keys that an answered
revocation or a newer invitation took back.

## Runs

A passing run finds no error; its bounds are the constants of its `.cfg`.

| run | question | bounds and why they are enough |
|---|---|---|
| LifecycleSerial | operations one after the other, with a crash anywhere: do rows, proxies and timers agree between them, does the boot bring back what was running? | 1 tunnel, since no operation on one reads another; 2 endpoints, to move it; 2 instants after the start, to set, miss and renew a deadline; 1 crash |
| LifecycleShell | CLI processes, passes and callbacks interleave: does nothing expire early? | 1 instant, all commands of the CLI; 1 process, 1 pass and 1 callback make every pair overlap |
| LifecycleOverlap | web requests, passes and callbacks interleave call by call: does the loop alone expire what is overdue and serve what is not; who can bring a deleted tunnel back, who can push one that does not run? | 1 handler, 1 loop and 1 callback make every pair of operations overlap, each with a copy of the one row; 1 crash, 1 failing driver call; create, renew, start and delete are what moves deadlines, brings tunnels up and takes their rows away; stops and the CLI are left to the theorems |
| ClientsOverlap | bus, bridge, pages and followers end to end: does a page get what it was told, does a follower miss nothing, is a vanished page let go, is the bus still the log? | ring of 2, channel of 1, 3 events: both overflow and the ring wraps; queues of 1 or 2 fill up; 1 listener at a time, as listeners share nothing but the bus; 2 frames, to change topics and change them back |
| EmbeddedCalls | is the service in hand however many callers start and stop it, does the loop mend what overtaking updates, failed starts and stops broke; is the driver, while calls do not overlap, the one of the contract, with the proxies of its runner? | 2 callers of every method and the loop: two calls overlap, which is what it takes to send copies in the wrong order, while the loop waits for its turn; 1 tunnel, as a copy that overtakes another loses or keeps a proxy whatever the others are; 2 runners, used again; 1 start that fails |
| SubprocessOverlap | is no frpc left for a runner that was stopped, does its loop keep watching; and, as long as calls do not overlap, is there one process, with its tunnels unless a call answered that it failed? | 2 callers of every method, 1 exit, 1 failing step of any kind; 1 tunnel, as a tunnel is in the file or not; 2 runners |
| ProfilesOverlap | is there one active profile, are the flags its own, does it keep its row, is what it enables served? | 2 HTTP requests and 1 CLI process; 2 profiles, endpoint-wide and single bindings; 1 crash, any number of activations that fail |
| AccountsOverlap | is an admin left, does the admin who alone sends requests stay in charge? | 3 accounts, 2 web requests and 1 CLI command; an update promotes, demotes or disables |
| PairingOverlap | does what was revoked serve nothing and buy no session, does a standing invitation open its pairing, is a dead or late pairing noticed? | 2 pairings, 2 ports and 2 issuances: two compete for a port, and one is refreshed; 1 trouble (failed call, crash, change by hand) without overlap, or an exchange and passes that overlap anything |
| LoginOverlap | how many wrong guesses get through, is a challenge tried once? | 4 requests, 2 at a time, limits of 1 to 3: reached, passed and lapsed within 2 ticks; 2 addresses of one network; strict and lax settings |
| ControlSettings | is a quiet daemon at one with the table, does a stop end, is a client that is gone noticed? | 2 keys, since a load that stops at the first bad row hides the second; 2 command lines, 1 web request, 3 acts, 1 stop or crash, a socket that opens or not |
| ImportOverlap | does no import repeat a name it could see, is its report true, does a dry run foretell the run, are both drivers told what the file said, and when does frpc read it? | 1 browser, 1 command line; files that clash with each other, within themselves and with rows made by hand; every type with every field it has, set, blank, wrong and unset; 1 fault, 2 changes aside |

Some properties are claims about operations that do not overlap.  Where the
state space allows it the run lets them overlap all the same, and a history
variable (`overlapped`, or `unapplied` of `Profiles`, `excused` of
`ControlChannel`, `missed` and `overtaken` of the drivers) says of which
behaviours the claim speaks; the same run then checks what holds of all of them.
In `LifecycleSerial` a constant lets an operation begin only when the others
have ended.  `TypeOK` of a module is part of one of its properties
(`ServiceInHand`, `ProcessInHand`, `AnswersHold`, `Settled`, `ReportIsTrue`) or
is proved.

Deadlock is checked except where the system may really stop: publishers end at
the bound `MaxEvents` and a page that has gone stays gone (`ClientsOverlap`);
requests, imports and calls are used up (`LoginOverlap`, `ImportOverlap`,
`ControlSettings`); a Stop of the subprocess driver may hang
(`SubprocessOverlap`); and starts that a Stop overtook keep their runner objects,
of which TLC has two (`EmbeddedCalls`).

Other bounds: `MaxTime` (the clock), `MaxCrashes`, `MaxFaults` (failing calls,
spawns and starts), `MaxExits` (frpc exits), `MaxEvents` (events published),
`MaxFrames` (frames of a page), `MaxKey` (issuances), `MaxTrouble`, `MaxActs`,
`MaxFalls`, `MaxAsides`, `MaxRequests`, `MaxOpen`.  AccountsOverlap,
LoginOverlap and SubprocessOverlap use symmetry (handlers are alike, accounts
other than the seed, addresses, callers and runners are); none of their
properties is about liveness.  For each property
the list `mutants` of PROJECT.json names a change of one definition, of the kind
a plausible mistake would make, under which the run finds the property violated.

## Fairness

Liveness is claimed under what the code's scheduling justifies and no more.

- `TunnelLifecycle!FairSpec`: the goroutine of the reconcile loop runs, its
  ticker ticks, and the daemon is restarted and completes its boot.  Nothing is
  assumed of requests, of CLI processes, of the clock or of timers: the loop is
  what must make up for a timer that was lost.
- `EmbeddedDriver!FairSpec`: a call that has begun proceeds, and the loop pushes
  the tunnels meant to run again and again (strong fairness, since its turn comes
  between the calls of others).
- `EventClients!ClientsSpec`: the reader, the pumper and the writer of a
  connection and its release run, and the ping of the writer is one of its steps.
  Pages, commands and publishers act when they like.
- `ControlChannel!FairSpec`: the daemon's goroutines run, and deadlines on a
  connection expire; the load, the closing of the socket and the end of the drain
  go on.  Nobody has to call, to hang up or to stop the daemon.
- `RemotePairing!FairSpec`: the pass over nodes ticks and visits what it listed.

`SubprocessDriver` claims safety only: a Stop that overlaps a start may wait for
ever.  `LoginGuard`, `ImportPipeline`, `Profiles` and `AdminAccounts` have
nothing that must happen by itself.

## Proofs

All are checked by TLAPS for every value of the constants, under the `ASSUME`s
of the modules (bounds are natural numbers, tunnel ids are numbers, there is an
endpoint and a filter, the ids a profile names are not 0, "none" is not a
runner, "boot" is not a command line, a text that does not validate is no
value, there is an id for every issuance, files are such as frpc accepts, an
importer is either a browser or a command line, the names that the code treats
apart are among the bases) and those the theorem names.

- **TunnelLifecycleProofs.**  `TypeCorrect`.  `NoEarlyExpiryHolds`: no
  interleaving of any number of threads, with crashes and failing calls, marks a
  tunnel expired before the earliest deadline that was asked for it.  The property
  is not inductive: the rows in the hands of threads, the timers, tracked or
  orphaned, and the callbacks on their way all carry deadlines that later become
  statuses.  `DeadlineInv` says of each of them that it is *warranted* by
  `asked`; `DeadlinesHold` proves it by one lemma per action.
  `TunnelsDeletedForGood` and `ServedOnPurposeHolds` have no condition either, and
  need no invariant but the types.  Both are about what a thread holds before and
  after a step: its calls only become fewer, or it plans anew, and then every
  call of the plan is `Allowed` by the row it has just read, so that on a row that
  is gone nobody newly holds a copy and for one that does not run nobody newly
  means to push (`NoneTakes`, one lemma for each kind of step).  What remains is
  the save or the push itself, which `CallReaches` finds among the calls held
  before.
  While no two operations overlap and the CLI writes nothing: `TimersMatchRows`.
  `SerialInv` says what one operation after the other comes to (whoever holds a
  copy of a row has no deletion of it under way, and what is planned after a
  deletion saves nothing), `TimerInv` that the last save a thread has planned for
  a row and the last call it has planned on its timer agree, and where neither is
  planned the row and the timer agree already.  When moreover no driver call
  fails, `BootRestores`: while the daemon boots each running tunnel is served,
  listed by the pass, or about to be pushed or marked expired (`BootInv`).  The
  next section tells what happens without these conditions.
- **EventClientsProofs.**  Of the bus: `BusTypeCorrect`; `NeverSendsOnClosed`,
  since a channel is closed only after its entry is gone (`ClosedInv`);
  `BusImplementsLog`, the refinement, which rests on the arithmetic of the ring
  (`OldestIs`, `RecordRemembers`). Of its clients: `ClientsUseBus`: each step of
  a client is a step of the bus or leaves it alone, so that
  `ClientsNeverSendOnClosed` and `ClientsSeeLog` follow from the two theorems
  above. `PagesGetAtMostOneStray` and `PagesGetWhatTheyWerePromised` are about
  the three goroutines of a page: the invariant counts the event in the pumper's
  hand, which was matched against the topics of before. `FollowersMissNothing`
  states `NoGap`.  The invariant says where an event that a follower is due may
  be: in the channel, in the backlog of the bridge, in its stream, in the
  socket, in the channel of the command, or printed (`OnTheWay`). Each step
  moves it on to the next place.  What a follower is due changes three times: a
  recorded event enters its channel, as the bridge is attached, or counts as
  missed; and reading the history makes due exactly what the ring still holds,
  for which `WindowInv` says that the ring is what the log ends with.
  `EventTypeCorrect` and `ClientsTypeCorrect` are the types these proofs need.
- **EmbeddedDriverProofs.**  `ServiceInHandHolds`, with no condition on the
  callers, Stop included.  A service that runs is within reach: the map leads to
  it, a Stop is about to close it, or a Stop closed its runner too early
  (`Reached`).  This is inductive because the runner that somebody is about to
  launch is within reach before its service is up (`Held`): a Stop that takes it
  out of the map makes itself the one that closes it, and when it has closed what
  was not yet launched the runner is `overtaken`.  That nothing is overtaken while
  no two calls have overlapped is part of the invariant (`Single`, `Pinned`).
  While no two calls have overlapped: `ServesItsProxiesHolds` and
  `ImplementsContractHolds`, by an invariant that says at each place of the call
  what it and its runner have in common (`Agrees`); the refinement has one lemma
  per action.
- **SubprocessDriverProofs.**  `ProcessInHandHolds` and `KeepsWatchingHolds`, with
  no condition on the callers: `spawn` looks whether the runner was stopped, under
  the lock under which stop says so.  The invariant (`AllHandled`, `Reachable`)
  follows each runner from the map to the stop that marks it.
  `ReadsItsTunnelsHolds` adds `Synced`, which relates call, runner and the file
  at every place of a call, failures included: a step of which `missed` does not say
  that it failed has done its part, or the call that is under way will (each
  failing action has its case in `FailureSynced`).
- **SetupProofs.**  Of profiles: `ProfilesTypeCorrect`; `SingleActiveHolds`,
  which is inductive; `ActiveSurvivesHolds`, with the lemma that what is active
  is stored; `ActiveIsAppliedHolds`, whose invariant `Accounted` says that an
  active profile is in force, about to be activated by the request that saved
  it, or `unapplied` (by the command line, a crash, or a second transaction that
  failed); `EnabledIsServedHolds`.
  Of imports, for any files and any number of
  importers at once: `ImportTypeCorrect`; `ReportIsTrueHolds`, by `HonestInv`,
  which relates three things of an importer at every item of its loop: what it
  has reported, the rows that bear its name, and the names it believes taken,
  each of which was found or is one it has made itself.
  `NoClashItCouldSeeHolds` needs one condition, `FewTunnels`: the endpoint has
  had fewer tunnels, with the drafts of any one import, than the code has
  numbers to try.  Then one of them is free (`Pigeons`); without it the name
  past the last number may be anybody's. `DryRunForetellsHolds`: `Verdict` says
  what names found, file and strategy, with the items before, make of each
  draft; a dry run and a run both follow it as long as nothing fails, so that by
  `ForetellInv` two runs that found the same names agree item by item.
  `ImportIsFaithfulHolds` takes the steps of a tunnel apart.  By `FaithInv` a
  row is for ever what its draft became.  Draft, row, frpc.toml and typed
  structures each keep what frp makes of the entry (`DraftMeans`, `RowMeans`,
  `TableMeans`, `EmbeddedMeans`): two tables of fields are `Alike` when frp,
  which trims, does the same with both.  No frpc.toml is lost, since frpc
  accepts no file with options that cannot be written to it; and frpc reads it
  as long as no visitor is in it, whose table has a key that frpc refuses.
  `ServerMeans` is the same for the server.
- **AdministrationProofs.**  Of accounts: `AccountsTypeCorrect`;
  `KeepsAnAdminHolds` as long as no operation has overlapped another: the
  invariant relates the copies a request holds to the table; served one after
  the other, the rule that nobody may change the own account alone keeps an
  admin on the web, and the count is what the CLI needs; `ActorsStayHolds`,
  where the invariant says at whom the requests of the only sender aim;
  `AccountsDeletedForGood`.
  Of settings: `ControlTypeCorrect`, by which no row,
  however it got into the table, brings a value into memory that does not
  validate; and `SettledHolds`, for any number of keys, of command lines and of
  web requests, across stops and crashes. `Settled` speaks only of a daemon at
  rest.  The invariant (`SettledInv`) says of any other moment why memory and
  table differ on a key (`Explained`): a load has not come to it yet, a set of
  the command line will still ask for a reload (`Pending`), or a web request has
  yet to save it.  Each of these ends with the two in agreement, because a load
  walks the keys in order and holds the lock to its end, because the boot starts
  from the defaults before anybody can connect (`PhaseShape`), and because what
  the one request that is saving has left is what the memory holds
  (`SaveShape`).  Where a step can break this, `excused` becomes true, a set
  that finds no socket of a daemon that runs among them: the proof shows that
  the list of excuses is complete.
- **LoginGuardProofs.**  `LoginTypeCorrect`; `ChallengeTriedOnceHolds`, which needs
  that a challenge somebody has tried is gone for good (`AnswersConsume`);
  `GuessesBounded`.  What a gate counts is not what it must bound: a guess is on its
  way before it is a row.  `BoundInv` therefore counts the handlers that have passed
  a gate together with the rows, and says that both together stay within the
  limit and the slack.  Only two steps add to them.  The gate of the user names adds
  one, and has just found fewer rows than the limit, while the others on their way
  are open; the captcha gate, the same way; and a statement that fails pays for the
  one it lets pass.  A change of the settings and the clock only take guesses away.
- **RemotePairingProofs.**  `PairingTypeCorrect`, however operations overlap: that
  the next id exists needs a function from ids to the issuances that used them up
  (`Room`).  The rest is about operations that do not overlap; then a pass has read
  the rows as they are (`AloneInv`).  `VisitorsKeepApart`: the port that an
  acceptance found stays free until its row is written.  `TokenTakenBack`: neither
  a stored row nor one that an operation will write back is opened by a voided key.
  `AnsweredHolds` has two halves.  While no call fails, a revocation writes its row
  after tunnel and proxy are gone, and a tunnel that is missing has no proxy unless
  one was just pushed, whose row follows (`ShutInv`); crashes are allowed.  When
  nothing went wrong at all, each key that was handed out stands in row, tunnel and
  proxy, or the operation under way takes it back; of who hands one out, the
  invariant says what is in place at each call (`OpenInv`).

Only model-checked: everything about liveness, which the provers cannot do, and
`ServedIsRunning`.  Only proved: most of the types, the invariants that
other theorems rest on (`DeadlinesHold`, `ClientsUseBus`), and of accounts
`AccountsDeletedForGood`, which follows from what one statement does.

## Where the code and its documentation disagree

The models behave as follows, contrary to what comments, messages or other code
let one expect.  Each was met while modelling.  No run is kept for these: the
passing runs are about what the code does ensure, and these are why some of
their properties speak of operations that do not overlap, or of fewer
behaviours.

Lifecycle and driver:

- Clearing a deadline cancels the timer, and a stale callback is said to be
  unable to expire a permanent tunnel (`manager.go:146-148`); a callback that was
  launched before rechecks the status only (`manager.go:469`) and expires it, as it
  does a tunnel that was renewed meanwhile.
- A save writes the whole row and inserts it when it is gone (`store.go:231`):
  an update, start, stop, extend or expiry that overlaps a delete brings the
  tunnel back.
- `frpdeck tunnel stop` asks the daemon to tear the tunnel down
  (`tunnel.go:389`); the pass looks at pending and active rows only, and the proxy
  stays.  `tunnel extend --duration 0` (`tunnel.go:432`) leaves the daemon's timer
  armed, and it expires the tunnel that was to be permanent.
- A stop whose driver call fails, or which a pass that listed the row earlier
  overtakes, leaves the proxy up, as passes do not visit stopped rows
  (`manager.go:251-258`, `265`); a pass between the two halves of an endpoint's
  deletion starts it again (`api.go:373`).  An update that moves an active tunnel
  to another endpoint pushes it there, "so the operator does not have to manually
  stop/start" (`api.go:510`), and leaves the proxy it had.
- `Manager.Stop` empties the timer map but keeps no callback or pass from arming a
  new timer (`manager.go:139`), and the expiring warning is recorded as sent before
  it is published (`manager.go:514`).
- A Stop between the registration of a runner and its start takes it out and
  closes nothing; the start then launches a service that no call can reach
  (`embedded.go:8`, `120`).  With subprocesses it may wait for a loop that is never
  cancelled (`subprocess_runner.go:167`), and a runner added meanwhile spawns a
  second frpc (`subprocess.go:3-5`, `18-20`).
- A runner whose start has failed stays in the map and hides the endpoint from
  AddTunnel (`embedded.go:118`, `138-140`).
- Copies of the proxies may reach the frp service in the opposite order
  (`embedded.go:9-10`), and frpc.toml may be overwritten with an older set.
- An update of frpc that fails (the file cannot be rendered or written, the admin
  port does not answer or answers 300 or above) keeps the change in the runner and
  frpc with the tunnels of before, until a later call succeeds
  (`subprocess_runner.go:196-229`).
- A daemon that is killed leaves its frpc processes running, and the next boot
  spawns others with the same tunnels (`subprocess_runner.go:266`).

Events:

- Two publishers may stamp and record in opposite orders, so that Replay is not
  chronological (`event.go:143`); an event between subscription and replay is
  sent twice (`control/server.go:78-82`).
- Replayed history is said to be dropped when the channel is full
  (`bootstrap.go:315-319`); the bridge blocks.
- An interrupted `frpdeck logs -f` may report that the daemon closed the
  subscription (`logs.go:138-149`); an acknowledgement may precede the hello of a
  page.

Profiles and accounts:

- Activating a profile does not tear down what it disables (`profile.go:276`).
- Creating or updating an active profile saves it as active and activates it in a
  second transaction; when that one fails the request answers 500 with the profile
  active and its bindings not in force (`api/profile.go:151-154`, `204-207`).
- The rule that keeps an admin is said to be enforced atomically
  (`users.go:320`); admins are counted in one statement and written in another
  (`users.go:376`, `386`, `489`, `500`), so that two requests take both out.

Login and settings:

- `retry_after` is the minutes of the lockout though the window may be longer
  (`auth.go:210-211`); attempts during a lockout are failures on record and
  renew it.
- A load from the table does not fire hooks and stops at the first row that does
  not validate, which hides the later ones.  A request that saves while a reload
  comes in between leaves memory and table apart until the restart
  (`settings.go:263`).
- `runtime set` while the daemon boots finds nobody and says that it is not
  running.  So it does for as long as the daemon lives when its socket could not be
  bound (`bootstrap.go:134`): the table has changed, and the memory follows at
  the next boot.  A connection accepted just before the shutdown may run its request
  after the teardown, as Close waits for two seconds only (`server.go:3-8`).  A
  second daemon started by hand removes the first one's socket before it fails on
  the port.

Remote pairing:

- A revocation is called not reversible (`cmds/remote.go:297`); the pass over
  nodes and the refresh save whole rows that they read before (`manager.go:388`,
  `remoteops.go:357`), and a revoked pairing becomes expired or offline, from which
  `remoteops.go:282` lets it be refreshed.
- A reconcile pass over tunnels between the teardown of a revocation and its delete
  of the tunnel serves the proxy again (`remoteops.go:446`).
- Two acceptances at once may choose the same local port (`api/remote.go:470`).

Import:

- A dropped field is to be warned of (`parse.go:174`); a visitor's server user is
  dropped without a word, and so are the warnings of a proxy that yields no draft.
- The table of a visitor has a key `role` (`subprocess_toml.go:262`, which
  `subprocess_toml_test.go:164` asks for).  The visitor options of frp have
  none, and frpc refuses a file with a key it does not know unless told
  otherwise, which the driver does not (`subprocess_runner.go:266` passes `-c`
  only): with a visitor in it the file is refused, the proxies of the endpoint
  with it.  What frpc knows is that of frp v0.68.1 (`go.mod:8`), which is not
  part of the repository.
- A disabled heartbeat is dropped by the import and by frpc.toml, and passed on by
  the embedded driver.  mTLS files are kept, and neither driver reads them.  The
  embedded driver ignores plugins.
- One tunnel with broken plugin options keeps frpc.toml from being made for all
  tunnels of its endpoint.
- The command line trims more than the web, validates nothing, and gives up at the
  first clash without telling the daemon of what it has made
  (`cmds/import.go:18-22`); a strategy the web does not know falls back to that of
  the batch (`api.go:820-822`).
- Two importers, or one and a tunnel made by hand, take the same name, and an
  endpoint deleted during a commit leaves tunnels without one.

## What is not modelled

- Password hashing, the signing of JWTs and the image of a captcha: cryptography
  and drawing, which the models take for granted.
- The parsers of the importer and the text of an invitation: what they yield is
  enumerated instead.
- The download of frpc, the diagnostics, the templates, the frps helper: network
  probes and pure functions over text.
- Notifications: fire and forget, no state.  The rate limiter: no route asks it,
  so that there is no behaviour of the system to check it in.
- The warnings before expiry, `Manager.Stop`, the purges of old rows that nobody
  calls, and audit rows.
- The mobile shell, which runs the same core with a boot order of its own (it
  subscribes to the bus after the first pass, and its Stop never stops the
  driver), the tray, the frontend and packaging.

PROJECT.json says for each component what is left out of it.
