--------------------------- MODULE ImportPipeline ---------------------------
(***************************************************************************)
(* Importing the tunnels of a frpc configuration file into one endpoint,   *)
(* from the web interface (a preview, then a commit) and from the command  *)
(* line, several at a time, while tunnels are made and deleted by hand.    *)
(* An import reads the names of the endpoint once, when it begins, and     *)
(* then makes the rows one by one, each in a call of its own to SQLite.    *)
(***************************************************************************)
EXTENDS TunnelTranslation, FiniteSets

CONSTANTS
  Handlers,    \* browsers that import, each once
  Commands,    \* frpdeck import commands
  Files,       \* the files there are, by id
  Plans,       \* what the importers may bring: [file, strategy] each
  HandNames,   \* names of tunnels made by hand, which nobody compares
  MaxFaults,   \* bound: inserts that fail, and importers that are killed
  MaxAsides    \* bound: those, tunnels made by hand and tunnels deleted, together

ASSUME ImportersAssumption == Handlers \cap Commands = {} /\ "hand" \notin Handlers \cup Commands
ASSUME FilesAssumption == \A f \in DOMAIN Files : Files[f] \in File
ASSUME FaultsAssumption == MaxFaults \in Nat /\ MaxAsides \in Nat

Importers == Handlers \cup Commands

VARIABLES
  tunnels,  \* the tunnels of the endpoint, by id, the deleted ones included
  jobs,     \* the import each importer is in
  faults

importVars == <<tunnels, jobs, faults>>

Strategies == {"error", "skip", "rename"}
ASSUME PlansAssumption ==
  /\ Plans \subseteq [Importers -> [file : DOMAIN Files, strategy : Strategies]]
  /\ HandNames \subseteq TunnelName

Phases == {"idle", "previewed", "running", "done", "aborted", "lost"}

\* item is the place of the draft the row was made from, 0 for a row made by
\* hand.
MadeByHand(n) ==
  [name |-> n, maker |-> "hand", item |-> 0, alive |-> TRUE, gist |-> <<>>]

\* No dry run has been made.
NoReport == [phase |-> "idle", found |-> {}, report |-> <<>>]

\* own holds a strategy for each draft, or "". taken is what the importer
\* believes taken, found what it read, since how many rows there were.
NewJob(brought) ==
  [phase |-> "idle", file |-> brought.file, own |-> <<>>,
   strategy |-> brought.strategy, dry |-> FALSE, taken |-> {}, found |-> {},
   since |-> 0, report |-> <<>>, foretold |-> NoReport]

\* frpcimport.Parse of each file.
Drafts == [f \in DOMAIN Files |-> Parse(Files[f])]
DraftsOf(i) == Drafts[jobs[i].file]

ImportInit ==
  /\ tunnels = <<>>
  /\ \E plan \in Plans : jobs = [i \in Importers |-> NewJob(plan[i])]
  /\ faults = 0

Live == {r \in DOMAIN tunnels : tunnels[r].alive}
Names == {Key(tunnels[r].name) : r \in Live}
Asides ==
  Cardinality({r \in DOMAIN tunnels : tunnels[r].maker = "hand"})
    + Cardinality(DOMAIN tunnels \ Live) + faults

-----------------------------------------------------------------------------
\* handleCreateTunnel: the name is not compared with the others.
CreateByHand(n) ==
  /\ Asides < MaxAsides
  /\ tunnels' = Append(tunnels, MadeByHand(n))
  /\ UNCHANGED <<jobs, faults>>

DeleteTunnel(r) ==
  /\ Asides < MaxAsides
  /\ r \in Live
  /\ tunnels' = [tunnels EXCEPT ![r].alive = FALSE]
  /\ UNCHANGED <<jobs, faults>>

\* handleImportTunnelsPreview marks the drafts whose names are taken; the
\* user keeps what the page then proposes: to rename those.
Preview(h) ==
  /\ jobs[h].phase = "idle"
  /\ jobs' = [jobs EXCEPT ![h] =
       [@ EXCEPT !.phase = "previewed",
                 !.own = [k \in DOMAIN DraftsOf(h) |->
                   IF Key(DraftsOf(h)[k].name) \in Names THEN "rename" ELSE ""]]]
  /\ UNCHANGED <<tunnels, faults>>

\* The names are read once.
Began(job, dry) ==
  [job EXCEPT !.phase = "running", !.dry = dry,
              !.taken = Names, !.found = Names, !.since = Len(tunnels)]

\* handleImportTunnelsCommit, up to the loop over the drafts.
BeginCommit(h) ==
  /\ jobs[h].phase = "previewed"
  /\ DraftsOf(h) # <<>>
  /\ jobs' = [jobs EXCEPT ![h] = Began(@, FALSE)]
  /\ UNCHANGED <<tunnels, faults>>

\* frpdeck import, up to its loop.
BeginCommand(s, dry) ==
  /\ jobs[s].phase = "idle"
  /\ jobs' = [jobs EXCEPT ![s] = Began(@, dry)]
  /\ UNCHANGED <<tunnels, faults>>

\* The same command again, without --dry-run.
RepeatCommand(s) ==
  /\ jobs[s].phase \in {"done", "aborted"} /\ jobs[s].dry
  /\ jobs' = [jobs EXCEPT ![s] =
       Began([@ EXCEPT !.report = <<>>,
                       !.foretold = [phase |-> jobs[s].phase, found |-> jobs[s].found,
                                     report |-> jobs[s].report]], FALSE)]
  /\ UNCHANGED <<tunnels, faults>>

-----------------------------------------------------------------------------
Place(i) == Len(jobs[i].report) + 1
Current(i) == DraftsOf(i)[Place(i)]

\* normaliseConflictStrategy: the draft's own, or the one for all.
Strategy(i) ==
  IF i \in Handlers /\ jobs[i].own[Place(i)] # "" THEN jobs[i].own[Place(i)]
  ELSE jobs[i].strategy

Conflicts(i) == Key(Current(i).name) \in jobs[i].taken

\* uniqueImportName has a name for a draft that has none.
Base(i) ==
  IF i \in Handlers /\ Blank(Current(i).name) THEN [Current(i).name EXCEPT !.base = "imported"]
  ELSE Current(i).name
Renamed(i) ==
  IF Conflicts(i) THEN [Current(i) EXCEPT !.name = Unique(Base(i), jobs[i].taken)]
  ELSE Current(i)

Item(result, name, id) == [result |-> result, name |-> name, id |-> id]
Reported(i, item, taken) ==
  jobs' = [jobs EXCEPT ![i].report = Append(@, item), ![i].taken = taken]

NewTunnel(i) ==
  IF i \in Handlers THEN applyToTunnel(importDraftToReq(Renamed(i)))
  ELSE tunnelFromDraft(Renamed(i))

HasNext(i) ==
  /\ jobs[i].phase = "running"
  /\ Place(i) <= Len(DraftsOf(i))

\* The draft is not imported: its name is taken, or the web refuses it.
Pass(i) ==
  /\ HasNext(i)
  /\ \/ /\ Conflicts(i) /\ Strategy(i) = "skip"
        /\ Reported(i, Item("skipped", Current(i).name, 0), jobs[i].taken)
     \/ /\ i \in Handlers
        /\ \/ Conflicts(i) /\ Strategy(i) = "error"
           \/ (Conflicts(i) => Strategy(i) = "rename") /\ ~validate(Renamed(i))
        /\ Reported(i, Item("error", Current(i).name, 0), jobs[i].taken)
  /\ UNCHANGED <<tunnels, faults>>

\* The command line gives up at the first conflict, what is made stays made.
Abort(s) ==
  /\ HasNext(s) /\ s \in Commands
  /\ Conflicts(s) /\ Strategy(s) = "error"
  /\ jobs' = [jobs EXCEPT ![s].phase = "aborted",
                          ![s].report = Append(@, Item("error", Current(s).name, 0))]
  /\ UNCHANGED <<tunnels, faults>>

Importable(i) ==
  /\ HasNext(i)
  /\ Conflicts(i) => Strategy(i) = "rename"
  /\ i \in Handlers => validate(Renamed(i))

\* Leaves the name out of those taken.
Make_Wrong(i) ==
  /\ Importable(i) /\ ~jobs[i].dry
  /\ tunnels' = Append(tunnels, [name |-> NewTunnel(i).name, maker |-> i, item |-> Place(i),
                              alive |-> TRUE, gist |-> NewTunnel(i)])
  /\ Reported(i, Item("created", NewTunnel(i).name, Len(tunnels) + 1), jobs[i].taken)
  /\ UNCHANGED faults

\* CreateTunnel, and what the loop notes of it.
Make(i) ==
  /\ Importable(i) /\ ~jobs[i].dry
  /\ tunnels' = Append(tunnels, [name |-> NewTunnel(i).name, maker |-> i, item |-> Place(i),
                              alive |-> TRUE, gist |-> NewTunnel(i)])
  /\ Reported(i, Item("created", NewTunnel(i).name, Len(tunnels) + 1),
              jobs[i].taken \cup {Key(NewTunnel(i).name)})
  /\ UNCHANGED faults

\* The name counts as taken although there is no row.
MakeFails_Wrong(i) ==
  /\ Importable(i) /\ ~jobs[i].dry
  /\ faults < MaxFaults /\ Asides < MaxAsides
  /\ faults' = faults + 1
  /\ Reported(i, Item("error", Current(i).name, 0), jobs[i].taken \cup {Key(NewTunnel(i).name)})
  /\ UNCHANGED tunnels

\* An insert that fails is an item of the report, and the loop goes on.
MakeFails(i) ==
  /\ Importable(i) /\ ~jobs[i].dry
  /\ faults < MaxFaults /\ Asides < MaxAsides
  /\ faults' = faults + 1
  /\ Reported(i, Item("error", Current(i).name, 0), jobs[i].taken)
  /\ UNCHANGED tunnels

\* Does not note the name.
Foresee_Wrong(s) ==
  /\ Importable(s) /\ jobs[s].dry
  /\ Reported(s, Item("would-create", NewTunnel(s).name, 0), jobs[s].taken)
  /\ UNCHANGED <<tunnels, faults>>

\* A dry run notes the name and makes nothing.
Foresee(s) ==
  /\ Importable(s) /\ jobs[s].dry
  /\ Reported(s, Item("would-create", NewTunnel(s).name, 0),
              jobs[s].taken \cup {Key(NewTunnel(s).name)})
  /\ UNCHANGED <<tunnels, faults>>

\* The report goes out; a command line that made rows asks the daemon to
\* reconcile first, which is none of the rows' business.
Finish(i) ==
  /\ jobs[i].phase = "running"
  /\ Place(i) > Len(DraftsOf(i))
  /\ jobs' = [jobs EXCEPT ![i].phase = "done"]
  /\ UNCHANGED <<tunnels, faults>>

\* The daemon dies in the middle of a commit, or a command line is killed.
Lose(i) ==
  /\ jobs[i].phase = "running"
  /\ faults < MaxFaults /\ Asides < MaxAsides
  /\ faults' = faults + 1
  /\ jobs' = [jobs EXCEPT ![i].phase = "lost"]
  /\ UNCHANGED tunnels

ImportNext ==
  \/ \E n \in HandNames : CreateByHand(n)
  \/ \E r \in DOMAIN tunnels : DeleteTunnel(r)
  \/ \E h \in Handlers : Preview(h)
  \/ \E h \in Handlers : BeginCommit(h)
  \/ \E s \in Commands, dry \in BOOLEAN : BeginCommand(s, dry)
  \/ \E s \in Commands : RepeatCommand(s)
  \/ \E i \in Importers : Pass(i) \/ Make(i) \/ MakeFails(i) \/ Finish(i) \/ Lose(i)
  \/ \E s \in Commands : Abort(s) \/ Foresee(s)

ImportSpec == ImportInit /\ [][ImportNext]_importVars

-----------------------------------------------------------------------------
(***************************************************************************)
(* Properties.                                                             *)
(***************************************************************************)
Gist ==
  [role : {"server", "visitor"}, type : ProxyTypes, name : TunnelName, set : [Fields -> Values]]
Tunnel == [name : TunnelName, maker : Importers \cup {"hand"}, item : Nat, alive : BOOLEAN,
           gist : Gist \cup {<<>>}]
Items == [result : {"created", "would-create", "skipped", "error"}, name : TunnelName, id : Nat]
Reports == Seq(Items)
Job == [phase : Phases, file : DOMAIN Files, own : Seq({"rename", ""}), strategy : Strategies,
        dry : BOOLEAN, taken : SUBSET TunnelName, found : SUBSET TunnelName, since : Nat,
        report : Reports,
        foretold : [phase : Phases, found : SUBSET TunnelName, report : Reports]]

\* The variables keep their shape; a report has an item for each draft that was
\* passed, and a preview a strategy for each.
ImportTypeOK ==
  /\ tunnels \in Seq(Tunnel)
  /\ jobs \in [Importers -> Job]
  /\ faults \in 0 .. MaxFaults
  /\ \A i \in Importers :
       /\ Len(jobs[i].report) <= Len(DraftsOf(i))
       /\ jobs[i].phase = "done" => Len(jobs[i].report) = Len(DraftsOf(i))
       /\ i \in Handlers /\ jobs[i].phase # "idle" => Len(jobs[i].own) = Len(DraftsOf(i))

Imported(r) == tunnels[r].maker # "hand"

\* An import makes no tunnel with the name of one it had a chance to see: two
\* tunnels of the endpoint share a name only when the first was made by
\* somebody else after the import of the second had read the names.
NoClashItCouldSee ==
  \A r \in Live, q \in Live :
    q < r /\ Imported(r) /\ Key(tunnels[q].name) = Key(tunnels[r].name)
      => q > jobs[tunnels[r].maker].since /\ tunnels[q].maker # tunnels[r].maker

\* What a report says is so: a created item has its row, made from that
\* draft, each row has its item, and a draft was passed over for a name only
\* if a tunnel has borne that name.
ReportIsTrue ==
  /\ ImportTypeOK
  /\ \A i \in Importers :
       LET report == jobs[i].report
           Created == {k \in DOMAIN report : report[k].result = "created"}
       IN  /\ \A k \in Created :
                LET row == tunnels[report[k].id]
                IN  row.maker = i /\ row.item = k /\ row.name = report[k].name
           /\ \A r \in DOMAIN tunnels :
                tunnels[r].maker = i => tunnels[r].item \in Created
           /\ \A k \in DOMAIN report :
                report[k].result = "skipped" =>
                  \/ \E r \in DOMAIN tunnels : Key(tunnels[r].name) = Key(report[k].name)
                  \/ \E j \in 1 .. k - 1 : /\ report[j].result = "would-create"
                                           /\ Key(report[j].name) = Key(report[k].name)

\* A dry run of the command line foretells what the command does to the same
\* names: which drafts it makes, under which names, and where it gives up.
DryRunForetells ==
  \A s \in Commands :
    LET job == jobs[s]
        foretold == job.foretold
    IN  /\ foretold.phase # "idle" /\ foretold.found = job.found
        /\ job.phase \in {"done", "aborted"} /\ faults = 0
        => /\ foretold.phase = job.phase
           /\ \A k \in DOMAIN job.report :
                /\ foretold.report[k].name = job.report[k].name
                /\ (foretold.report[k].result = "would-create")
                     <=> (job.report[k].result = "created")

\* The user of the server is the one field that the import drops.
Meant(x, set) == Effect(x.role, x.type, [set EXCEPT !["serverUser"] = ""])
Source(r) == Entries(Files[jobs[tunnels[r].maker].file])[tunnels[r].item]

\* Either driver tells frp of an imported tunnel what the file told frpc,
\* blanks apart: all but the fields that have no place in a row.  The
\* embedded driver has no plugins.  The frpc.toml of the other has every
\* imported tunnel, and frpc reads it as long as none of them is a visitor: it
\* refuses the key that buildVisitorTable adds, and with it the file.
TunnelsAreFaithful ==
  LET rows == {tunnels[r].gist : r \in {q \in Live : Imported(q)}}
      frpcToml == SubprocessTunnels(rows)
  IN  \A r \in DOMAIN tunnels :
        Imported(r) =>
          LET x == Source(r)
              row == tunnels[r].gist
          IN  /\ r \in Live =>
                   \E table \in frpcToml :
                     /\ table.name = row.name /\ Meant(x, table.set) = Meant(x, x.set)
                     /\ (\A q \in rows : q.role = "server") => table \in FrpcReads(frpcToml)
              /\ ~Has(x.set, "plugin") => Meant(x, Embedded(row)) = Meant(x, x.set)

\* The endpoint that the preview proposes, once it is made, leads either
\* driver to the server of the file, unless the file disables a heartbeat.
EndpointIsFaithful ==
  \A i \in Importers :
    jobs[i].phase # "idle" =>
      LET c == Files[jobs[i].file].common
          row == applyToEndpoint(mapEndpoint(c))
          meant == CommonEffect(c)
          embedded == CommonEffect(EndpointCommon(row))
          table == CommonEffect(RootTable(row))
      IN  validateEndpoint(mapEndpoint(c)) =>
            \A f \in CommonFields \ {"other"} :
              (c[f] = "off" => f = "tls") =>
                embedded[f] = meant[f] /\ table[f] = meant[f]

\* What a file told frpc, either driver tells frp once the file is imported:
\* of each tunnel and of the server.
ImportIsFaithful == TunnelsAreFaithful /\ EndpointIsFaithful
=============================================================================
