-------------------------- MODULE RuntimeSettings ---------------------------
(***************************************************************************)
(* runtime.Settings: the values in memory, which the daemon works with,    *)
(* and the table of settings, from which they are loaded.  A web request   *)
(* changes the memory under the lock and saves afterwards, key by key and  *)
(* without the lock; LoadFromKV holds the lock and reads key by key.       *)
(* When they are loaded, and when requests come, is up to ControlChannel.  *)
(* The one hook, on the key of the rate limiter, is left out: no route     *)
(* asks the limiter.                                                       *)
(***************************************************************************)
EXTENDS Naturals

CONSTANTS
  N,         \* number of keys; the order of AllKeys is 1, 2, ...
  Values,    \* values that validate
  Default,   \* the value of a key before anything is loaded
  Bad,       \* text that does not validate
  NoValue,
  Puts,      \* goroutines of web requests that change settings
  Loaders    \* what may call LoadFromKV

Keys == 1 .. N

ASSUME KeysAssumption == N \in Nat \ {0}
ASSUME ValuesAssumption ==
  Default \in Values /\ Bad \notin Values /\ NoValue \notin Values \cup {Bad}

VARIABLES
  memory,   \* Settings
  table,    \* the rows of model.Setting
  puts,     \* the web requests
  load      \* the call of LoadFromKV that holds the lock, if one does

settingsVars == <<memory, table, puts, load>>

Defaults == [k \in Keys |-> Default]
NoLoad == [by |-> "none", next |-> 0]

\* A body is a text for some of the keys; left are the keys not yet saved.
Batch == [Keys -> Values \cup {Bad, NoValue}]
Put == [step : {"idle", "apply", "save"}, batch : Batch, left : SUBSET Keys]
NoPut == [step |-> "idle", batch |-> [k \in Keys |-> NoValue], left |-> {}]

SettingsInit ==
  /\ memory = Defaults
  /\ table = [k \in Keys |-> NoValue]
  /\ puts = [p \in Puts |-> NoPut]
  /\ load = NoLoad

SettingsTypeOK ==
  /\ memory \in [Keys -> Values]
  /\ table \in [Keys -> Values \cup {Bad, NoValue}]
  /\ puts \in [Puts -> Put]
  /\ load \in [by : Loaders, next : 1 .. N + 1] \cup {NoLoad}

Given(batch) == {k \in Keys : batch[k] # NoValue}
Valid(batch) == \A k \in Given(batch) : batch[k] # Bad
Overlay(values, batch) ==
  [k \in Keys |-> IF batch[k] \in Values THEN batch[k] ELSE values[k]]

Writing == {p \in Puts : puts[p] # NoPut}
Saving == {p \in Puts : puts[p].step = "save"}

-----------------------------------------------------------------------------
(***************************************************************************)
(* PUT /api/runtime-settings: SetMany.                                     *)
(***************************************************************************)
BeginPut(p, batch) ==
  /\ puts[p] = NoPut
  /\ Given(batch) # {}
  /\ puts' = [puts EXCEPT ![p].step = "apply", ![p].batch = batch]
  /\ UNCHANGED <<memory, table, load>>

\* Applies the texts that validate and then refuses the rest.
Apply_Wrong(p) ==
  /\ puts[p].step = "apply"
  /\ load = NoLoad
  /\ memory' = Overlay(memory, puts[p].batch)
  /\ puts' = IF Valid(puts[p].batch)
             THEN [puts EXCEPT ![p].step = "save", ![p].left = Given(puts[p].batch)]
             ELSE [puts EXCEPT ![p] = NoPut]
  /\ UNCHANGED <<table, load>>

\* All texts are validated before any is applied; the lock is taken once.
Apply(p) ==
  /\ puts[p].step = "apply"
  /\ load = NoLoad
  /\ IF Valid(puts[p].batch)
     THEN /\ memory' = Overlay(memory, puts[p].batch)
          /\ puts' = [puts EXCEPT ![p].step = "save", ![p].left = Given(puts[p].batch)]
     ELSE /\ puts' = [puts EXCEPT ![p] = NoPut]
          /\ UNCHANGED memory
  /\ UNCHANGED <<table, load>>

\* The rows are saved in the order of a Go map, none in particular.
Save(p) ==
  /\ puts[p].step = "save"
  /\ \E k \in puts[p].left :
       /\ table' = [table EXCEPT ![k] = puts[p].batch[k]]
       /\ puts' = IF puts[p].left = {k} THEN [puts EXCEPT ![p] = NoPut]
                  ELSE [puts EXCEPT ![p].left = @ \ {k}]
  /\ UNCHANGED <<memory, load>>

\* A row that cannot be saved ends the request: the memory keeps the batch.
SaveFails(p) ==
  /\ puts[p].step = "save"
  /\ puts' = [puts EXCEPT ![p] = NoPut]
  /\ UNCHANGED <<memory, table, load>>

-----------------------------------------------------------------------------
(***************************************************************************)
(* Writes of the table that pass the daemon by.                            *)
(***************************************************************************)
\* `frpdeck runtime set` validates before it saves the row.
SetRow(k, v) ==
  /\ v \in Values
  /\ table' = [table EXCEPT ![k] = v]
  /\ UNCHANGED <<memory, puts, load>>

\* PUT /api/settings saves what it is given, and nothing else happens.
PutRaw(k, v) ==
  /\ table' = [table EXCEPT ![k] = v]
  /\ UNCHANGED <<memory, puts, load>>

(***************************************************************************)
(* LoadFromKV.                                                             *)
(***************************************************************************)
BeginLoad(by) ==
  /\ load = NoLoad
  /\ load' = [by |-> by, next |-> 1]
  /\ UNCHANGED <<memory, table, puts>>

\* A key without a row keeps its value.
LoadKey ==
  /\ load # NoLoad
  /\ load.next \in Keys
  /\ table[load.next] # Bad
  /\ memory' = [memory EXCEPT ![load.next] =
                  IF table[load.next] = NoValue THEN @ ELSE table[load.next]]
  /\ load' = [load EXCEPT !.next = @ + 1]
  /\ UNCHANGED <<table, puts>>

LoadDone(by) ==
  /\ load = [by |-> by, next |-> N + 1]
  /\ load' = NoLoad
  /\ UNCHANGED <<memory, table, puts>>

\* A row that does not validate, or cannot be read, ends the call and hides
\* the rows after it.
LoadFails(by) ==
  /\ load.by = by
  /\ load.next \in Keys
  /\ load' = NoLoad
  /\ UNCHANGED <<memory, table, puts>>

\* The process ends: what remains is the table.
Forget ==
  /\ memory' = Defaults
  /\ puts' = [p \in Puts |-> NoPut]
  /\ load' = NoLoad
  /\ UNCHANGED table

\* What the table says of a key.
InForce(k) == IF table[k] \in Values THEN table[k] ELSE Default
=============================================================================
