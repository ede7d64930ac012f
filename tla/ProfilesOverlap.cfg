\* Two HTTP requests, a CLI process with a stale copy of a row, and a crash in
\* the middle of them.
SPECIFICATION Spec
CONSTANTS
  Profiles = {1, 2}
  Endpoints = {1, 2}
  Tunnels = {1, 2, 3}
  Home <- TwoHomes
  Bindings <- SomeBindings
  Clients = {c1, c2}
  Shells = {cli}
  Requests = {"create", "update", "activate", "deactivate", "delete"}
  MaxCrashes = 1
INVARIANTS SingleActive ActiveIsApplied EnabledIsServed
PROPERTY ActiveSurvives
