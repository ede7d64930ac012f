\* Web requests, reconcile passes, callbacks, a crash and a failing driver
\* interleave, each thread with the copy of the row it read; the reconcile loop
\* alone is fair.
SPECIFICATION FairSpec
CONSTANTS
  Tunnels = {1}
  Endpoints = {e1}
  Handlers = {h1}
  Loops = {loop}
  Callbacks = {cb}
  Shells = {}
  Requests = {"create", "renew", "start", "delete"}
  Overlap = TRUE
  MaxTime = 1
  MaxCrashes = 1
  MaxFaults = 1
PROPERTIES OverdueExpires RunningIsServed DeletedForGood ServedOnPurpose
