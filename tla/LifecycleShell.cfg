\* CLI processes, reconcile passes and timer callbacks interleave.
SPECIFICATION Spec
CONSTANTS
  Tunnels = {1}
  Endpoints = {e1}
  Handlers = {}
  Loops = {loop}
  Callbacks = {cb}
  Shells = {cli}
  Requests <- ShellRequests
  Overlap = TRUE
  MaxTime = 1
  MaxCrashes = 0
  MaxFaults = 0
INVARIANT NoEarlyExpiry
