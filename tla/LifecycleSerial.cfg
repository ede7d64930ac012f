\* Operations one after the other, with a crash anywhere inside them.
SPECIFICATION Spec
CONSTANTS
  Tunnels = {1}
  Endpoints = {e1, e2}
  Handlers = {h1}
  Loops = {loop}
  Callbacks = {cb}
  Shells = {}
  Requests <- WebRequests
  Overlap = FALSE
  MaxTime = 2
  MaxCrashes = 1
  MaxFaults = 0
INVARIANTS ServedIsRunning TimerMatchesRow BootRestoresService
