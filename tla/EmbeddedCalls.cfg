\* Two callers use every method of the driver at once, Stop included, while the
\* reconcile loop pushes the tunnel that is meant to run.  TLC has two runner
\* objects: once starts that a Stop overtook have used them both up, a caller
\* that needs a third is stuck.
SPECIFICATION FairSpec
CONSTANTS
  Tunnels = {1}
  Callers = {c1, c2, loop}
  Refreshers = {loop}
  Desired = {1}
  Runners = {r1, r2}
  Requests = {"add", "remove", "start", "stop"}
  MaxFaults = 1
INVARIANTS ServiceInHand ServesItsProxies
PROPERTIES ImplementsContract 
CHECK_DEADLOCK FALSE
