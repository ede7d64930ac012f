\* Two callers of every method, who may overlap, with frpc that exits and a step
\* that fails; a Stop that overlaps a start may wait for ever.
SPECIFICATION Spec
SYMMETRY Symmetry
CONSTANTS
  Tunnels = {1}
  Callers = {c1, c2}
  Runners = {r1, r2}
  Requests = {"add", "remove", "start", "stop"}
  MaxFaults = 1
  MaxExits = 1
INVARIANTS ProcessInHand ReadsItsTunnels KeepsWatching
CHECK_DEADLOCK FALSE
