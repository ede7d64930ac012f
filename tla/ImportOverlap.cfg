\* An import in the browser and one on the command line, and tunnels made and
\* deleted by hand, call by call.
SPECIFICATION ImportSpec
CONSTANTS
  Bases = {"", " ", "imported", "ssh", " ssh", "SSH", "web"}
  h = h
  s = s
  Handlers = {h}
  Commands = {s}
  Files <- MCFiles
  Plans <- MCPlans
  HandNames <- MCHandNames
  MaxFaults = 1
  MaxAsides = 2
INVARIANTS NoClashItCouldSee ReportIsTrue DryRunForetells ImportIsFaithful
CHECK_DEADLOCK FALSE
