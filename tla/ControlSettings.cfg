\* Two command lines and a web request change two settings across a stop or a
\* crash and the boot that follows.
SPECIFICATION FairSpec
CONSTANTS
  N = 2
  Values = {v0, v1}
  Default = v0
  Bad = Bad
  NoValue = NoValue
  Puts = {p1}
  c1 = c1
  c2 = c2
  Calls <- MCCalls
  Loaders <- MCLoaders
  v1 = v1
  v0 = v0
  Sets <- MCSets
  Raws <- MCRaws
  Batches <- MCBatches
  MaxActs = 3
  MaxFalls = 1
CHECK_DEADLOCK FALSE
INVARIANT Settled
PROPERTIES ShutdownEnds GoneIsNoticed
