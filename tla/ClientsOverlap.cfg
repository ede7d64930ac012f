\* A page and a follower, one at a time, behind a bus whose ring and channel overflow.
SPECIFICATION ClientsSpec
CONSTANTS
  Publishers = {p1, p2}
  Listeners = {l1}
  RingSize = 2
  BufSize = 1
  MaxEvents = 3
  KindOf <- MCKindOf
  Requests <- MCRequests
  Filters <- MCFilters
  OutSize = 2
  WireSize = 1
  InboxSize = 1
  MaxFrames = 2
CHECK_DEADLOCK FALSE
INVARIANTS NoSendOnClosed PromiseKept AtMostOneStray NoGap
PROPERTIES ImplementsLog PageIsLetGo
