\* Operations one after the other, with one call that fails, crash or change by
\* hand; and operations that an exchange or a pass overlaps.
SPECIFICATION FairSpec
CONSTANTS
  Pairings = {1, 2}
  Handlers = {1, 2}
  Ports = {1, 2}
  Rivals = {"exchange"}
  MaxKey = 2
  MaxTrouble = 1
INVARIANTS AnswersHold VisitorsApart
PROPERTIES TakenBackForGood DeadIsNoticed
