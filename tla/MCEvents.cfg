SPECIFICATION Spec
CONSTANTS
  k1 = k1
  Keywords = {k1}
  Counts = {0, 2, 5, 7}
  WindowLength = 2
  Interval = 3
  Lookback = 8
  NoEvent = NoEvent
  MaxTime = 9
  MaxWrites = 3
INVARIANTS TypeOK EventsMatchTrends QualifyingRowsHaveEvents
PROPERTIES RerunChangesNothing PreviousLostOnlyAtTheEdge
CHECK_DEADLOCK FALSE
