CONSTANTS
  a1 = a1
  a2 = a2
  a3 = a3
  b2 = b2
  Articles = {a1, a2, a3, b2}
  KeyOf <- MCKeyOf
  k1 = k1
  k2 = k2
  Keywords = {k1, k2}
  EventTime <- MCEventTime
  Undated = {a2, b2}
  KeywordCounts = {0, 1}
  WindowStarts <- MCWindowStarts
  TrendCounts = {0, 2}
  WindowLength = 2
  Requests <- MCRequests
  NoRequest = NoRequest
  Limit = 1
  MaxWindow = 4
  MaxBuckets = 3
  MaxChanges = 1
SPECIFICATION Spec
INVARIANTS TypeOK PeriodCounts OverviewMentions SeriesAreComplete
SYMMETRY KeywordSymmetry
CHECK_DEADLOCK FALSE
