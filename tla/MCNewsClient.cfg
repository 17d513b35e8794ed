SPECIFICATION FairSpec
CONSTANTS
  x = x
  y = y
  q = q
  f = f
  old = old
  n1 = n1
  und = und
  bad = bad
  u0 = u0
  u1 = u1
  RowsOf <- MCRowsOf
  Items = {old, n1, und, bad}
  DateOf <- MCDateOf
  UrlOf <- MCUrlOf
  NoUrl = NoUrl
  Broken = {bad}
  Dates = {1, 2}
  Display = 2
  MaxPages = 2
  Workers = 2
  MaxChanges = 1
INVARIANTS TypeOK OkIsComplete
PROPERTIES EveryRowYields
CHECK_DEADLOCK FALSE
