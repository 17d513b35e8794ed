SPECIFICATION CourseSpec
CONSTANTS
  naver = naver
  n1 = n1
  n2 = n2
  x1 = x1
  x2 = x2
  w = w
  y = y
  keyX = keyX
  keyY = keyY
  Providers = {naver}
  Queries = {n1}
  Articles = {x1}
  ReplayKeys = {keyX, keyY}
  ProviderOf <- MCProviderOf
  Found <- MCFound
  ReplayKeyOf <- MCReplayKeyOf
  Invalid = {}
  FallbackProviders = {naver}
  FetchGaps = {}
  LegacySeen = {}
  SeenCap = 1
  MaxRetryAttempts = 3
  MaxCrashes = 1
  MaxRuns = 1
  MaxToggles = 0
  FlushTimesOut = FALSE
INVARIANTS NoneAbandoned
CHECK_DEADLOCK FALSE
