SPECIFICATION CourseSpec
CONSTANTS
  naver = naver
  n1 = n1
  n2 = n2
  x1 = x1
  x2 = x2
  w = w
  y = y
  keyX = keyX
  keyY = keyY
  Providers = {naver}
  Queries = {n1, n2}
  Articles = {x1, x2, w, y}
  ReplayKeys = {keyX, keyY}
  ProviderOf <- MCProviderOf
  Found <- MCFound
  ReplayKeyOf <- MCReplayKeyOf
  Invalid = {w}
  FallbackProviders = {naver}
  FetchGaps = {y}
  LegacySeen = {}
  SeenCap = 1
  MaxRetryAttempts = 2
  MaxCrashes = 1
  MaxRuns = 2
  MaxToggles = 1
  FlushTimesOut = TRUE
INVARIANTS TypeOK PassedIsAccountedFor SkippedIsAccountedFor ParkedOnlyWhenSpent
PROPERTIES CheckpointNeverMovesBack EventuallySettled
CHECK_DEADLOCK FALSE
