SPECIFICATION CourseSpec
CONSTANTS
  a = a
  b = b
  w = w
  m1 = m1
  m3 = m3
  d1 = d1
  d2 = d2
  ds = ds
  ka = ka
  kb = kb
  x = x
  y = y
  Articles = {a, b}
  Windows = {w}
  Keywords = {ka, kb}
  NoMessage = NoMessage
  Unusable = {}
  ArticleOf <- MCArticleOf
  WindowOf <- MCWindowOf
  IngestedAt <- MCIngestedAt
  Mentions <- MCMentions
  KeywordOrder <- MCKeywordOrder
  RelationLimit = 2
  Messages = {m1, m3}
  Dictionaries = {d1, d2, ds}
  TasksRepeat = TRUE
  MaxLog = 2
  MaxFailures = 1
  MaxEdits = 1
  Periods = {{a, b}}
  Containing = {m1}
  MaxBackfills = 1
  WithDefaults <- MCWithDefaults
  Domains = {x, y}
  DomainOf <- MCDomainOf
  Stopped <- MCStopped
  NoCleanup = NoCleanup
  MaxRequests = 1
INVARIANTS TypeOKAll StopwordStaysOut BackedUnlessCrossed
PROPERTIES RecountIsExact
CHECK_DEADLOCK FALSE
