SPECIFICATION Spec
CONSTANTS
  a = a
  b = b
  c = c
  w = w
  v = v
  m1 = m1
  m2 = m2
  m3 = m3
  m4 = m4
  junk = junk
  d1 = d1
  d2 = d2
  ka = ka
  kb = kb
  Articles = {a, b, c}
  Windows = {w, v}
  Keywords = {ka, kb}
  NoMessage = NoMessage
  Unusable = {}
  ArticleOf <- MCArticleOf
  WindowOf <- MCWindowOf
  IngestedAt <- MCIngestedAt
  Mentions <- MCMentions
  KeywordOrder <- MCKeywordOrder
  RelationLimit = 2
  Messages = {m1, m3}
  Dictionaries = {d1}
  TasksRepeat = FALSE
  MaxLog = 2
  MaxFailures = 0
  MaxEdits = 0
INVARIANTS TrendCountsItsWindow
CHECK_DEADLOCK FALSE
