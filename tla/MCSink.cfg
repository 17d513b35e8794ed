SPECIFICATION FairSpec
CONSTANTS
  a = a
  b = b
  c = c
  w = w
  v = v
  m1 = m1
  m2 = m2
  m3 = m3
  m4 = m4
  junk = junk
  d1 = d1
  d2 = d2
  ka = ka
  kb = kb
  Articles = {a, b, c}
  Windows = {w, v}
  Keywords = {ka, kb}
  NoMessage = NoMessage
  Unusable = {junk}
  ArticleOf <- MCArticleOf
  WindowOf <- MCWindowOf
  IngestedAt <- MCIngestedAt
  Mentions <- MCMentions
  KeywordOrder <- MCKeywordOrder
  RelationLimit = 2
  Messages = {m1, m2, m3, m4, junk}
  Dictionaries = {d1, d2}
  TasksRepeat = TRUE
  MaxLog = 2
  MaxFailures = 2
  MaxEdits = 1
INVARIANTS TypeOK CommittedNewsIsStored CommittedKeywordsAreStored NothingLeftInStaging KeywordsNeverInflated BackedByKeywords TrendsInflatedOnlyByFailures
PROPERTIES EventuallyStored IsAtLeastOnce
CHECK_DEADLOCK FALSE
