SPECIFICATION SideSpec
CONSTANTS
  w1 = w1
  w2 = w2
  a1 = a1
  a2 = a2
  a3 = a3
  ai = ai
  CompoundWords = {w1, w2}
  StopWords = {w1}
  NewsDomains = {ai}
  AllDomains = all
  MaxVersion = 3
  NotLoaded = NotLoaded
  NoVersions = NoVersions
  FileWords = {}
  DefaultStopwords = {}
  MaxFailures = 1
  Articles = {a1, a2, a3}
  DomainOf <- MCDomainOf
  Occurrences <- MCOccurrences
  GenericWords = {}
  WindowSlots = 2
  MinFrequency = 3
  ReviewLimit = 1
  NotIngested = NotIngested
  NoCandidate = NoCandidate
  MaxTime = 2
  Recommenders = {"dag", "dashboard"}
  Scores = {1, 2}
  MaxJobFailures = 1
  Sides = {"compounds", "queue", "stopwords", "worker"}
INVARIANTS TypeOK CountsSupportVerdict CurrentVersionMeansCurrentWords
PROPERTIES EveryCandidateIsJudged DecidedStaysDecided ReviewerRespectsDecisions WorkerLearnsOfChanges DecidedStopwordsStay
CHECK_DEADLOCK FALSE
