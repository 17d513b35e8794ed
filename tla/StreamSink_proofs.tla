------------------------- MODULE StreamSink_proofs --------------------------
(***************************************************************************)
(* Proofs about the streaming job, for every topic, batching, tokenization *)
(* and pattern of failures: what is committed is stored, with its          *)
(* keywords; a committed batch leaves nothing staged; the counts stay      *)
(* within what the topic mentions; trends and relations have their         *)
(* evidence; and the job implements an at-least-once consumer.             *)
(***************************************************************************)
EXTENDS StreamSink, Sums_proofs

\* The step that follows each step of the handler.
LEMMA StepOrder ==
  /\ StepAfter("stageNews") = "upsertNews"
  /\ StepAfter("upsertNews") = "tokenize"
  /\ StepAfter("tokenize") = "stageKeywords"
  /\ StepAfter("stageKeywords") = "upsertKeywords"
  /\ StepAfter("upsertKeywords") = "stageTrends"
  /\ StepAfter("stageTrends") = "upsertTrends"
  /\ StepAfter("upsertTrends") = "stageRelations"
  /\ StepAfter("stageRelations") = "upsertRelations"
  /\ StepAfter("upsertRelations") = "commit"
<1>1. Len(Steps) = 10
  BY DEF Steps
<1>2. /\ Steps[1] = "stageNews" /\ Steps[2] = "upsertNews" /\ Steps[3] = "tokenize"
      /\ Steps[4] = "stageKeywords" /\ Steps[5] = "upsertKeywords"
      /\ Steps[6] = "stageTrends" /\ Steps[7] = "upsertTrends"
      /\ Steps[8] = "stageRelations" /\ Steps[9] = "upsertRelations"
      /\ Steps[10] = "commit"
  BY DEF Steps
<1>3. ASSUME NEW i \in 1 .. 9
      PROVE  (CHOOSE j \in 1 .. 9 : Steps[j] = Steps[i]) = i
  <2>1. \A j \in 1 .. 9 : Steps[j] = Steps[i] => j = i
    BY <1>2
  <2>2. QED
    BY <2>1
<1>4. ASSUME NEW i \in 1 .. 9
      PROVE  StepAfter(Steps[i]) = Steps[i + 1]
  <2>1. Len(Steps) - 1 = 9
    BY <1>1
  <2>2. StepAfter(Steps[i]) = Steps[(CHOOSE j \in 1 .. 9 : Steps[j] = Steps[i]) + 1]
    BY <2>1, Zenon DEF StepAfter
  <2>3. QED
    BY <1>3, <2>2
<1>5. QED
  BY <1>2, <1>4

\* The invariant holds before the first message.
LEMMA SinkStart == Init => SinkInv
  BY DEF Init, SinkInv, OffsetsInv, NewsInv, StagingInv, StagingEmpty, CommittedNewsIsStored,
         Usable, BatchOffsets, BatchMessages, AfterNews, AfterKeywords, AfterTrends

\* A message that arrives changes no offset a batch or a commit covers.
LEMMA ArriveStep ==
  ASSUME SinkInv, NEW m \in Messages, Arrive(m)
  PROVE  SinkInv'
<1>1. /\ log' \in Seq(Messages) /\ Len(log') = Len(log) + 1
      /\ \A i \in 1 .. Len(log) : log'[i] = log[i]
  BY DEF SinkInv, OffsetsInv, Arrive
<1>2. /\ planned' = planned /\ committed' = committed
      /\ planned \in Nat /\ committed \in Nat /\ committed <= planned /\ planned <= Len(log)
      /\ Len(log) \in Nat
  BY DEF SinkInv, OffsetsInv, Arrive
<1>3. BatchOffsets' = BatchOffsets /\ Usable(committed)' = Usable(committed)
  BY <1>1, <1>2 DEF BatchOffsets, Usable
<1>4. /\ \A i \in BatchOffsets : log'[i] = log[i]
      /\ \A i \in Usable(committed) : log'[i] = log[i]
  BY <1>1, <1>2 DEF BatchOffsets, Usable
<1>5. BatchMessages' = BatchMessages
  BY <1>3, <1>4 DEF BatchMessages
<1>6. OffsetsInv'
  BY <1>1, <1>2 DEF SinkInv, OffsetsInv, Arrive
<1>7. NewsInv'
  BY <1>3, <1>4, <1>5 DEF SinkInv, NewsInv, CommittedNewsIsStored, Arrive, tableVars, stagingVars
<1>8. StagingInv'
  BY <1>3 DEF SinkInv, StagingInv, StagingEmpty, Arrive, stagingVars
<1>9. QED
  BY <1>6, <1>7, <1>8 DEF SinkInv

\* The messages and the offsets of the batch stay while the log and the offsets do.
LEMMA SameBatch ==
  ASSUME UNCHANGED <<log, planned, committed>>
  PROVE  /\ BatchOffsets' = BatchOffsets /\ BatchMessages' = BatchMessages
         /\ Usable(committed)' = Usable(committed)
  BY DEF BatchOffsets, BatchMessages, Usable

\* The job may go down anywhere: only the staging of a batch that is not empty may
\* have grown.
LEMMA GoDownStep ==
  ASSUME SinkInv, GoDown, UNCHANGED <<log, planned, committed, newsRaw>>,
         stgNewsRaw' \subseteq Messages,
         BatchOffsets = {} => UNCHANGED stagingVars
  PROVE  SinkInv'
<1>1. step' = "down"
  BY DEF GoDown
<1>2. OffsetsInv'
  BY <1>1 DEF SinkInv, OffsetsInv
<1>3. NewsInv'
  BY <1>1, SameBatch DEF SinkInv, NewsInv, CommittedNewsIsStored, AfterNews, AfterKeywords, AfterTrends
<1>4. StagingInv'
  BY <1>1, SameBatch
     DEF SinkInv, StagingInv, StagingEmpty, stagingVars, AfterNews, AfterKeywords, AfterTrends
<1>5. QED
  BY <1>2, <1>3, <1>4 DEF SinkInv

\* A task that runs again can have added to the staging of a batch that is not empty:
\* to that of the step, which no upsert has emptied for this batch.
LEMMA RepeatTaskStep ==
  ASSUME SinkInv, RepeatTask, UNCHANGED <<log, planned, committed, newsRaw>>,
         stgNewsRaw' \subseteq Messages, stgNewsRaw \subseteq stgNewsRaw',
         BatchOffsets # {},
         step \in AfterNews => stgNewsRaw' = stgNewsRaw,
         step \in AfterKeywords => stgKeywords' = stgKeywords,
         step \in AfterTrends => stgTrends' = stgTrends,
         step # "commit"
  PROVE  SinkInv'
<1>1. step' = step
  BY DEF RepeatTask
<1>2. OffsetsInv'
  BY <1>1 DEF SinkInv, OffsetsInv
<1>3. NewsInv'
  BY <1>1, SameBatch DEF SinkInv, NewsInv, CommittedNewsIsStored
<1>4. StagingInv'
  BY <1>1, SameBatch DEF SinkInv, StagingInv
<1>5. QED
  BY <1>2, <1>3, <1>4 DEF SinkInv

\* A step of a batch that is under way, towards `next`, keeps the batch.
LEMMA OffsetsStep ==
  ASSUME SinkInv, UNCHANGED <<log, planned, committed>>,
         step' \in {"down", "upsertNews"} \union AfterNews
  PROVE  OffsetsInv'
  BY DEF SinkInv, OffsetsInv, AfterNews, AfterKeywords, AfterTrends

\* A batch with steps to do is not empty.
LEMMA BatchNotEmpty ==
  ASSUME SinkInv, step \in {"stageNews", "upsertNews", "tokenize", "stageKeywords",
                            "upsertKeywords", "stageTrends", "upsertTrends",
                            "stageRelations", "upsertRelations"}
  PROVE  BatchOffsets # {}
  BY DEF SinkInv, StagingInv

LEMMA StageNewsStep ==
  ASSUME SinkInv, StageNews
  PROVE  SinkInv'
<1>1. PICK written \in SUBSET BatchMessages :
        /\ stgNewsRaw' = stgNewsRaw \union written
        /\ AppendOf(written, BatchMessages)
  BY DEF StageNews
<1>2. BatchMessages \subseteq Messages
  BY DEF SinkInv, OffsetsInv, BatchMessages, BatchOffsets
<1>3. stgNewsRaw' \subseteq Messages
  BY <1>1, <1>2 DEF SinkInv, NewsInv
<1>4. BatchOffsets # {} /\ step = "stageNews"
  BY BatchNotEmpty DEF StageNews
<1>5. UNCHANGED <<log, planned, committed, newsRaw, stgKeywords, stgTrends, stgRelations>>
  BY DEF StageNews, tableVars
<1>6. CASE written = BatchMessages /\ Advance
  <2>1. step' = "upsertNews"
    BY <1>4, <1>6, StepOrder DEF Advance
  <2>2. OffsetsInv'
    BY <1>5, <2>1, OffsetsStep
  <2>3. NewsInv'
    BY <1>1, <1>3, <1>5, <1>6, <2>1, SameBatch
       DEF SinkInv, NewsInv, CommittedNewsIsStored, AfterNews, AfterKeywords, AfterTrends
  <2>4. StagingInv'
    BY <1>4, <1>5, <2>1, SameBatch DEF StagingInv, AfterNews, AfterKeywords, AfterTrends
  <2>5. QED
    BY <2>2, <2>3, <2>4 DEF SinkInv
<1>7. CASE GoDown
  BY <1>3, <1>4, <1>5, <1>7, GoDownStep
<1>8. CASE RepeatTask
  BY <1>1, <1>3, <1>4, <1>5, <1>8, RepeatTaskStep DEF AfterNews, AfterKeywords, AfterTrends
<1>9. QED
  BY <1>1, <1>6, <1>7, <1>8 DEF AppendOf

\* The upsert gives every article of the batch a row: its messages are all staged.
LEMMA UpsertNewsStep ==
  ASSUME SinkInv, UpsertNews
  PROVE  SinkInv'
<1>1. BatchOffsets # {} /\ step = "upsertNews" /\ BatchMessages \subseteq stgNewsRaw
  BY BatchNotEmpty DEF UpsertNews, SinkInv, NewsInv
<1>2. UNCHANGED <<log, planned, committed, stgKeywords, stgTrends, stgRelations>>
  BY DEF UpsertNews
<1>3. step' = "tokenize" /\ stgNewsRaw' = {}
  BY <1>1, StepOrder DEF UpsertNews, Advance, Truncated
<1>4. ASSUME NEW i \in 1 .. Len(log), newsRaw[ArticleOf[log[i]]] # NoMessage
      PROVE  newsRaw'[ArticleOf[log[i]]] # NoMessage
  <2>1. log[i] \in Messages /\ ArticleOf[log[i]] \in Articles
    BY StoreAssumption DEF SinkInv, OffsetsInv
  <2>2. newsRaw'[ArticleOf[log[i]]] \in NewsRow(ArticleOf[log[i]])
    BY <2>1 DEF UpsertNews
  <2>3. stgNewsRaw \subseteq Messages /\ NoMessage \notin Messages
    BY StoreAssumption DEF SinkInv, NewsInv
  <2>4. QED
    BY <1>4, <2>2, <2>3 DEF NewsRow, StagedOf
<1>5. ASSUME NEW i \in BatchOffsets
      PROVE  newsRaw'[ArticleOf[log[i]]] # NoMessage
  <2>1. log[i] \in stgNewsRaw /\ log[i] \in Messages /\ ArticleOf[log[i]] \in Articles
    BY <1>1, StoreAssumption DEF SinkInv, NewsInv, BatchMessages
  <2>2. newsRaw'[ArticleOf[log[i]]] \in NewsRow(ArticleOf[log[i]])
    BY <2>1 DEF UpsertNews
  <2>3. log[i] \in StagedOf(ArticleOf[log[i]]) /\ StagedOf(ArticleOf[log[i]]) \subseteq Messages
    BY <2>1 DEF SinkInv, NewsInv, StagedOf
  <2>4. QED
    BY <2>2, <2>3, StoreAssumption DEF NewsRow
<1>6. OffsetsInv'
  BY <1>2, <1>3, OffsetsStep DEF AfterNews
<1>7. CommittedNewsIsStored'
  <2>1. \A i \in Usable(committed) : i \in 1 .. Len(log)
    BY DEF Usable, SinkInv, OffsetsInv
  <2>2. \A i \in Usable(committed) : newsRaw[ArticleOf[log[i]]] # NoMessage
    BY DEF SinkInv, NewsInv, CommittedNewsIsStored
  <2>3. QED
    BY <1>2, <1>4, <2>1, <2>2, SameBatch DEF CommittedNewsIsStored
<1>8. NewsInv'
  BY <1>2, <1>3, <1>5, <1>7, SameBatch DEF NewsInv
<1>9. StagingInv'
  BY <1>1, <1>2, <1>3, SameBatch DEF StagingInv, AfterNews, AfterKeywords, AfterTrends
<1>10. QED
  BY <1>6, <1>8, <1>9 DEF SinkInv

\* The later steps of a batch leave news_raw and its staging table alone.
LEMMA NewsKept ==
  ASSUME SinkInv, UNCHANGED <<log, planned, committed, newsRaw, stgNewsRaw>>,
         step \in AfterNews, step' \in AfterNews
  PROVE  OffsetsInv' /\ NewsInv' /\ stgNewsRaw' = {}
<1>1. OffsetsInv'
  BY OffsetsStep
<1>2. NewsInv'
  BY SameBatch DEF SinkInv, NewsInv, CommittedNewsIsStored, AfterNews, AfterKeywords, AfterTrends
<1>3. QED
  BY <1>1, <1>2 DEF SinkInv, StagingInv

LEMMA TokenizeStep ==
  ASSUME SinkInv, Tokenize
  PROVE  SinkInv'
<1>1. /\ step = "tokenize" /\ step' = "stageKeywords" /\ BatchOffsets # {}
      /\ UNCHANGED <<log, planned, committed, newsRaw, stgNewsRaw>>
  BY BatchNotEmpty, StepOrder DEF Tokenize, tableVars, stagingVars
<1>2. OffsetsInv' /\ NewsInv' /\ stgNewsRaw' = {}
  BY <1>1, NewsKept DEF AfterNews
<1>3. QED
  BY <1>1, <1>2, SameBatch DEF SinkInv, StagingInv, AfterNews, AfterKeywords, AfterTrends

LEMMA KeywordsStep ==
  ASSUME SinkInv, StageKeywords \/ UpsertKeywords
  PROVE  SinkInv'
<1>1. /\ step \in {"stageKeywords", "upsertKeywords"} /\ BatchOffsets # {}
      /\ UNCHANGED <<log, planned, committed, newsRaw, stgNewsRaw, stgTrends, stgRelations>>
  BY BatchNotEmpty DEF StageKeywords, UpsertKeywords, tableVars
<1>2. CASE GoDown
  BY <1>1, <1>2, GoDownStep DEF SinkInv, NewsInv
<1>3. CASE Advance
  <2>1. \/ step' = "upsertKeywords"
        \/ step' = "stageTrends" /\ stgKeywords' = {}
    BY <1>1, <1>3, StepOrder DEF Advance, StageKeywords, UpsertKeywords, Truncated
  <2>2. OffsetsInv' /\ NewsInv' /\ stgNewsRaw' = {}
    BY <1>1, <2>1, NewsKept DEF AfterNews, AfterKeywords
  <2>3. QED
    BY <1>1, <2>1, <2>2, SameBatch DEF SinkInv, StagingInv, AfterNews, AfterKeywords, AfterTrends
<1>4. CASE RepeatTask /\ step = "stageKeywords"
  BY <1>1, <1>4, RepeatTaskStep DEF SinkInv, NewsInv, AfterNews, AfterKeywords, AfterTrends
<1>5. QED
  BY <1>2, <1>3, <1>4 DEF StageKeywords, UpsertKeywords, AppendOf

LEMMA TrendsStep ==
  ASSUME SinkInv, StageTrends \/ UpsertTrends
  PROVE  SinkInv'
<1>1. /\ step \in {"stageTrends", "upsertTrends"} /\ BatchOffsets # {}
      /\ UNCHANGED <<log, planned, committed, newsRaw, stgNewsRaw, stgKeywords, stgRelations>>
  BY BatchNotEmpty DEF StageTrends, UpsertTrends, tableVars
<1>2. CASE GoDown
  BY <1>1, <1>2, GoDownStep DEF SinkInv, NewsInv
<1>3. CASE Advance
  <2>1. \/ step' = "upsertTrends"
        \/ step' = "stageRelations" /\ stgTrends' = {}
    BY <1>1, <1>3, StepOrder DEF Advance, StageTrends, UpsertTrends, Truncated
  <2>2. OffsetsInv' /\ NewsInv' /\ stgNewsRaw' = {}
    BY <1>1, <2>1, NewsKept DEF AfterNews, AfterKeywords, AfterTrends
  <2>3. QED
    BY <1>1, <2>1, <2>2, SameBatch DEF SinkInv, StagingInv, AfterNews, AfterKeywords, AfterTrends
<1>4. CASE RepeatTask /\ step = "stageTrends"
  BY <1>1, <1>4, RepeatTaskStep DEF SinkInv, NewsInv, AfterNews, AfterKeywords, AfterTrends
<1>5. QED
  BY <1>2, <1>3, <1>4 DEF StageTrends, UpsertTrends, AppendOf

LEMMA RelationsStep ==
  ASSUME SinkInv, StageRelations \/ UpsertRelations
  PROVE  SinkInv'
<1>1. /\ step \in {"stageRelations", "upsertRelations"} /\ BatchOffsets # {}
      /\ UNCHANGED <<log, planned, committed, newsRaw, stgNewsRaw, stgKeywords, stgTrends>>
  BY BatchNotEmpty DEF StageRelations, UpsertRelations, tableVars
<1>2. CASE GoDown
  BY <1>1, <1>2, GoDownStep DEF SinkInv, NewsInv
<1>3. CASE Advance
  <2>1. \/ step' = "upsertRelations"
        \/ step' = "commit" /\ stgRelations' = {}
    BY <1>1, <1>3, StepOrder DEF Advance, StageRelations, UpsertRelations, Truncated
  <2>2. OffsetsInv' /\ NewsInv' /\ stgNewsRaw' = {}
    BY <1>1, <2>1, NewsKept DEF AfterNews, AfterKeywords, AfterTrends
  <2>3. QED
    BY <1>1, <2>1, <2>2, SameBatch DEF SinkInv, StagingInv, AfterNews, AfterKeywords, AfterTrends
<1>4. CASE RepeatTask /\ step = "stageRelations"
  BY <1>1, <1>4, RepeatTaskStep DEF SinkInv, NewsInv, AfterNews, AfterKeywords, AfterTrends
<1>5. QED
  BY <1>2, <1>3, <1>4 DEF StageRelations, UpsertRelations, AppendOf

LEMMA PlanBatchStep ==
  ASSUME SinkInv, NEW end, PlanBatch(end)
  PROVE  SinkInv'
<1>1. /\ step = "idle" /\ planned' = end /\ end \in planned + 1 .. Len(log)
      /\ planned = committed /\ planned \in Nat /\ Len(log) \in Nat
      /\ UNCHANGED <<log, committed, newsRaw, stagingVars>>
      /\ step' = IF BatchOffsets' = {} THEN "commit" ELSE "stageNews"
  BY DEF PlanBatch, SinkInv, OffsetsInv, tableVars, BatchOffsets
<1>2. BatchOffsets = {}
  BY <1>1 DEF BatchOffsets
<1>3. StagingEmpty'
  BY <1>1, <1>2 DEF SinkInv, StagingInv, StagingEmpty, stagingVars
<1>4. OffsetsInv'
  BY <1>1 DEF SinkInv, OffsetsInv, AfterNews, AfterKeywords, AfterTrends
<1>5. NewsInv'
  <2>1. CommittedNewsIsStored'
    BY <1>1 DEF SinkInv, NewsInv, CommittedNewsIsStored, Usable
  <2>2. QED
    BY <1>1, <1>3, <2>1 DEF NewsInv, StagingEmpty, AfterNews, AfterKeywords, AfterTrends
<1>6. StagingInv'
  BY <1>1, <1>3 DEF StagingInv, StagingEmpty, AfterNews, AfterKeywords, AfterTrends
<1>7. QED
  BY <1>4, <1>5, <1>6 DEF SinkInv

LEMMA CommitBatchStep ==
  ASSUME SinkInv, CommitBatch
  PROVE  SinkInv'
<1>1. /\ step = "commit" /\ step' = "idle" /\ committed' = planned
      /\ planned \in Nat /\ committed \in Nat /\ committed <= planned
      /\ UNCHANGED <<log, planned, newsRaw, stagingVars>>
  BY DEF CommitBatch, SinkInv, OffsetsInv, tableVars
<1>2. StagingEmpty /\ StagingEmpty'
  BY <1>1 DEF SinkInv, StagingInv, StagingEmpty, stagingVars, AfterNews, AfterKeywords, AfterTrends
<1>3. OffsetsInv'
  BY <1>1 DEF SinkInv, OffsetsInv
<1>4. CommittedNewsIsStored'
  <2>1. \A i \in Usable(planned) : i \in Usable(committed) \/ i \in BatchOffsets
    BY <1>1 DEF Usable, BatchOffsets
  <2>2. \A i \in Usable(planned) : newsRaw[ArticleOf[log[i]]] # NoMessage
    BY <1>1, <2>1 DEF SinkInv, NewsInv, CommittedNewsIsStored, AfterNews, AfterKeywords, AfterTrends
  <2>3. QED
    BY <1>1, <2>2 DEF CommittedNewsIsStored, Usable
<1>5. NewsInv'
  BY <1>1, <1>2, <1>4 DEF NewsInv, StagingEmpty, AfterNews, AfterKeywords, AfterTrends
<1>6. StagingInv'
  BY <1>1, <1>2 DEF StagingInv, AfterNews, AfterKeywords, AfterTrends
<1>7. QED
  BY <1>3, <1>5, <1>6 DEF SinkInv

LEMMA RestartStep ==
  ASSUME SinkInv, Restart
  PROVE  SinkInv'
<1>1. /\ step = "down" /\ step' = ResumeAt
      /\ UNCHANGED <<log, planned, committed, newsRaw, stagingVars>>
  BY DEF Restart, tableVars
<1>2. planned = committed => BatchOffsets = {}
  BY DEF BatchOffsets, SinkInv, OffsetsInv
<1>3. OffsetsInv'
  BY <1>1 DEF SinkInv, OffsetsInv, ResumeAt, AfterNews, AfterKeywords, AfterTrends
<1>4. NewsInv'
  BY <1>1, SameBatch
     DEF SinkInv, NewsInv, CommittedNewsIsStored, stagingVars, ResumeAt, AfterNews,
         AfterKeywords, AfterTrends
<1>5. StagingInv'
  BY <1>1, <1>2, SameBatch
     DEF SinkInv, StagingInv, StagingEmpty, stagingVars, ResumeAt, AfterNews, AfterKeywords,
         AfterTrends
<1>6. QED
  BY <1>3, <1>4, <1>5 DEF SinkInv

LEMMA SinkStep == SinkInv /\ [Next]_vars => SinkInv'
<1> SUFFICES ASSUME SinkInv, [Next]_vars PROVE SinkInv'
  OBVIOUS
<1>1. ASSUME NEW m \in Messages, Arrive(m) PROVE SinkInv'
  BY <1>1, ArriveStep
<1>2. CASE UNCHANGED vars \/ \E d \in Dictionaries : EditDictionary(d)
  <2>1. UNCHANGED <<log, planned, committed, step, newsRaw, stagingVars>>
    BY <1>2 DEF vars, sinkVars, tableVars, EditDictionary
  <2>2. QED
    BY <2>1, SameBatch
       DEF SinkInv, OffsetsInv, NewsInv, CommittedNewsIsStored, StagingInv, StagingEmpty, stagingVars
<1>3. CASE Fail
  <2>1. GoDown /\ UNCHANGED <<log, planned, committed, newsRaw, stagingVars>>
    BY <1>3 DEF Fail, tableVars
  <2>2. stgNewsRaw' \subseteq Messages
    BY <2>1 DEF SinkInv, NewsInv, stagingVars
  <2>3. QED
    BY <2>1, <2>2, GoDownStep
<1>4. CASE JobNext
  BY <1>4, PlanBatchStep, StageNewsStep, UpsertNewsStep, TokenizeStep, KeywordsStep, TrendsStep,
     RelationsStep, CommitBatchStep, RestartStep DEF JobNext
<1>5. QED
  BY <1>1, <1>2, <1>3, <1>4 DEF Next, WorldNext

\* Every message below the committed offset that parses has its article in
\* news_raw, however often the job failed and restarted on the way.
THEOREM CommittedStored == Spec => []CommittedNewsIsStored
<1>1. SinkInv => CommittedNewsIsStored
  BY DEF SinkInv, NewsInv
<1>2. QED
  BY <1>1, SinkStart, SinkStep, PTL DEF Spec

\* A committed batch leaves no staged row behind.
THEOREM StagingLeftEmpty == Spec => []NothingLeftInStaging
<1>1. SinkInv => NothingLeftInStaging
  <2> SUFFICES ASSUME SinkInv, step = "idle" PROVE StagingEmpty
    BY DEF NothingLeftInStaging, StagingEmpty
  <2>1. BatchOffsets = {}
    BY DEF SinkInv, OffsetsInv, BatchOffsets
  <2>2. QED
    BY <2>1 DEF SinkInv, StagingInv
<1>2. QED
  BY <1>1, SinkStart, SinkStep, PTL DEF Spec

-----------------------------------------------------------------------------
(* The job implements AtLeastOnce.                                         *)

\* What SinkInv does not say of news_raw: its rows are messages, and what is
\* staged for it comes from the batch under way.
StoredInv ==
  /\ newsRaw \in [Articles -> Messages \union {NoMessage}]
  /\ stgNewsRaw \subseteq BatchMessages

LEMMA StoredStart == Init => StoredInv
  BY DEF Init, StoreInit, StoredInv, tableVars

LEMMA StoredStep == SinkInv /\ StoredInv /\ [Next]_vars => StoredInv'
<1> SUFFICES ASSUME SinkInv, StoredInv, [Next]_vars PROVE StoredInv'
  OBVIOUS
<1>1. ASSUME NEW m \in Messages, Arrive(m) PROVE StoredInv'
  <2>1. \A i \in BatchOffsets : i \in 1 .. Len(log)
    BY DEF SinkInv, OffsetsInv, BatchOffsets
  <2>2. \A i \in 1 .. Len(log) : log'[i] = log[i]
    BY <1>1 DEF SinkInv, OffsetsInv, Arrive
  <2>3. planned' = planned /\ committed' = committed
    BY <1>1 DEF Arrive
  <2>4. BatchOffsets \subseteq BatchOffsets' /\ \A i \in BatchOffsets : log'[i] = log[i]
    BY <2>1, <2>2, <2>3 DEF BatchOffsets, SinkInv, OffsetsInv
  <2>5. BatchMessages \subseteq BatchMessages'
    BY <2>4 DEF BatchMessages
  <2>6. QED
    BY <1>1, <2>5 DEF StoredInv, Arrive, tableVars, stagingVars
<1>2. ASSUME NEW end, PlanBatch(end) PROVE StoredInv'
  <2>1. planned = committed /\ planned \in Nat
    BY <1>2 DEF SinkInv, OffsetsInv, PlanBatch
  <2>2. BatchOffsets = {}
    BY <2>1 DEF BatchOffsets
  <2>3. stgNewsRaw = {}
    BY <2>2 DEF SinkInv, StagingInv, StagingEmpty
  <2>4. QED
    BY <1>2, <2>3 DEF StoredInv, PlanBatch, tableVars, stagingVars
<1>3. CASE CommitBatch
  <2>1. stgNewsRaw = {}
    BY <1>3 DEF CommitBatch, SinkInv, StagingInv, AfterNews, AfterKeywords, AfterTrends
  <2>2. QED
    BY <1>3, <2>1 DEF StoredInv, CommitBatch, tableVars, stagingVars
<1>4. CASE StageNews
  <2>1. BatchMessages' = BatchMessages
    BY <1>4, SameBatch DEF StageNews
  <2>2. stgNewsRaw' \subseteq BatchMessages /\ newsRaw' = newsRaw
    BY <1>4 DEF StageNews, StoredInv, tableVars
  <2>3. QED
    BY <2>1, <2>2 DEF StoredInv
<1>5. CASE UpsertNews
  BY <1>5 DEF UpsertNews, Truncated, StoredInv
<1>6. ASSUME UNCHANGED <<log, planned, committed, newsRaw, stgNewsRaw>>
      PROVE  StoredInv'
  BY <1>6, SameBatch DEF StoredInv
<1>7. CASE \/ UNCHANGED vars \/ Fail \/ Restart \/ Tokenize
           \/ StageKeywords \/ UpsertKeywords \/ StageTrends \/ UpsertTrends
           \/ StageRelations \/ UpsertRelations
           \/ \E d \in Dictionaries : EditDictionary(d)
  <2>1. UNCHANGED <<log, planned, committed, newsRaw, stgNewsRaw>>
    BY <1>7 DEF vars, sinkVars, tableVars, stagingVars, Fail, Restart, Tokenize, StageKeywords,
       UpsertKeywords, StageTrends, UpsertTrends, StageRelations, UpsertRelations, EditDictionary
  <2>2. QED
    BY <1>6, <2>1
<1>8. QED
  BY <1>1, <1>2, <1>3, <1>4, <1>5, <1>7 DEF Next, WorldNext, JobNext

\* The messages waiting for an article are those of the batch.
LEMMA WaitingIsBatch ==
  ASSUME SinkInv, NEW a \in Articles
  PROVE  Delivery!Waiting(a, planned) = {m \in BatchMessages : ArticleOf[m] = a}
<1>1. BatchMessages \subseteq Messages
  BY DEF SinkInv, OffsetsInv, BatchMessages, BatchOffsets
<1>2. QED
  BY <1>1 DEF Delivery!Waiting, BatchMessages, BatchOffsets

\* The upsert of a batch stores it.
LEMMA UpsertNewsStores ==
  ASSUME SinkInv, StoredInv, UpsertNews
  PROVE  Delivery!Next
<1>1. stgNewsRaw = BatchMessages
  BY DEF SinkInv, NewsInv, StoredInv, UpsertNews
<1>2. planned \in committed .. Len(log)
  BY DEF SinkInv, OffsetsInv
<1>3. ASSUME NEW a \in Articles
      PROVE  newsRaw'[a] \in IF Delivery!Waiting(a, planned) = {} THEN {newsRaw[a]}
                             ELSE Delivery!Waiting(a, planned)
  <2>1. Delivery!Waiting(a, planned) = StagedOf(a)
    BY <1>1, WaitingIsBatch DEF StagedOf
  <2>2. newsRaw'[a] \in NewsRow(a)
    BY DEF UpsertNews
  <2>3. QED
    BY <2>1, <2>2 DEF NewsRow
<1>4. newsRaw' \in [Articles -> Messages \union {NoMessage}] /\ log' = log /\ committed' = committed
  BY DEF UpsertNews
<1>5. Delivery!Store(planned)
  BY <1>2, <1>3, <1>4 DEF Delivery!Store
<1>6. QED
  BY <1>2, <1>5 DEF Delivery!Next

\* The commit of a batch acknowledges its offsets.
LEMMA CommitAcknowledges ==
  ASSUME SinkInv, CommitBatch
  PROVE  Delivery!Next
<1>1. planned \in committed .. Len(log)
  BY DEF SinkInv, OffsetsInv
<1>2. ASSUME NEW a \in Articles, Delivery!Waiting(a, planned) # {}
      PROVE  newsRaw[a] # NoMessage
  <2>1. PICK i \in BatchOffsets : ArticleOf[log[i]] = a
    BY <1>2, WaitingIsBatch DEF BatchMessages
  <2>2. QED
    BY <2>1 DEF SinkInv, NewsInv, CommitBatch, AfterNews, AfterKeywords, AfterTrends
<1>3. committed' = planned /\ log' = log /\ newsRaw' = newsRaw
  BY DEF CommitBatch, tableVars
<1>4. Delivery!Acknowledge(planned)
  BY <1>1, <1>2, <1>3 DEF Delivery!Acknowledge
<1>5. QED
  BY <1>1, <1>4 DEF Delivery!Next

LEMMA DeliveryStep ==
  SinkInv /\ StoredInv /\ [Next]_vars => [Delivery!Next]_(Delivery!vars)
<1> SUFFICES ASSUME SinkInv, StoredInv, [Next]_vars
             PROVE  Delivery!Next \/ UNCHANGED Delivery!vars
  OBVIOUS
<1>1. ASSUME NEW m \in Messages, Arrive(m) PROVE Delivery!Next
  <2>1. Delivery!Deliver(m)
    BY <1>1 DEF Arrive, Delivery!Deliver, tableVars
  <2>2. QED
    BY <2>1 DEF Delivery!Next
<1>2. CASE UpsertNews
  BY <1>2, UpsertNewsStores
<1>3. CASE CommitBatch
  BY <1>3, CommitAcknowledges
<1>4. CASE \/ UNCHANGED vars \/ Fail \/ Restart \/ Tokenize \/ StageNews
           \/ StageKeywords \/ UpsertKeywords \/ StageTrends \/ UpsertTrends
           \/ StageRelations \/ UpsertRelations
           \/ (\E end \in 1 .. MaxLog : PlanBatch(end))
           \/ \E d \in Dictionaries : EditDictionary(d)
  BY <1>4 DEF vars, sinkVars, tableVars, stagingVars, Fail, Restart, Tokenize, StageNews,
     StageKeywords, UpsertKeywords, StageTrends, UpsertTrends, StageRelations, UpsertRelations,
     PlanBatch, EditDictionary, Delivery!vars
<1>5. QED
  BY <1>1, <1>2, <1>3, <1>4 DEF Next, WorldNext, JobNext

LEMMA DeliveryStart == Init => Delivery!Init
  BY DEF Init, StoreInit, Delivery!Init, tableVars

\* The streaming job implements an at-least-once consumer, for every topic,
\* batching and pattern of failures.
THEOREM AtLeastOnceImplemented == Spec => IsAtLeastOnce
<1>1. Spec => []SinkInv
  BY SinkStart, SinkStep, PTL DEF Spec
<1>2. Spec => []StoredInv
  BY <1>1, StoredStart, StoredStep, PTL DEF Spec
<1>3. QED
  BY <1>1, <1>2, DeliveryStart, DeliveryStep, PTL DEF Spec, IsAtLeastOnce, Delivery!Spec
-----------------------------------------------------------------------------
(* What the counts of a batch are made of.                                 *)

\* MostMentions is a bound of what the dictionaries find.
LEMMA MostMentionsIsMost ==
  ASSUME NEW m \in Messages, NEW k \in Keywords, NEW d \in Dictionaries
  PROVE  MostMentions(m, k) \in Nat /\ Mentions[m][d][k] <= MostMentions(m, k)
<1> DEFINE f == [e \in Dictionaries |-> Mentions[m][e][k]]
           S == {Mentions[m][e][k] : e \in Dictionaries}
<1>1. IsFiniteSet(Dictionaries) /\ \A e \in Dictionaries : f[e] \in Nat
  BY StoreAssumption
<1>2. SumFunctionOnSet(f, Dictionaries) \in Nat
      /\ \A e \in Dictionaries : f[e] <= SumFunctionOnSet(f, Dictionaries)
  <2> HIDE DEF f
  <2> QED BY <1>1, SumIsNat, SumAtLeast
<1>3. S \subseteq Nat /\ S # {} /\ \A x \in S : x <= SumFunctionOnSet(f, Dictionaries)
  BY <1>1, <1>2
<1>4. Max(S) \in S /\ \A x \in S : x <= Max(S)
  <2> HIDE DEF S, f
  <2> QED BY <1>2, <1>3, MaxIsLargest
<1>5. Max(S) \in Nat /\ Mentions[m][d][k] <= Max(S)
  BY <1>3, <1>4
<1> QED
  BY <1>5 DEF MostMentions

\* MentionsInTopic, as a function of the topic and the planned offset.
UsableIn(l, n) == {i \in 1 .. n : l[i] \notin Unusable}
Most(l, n, k) == [i \in UsableIn(l, n) |-> MostMentions(l[i], k)]
OffsetsOf(l, n, A) == {i \in UsableIn(l, n) : ArticleOf[l[i]] \in A}
TopicSum(l, n, A, k) == SumFunctionOnSet(Most(l, n, k), OffsetsOf(l, n, A))

\* The sum over the usable messages of a topic that MentionsInTopic stands for.
LEMMA MentionsAreTopicSum ==
  ASSUME NEW A, NEW k
  PROVE  /\ MentionsInTopic(A, k) = TopicSum(log, planned, A, k)
         /\ MentionsInTopic(A, k)' = TopicSum(log', planned', A, k)
  BY DEF MentionsInTopic, TopicSum, Most, OffsetsOf, UsableIn, Usable

LEMMA OffsetsAreFinite ==
  ASSUME NEW l \in Seq(Messages), NEW n \in 0 .. Len(l), NEW k \in Keywords, Dictionaries # {}
  PROVE  /\ IsFiniteSet(UsableIn(l, n)) /\ UsableIn(l, n) \subseteq 1 .. Len(l)
         /\ \A A : OffsetsOf(l, n, A) \subseteq UsableIn(l, n) /\ IsFiniteSet(OffsetsOf(l, n, A))
         /\ \A i \in UsableIn(l, n) : /\ l[i] \in Messages
                                      /\ Most(l, n, k)[i] = MostMentions(l[i], k)
                                      /\ MostMentions(l[i], k) \in Nat
<1>1. UsableIn(l, n) \subseteq 1 .. n /\ n \in Int /\ 1 .. n \subseteq 1 .. Len(l)
  BY DEF UsableIn
<1>2. IsFiniteSet(UsableIn(l, n))
  <2>1. IsFiniteSet(1 .. n)
    BY <1>1, FS_Interval
  <2> QED
    BY <1>1, <2>1, FS_Subset
<1>3. ASSUME NEW A
      PROVE  OffsetsOf(l, n, A) \subseteq UsableIn(l, n) /\ IsFiniteSet(OffsetsOf(l, n, A))
  <2>1. OffsetsOf(l, n, A) \in SUBSET UsableIn(l, n)
    BY DEF OffsetsOf
  <2> QED
    BY <1>2, <2>1, FS_Subset
<1>4. ASSUME NEW i \in UsableIn(l, n)
      PROVE  /\ l[i] \in Messages /\ Most(l, n, k)[i] = MostMentions(l[i], k)
             /\ MostMentions(l[i], k) \in Nat
  <2>1. l[i] \in Messages
    BY <1>1
  <2> QED
    BY <2>1, MostMentionsIsMost DEF Most
<1> QED
  BY <1>1, <1>2, <1>3, <1>4

LEMMA TopicSumIsNat ==
  ASSUME NEW l \in Seq(Messages), NEW n \in 0 .. Len(l), NEW k \in Keywords, Dictionaries # {},
         NEW A
  PROVE  TopicSum(l, n, A, k) \in Nat
<1>1. IsFiniteSet(OffsetsOf(l, n, A)) /\ \A i \in OffsetsOf(l, n, A) : Most(l, n, k)[i] \in Nat
  BY OffsetsAreFinite
<1> QED
  BY <1>1, SumIsNat DEF TopicSum

\* A topic that grows, with a planned offset that advances, mentions no less.
LEMMA TopicSumGrows ==
  ASSUME NEW l \in Seq(Messages), NEW n \in 0 .. Len(l),
         NEW h \in Seq(Messages), NEW p \in 0 .. Len(h),
         n <= p, \A i \in 1 .. n : h[i] = l[i],
         NEW k \in Keywords, Dictionaries # {}, NEW A
  PROVE  TopicSum(l, n, A, k) <= TopicSum(h, p, A, k)
<1>1. /\ IsFiniteSet(OffsetsOf(l, n, A))
      /\ \A i \in OffsetsOf(l, n, A) : Most(l, n, k)[i] = MostMentions(l[i], k)
  BY OffsetsAreFinite
<1>2. /\ IsFiniteSet(OffsetsOf(h, p, A))
      /\ \A i \in OffsetsOf(h, p, A) : Most(h, p, k)[i] = MostMentions(h[i], k)
      /\ \A i \in OffsetsOf(h, p, A) : Most(h, p, k)[i] \in Nat
  BY OffsetsAreFinite
<1>3. OffsetsOf(l, n, A) \in SUBSET OffsetsOf(h, p, A) /\ \A i \in OffsetsOf(l, n, A) : h[i] = l[i]
  BY DEF OffsetsOf, UsableIn
<1>4. SumFunctionOnSet(Most(l, n, k), OffsetsOf(l, n, A))
        = SumFunctionOnSet(Most(h, p, k), OffsetsOf(l, n, A))
  <2>1. \A i \in OffsetsOf(l, n, A) : Most(l, n, k)[i] = Most(h, p, k)[i]
    BY <1>1, <1>2, <1>3
  <2> QED
    BY <1>1, <2>1, SumSame
<1>5. SumFunctionOnSet(Most(h, p, k), OffsetsOf(l, n, A))
        <= SumFunctionOnSet(Most(h, p, k), OffsetsOf(h, p, A))
  BY <1>2, <1>3, SumSubset
<1> QED
  BY <1>4, <1>5 DEF TopicSum

\* The mentions of a set of articles are those of its articles, summed.
LEMMA TopicSumByArticle ==
  ASSUME NEW l \in Seq(Messages), NEW n \in 0 .. Len(l), NEW k \in Keywords, Dictionaries # {},
         NEW A \in SUBSET Articles,
         NEW total, \A a \in A : total[a] = TopicSum(l, n, {a}, k)
  PROVE  SumFunctionOnSet(total, A) = TopicSum(l, n, A, k)
<1> DEFINE part == [a \in A |-> OffsetsOf(l, n, {a})]
           S == UsableIn(l, n)
           f == Most(l, n, k)
<1>1. IsFiniteSet(A)
  BY StoreAssumption, FS_Subset
<1>2. IsFiniteSet(S) /\ \A i \in S : f[i] \in Nat
  BY OffsetsAreFinite
<1>3. part \in [A -> SUBSET S] /\ \A a, b \in A : a # b => part[a] \intersect part[b] = {}
  BY DEF OffsetsOf
<1>4. \A a \in A : total[a] = SumFunctionOnSet(f, part[a])
  BY Zenon DEF TopicSum
<1>5. UNION {part[a] : a \in A} = OffsetsOf(l, n, A)
  BY DEF OffsetsOf
<1>6. SumFunctionOnSet(total, A) = SumFunctionOnSet(f, UNION {part[a] : a \in A})
  <2> HIDE DEF part, S, f
  <2> QED BY <1>1, <1>2, <1>3, <1>4, SumOfParts
<1> QED
  BY <1>5, <1>6, Zenon DEF TopicSum

\* A batch counts no more mentions of an article than the topic holds.
LEMMA BatchCountBound ==
  ASSUME OffsetsInv, dictionary \in Dictionaries, NEW a \in Articles, NEW k \in Keywords
  PROVE  BatchCount(a, k) \in Nat /\ BatchCount(a, k) <= MentionsInTopic({a}, k)
<1> DEFINE f == [i \in BatchOffsets |-> Mentions[log[i]][dictionary][k]]
           S == {i \in BatchOffsets : ArticleOf[log[i]] = a}
           e == Most(log, planned, k)
           R == OffsetsOf(log, planned, {a})
<1>1. /\ IsFiniteSet(R) /\ R \subseteq UsableIn(log, planned)
      /\ \A i \in UsableIn(log, planned) :
           log[i] \in Messages /\ e[i] = MostMentions(log[i], k) /\ e[i] \in Nat
  BY OffsetsAreFinite DEF OffsetsInv
<1>2. S \in SUBSET R
  BY DEF BatchOffsets, OffsetsInv, OffsetsOf, UsableIn
<1>3. IsFiniteSet(S)
  BY <1>1, <1>2, FS_Subset
<1>4. \A i \in S : f[i] = Mentions[log[i]][dictionary][k]
  OBVIOUS
<1>5. \A i \in S : Mentions[log[i]][dictionary][k] \in Nat
                   /\ Mentions[log[i]][dictionary][k] <= MostMentions(log[i], k)
  <2> HIDE DEF e, R, S
  <2> QED BY <1>1, <1>2, MostMentionsIsMost, StoreAssumption
<1>6. \A i \in S : f[i] \in Nat /\ e[i] \in Nat /\ f[i] <= e[i]
  <2> HIDE DEF e, R, S, f
  <2> QED BY <1>1, <1>2, <1>4, <1>5
<1>7. SumFunctionOnSet(f, S) \in Nat
  <2> HIDE DEF e, R, S, f
  <2> QED BY <1>3, <1>6, SumIsNat
<1>8. SumFunctionOnSet(f, S) <= SumFunctionOnSet(e, S)
  <2> HIDE DEF e, R, S, f
  <2> QED BY <1>3, <1>6, SumMonotone
<1>9. SumFunctionOnSet(e, S) <= SumFunctionOnSet(e, R)
  <2> HIDE DEF e, R, S, f
  <2> QED BY <1>1, <1>2, SumSubset
<1>10. SumFunctionOnSet(e, S) \in Nat /\ SumFunctionOnSet(e, R) \in Nat
  <2> HIDE DEF e, R, S, f
  <2> QED BY <1>1, <1>2, <1>3, SumIsNat
<1>11. BatchCount(a, k) = SumFunctionOnSet(f, S)
  BY Zenon DEF BatchCount
<1>12. MentionsInTopic({a}, k) = SumFunctionOnSet(e, R)
  BY MentionsAreTopicSum, Zenon DEF TopicSum
<1> HIDE DEF e, R, S, f
<1> QED
  BY <1>7, <1>8, <1>9, <1>10, <1>11, <1>12

\* It counts each message of the batch in full.
LEMMA BatchCountHolds ==
  ASSUME OffsetsInv, dictionary \in Dictionaries, NEW k \in Keywords, NEW i \in BatchOffsets
  PROVE  Mentions[log[i]][dictionary][k] <= BatchCount(ArticleOf[log[i]], k)
<1> DEFINE f == [j \in BatchOffsets |-> Mentions[log[j]][dictionary][k]]
           S == {j \in BatchOffsets : ArticleOf[log[j]] = ArticleOf[log[i]]}
<1>1. S \in SUBSET (1 .. planned) /\ planned \in Nat /\ S \subseteq 1 .. Len(log)
  BY DEF BatchOffsets, OffsetsInv
<1>2. IsFiniteSet(S)
  <2>1. IsFiniteSet(1 .. planned)
    BY <1>1, FS_Interval
  <2> HIDE DEF S
  <2> QED BY <1>1, <2>1, FS_Subset
<1>3. \A j \in S : f[j] \in Nat
  BY <1>1, StoreAssumption DEF OffsetsInv
<1>4. i \in S /\ f[i] = Mentions[log[i]][dictionary][k]
  OBVIOUS
<1>5. f[i] <= SumFunctionOnSet(f, S)
  <2> HIDE DEF S, f
  <2> QED BY <1>2, <1>3, <1>4, SumAtLeast
<1>6. BatchCount(ArticleOf[log[i]], k) = SumFunctionOnSet(f, S)
  BY Zenon DEF BatchCount
<1> QED
  BY <1>4, <1>5, <1>6, Zenon

\* What a batch counts for a window is what it counts for its articles, no more
\* than the topic holds of them.
LEMMA BatchTrendBound ==
  ASSUME OffsetsInv, Dictionaries # {}, articleKeywords \in [ArticleKeyword -> Nat],
         NEW k \in Keywords, NEW w \in Windows
  PROVE  /\ BatchTrend(w, k) \in Nat
         /\ (\A a \in Articles : articleKeywords[<<a, k>>] <= MentionsInTopic({a}, k))
              => BatchTrend(w, k) <= MentionsInTopic(ArticlesOf(w), k)
         /\ BatchTrend(w, k) > 0 => \E a \in ArticlesOf(w) : articleKeywords[<<a, k>>] > 0
<1> DEFINE f == [a \in Articles |-> articleKeywords[<<a, k>>]]
           S == ArticlesOf(w)
           e == [a \in Articles |-> TopicSum(log, planned, {a}, k)]
<1>1. S \in SUBSET Articles /\ IsFiniteSet(S)
  BY FS_Subset, StoreAssumption DEF ArticlesOf
<1>2. \A a \in S : f[a] \in Nat /\ f[a] = articleKeywords[<<a, k>>]
  BY <1>1 DEF ArticleKeyword
<1>3. \A a \in S : e[a] = TopicSum(log, planned, {a}, k) /\ e[a] = MentionsInTopic({a}, k)
                   /\ e[a] \in Nat
  BY <1>1, TopicSumIsNat, MentionsAreTopicSum DEF OffsetsInv
<1>4. SumFunctionOnSet(f, S) \in Nat
  <2> HIDE DEF S, f, e
  <2> QED BY <1>1, <1>2, SumIsNat
<1>5. SumFunctionOnSet(e, S) = MentionsInTopic(S, k)
  <2>1. log \in Seq(Messages) /\ planned \in 0 .. Len(log)
    BY DEF OffsetsInv
  <2> HIDE DEF S, f, e
  <2>2. SumFunctionOnSet(e, S) = TopicSum(log, planned, S, k)
    BY <1>1, <1>3, <2>1, TopicSumByArticle
  <2> QED BY <2>2, MentionsAreTopicSum
<1>6. ASSUME \A a \in Articles : articleKeywords[<<a, k>>] <= MentionsInTopic({a}, k)
      PROVE  SumFunctionOnSet(f, S) <= SumFunctionOnSet(e, S)
  <2>1. \A a \in S : f[a] <= e[a]
    <3> HIDE DEF S, f, e
    <3> QED BY <1>1, <1>2, <1>3, <1>6
  <2> HIDE DEF S, f, e
  <2> QED BY <1>1, <1>2, <1>3, <2>1, SumMonotone
<1>7. ASSUME SumFunctionOnSet(f, S) > 0
      PROVE  \E a \in S : articleKeywords[<<a, k>>] > 0
  <2>1. \E a \in S : f[a] > 0
    <3> HIDE DEF S, f, e
    <3> QED BY <1>1, <1>2, <1>7, SumPositive
  <2> HIDE DEF S, f, e
  <2> QED BY <1>2, <2>1
<1>8. BatchTrend(w, k) = SumFunctionOnSet(f, S)
  BY Zenon DEF BatchTrend
<1> HIDE DEF f, e
<1> QED
  BY <1>4, <1>5, <1>6, <1>7, <1>8

\* A pair is counted for articles that have both of its words.
LEMMA BatchRelationBacked ==
  ASSUME articleKeywords \in [ArticleKeyword -> Nat],
         NEW w \in Windows, NEW j \in Keywords, NEW k \in Keywords
  PROVE  /\ BatchRelation(w, j, k) \in Nat
         /\ BatchRelation(w, j, k) > 0 =>
              \E a \in ArticlesOf(w) : articleKeywords[<<a, j>>] > 0 /\ articleKeywords[<<a, k>>] > 0
<1> DEFINE counts(a) == [i \in Keywords |-> articleKeywords[<<a, i>>]]
           S == {a \in ArticlesOf(w) : /\ {j, k} \subseteq Representative(counts(a))
                                       /\ Rank(counts(a), j) < Rank(counts(a), k)}
<1>1. S \in SUBSET Articles
  BY DEF ArticlesOf
<1>2. IsFiniteSet(S) /\ Cardinality(S) \in Nat
  <2> HIDE DEF S
  <2> QED BY <1>1, FS_Subset, FS_CardinalityType, StoreAssumption
<1>3. BatchRelation(w, j, k) = Cardinality(S)
  BY DEF BatchRelation
<1>4. \A a \in S : a \in ArticlesOf(w) /\ articleKeywords[<<a, j>>] > 0
                   /\ articleKeywords[<<a, k>>] > 0
  BY DEF Representative
<1>5. Cardinality(S) > 0 => S # {}
  <2> HIDE DEF S
  <2> QED BY <1>2, FS_EmptySet
<1>6. Cardinality(S) > 0 => \E a \in S : TRUE
  <2> HIDE DEF S
  <2> QED BY <1>5
<1> HIDE DEF S, counts
<1> QED
  BY <1>2, <1>3, <1>4, <1>6

-----------------------------------------------------------------------------
(* What is staged, and what an upsert makes of it.                         *)

LEMMA TimesIsMonotone ==
  ASSUME NEW m \in Nat, NEW n \in Nat, NEW b \in Nat, NEW c \in Nat, m <= n, b <= c
  PROVE  m * b \in Nat /\ m * b <= n * c
<1>1. \A x, y, z \in Nat : (x + y) * z = x * z + y * z /\ x * (y + z) = x * y + x * z /\ x * y \in Nat
  OBVIOUS
<1>2. PICK i \in Nat : n = m + i
  <2>1. n - m \in Nat /\ n = m + (n - m)
    OBVIOUS
  <2> QED
    BY <2>1
<1>3. PICK j \in Nat : c = b + j
  <2>1. c - b \in Nat /\ c = b + (c - b)
    OBVIOUS
  <2> QED
    BY <2>1
<1>4. n * c = m * c + i * c /\ m * c = m * b + m * j
  BY <1>1, <1>2, <1>3
<1>5. m * b \in Nat /\ i * c \in Nat /\ m * j \in Nat
  BY <1>1
<1> QED
  BY <1>4, <1>5

\* The rows of an attempt: one for each key that is counted.
LEMMA RowsOfBatch ==
  ASSUME planned \in Nat, failures \in 0 .. MaxFailures, NEW D, NEW counts \in [D -> Nat]
  PROVE  /\ RowsOf(counts) \subseteq Row(D)
         /\ \A r \in RowsOf(counts) : /\ r.key \in D /\ r.count = counts[r.key] /\ r.count > 0
                                      /\ r.attempt = failures
         /\ \A r, s \in RowsOf(counts) : r.key = s.key => r = s
         /\ \A key \in D : counts[key] > 0 => \E r \in RowsOf(counts) : r.key = key
<1>1. ASSUME NEW key \in D, counts[key] > 0
      PROVE  [key |-> key, count |-> counts[key], batch |-> planned, attempt |-> failures] \in Row(D)
  BY <1>1 DEF Row
<1>2. RowsOf(counts) \subseteq Row(D)
  BY <1>1 DEF RowsOf
<1>3. \A r \in RowsOf(counts) : /\ r.key \in D /\ r.count = counts[r.key] /\ r.count > 0
                                /\ r.attempt = failures
  BY DEF RowsOf
<1>4. \A r, s \in RowsOf(counts) : r.key = s.key => r = s
  BY DEF RowsOf
<1>5. ASSUME NEW key \in D, counts[key] > 0
      PROVE  \E r \in RowsOf(counts) : r.key = key
  <2>1. [key |-> key, count |-> counts[key], batch |-> planned, attempt |-> failures]
          \in RowsOf(counts)
    BY <1>5 DEF RowsOf
  <2> QED
    BY <2>1
<1> QED
  BY <1>2, <1>3, <1>4, <1>5

\* The rows staged for a key, one for each attempt at most, are finitely many.
LEMMA AttemptsAreFinite ==
  ASSUME NEW n \in Nat, NEW D, NEW rows \in SUBSET Row(D),
         \A r \in rows : r.attempt <= n,
         \A r, s \in rows : r.attempt = s.attempt => r = s
  PROVE  IsFiniteSet(rows) /\ Cardinality(rows) \in Nat /\ Cardinality(rows) <= n + 1
<1> DEFINE attempts == [r \in rows |-> r.attempt]
<1>1. IsFiniteSet(0 .. n) /\ Cardinality(0 .. n) = n + 1
  BY FS_Interval
<1>2. attempts \in Injection(rows, 0 .. n)
  BY DEF Injection, IsInjective, Row
<1> QED
  BY <1>1, <1>2, FS_Injection, FS_CardinalityType

\* The sum of the staged counts is at most as many times a bound as there were
\* attempts.
LEMMA TotalOfAttempts ==
  ASSUME NEW n \in Nat, NEW D, NEW rows \in SUBSET Row(D),
         \A r \in rows : r.attempt <= n,
         \A r, s \in rows : r.attempt = s.attempt => r = s
  PROVE  /\ Total(rows) \in Nat
         /\ \A r \in rows : r.count <= Total(rows)
         /\ \A b \in Nat : (\A r \in rows : r.count <= b) => Total(rows) <= (1 + n) * b
<1> DEFINE f == [r \in rows |-> r.count]
<1>1. IsFiniteSet(rows) /\ Cardinality(rows) <= n + 1 /\ Cardinality(rows) \in Nat
  BY AttemptsAreFinite
<1>2. \A r \in rows : f[r] \in Nat /\ f[r] = r.count
  BY DEF Row
<1>3. SumFunctionOnSet(f, rows) \in Nat
  <2> HIDE DEF f
  <2> QED BY <1>1, <1>2, SumIsNat
<1>4. \A r \in rows : f[r] <= SumFunctionOnSet(f, rows)
  <2> HIDE DEF f
  <2> QED BY <1>1, <1>2, SumAtLeast
<1>5. ASSUME NEW b \in Nat, \A r \in rows : r.count <= b
      PROVE  SumFunctionOnSet(f, rows) <= (1 + n) * b
  <2> HIDE DEF f
  <2>1. SumFunctionOnSet(f, rows) <= Cardinality(rows) * b
    BY <1>1, <1>2, <1>5, SumAtMost
  <2>2. Cardinality(rows) * b \in Nat /\ Cardinality(rows) * b <= (1 + n) * b
    BY <1>1, TimesIsMonotone
  <2>3. (1 + n) * b \in Nat
    OBVIOUS
  <2> QED
    BY <1>3, <2>1, <2>2, <2>3
<1>6. Total(rows) = SumFunctionOnSet(f, rows)
  BY Zenon DEF Total
<1> HIDE DEF f
<1> QED
  BY <1>2, <1>3, <1>4, <1>5, <1>6

\* The largest of the staged counts is one of them.
LEMMA LargestIsStaged ==
  ASSUME NEW n \in Nat, NEW D, NEW rows \in SUBSET Row(D), rows # {},
         \A r \in rows : r.attempt <= n,
         \A r, s \in rows : r.attempt = s.attempt => r = s
  PROVE  /\ \E r \in rows : Largest(rows) = r.count
         /\ Largest(rows) \in Nat /\ Largest(rows) > 0
<1> DEFINE S == {r.count : r \in rows}
<1>1. Total(rows) \in Nat /\ \A r \in rows : r.count <= Total(rows)
  BY TotalOfAttempts
<1>2. \A x \in S : x \in Nat /\ x > 0 /\ x <= Total(rows)
  BY <1>1 DEF Row
<1>3. S # {}
  OBVIOUS
<1>4. Max(S) \in S
  <2> HIDE DEF S
  <2> QED BY <1>1, <1>2, <1>3, MaxIsLargest
<1>5. Largest(rows) = Max(S) /\ \E r \in rows : Max(S) = r.count
  BY <1>4 DEF Largest
<1> HIDE DEF S
<1> QED
  BY <1>2, <1>4, <1>5

-----------------------------------------------------------------------------
(* The steps, as far as the counts are concerned.                          *)

LEMMA StepNames == {Steps[i] : i \in 1 .. Len(Steps)} \union {"idle", "down"}
                     = {"idle", "down", "stageNews", "upsertNews"} \union AfterNews
<1>1. Len(Steps) = 10
  BY DEF Steps
<1>2. /\ Steps[1] = "stageNews" /\ Steps[2] = "upsertNews" /\ Steps[3] = "tokenize"
      /\ Steps[4] = "stageKeywords" /\ Steps[5] = "upsertKeywords"
      /\ Steps[6] = "stageTrends" /\ Steps[7] = "upsertTrends"
      /\ Steps[8] = "stageRelations" /\ Steps[9] = "upsertRelations"
      /\ Steps[10] = "commit"
  BY DEF Steps
<1>3. \A i \in 1 .. 10 : Steps[i] \in {"stageNews", "upsertNews"} \union AfterNews
  BY <1>2 DEF AfterNews, AfterKeywords, AfterTrends
<1>4. \A s \in {"stageNews", "upsertNews"} \union AfterNews : \E i \in 1 .. 10 : Steps[i] = s
  BY <1>2 DEF AfterNews, AfterKeywords, AfterTrends
<1> QED
  BY <1>1, <1>3, <1>4

\* The kinds of steps: those that leave the counts alone, and the two of each table.
CountsUntouched ==
  /\ UNCHANGED <<keywords, trends, relations, stgKeywords, stgTrends, stgRelations>>
  /\ articleKeywords' \in {articleKeywords, NoCounts}
  /\ \/ failures' = failures + 1
     \/ failures' = failures
        /\ (step \in {"upsertKeywords", "upsertTrends", "upsertRelations"} => step' = step)

\* The steps in which the counts, in tables, staging or hand, change, and the others.
LEMMA StepKinds ==
  ASSUME [Next]_vars
  PROVE  \/ CountsUntouched \/ Tokenize \/ StageKeywords \/ UpsertKeywords
         \/ StageTrends \/ UpsertTrends \/ StageRelations \/ UpsertRelations
<1>1. CASE UNCHANGED vars
  BY <1>1 DEF vars, sinkVars, tableVars, stagingVars, CountsUntouched
<1>2. CASE \E m \in Messages : Arrive(m)
  BY <1>2 DEF Arrive, tableVars, stagingVars, CountsUntouched
<1>3. CASE \E d \in Dictionaries : EditDictionary(d)
  BY <1>3 DEF EditDictionary, tableVars, stagingVars, CountsUntouched
<1>4. CASE \E end \in 1 .. MaxLog : PlanBatch(end)
  BY <1>4 DEF PlanBatch, tableVars, stagingVars, CountsUntouched
<1>5. CASE StageNews
  BY <1>5 DEF StageNews, AppendOf, Advance, GoDown, RepeatTask, tableVars, CountsUntouched
<1>6. CASE UpsertNews
  BY <1>6 DEF UpsertNews, Advance, CountsUntouched
<1>7. CASE CommitBatch
  BY <1>7 DEF CommitBatch, tableVars, stagingVars, CountsUntouched
<1>8. CASE Restart
  BY <1>8 DEF Restart, tableVars, stagingVars, CountsUntouched
<1>9. CASE Fail
  BY <1>9 DEF Fail, GoDown, tableVars, stagingVars, CountsUntouched
<1> QED
  BY <1>1, <1>2, <1>3, <1>4, <1>5, <1>6, <1>7, <1>8, <1>9 DEF Next, WorldNext, JobNext

\* The topic, the planned offset and the number of failures only grow.
LEMMA TopicStep ==
  ASSUME SinkInv, failures \in Nat, [Next]_vars
  PROVE  /\ planned <= planned' /\ \A i \in 1 .. planned : log'[i] = log[i]
         /\ failures <= failures' /\ failures' \in Nat
<1>1. /\ log \in Seq(Messages) /\ planned \in 0 .. Len(log)
  BY DEF SinkInv, OffsetsInv
<1>2. CASE \E m \in Messages : Arrive(m)
  BY <1>1, <1>2 DEF Arrive
<1>3. CASE \E end \in 1 .. MaxLog : PlanBatch(end)
  BY <1>1, <1>3 DEF PlanBatch
<1>4. CASE \/ UNCHANGED vars \/ (\E d \in Dictionaries : EditDictionary(d))
           \/ CommitBatch \/ Restart \/ Fail \/ Tokenize
  BY <1>1, <1>4 DEF vars, sinkVars, EditDictionary, CommitBatch, Restart, Fail, GoDown, Tokenize
<1>5. CASE \/ StageNews \/ UpsertNews \/ StageKeywords \/ UpsertKeywords
           \/ StageTrends \/ UpsertTrends \/ StageRelations \/ UpsertRelations
  <2>1. UNCHANGED <<log, planned>> /\ (Advance \/ GoDown \/ RepeatTask)
    BY <1>5 DEF StageNews, UpsertNews, StageKeywords, UpsertKeywords, StageTrends, UpsertTrends,
       StageRelations, UpsertRelations, AppendOf
  <2> QED
    BY <1>1, <2>1 DEF Advance, GoDown, RepeatTask
<1> QED
  BY <1>2, <1>3, <1>4, <1>5 DEF Next, WorldNext, JobNext

\* The bounds only grow, as the topic does.
LEMMA MentionsGrow ==
  ASSUME SinkInv, TypeOK, [Next]_vars, NEW A, NEW k \in Keywords
  PROVE  /\ MentionsInTopic(A, k) \in Nat /\ MentionsInTopic(A, k)' \in Nat
         /\ MentionsInTopic(A, k) <= MentionsInTopic(A, k)'
<1>1. log \in Seq(Messages) /\ planned \in 0 .. Len(log) /\ Dictionaries # {} /\ failures \in Nat
  BY DEF SinkInv, OffsetsInv, TypeOK, StoreTypeOK, SinkTypeOK
<1>2. log' \in Seq(Messages) /\ planned' \in 0 .. Len(log')
  BY SinkStep DEF SinkInv, OffsetsInv
<1>3. planned <= planned' /\ \A i \in 1 .. planned : log'[i] = log[i]
  BY <1>1, TopicStep
<1>4. TopicSum(log, planned, A, k) \in Nat /\ TopicSum(log', planned', A, k) \in Nat
  BY <1>1, <1>2, TopicSumIsNat
<1>5. TopicSum(log, planned, A, k) <= TopicSum(log', planned', A, k)
  BY <1>1, <1>2, <1>3, TopicSumGrows
<1> QED
  BY <1>4, <1>5, MentionsAreTopicSum

\* What is not a count.
\* The types in two parts: the first is kept by every step whatever it counts.
PlainTypeOK ==
  /\ dictionary \in Dictionaries
  /\ newsRaw \in [Articles -> Messages \union {NoMessage}]
  /\ log \in Seq(Messages) /\ Len(log) <= MaxLog
  /\ planned \in 0 .. Len(log)
  /\ committed \in 0 .. planned
  /\ step \in {Steps[i] : i \in 1 .. Len(Steps)} \union {"idle", "down"}
  /\ stgNewsRaw \subseteq Messages
  /\ failures \in 0 .. MaxFailures
  /\ edits \in 0 .. MaxEdits

CountTypeOK ==
  /\ articleKeywords \in [ArticleKeyword -> Nat]
  /\ keywords \in [ArticleKeyword -> Nat]
  /\ trends \in [WindowKeyword -> Nat]
  /\ relations \in [WindowPair -> Nat]
  /\ stgKeywords \subseteq Row(ArticleKeyword)
  /\ stgTrends \subseteq Row(WindowKeyword)
  /\ stgRelations \subseteq Row(WindowPair)

LEMMA TypeOKParts == /\ TypeOK <=> PlainTypeOK /\ CountTypeOK
                     /\ TypeOK' <=> PlainTypeOK' /\ CountTypeOK'
  BY DEF TypeOK, StoreTypeOK, SinkTypeOK, PlainTypeOK, CountTypeOK

LEMMA PlainTypeStep ==
  ASSUME SinkInv, PlainTypeOK, [Next]_vars
  PROVE  PlainTypeOK'
<1>1. SinkInv'
  BY SinkStep
<1>2. /\ log' \in Seq(Messages) /\ planned' \in 0 .. Len(log') /\ committed' \in 0 .. planned'
      /\ step' \in {Steps[i] : i \in 1 .. Len(Steps)} \union {"idle", "down"}
      /\ stgNewsRaw' \subseteq Messages
  BY <1>1, StepNames DEF SinkInv, OffsetsInv, NewsInv
<1> SUFFICES /\ dictionary' \in Dictionaries
             /\ newsRaw' \in [Articles -> Messages \union {NoMessage}]
             /\ Len(log') <= MaxLog
             /\ failures' \in 0 .. MaxFailures
             /\ edits' \in 0 .. MaxEdits
  BY <1>2 DEF PlainTypeOK
<1>3. CASE \E m \in Messages : Arrive(m)
  BY <1>3, SinkBounds DEF Arrive, PlainTypeOK, tableVars
<1>4. CASE \E d \in Dictionaries : EditDictionary(d)
  BY <1>4, SinkBounds DEF EditDictionary, PlainTypeOK, tableVars
<1>5. CASE UNCHANGED <<dictionary, newsRaw, log, failures, edits>>
  BY <1>5 DEF PlainTypeOK
<1>6. CASE (GoDown \/ RepeatTask) /\ UNCHANGED <<dictionary, newsRaw, log, edits>>
  BY <1>6, SinkBounds DEF PlainTypeOK, GoDown, RepeatTask
<1>7. CASE UpsertNews
  BY <1>7 DEF UpsertNews, PlainTypeOK, Advance
<1>8. CASE \/ UNCHANGED vars \/ (\E end \in 1 .. MaxLog : PlanBatch(end)) \/ CommitBatch
           \/ Restart \/ Fail \/ Tokenize
  <2>1. \/ UNCHANGED <<dictionary, newsRaw, log, failures, edits>>
        \/ GoDown /\ UNCHANGED <<dictionary, newsRaw, log, edits>>
    BY <1>8 DEF vars, sinkVars, tableVars, PlanBatch, CommitBatch, Restart, Fail, Tokenize
  <2> QED
    BY <1>5, <1>6, <2>1
<1>9. CASE \/ StageNews \/ StageKeywords \/ UpsertKeywords
           \/ StageTrends \/ UpsertTrends \/ StageRelations \/ UpsertRelations
  <2>1. \/ UNCHANGED <<dictionary, newsRaw, log, failures, edits>>
        \/ (GoDown \/ RepeatTask) /\ UNCHANGED <<dictionary, newsRaw, log, edits>>
    BY <1>9 DEF StageNews, StageKeywords, UpsertKeywords, StageTrends, UpsertTrends,
       StageRelations, UpsertRelations, AppendOf, Advance, tableVars
  <2> QED
    BY <1>5, <1>6, <2>1
<1> QED
  BY <1>3, <1>4, <1>7, <1>8, <1>9 DEF Next, WorldNext, JobNext

-----------------------------------------------------------------------------
(* The types, and the rows of an attempt.                                  *)

\* The types as the later proofs use them.
LEMMA TypesNow ==
  ASSUME RowsInv
  PROVE  /\ TypeOK /\ CountTypeOK /\ PlainTypeOK
         /\ planned \in Nat /\ failures \in Nat /\ Dictionaries # {}
         /\ NoCounts \in [ArticleKeyword -> Nat] /\ \A row \in ArticleKeyword : NoCounts[row] = 0
         /\ \A a \in Articles, k \in Keywords :
              articleKeywords[<<a, k>>] \in Nat /\ keywords[<<a, k>>] \in Nat
         /\ \A w \in Windows, k \in Keywords : trends[<<w, k>>] \in Nat
         /\ \A r \in stgKeywords : r \in Row(ArticleKeyword) /\ r.count \in Nat
                                   /\ r.key[1] \in Articles /\ r.key[2] \in Keywords
         /\ \A r \in stgTrends : r \in Row(WindowKeyword) /\ r.count \in Nat
                                 /\ r.key[1] \in Windows /\ r.key[2] \in Keywords
         /\ \A r \in stgRelations : r \in Row(WindowPair) /\ r.key[1] \in Windows
                                    /\ r.key[2] \in Keywords /\ r.key[3] \in Keywords
<1>1. TypeOK /\ CountTypeOK /\ PlainTypeOK
  BY TypeOKParts DEF RowsInv
<1>2. planned \in Nat /\ failures \in Nat /\ Dictionaries # {}
  BY <1>1 DEF PlainTypeOK
<1>3. NoCounts \in [ArticleKeyword -> Nat] /\ \A row \in ArticleKeyword : NoCounts[row] = 0
  BY DEF NoCounts
<1>4. \A a \in Articles, k \in Keywords :
        articleKeywords[<<a, k>>] \in Nat /\ keywords[<<a, k>>] \in Nat
  BY <1>1 DEF CountTypeOK, ArticleKeyword
<1>5. \A w \in Windows, k \in Keywords : trends[<<w, k>>] \in Nat
  BY <1>1 DEF CountTypeOK, WindowKeyword
<1>6. \A r \in stgKeywords : r \in Row(ArticleKeyword) /\ r.count \in Nat
                             /\ r.key[1] \in Articles /\ r.key[2] \in Keywords
  BY <1>1 DEF CountTypeOK, Row, ArticleKeyword
<1>7. \A r \in stgTrends : r \in Row(WindowKeyword) /\ r.count \in Nat
                           /\ r.key[1] \in Windows /\ r.key[2] \in Keywords
  BY <1>1 DEF CountTypeOK, Row, WindowKeyword
<1>8. \A r \in stgRelations : r \in Row(WindowPair) /\ r.key[1] \in Windows
                              /\ r.key[2] \in Keywords /\ r.key[3] \in Keywords
  BY <1>1 DEF CountTypeOK, Row, WindowPair
<1> QED
  BY <1>1, <1>2, <1>3, <1>4, <1>5, <1>6, <1>7, <1>8

\* What is staged for a key.
LEMMA StagedRows ==
  ASSUME RowsInv, NEW D, NEW staging \in SUBSET Row(D), NEW upsert,
         OneRowPerAttempt(staging, upsert), NEW key
  PROVE  /\ Staged(staging, key) \in SUBSET Row(D)
         /\ \A r \in Staged(staging, key) : r \in staging /\ r.key = key /\ r.attempt <= failures
         /\ \A r, s \in Staged(staging, key) : r.attempt = s.attempt => r = s
  BY DEF OneRowPerAttempt, Staged

\* Staged rows that stay are in order as long as the step does, or after a failure.
LEMMA RowsStay ==
  ASSUME RowsInv, NEW D, NEW staging \in SUBSET Row(D), NEW upsert,
         OneRowPerAttempt(staging, upsert),
         \/ failures' = failures + 1
         \/ failures' = failures /\ (step = upsert => step' = step)
  PROVE  \A r \in staging : r.attempt <= failures' /\ (r.attempt = failures' => step' = upsert)
<1>1. \A r \in staging : r.attempt \in Nat /\ r.attempt <= failures
                         /\ (r.attempt = failures => step = upsert)
  BY DEF OneRowPerAttempt, Row
<1>2. failures \in Nat
  BY TypesNow
<1> QED
  BY <1>1, <1>2

\* What the other steps do to the staged rows: nothing.
LEMMA RowsKept ==
  ASSUME RowsInv, \/ failures' = failures + 1
                  \/ failures' = failures /\ step' = step
                  \/ failures' = failures /\ step \notin {"upsertKeywords", "upsertTrends",
                                                          "upsertRelations"}
  PROVE  /\ UNCHANGED stgKeywords => OneRowPerAttempt(stgKeywords, "upsertKeywords")'
         /\ UNCHANGED stgTrends => OneRowPerAttempt(stgTrends, "upsertTrends")'
         /\ UNCHANGED stgRelations => OneRowPerAttempt(stgRelations, "upsertRelations")'
<1>1. /\ stgKeywords \in SUBSET Row(ArticleKeyword) /\ stgTrends \in SUBSET Row(WindowKeyword)
      /\ stgRelations \in SUBSET Row(WindowPair)
      /\ OneRowPerAttempt(stgKeywords, "upsertKeywords")
      /\ OneRowPerAttempt(stgTrends, "upsertTrends")
      /\ OneRowPerAttempt(stgRelations, "upsertRelations")
  BY TypesNow DEF CountTypeOK, RowsInv
<1>2. UNCHANGED stgKeywords => OneRowPerAttempt(stgKeywords, "upsertKeywords")'
  <2>1. \A r \in stgKeywords : r.attempt <= failures'
                               /\ (r.attempt = failures' => step' = "upsertKeywords")
    BY <1>1, RowsStay
  <2> QED
    BY <1>1, <2>1 DEF OneRowPerAttempt
<1>3. UNCHANGED stgTrends => OneRowPerAttempt(stgTrends, "upsertTrends")'
  <2>1. \A r \in stgTrends : r.attempt <= failures'
                             /\ (r.attempt = failures' => step' = "upsertTrends")
    BY <1>1, RowsStay
  <2> QED
    BY <1>1, <2>1 DEF OneRowPerAttempt
<1>4. UNCHANGED stgRelations => OneRowPerAttempt(stgRelations, "upsertRelations")'
  <2>1. \A r \in stgRelations : r.attempt <= failures'
                                /\ (r.attempt = failures' => step' = "upsertRelations")
    BY <1>1, RowsStay
  <2> QED
    BY <1>1, <2>1 DEF OneRowPerAttempt
<1> QED
  BY <1>2, <1>3, <1>4

\* An append adds rows of its attempt, one for a key, and the step that follows it is
\* the upsert.
LEMMA RowsAfterAppend ==
  ASSUME RowsInv, NEW D, NEW staging \in SUBSET Row(D), NEW upsert,
         OneRowPerAttempt(staging, upsert), step # upsert, StepAfter(step) = upsert,
         NEW counts \in [D -> Nat], NEW written \in SUBSET RowsOf(counts),
         AppendOf(written, RowsOf(counts))
  PROVE  /\ staging \union written \in SUBSET Row(D)
         /\ \A r \in staging \union written :
              r.attempt <= failures' /\ (r.attempt = failures' => step' = upsert)
         /\ \A r, s \in staging \union written : r.key = s.key /\ r.attempt = s.attempt => r = s
<1>1. planned \in Nat /\ failures \in Nat /\ failures \in 0 .. MaxFailures
  BY TypesNow DEF PlainTypeOK
<1>2. \A r \in staging : r \in Row(D) /\ r.attempt \in Nat /\ r.attempt < failures
  BY <1>1 DEF OneRowPerAttempt, Row
<1>3. \A r \in written : r \in Row(D) /\ r.attempt = failures
  BY <1>1, RowsOfBatch
<1>4. \A r, s \in written : r.key = s.key => r = s
  BY <1>1, RowsOfBatch
<1>5. \A r, s \in staging : r.key = s.key /\ r.attempt = s.attempt => r = s
  BY DEF OneRowPerAttempt
<1>6. failures' = failures + 1 \/ (failures' = failures /\ step' = upsert)
  BY DEF AppendOf, Advance, GoDown, RepeatTask
<1>7. \A r \in staging \union written :
        r.attempt <= failures' /\ (r.attempt = failures' => step' = upsert)
  BY <1>1, <1>2, <1>3, <1>6
<1>8. \A r, s \in staging \union written : r.key = s.key /\ r.attempt = s.attempt => r = s
  BY <1>1, <1>2, <1>3, <1>4, <1>5
<1> QED
  BY <1>2, <1>3, <1>7, <1>8

LEMMA RowsUntouchedStep ==
  ASSUME SinkInv, RowsInv, [Next]_vars, CountsUntouched
  PROVE  RowsInv'
<1>1. CountTypeOK'
  BY TypesNow DEF CountTypeOK, CountsUntouched
<1>2. PlainTypeOK'
  BY TypesNow, PlainTypeStep
<1> QED
  BY <1>1, <1>2, RowsKept, TypeOKParts DEF RowsInv, CountsUntouched

\* A step of a table ends in the next step, or in a failure.
LEMMA Outcomes ==
  ASSUME RowsInv,
         StageKeywords \/ UpsertKeywords \/ StageTrends \/ UpsertTrends
           \/ StageRelations \/ UpsertRelations
  PROVE  /\ [Next]_vars
         /\ Advance \/ GoDown \/ RepeatTask
         /\ articleKeywords' = articleKeywords \/ articleKeywords' = NoCounts
         /\ failures' = failures + 1 \/ failures' = failures
         /\ articleKeywords' \in [ArticleKeyword -> Nat]
<1>1. Advance \/ GoDown \/ RepeatTask
  BY DEF StageKeywords, UpsertKeywords, StageTrends, UpsertTrends, StageRelations,
     UpsertRelations, AppendOf
<1>2. /\ articleKeywords' = articleKeywords \/ articleKeywords' = NoCounts
      /\ failures' = failures + 1 \/ failures' = failures
  BY <1>1 DEF Advance, GoDown, RepeatTask
<1>3. articleKeywords' \in [ArticleKeyword -> Nat]
  BY <1>2, TypesNow DEF CountTypeOK
<1> QED
  BY <1>1, <1>2, <1>3 DEF Next, JobNext

LEMMA TokenizeCountsBatch ==
  ASSUME SinkInv, RowsInv, Tokenize
  PROVE  /\ articleKeywords' \in [ArticleKeyword -> Nat]
         /\ \A a \in Articles, k \in Keywords :
              /\ articleKeywords'[<<a, k>>] = BatchCount(a, k)
              /\ BatchCount(a, k) \in Nat /\ BatchCount(a, k) <= MentionsInTopic({a}, k)
<1>1. articleKeywords' = [row \in ArticleKeyword |-> BatchCount(row[1], row[2])]
  BY DEF Tokenize
<1>2. OffsetsInv /\ dictionary \in Dictionaries
  BY TypesNow DEF SinkInv, PlainTypeOK
<1>3. ASSUME NEW a \in Articles, NEW k \in Keywords
      PROVE  /\ articleKeywords'[<<a, k>>] = BatchCount(a, k)
             /\ BatchCount(a, k) \in Nat /\ BatchCount(a, k) <= MentionsInTopic({a}, k)
  <2>1. articleKeywords'[<<a, k>>] = BatchCount(a, k)
    BY <1>1 DEF ArticleKeyword
  <2> QED
    BY <1>2, <2>1, BatchCountBound
<1>4. articleKeywords' \in [ArticleKeyword -> Nat]
  BY <1>1, <1>3 DEF ArticleKeyword
<1> QED
  BY <1>3, <1>4

LEMMA TokenizeRows ==
  ASSUME SinkInv, RowsInv, Tokenize
  PROVE  RowsInv'
<1>1. /\ UNCHANGED <<keywords, trends, relations, stgKeywords, stgTrends, stgRelations, failures>>
      /\ step = "tokenize" /\ [Next]_vars
  BY DEF Tokenize, tableVars, stagingVars, Next, JobNext
<1>2. CountTypeOK'
  BY <1>1, TokenizeCountsBatch, TypesNow DEF CountTypeOK
<1>3. PlainTypeOK'
  BY <1>1, TypesNow, PlainTypeStep
<1> QED
  BY <1>1, <1>2, <1>3, RowsKept, TypeOKParts DEF RowsInv

\* The counts a batch stages for its windows.
TrendBatch == [row \in WindowKeyword |-> BatchTrend(row[1], row[2])]
RelationBatch == [row \in WindowPair |-> BatchRelation(row[1], row[2], row[3])]

\* A row of the batch for a window has an article in hand that accounts for it.
LEMMA TrendBatchBacked ==
  ASSUME SinkInv, RowsInv
  PROVE  /\ TrendBatch \in [WindowKeyword -> Nat]
         /\ \A r \in RowsOf(TrendBatch) :
              /\ r.count = BatchTrend(r.key[1], r.key[2])
              /\ r.key[1] \in Windows /\ r.key[2] \in Keywords
              /\ \E a \in ArticlesOf(r.key[1]) : articleKeywords[<<a, r.key[2]>>] > 0
<1>1. ASSUME NEW w \in Windows, NEW k \in Keywords
      PROVE  /\ BatchTrend(w, k) \in Nat
             /\ BatchTrend(w, k) > 0 => \E a \in ArticlesOf(w) : articleKeywords[<<a, k>>] > 0
  BY TypesNow, BatchTrendBound DEF SinkInv, CountTypeOK
<1>2. TrendBatch \in [WindowKeyword -> Nat]
  BY <1>1 DEF TrendBatch, WindowKeyword
<1>3. ASSUME NEW r \in RowsOf(TrendBatch)
      PROVE  /\ r.count = BatchTrend(r.key[1], r.key[2])
             /\ r.key[1] \in Windows /\ r.key[2] \in Keywords
             /\ \E a \in ArticlesOf(r.key[1]) : articleKeywords[<<a, r.key[2]>>] > 0
  <2>1. /\ r \in Row(WindowKeyword) /\ r.key \in WindowKeyword
        /\ r.count = TrendBatch[r.key] /\ r.count > 0
    BY <1>2, RowsOfBatch, TypesNow DEF PlainTypeOK
  <2>2. r.key[1] \in Windows /\ r.key[2] \in Keywords
    BY <2>1 DEF WindowKeyword
  <2>3. r.count = BatchTrend(r.key[1], r.key[2])
    BY <2>1 DEF TrendBatch
  <2> QED
    BY <1>1, <2>1, <2>2, <2>3
<1> QED
  BY <1>2, <1>3

LEMMA RelationBatchBacked ==
  ASSUME RowsInv
  PROVE  /\ RelationBatch \in [WindowPair -> Nat]
         /\ \A r \in RowsOf(RelationBatch) :
              /\ r.key[1] \in Windows /\ r.key[2] \in Keywords /\ r.key[3] \in Keywords
              /\ \E a \in ArticlesOf(r.key[1]) :
                   articleKeywords[<<a, r.key[2]>>] > 0 /\ articleKeywords[<<a, r.key[3]>>] > 0
<1>1. ASSUME NEW w \in Windows, NEW j \in Keywords, NEW k \in Keywords
      PROVE  /\ BatchRelation(w, j, k) \in Nat
             /\ BatchRelation(w, j, k) > 0 =>
                  \E a \in ArticlesOf(w) : articleKeywords[<<a, j>>] > 0 /\ articleKeywords[<<a, k>>] > 0
  BY BatchRelationBacked, TypesNow DEF CountTypeOK
<1>2. RelationBatch \in [WindowPair -> Nat]
  BY <1>1 DEF RelationBatch, WindowPair
<1>3. ASSUME NEW r \in RowsOf(RelationBatch)
      PROVE  /\ r.key[1] \in Windows /\ r.key[2] \in Keywords /\ r.key[3] \in Keywords
             /\ \E a \in ArticlesOf(r.key[1]) :
                  articleKeywords[<<a, r.key[2]>>] > 0 /\ articleKeywords[<<a, r.key[3]>>] > 0
  <2>1. r.key \in WindowPair /\ r.count = RelationBatch[r.key] /\ r.count > 0
    BY <1>2, RowsOfBatch, TypesNow DEF PlainTypeOK
  <2>2. r.key[1] \in Windows /\ r.key[2] \in Keywords /\ r.key[3] \in Keywords
    BY <2>1 DEF WindowPair
  <2>3. BatchRelation(r.key[1], r.key[2], r.key[3]) > 0
    BY <2>1 DEF RelationBatch
  <2>4. \E a \in ArticlesOf(r.key[1]) :
          articleKeywords[<<a, r.key[2]>>] > 0 /\ articleKeywords[<<a, r.key[3]>>] > 0
    BY <1>1, <2>2, <2>3
  <2> QED
    BY <2>2, <2>4
<1> QED
  BY <1>2, <1>3

\* One attempt stages its rows, behind which comes the upsert.
LEMMA StageKeywordsRows ==
  ASSUME SinkInv, RowsInv, StageKeywords
  PROVE  RowsInv'
<1>1. PICK written \in SUBSET RowsOf(articleKeywords) :
        stgKeywords' = stgKeywords \union written /\ AppendOf(written, RowsOf(articleKeywords))
  BY DEF StageKeywords
<1>2. /\ UNCHANGED <<keywords, trends, relations, stgTrends, stgRelations>>
      /\ step = "stageKeywords" /\ StepAfter(step) = "upsertKeywords"
  BY StepOrder DEF StageKeywords, tableVars
<1>3. /\ stgKeywords \in SUBSET Row(ArticleKeyword) /\ articleKeywords \in [ArticleKeyword -> Nat]
      /\ OneRowPerAttempt(stgKeywords, "upsertKeywords")
  BY TypesNow DEF CountTypeOK, RowsInv
<1>4. /\ stgKeywords \union written \in SUBSET Row(ArticleKeyword)
      /\ \A r \in stgKeywords \union written :
           r.attempt <= failures' /\ (r.attempt = failures' => step' = "upsertKeywords")
      /\ \A r, s \in stgKeywords \union written : r.key = s.key /\ r.attempt = s.attempt => r = s
  BY <1>1, <1>2, <1>3, RowsAfterAppend
<1>5. OneRowPerAttempt(stgKeywords, "upsertKeywords")'
  BY <1>1, <1>4 DEF OneRowPerAttempt
<1>6. CountTypeOK'
  BY <1>1, <1>2, <1>4, Outcomes, TypesNow DEF CountTypeOK
<1>7. PlainTypeOK'
  BY TypesNow, PlainTypeStep, Outcomes
<1> QED
  BY <1>2, <1>5, <1>6, <1>7, Outcomes, RowsKept, TypeOKParts DEF RowsInv

LEMMA StageTrendsRows ==
  ASSUME SinkInv, RowsInv, StageTrends
  PROVE  RowsInv'
<1>1. PICK written \in SUBSET RowsOf(TrendBatch) :
        stgTrends' = stgTrends \union written /\ AppendOf(written, RowsOf(TrendBatch))
  BY DEF StageTrends, TrendBatch
<1>2. /\ UNCHANGED <<keywords, trends, relations, stgKeywords, stgRelations>>
      /\ step = "stageTrends" /\ StepAfter(step) = "upsertTrends"
  BY StepOrder DEF StageTrends, tableVars
<1>3. /\ stgTrends \in SUBSET Row(WindowKeyword) /\ TrendBatch \in [WindowKeyword -> Nat]
      /\ OneRowPerAttempt(stgTrends, "upsertTrends")
  BY TypesNow, TrendBatchBacked DEF CountTypeOK, RowsInv
<1>4. /\ stgTrends \union written \in SUBSET Row(WindowKeyword)
      /\ \A r \in stgTrends \union written :
           r.attempt <= failures' /\ (r.attempt = failures' => step' = "upsertTrends")
      /\ \A r, s \in stgTrends \union written : r.key = s.key /\ r.attempt = s.attempt => r = s
  BY <1>1, <1>2, <1>3, RowsAfterAppend
<1>5. OneRowPerAttempt(stgTrends, "upsertTrends")'
  BY <1>1, <1>4 DEF OneRowPerAttempt
<1>6. CountTypeOK'
  BY <1>1, <1>2, <1>4, Outcomes, TypesNow DEF CountTypeOK
<1>7. PlainTypeOK'
  BY TypesNow, PlainTypeStep, Outcomes
<1> QED
  BY <1>2, <1>5, <1>6, <1>7, Outcomes, RowsKept, TypeOKParts DEF RowsInv

LEMMA StageRelationsRows ==
  ASSUME SinkInv, RowsInv, StageRelations
  PROVE  RowsInv'
<1>1. PICK written \in SUBSET RowsOf(RelationBatch) :
        stgRelations' = stgRelations \union written /\ AppendOf(written, RowsOf(RelationBatch))
  BY DEF StageRelations, RelationBatch
<1>2. /\ UNCHANGED <<keywords, trends, relations, stgKeywords, stgTrends>>
      /\ step = "stageRelations" /\ StepAfter(step) = "upsertRelations"
  BY StepOrder DEF StageRelations, tableVars
<1>3. /\ stgRelations \in SUBSET Row(WindowPair) /\ RelationBatch \in [WindowPair -> Nat]
      /\ OneRowPerAttempt(stgRelations, "upsertRelations")
  BY TypesNow, RelationBatchBacked DEF CountTypeOK, RowsInv
<1>4. /\ stgRelations \union written \in SUBSET Row(WindowPair)
      /\ \A r \in stgRelations \union written :
           r.attempt <= failures' /\ (r.attempt = failures' => step' = "upsertRelations")
      /\ \A r, s \in stgRelations \union written : r.key = s.key /\ r.attempt = s.attempt => r = s
  BY <1>1, <1>2, <1>3, RowsAfterAppend
<1>5. OneRowPerAttempt(stgRelations, "upsertRelations")'
  BY <1>1, <1>4 DEF OneRowPerAttempt
<1>6. CountTypeOK'
  BY <1>1, <1>2, <1>4, Outcomes, TypesNow DEF CountTypeOK
<1>7. PlainTypeOK'
  BY TypesNow, PlainTypeStep, Outcomes
<1> QED
  BY <1>2, <1>5, <1>6, <1>7, Outcomes, RowsKept, TypeOKParts DEF RowsInv

\* What the upsert of a key makes of its rows.
LEMMA UpsertedKeyword ==
  ASSUME RowsInv, UpsertKeywords, NEW key \in ArticleKeyword
  PROVE  /\ Staged(stgKeywords, key) = {} => keywords'[key] = keywords[key]
         /\ Staged(stgKeywords, key) # {} =>
              /\ keywords'[key] \in Nat /\ keywords'[key] > 0
              /\ \E r \in stgKeywords : r.key = key /\ keywords'[key] = r.count
<1>1. keywords'[key] = IF Staged(stgKeywords, key) = {} THEN keywords[key]
                       ELSE Largest(Staged(stgKeywords, key))
  BY TypesNow DEF UpsertKeywords, Upserted, CountTypeOK
<1>2. /\ Staged(stgKeywords, key) \in SUBSET Row(ArticleKeyword)
      /\ \A r \in Staged(stgKeywords, key) : r \in stgKeywords /\ r.key = key /\ r.attempt <= failures
      /\ \A r, s \in Staged(stgKeywords, key) : r.attempt = s.attempt => r = s
      /\ failures \in Nat
  BY StagedRows, TypesNow DEF RowsInv, CountTypeOK
<1>3. CASE Staged(stgKeywords, key) # {}
  <2>1. /\ \E r \in Staged(stgKeywords, key) : Largest(Staged(stgKeywords, key)) = r.count
        /\ Largest(Staged(stgKeywords, key)) \in Nat /\ Largest(Staged(stgKeywords, key)) > 0
    BY <1>2, <1>3, LargestIsStaged
  <2> QED
    BY <1>1, <1>2, <1>3, <2>1
<1> QED
  BY <1>1, <1>3

LEMMA UpsertedTrend ==
  ASSUME RowsInv, UpsertTrends, NEW key \in WindowKeyword
  PROVE  /\ Staged(stgTrends, key) = {} => trends'[key] = trends[key]
         /\ Staged(stgTrends, key) # {} =>
              /\ trends'[key] \in Nat
              /\ \A b \in Nat : (\A r \in stgTrends : r.key = key => r.count <= b)
                                  => trends'[key] <= (1 + failures) * b
<1>1. trends'[key] = IF Staged(stgTrends, key) = {} THEN trends[key]
                     ELSE Total(Staged(stgTrends, key))
  BY TypesNow DEF UpsertTrends, Upserted, CountTypeOK
<1>2. /\ Staged(stgTrends, key) \in SUBSET Row(WindowKeyword)
      /\ \A r \in Staged(stgTrends, key) : r \in stgTrends /\ r.key = key /\ r.attempt <= failures
      /\ \A r, s \in Staged(stgTrends, key) : r.attempt = s.attempt => r = s
      /\ failures \in Nat
  BY StagedRows, TypesNow DEF RowsInv, CountTypeOK
<1>3. /\ Total(Staged(stgTrends, key)) \in Nat
      /\ \A b \in Nat : (\A r \in Staged(stgTrends, key) : r.count <= b)
                          => Total(Staged(stgTrends, key)) <= (1 + failures) * b
  BY <1>2, TotalOfAttempts
<1> QED
  BY <1>1, <1>2, <1>3

LEMMA UpsertedRelation ==
  ASSUME RowsInv, UpsertRelations, NEW key \in WindowPair
  PROVE  /\ Staged(stgRelations, key) = {} => relations'[key] = relations[key]
         /\ relations'[key] \in Nat
<1>1. relations'[key] = IF Staged(stgRelations, key) = {} THEN relations[key]
                        ELSE Total(Staged(stgRelations, key))
  BY TypesNow DEF UpsertRelations, Upserted, CountTypeOK
<1>2. /\ Staged(stgRelations, key) \in SUBSET Row(WindowPair)
      /\ \A r \in Staged(stgRelations, key) : r.attempt <= failures
      /\ \A r, s \in Staged(stgRelations, key) : r.attempt = s.attempt => r = s
      /\ failures \in Nat
  BY StagedRows, TypesNow DEF RowsInv, CountTypeOK
<1>3. Total(Staged(stgRelations, key)) \in Nat
  BY <1>2, TotalOfAttempts
<1>4. relations[key] \in Nat
  BY TypesNow DEF CountTypeOK
<1> QED
  BY <1>1, <1>3, <1>4

\* The upsert leaves its staging table empty.
LEMMA UpsertRows ==
  ASSUME SinkInv, RowsInv, UpsertKeywords \/ UpsertTrends \/ UpsertRelations
  PROVE  RowsInv'
<1>1. PlainTypeOK'
  BY TypesNow, PlainTypeStep, Outcomes
<1>2. CASE UpsertKeywords
  <2>1. /\ UNCHANGED <<trends, relations, stgTrends, stgRelations>> /\ stgKeywords' = {}
        /\ step = "upsertKeywords" /\ step' = "stageTrends" /\ failures' = failures
    BY <1>2, StepOrder DEF UpsertKeywords, Truncated, Advance
  <2>2. keywords' \in [ArticleKeyword -> Nat]
    <3>1. keywords' = [key \in ArticleKeyword |-> keywords'[key]]
      BY <1>2, TypesNow DEF UpsertKeywords, Upserted, CountTypeOK
    <3>2. \A key \in ArticleKeyword : keywords'[key] \in Nat
      BY <1>2, UpsertedKeyword, TypesNow DEF CountTypeOK
    <3> QED
      BY <3>1, <3>2
  <2>3. CountTypeOK'
    BY <1>2, <2>1, <2>2, Outcomes, TypesNow DEF CountTypeOK
  <2>4. OneRowPerAttempt(stgKeywords, "upsertKeywords")'
    BY <2>1 DEF OneRowPerAttempt
  <2>5. /\ OneRowPerAttempt(stgTrends, "upsertTrends")'
        /\ OneRowPerAttempt(stgRelations, "upsertRelations")'
    BY <2>1, TypesNow DEF OneRowPerAttempt, RowsInv
  <2> QED
    BY <1>1, <2>3, <2>4, <2>5, TypeOKParts DEF RowsInv
<1>3. CASE UpsertTrends
  <2>1. /\ UNCHANGED <<keywords, relations, stgKeywords, stgRelations>> /\ stgTrends' = {}
        /\ step = "upsertTrends" /\ step' = "stageRelations" /\ failures' = failures
    BY <1>3, StepOrder DEF UpsertTrends, Truncated, Advance
  <2>2. trends' \in [WindowKeyword -> Nat]
    <3>1. trends' = [key \in WindowKeyword |-> trends'[key]]
      BY <1>3, TypesNow DEF UpsertTrends, Upserted, CountTypeOK
    <3>2. \A key \in WindowKeyword : trends'[key] \in Nat
      BY <1>3, UpsertedTrend, TypesNow DEF CountTypeOK
    <3> QED
      BY <3>1, <3>2
  <2>3. CountTypeOK'
    BY <1>3, <2>1, <2>2, Outcomes, TypesNow DEF CountTypeOK
  <2>4. OneRowPerAttempt(stgTrends, "upsertTrends")'
    BY <2>1 DEF OneRowPerAttempt
  <2>5. /\ OneRowPerAttempt(stgKeywords, "upsertKeywords")'
        /\ OneRowPerAttempt(stgRelations, "upsertRelations")'
    BY <2>1, TypesNow DEF OneRowPerAttempt, RowsInv
  <2> QED
    BY <1>1, <2>3, <2>4, <2>5, TypeOKParts DEF RowsInv
<1>4. CASE UpsertRelations
  <2>1. /\ UNCHANGED <<keywords, trends, stgKeywords, stgTrends>> /\ stgRelations' = {}
        /\ step = "upsertRelations" /\ step' = "commit" /\ failures' = failures
    BY <1>4, StepOrder DEF UpsertRelations, Truncated, Advance
  <2>2. relations' \in [WindowPair -> Nat]
    <3>1. relations' = [key \in WindowPair |-> relations'[key]]
      BY <1>4, TypesNow DEF UpsertRelations, Upserted, CountTypeOK
    <3>2. \A key \in WindowPair : relations'[key] \in Nat
      BY <1>4, UpsertedRelation
    <3> QED
      BY <3>1, <3>2
  <2>3. CountTypeOK'
    BY <1>4, <2>1, <2>2, Outcomes, TypesNow DEF CountTypeOK
  <2>4. OneRowPerAttempt(stgRelations, "upsertRelations")'
    BY <2>1 DEF OneRowPerAttempt
  <2>5. /\ OneRowPerAttempt(stgKeywords, "upsertKeywords")'
        /\ OneRowPerAttempt(stgTrends, "upsertTrends")'
    BY <2>1, TypesNow DEF OneRowPerAttempt, RowsInv
  <2> QED
    BY <1>1, <2>3, <2>4, <2>5, TypeOKParts DEF RowsInv
<1> QED
  BY <1>2, <1>3, <1>4

LEMMA RowsStart == Init => RowsInv
  BY SinkBounds, StepNames
     DEF Init, StoreInit, RowsInv, TypeOK, StoreTypeOK, SinkTypeOK, NoCounts, OneRowPerAttempt

LEMMA RowsStep == SinkInv /\ RowsInv /\ [Next]_vars => RowsInv'
  BY StepKinds, RowsUntouchedStep, TokenizeRows, StageKeywordsRows, StageTrendsRows,
     StageRelationsRows, UpsertRows

LEMMA RowsAlways == Spec => []SinkInv /\ []RowsInv
  BY SinkStart, SinkStep, RowsStart, RowsStep, PTL DEF Spec

\* The variables of the streaming job and its tables have their types: every count
\* in a table and in staging is a number, that of a staged row is positive, and
\* the handler is at one of its steps.
THEOREM TypeCorrect == Spec => []TypeOK
<1>1. RowsInv => TypeOK
  BY DEF RowsInv
<1> QED
  BY <1>1, RowsAlways, PTL

-----------------------------------------------------------------------------
(* The counts.                                                             *)

\* What was within the bounds before a step is within them after it.
LEMMA BoundsGrow ==
  ASSUME SinkInv, RowsInv, CountsInv, [Next]_vars
  PROVE  /\ \A a \in Articles, k \in Keywords :
              /\ keywords[<<a, k>>] <= MentionsInTopic({a}, k)'
              /\ articleKeywords[<<a, k>>] <= MentionsInTopic({a}, k)'
              /\ NoCounts[<<a, k>>] <= MentionsInTopic({a}, k)'
         /\ \A r \in stgKeywords : r.count <= MentionsInTopic({r.key[1]}, r.key[2])'
         /\ \A r \in stgTrends : r.count <= MentionsInTopic(ArticlesOf(r.key[1]), r.key[2])'
         /\ \A w \in Windows, k \in Keywords :
              trends[<<w, k>>] <= (1 + failures') * MentionsInTopic(ArticlesOf(w), k)'
<1>1. ASSUME NEW a \in Articles, NEW k \in Keywords
      PROVE  /\ keywords[<<a, k>>] <= MentionsInTopic({a}, k)'
             /\ articleKeywords[<<a, k>>] <= MentionsInTopic({a}, k)'
             /\ NoCounts[<<a, k>>] <= MentionsInTopic({a}, k)'
  <2>1. /\ keywords[<<a, k>>] <= MentionsInTopic({a}, k)
        /\ articleKeywords[<<a, k>>] <= MentionsInTopic({a}, k)
    BY DEF CountsInv, KeywordsNeverInflated, AtMostMentioned
  <2>2. /\ keywords[<<a, k>>] \in Nat /\ articleKeywords[<<a, k>>] \in Nat
        /\ NoCounts[<<a, k>>] = 0
    BY TypesNow DEF ArticleKeyword
  <2> QED
    BY <2>1, <2>2, TypesNow, MentionsGrow
<1>2. ASSUME NEW r \in stgKeywords
      PROVE  r.count <= MentionsInTopic({r.key[1]}, r.key[2])'
  <2>1. r.count <= MentionsInTopic({r.key[1]}, r.key[2])
    BY DEF CountsInv, AtMostMentioned
  <2> QED
    BY <2>1, TypesNow, MentionsGrow
<1>3. ASSUME NEW r \in stgTrends
      PROVE  r.count <= MentionsInTopic(ArticlesOf(r.key[1]), r.key[2])'
  <2>1. r.count <= MentionsInTopic(ArticlesOf(r.key[1]), r.key[2])
    BY DEF CountsInv, AtMostMentioned
  <2> QED
    BY <2>1, TypesNow, MentionsGrow
<1>4. ASSUME NEW w \in Windows, NEW k \in Keywords
      PROVE  trends[<<w, k>>] <= (1 + failures') * MentionsInTopic(ArticlesOf(w), k)'
  <2> DEFINE m == MentionsInTopic(ArticlesOf(w), k)
             n == MentionsInTopic(ArticlesOf(w), k)'
             x == trends[<<w, k>>]
  <2>1. m \in Nat /\ n \in Nat /\ m <= n
    BY TypesNow, MentionsGrow
  <2>2. x \in Nat /\ x <= (1 + failures) * m
    BY TypesNow DEF CountsInv, TrendsInflatedOnlyByFailures
  <2> HIDE DEF m, n, x
  <2>3. 1 + failures \in Nat /\ 1 + failures' \in Nat /\ 1 + failures <= 1 + failures'
    <3>1. failures \in Nat /\ failures' \in Nat /\ failures <= failures'
      BY TypesNow, TopicStep
    <3>2. \A i, j \in Nat : i <= j => 1 + i \in Nat /\ 1 + j \in Nat /\ 1 + i <= 1 + j
      OBVIOUS
    <3> QED
      BY <3>1, <3>2
  <2>4. (1 + failures) * m \in Nat /\ (1 + failures) * m <= (1 + failures') * n
    BY <2>1, <2>3, TimesIsMonotone
  <2>5. (1 + failures') * n \in Nat
    BY <2>1, <2>3
  <2>6. x <= (1 + failures') * n
    BY <2>2, <2>4, <2>5
  <2> QED
    BY <2>6 DEF n, x
<1> QED
  BY <1>1, <1>2, <1>3, <1>4

\* What a batch stages is within them, too.
LEMMA BatchBoundsGrow ==
  ASSUME SinkInv, RowsInv, CountsInv, [Next]_vars
  PROVE  /\ \A r \in RowsOf(articleKeywords) : r.count <= MentionsInTopic({r.key[1]}, r.key[2])'
         /\ \A r \in RowsOf(TrendBatch) :
              r.count <= MentionsInTopic(ArticlesOf(r.key[1]), r.key[2])'
<1>1. planned \in Nat /\ failures \in 0 .. MaxFailures /\ articleKeywords \in [ArticleKeyword -> Nat]
  BY TypesNow DEF PlainTypeOK, CountTypeOK
<1>2. ASSUME NEW r \in RowsOf(articleKeywords)
      PROVE  r.count <= MentionsInTopic({r.key[1]}, r.key[2])'
  <2>1. r.key \in ArticleKeyword /\ r.count = articleKeywords[r.key]
    BY <1>1, RowsOfBatch
  <2>2. PICK a \in Articles, k \in Keywords : r.key = <<a, k>>
    BY <2>1 DEF ArticleKeyword
  <2>3. articleKeywords[<<a, k>>] <= MentionsInTopic({a}, k)'
    BY BoundsGrow
  <2>4. r.key[1] = a /\ r.key[2] = k
    BY <2>2
  <2> QED
    BY <2>1, <2>2, <2>3, <2>4
<1>3. ASSUME NEW r \in RowsOf(TrendBatch)
      PROVE  r.count <= MentionsInTopic(ArticlesOf(r.key[1]), r.key[2])'
  <2>1. r.count = BatchTrend(r.key[1], r.key[2]) /\ r.key[1] \in Windows /\ r.key[2] \in Keywords
    BY TrendBatchBacked
  <2>2. \A a \in Articles : articleKeywords[<<a, r.key[2]>>] <= MentionsInTopic({a}, r.key[2])
    BY <2>1 DEF CountsInv, AtMostMentioned
  <2>3. /\ BatchTrend(r.key[1], r.key[2]) \in Nat
        /\ BatchTrend(r.key[1], r.key[2]) <= MentionsInTopic(ArticlesOf(r.key[1]), r.key[2])
    <3>1. OffsetsInv /\ Dictionaries # {} /\ articleKeywords \in [ArticleKeyword -> Nat]
      BY TypesNow DEF SinkInv, CountTypeOK
    <3> QED
      BY <2>1, <2>2, <3>1, BatchTrendBound
  <2>4. /\ MentionsInTopic(ArticlesOf(r.key[1]), r.key[2]) \in Nat
        /\ MentionsInTopic(ArticlesOf(r.key[1]), r.key[2])' \in Nat
        /\ MentionsInTopic(ArticlesOf(r.key[1]), r.key[2])
             <= MentionsInTopic(ArticlesOf(r.key[1]), r.key[2])'
    BY <2>1, TypesNow, MentionsGrow
  <2> QED
    BY <2>1, <2>3, <2>4
<1> QED
  BY <1>2, <1>3

\* Every step leaves each table and its staging as they are, or fills the staging
\* from the batch, or the table from the staging.
LEMMA CountsStep ==
  ASSUME SinkInv, RowsInv, CountsInv, [Next]_vars
  PROVE  CountsInv'
<1>1. \A a \in Articles, k \in Keywords : articleKeywords'[<<a, k>>] <= MentionsInTopic({a}, k)'
  <2>1. CASE articleKeywords' = articleKeywords \/ articleKeywords' = NoCounts
    BY <2>1, BoundsGrow
  <2>2. CASE Tokenize
    <3> SUFFICES ASSUME NEW a \in Articles, NEW k \in Keywords
                 PROVE  articleKeywords'[<<a, k>>] <= MentionsInTopic({a}, k)'
      OBVIOUS
    <3>1. /\ articleKeywords'[<<a, k>>] = BatchCount(a, k)
          /\ BatchCount(a, k) \in Nat /\ BatchCount(a, k) <= MentionsInTopic({a}, k)
      BY <2>2, TokenizeCountsBatch
    <3> QED
      BY <3>1, TypesNow, MentionsGrow
  <2> QED
    BY <2>1, <2>2, StepKinds, Outcomes DEF CountsUntouched
<1>2. \A r \in stgKeywords' : r.count <= MentionsInTopic({r.key[1]}, r.key[2])'
  <2>1. stgKeywords' \subseteq stgKeywords \union RowsOf(articleKeywords)
    BY StepKinds DEF CountsUntouched, Tokenize, StageKeywords, UpsertKeywords, StageTrends,
       UpsertTrends, StageRelations, UpsertRelations, stagingVars, Truncated
  <2> QED
    BY <2>1, BoundsGrow, BatchBoundsGrow
<1>3. \A r \in stgTrends' : r.count <= MentionsInTopic(ArticlesOf(r.key[1]), r.key[2])'
  <2>1. stgTrends' \subseteq stgTrends \union RowsOf(TrendBatch)
    BY StepKinds DEF CountsUntouched, Tokenize, StageKeywords, UpsertKeywords, StageTrends,
       UpsertTrends, StageRelations, UpsertRelations, stagingVars, Truncated, TrendBatch
  <2> QED
    BY <2>1, BoundsGrow, BatchBoundsGrow
<1>4. KeywordsNeverInflated'
  <2>1. CASE UNCHANGED keywords
    BY <2>1, BoundsGrow DEF KeywordsNeverInflated
  <2>2. CASE UpsertKeywords
    <3>1. ASSUME NEW a \in Articles, NEW k \in Keywords
          PROVE  keywords'[<<a, k>>] <= MentionsInTopic({a}, k)'
      <4>1. <<a, k>> \in ArticleKeyword
        BY DEF ArticleKeyword
      <4>2. \/ keywords'[<<a, k>>] = keywords[<<a, k>>]
            \/ \E r \in stgKeywords : r.key = <<a, k>> /\ keywords'[<<a, k>>] = r.count
        BY <2>2, <4>1, UpsertedKeyword
      <4>3. ASSUME NEW r \in stgKeywords, r.key = <<a, k>>
            PROVE  r.count <= MentionsInTopic({a}, k)'
        <5>1. r.key[1] = a /\ r.key[2] = k
          BY <4>3
        <5> QED
          BY <5>1, BoundsGrow
      <4> QED
        BY <4>2, <4>3, BoundsGrow
    <3> QED
      BY <3>1 DEF KeywordsNeverInflated
  <2>3. UNCHANGED keywords \/ UpsertKeywords
    BY StepKinds DEF CountsUntouched, Tokenize, StageKeywords, StageTrends, UpsertTrends,
       StageRelations, UpsertRelations, tableVars
  <2> QED
    BY <2>1, <2>2, <2>3
<1>5. TrendsInflatedOnlyByFailures'
  <2>1. CASE UNCHANGED trends
    BY <2>1, BoundsGrow DEF TrendsInflatedOnlyByFailures
  <2>2. CASE UpsertTrends
    <3>1. ASSUME NEW w \in Windows, NEW k \in Keywords
          PROVE  trends'[<<w, k>>] <= (1 + failures') * MentionsInTopic(ArticlesOf(w), k)'
      <4> DEFINE n == MentionsInTopic(ArticlesOf(w), k)'
      <4>1. <<w, k>> \in WindowKeyword /\ failures' = failures
        BY <2>2 DEF WindowKeyword, UpsertTrends, Advance
      <4>2. n \in Nat
        BY TypesNow, MentionsGrow
      <4>3. ASSUME NEW r \in stgTrends, r.key = <<w, k>>
            PROVE  r.count <= n
        <5>1. r.key[1] = w /\ r.key[2] = k
          BY <4>3
        <5> QED
          BY <5>1, BoundsGrow
      <4> HIDE DEF n
      <4>4. CASE Staged(stgTrends, <<w, k>>) # {}
        <5>1. trends'[<<w, k>>] <= (1 + failures) * n
          BY <2>2, <4>1, <4>2, <4>3, <4>4, UpsertedTrend
        <5> QED
          BY <4>1, <5>1 DEF n
      <4>5. CASE Staged(stgTrends, <<w, k>>) = {}
        <5>1. trends'[<<w, k>>] = trends[<<w, k>>]
          BY <2>2, <4>1, <4>5, UpsertedTrend
        <5> QED
          BY <5>1, BoundsGrow
      <4> QED
        BY <4>4, <4>5
    <3> QED
      BY <3>1 DEF TrendsInflatedOnlyByFailures
  <2>3. UNCHANGED trends \/ UpsertTrends
    BY StepKinds DEF CountsUntouched, Tokenize, StageKeywords, UpsertKeywords, StageTrends,
       StageRelations, UpsertRelations, tableVars
  <2> QED
    BY <2>1, <2>2, <2>3
<1> QED
  BY <1>1, <1>2, <1>3, <1>4, <1>5 DEF CountsInv, AtMostMentioned

LEMMA CountsStart == Init => CountsInv
<1> SUFFICES ASSUME Init PROVE CountsInv
  OBVIOUS
<1>1. RowsInv /\ SinkInv /\ failures = 0
  BY RowsStart, SinkStart DEF Init
<1>2. ASSUME NEW A, NEW k \in Keywords PROVE MentionsInTopic(A, k) \in Nat
  <2>1. log \in Seq(Messages) /\ planned \in 0 .. Len(log) /\ Dictionaries # {}
    BY <1>1, TypesNow DEF SinkInv, OffsetsInv
  <2> QED
    BY <2>1, TopicSumIsNat, MentionsAreTopicSum
<1>3. /\ \A a \in Articles, k \in Keywords : keywords[<<a, k>>] = 0 /\ articleKeywords[<<a, k>>] = 0
      /\ \A w \in Windows, k \in Keywords : trends[<<w, k>>] = 0
      /\ stgKeywords = {} /\ stgTrends = {}
  BY DEF Init, StoreInit, NoCounts, ArticleKeyword, WindowKeyword
<1>4. AtMostMentioned /\ KeywordsNeverInflated
  <2>1. ASSUME NEW a \in Articles, NEW k \in Keywords
        PROVE  /\ articleKeywords[<<a, k>>] <= MentionsInTopic({a}, k)
               /\ keywords[<<a, k>>] <= MentionsInTopic({a}, k)
    <3>1. MentionsInTopic({a}, k) \in Nat
      BY <1>2
    <3> QED
      BY <1>3, <3>1
  <2> QED
    BY <1>3, <2>1 DEF AtMostMentioned, KeywordsNeverInflated
<1>5. TrendsInflatedOnlyByFailures
  <2> SUFFICES ASSUME NEW w \in Windows, NEW k \in Keywords
               PROVE  trends[<<w, k>>] <= (1 + failures) * MentionsInTopic(ArticlesOf(w), k)
    BY DEF TrendsInflatedOnlyByFailures
  <2>1. trends[<<w, k>>] = 0
    BY <1>3
  <2>2. MentionsInTopic(ArticlesOf(w), k) \in Nat
    BY <1>2
  <2> QED
    BY <1>1, <2>1, <2>2
<1> QED
  BY <1>4, <1>5 DEF CountsInv

LEMMA CountsAlways == Spec => []CountsInv
  BY RowsAlways, CountsStart, CountsStep, PTL DEF Spec

\* No row of keywords counts more mentions than the topic holds for its article,
\* however often a batch is run again.
THEOREM KeywordsBounded == Spec => []KeywordsNeverInflated
<1>1. CountsInv => KeywordsNeverInflated
  BY DEF CountsInv
<1> QED
  BY <1>1, CountsAlways, PTL

\* A row of keyword_trends exceeds the mentions of its window in the topic by no more
\* than one more count of them for each failure of the job.
THEOREM TrendsBounded == Spec => []TrendsInflatedOnlyByFailures
<1>1. CountsInv => TrendsInflatedOnlyByFailures
  BY DEF CountsInv
<1> QED
  BY <1>1, CountsAlways, PTL

-----------------------------------------------------------------------------
(* The evidence.                                                           *)

\* A row of keywords that counts something never stops to.
LEMMA KeywordsStay ==
  ASSUME RowsInv, [Next]_vars, NEW row \in ArticleKeyword, keywords[row] > 0
  PROVE  keywords'[row] > 0
<1>1. UpsertKeywords \/ UNCHANGED keywords
  BY StepKinds DEF CountsUntouched, Tokenize, StageKeywords, StageTrends, UpsertTrends,
     StageRelations, UpsertRelations, tableVars
<1>2. CASE UpsertKeywords
  BY <1>2, UpsertedKeyword
<1> QED
  BY <1>1, <1>2

\* Evidence in keywords stays there.
LEMMA EvidenceStays ==
  ASSUME RowsInv, [Next]_vars
  PROVE  /\ \A w \in Windows, k \in Keywords :
              (\E a \in ArticlesOf(w) : keywords[<<a, k>>] > 0)
                => \E a \in ArticlesOf(w) : keywords'[<<a, k>>] > 0
         /\ \A w \in Windows, j, k \in Keywords :
              (\E a \in ArticlesOf(w) : keywords[<<a, j>>] > 0 /\ keywords[<<a, k>>] > 0)
                => \E a \in ArticlesOf(w) : keywords'[<<a, j>>] > 0 /\ keywords'[<<a, k>>] > 0
<1>1. \A a \in Articles, k \in Keywords : keywords[<<a, k>>] > 0 => keywords'[<<a, k>>] > 0
  BY KeywordsStay DEF ArticleKeyword
<1>2. \A w : ArticlesOf(w) \subseteq Articles
  BY DEF ArticlesOf
<1> QED
  BY <1>1, <1>2

\* A step that does not tokenize keeps what is in hand, or drops it.
LEMMA HandStep ==
  ASSUME SinkInv, RowsInv, NothingInHand, [Next]_vars
  PROVE  NothingInHand'
<1>1. CASE Tokenize
  <2>1. step' = "stageKeywords"
    BY <1>1, StepOrder DEF Tokenize
  <2> QED
    BY <2>1 DEF NothingInHand, WithBatch
<1>2. CASE articleKeywords' = NoCounts
  BY <1>2 DEF NothingInHand
<1>3. CASE articleKeywords' = articleKeywords /\ (step \in WithBatch => step' \in WithBatch)
  BY <1>3 DEF NothingInHand
<1>4. CASE \/ StageNews \/ UpsertNews \/ StageKeywords \/ UpsertKeywords \/ StageTrends
           \/ UpsertTrends \/ StageRelations \/ UpsertRelations
  <2>1. /\ Advance \/ GoDown \/ RepeatTask
        /\ step \in {"stageNews", "upsertNews", "stageKeywords", "upsertKeywords", "stageTrends",
                     "upsertTrends", "stageRelations", "upsertRelations"}
    BY <1>4 DEF StageNews, UpsertNews, StageKeywords, UpsertKeywords, StageTrends, UpsertTrends,
       StageRelations, UpsertRelations, AppendOf
  <2>2. Advance => (step \in WithBatch => step' \in WithBatch)
    BY <2>1, StepOrder DEF Advance, WithBatch, AfterKeywords, AfterTrends
  <2> QED
    BY <1>2, <1>3, <2>1, <2>2 DEF Advance, GoDown, RepeatTask
<1>5. CASE \/ UNCHANGED vars \/ (\E m \in Messages : Arrive(m))
           \/ (\E d \in Dictionaries : EditDictionary(d))
  BY <1>3, <1>5 DEF vars, sinkVars, Arrive, EditDictionary
<1>6. CASE (\E end \in 1 .. MaxLog : PlanBatch(end)) \/ Restart
  BY <1>3, <1>6 DEF PlanBatch, Restart, WithBatch, AfterKeywords, AfterTrends
<1>7. CASE CommitBatch \/ Fail
  BY <1>2, <1>7 DEF CommitBatch, Fail, GoDown
<1> QED
  BY <1>1, <1>4, <1>5, <1>6, <1>7 DEF Next, WorldNext, JobNext

\* A step that leaves trends, relations and their staging alone, or takes rows away
\* from it.
LEMMA BackingStays ==
  ASSUME RowsInv, EvidenceInv, [Next]_vars
  PROVE  /\ UNCHANGED <<trends, relations>> => BackedByKeywords'
         /\ stgTrends' \subseteq stgTrends /\ stgRelations' \subseteq stgRelations
              => StagedIsBacked'
<1>1. UNCHANGED <<trends, relations>> => BackedByKeywords'
  <2> SUFFICES ASSUME UNCHANGED <<trends, relations>> PROVE BackedByKeywords'
    OBVIOUS
  <2>1. ASSUME NEW w \in Windows, NEW k \in Keywords, trends'[<<w, k>>] > 0
        PROVE  \E a \in ArticlesOf(w) : keywords'[<<a, k>>] > 0
    BY <2>1, EvidenceStays DEF EvidenceInv, BackedByKeywords
  <2>2. ASSUME NEW w \in Windows, NEW j \in Keywords, NEW k \in Keywords,
               relations'[<<w, j, k>>] > 0
        PROVE  \E a \in ArticlesOf(w) : keywords'[<<a, j>>] > 0 /\ keywords'[<<a, k>>] > 0
    BY <2>2, EvidenceStays DEF EvidenceInv, BackedByKeywords
  <2> QED
    BY <2>1, <2>2 DEF BackedByKeywords
<1>2. ASSUME NEW r \in stgTrends
      PROVE  \E a \in ArticlesOf(r.key[1]) : keywords'[<<a, r.key[2]>>] > 0
  <2>1. r.key[1] \in Windows /\ r.key[2] \in Keywords
    BY TypesNow
  <2> QED
    BY <2>1, EvidenceStays DEF EvidenceInv, StagedIsBacked
<1>3. ASSUME NEW r \in stgRelations
      PROVE  \E a \in ArticlesOf(r.key[1]) :
               keywords'[<<a, r.key[2]>>] > 0 /\ keywords'[<<a, r.key[3]>>] > 0
  <2>1. r.key[1] \in Windows /\ r.key[2] \in Keywords /\ r.key[3] \in Keywords
    BY TypesNow
  <2>2. \E a \in ArticlesOf(r.key[1]) : keywords[<<a, r.key[2]>>] > 0 /\ keywords[<<a, r.key[3]>>] > 0
    BY DEF EvidenceInv, StagedIsBacked
  <2> QED
    BY <2>1, <2>2, EvidenceStays
<1> QED
  BY <1>1, <1>2, <1>3 DEF StagedIsBacked

\* Where nothing is in hand there is nothing to pass on.
LEMMA NothingToPassOn ==
  ASSUME articleKeywords' = NoCounts
  PROVE  BatchPassesOn'
<1>1. \A row \in ArticleKeyword : ~ (articleKeywords'[row] > 0)
  BY DEF NoCounts
<1> QED
  BY <1>1 DEF BatchPassesOn

\* Behind the upsert of keywords the batch stays passed on.
LEMMA PassedOn ==
  ASSUME EvidenceInv, step \in AfterKeywords, UNCHANGED keywords,
         articleKeywords' = articleKeywords, step' \in AfterKeywords
  PROVE  BatchPassesOn'
  BY DEF EvidenceInv, BatchPassesOn, AfterKeywords, AfterTrends

\* The steps that change none of the counts' tables.
LEMMA UntouchedEvidence ==
  ASSUME SinkInv, RowsInv, NothingInHand, EvidenceInv, [Next]_vars, CountsUntouched,
         ~ (Tokenize \/ StageKeywords \/ UpsertKeywords \/ StageTrends \/ UpsertTrends
              \/ StageRelations \/ UpsertRelations)
  PROVE  EvidenceInv'
<1>1. UNCHANGED <<keywords, trends, relations, stgKeywords, stgTrends, stgRelations>>
  BY DEF CountsUntouched
<1>2. BackedByKeywords' /\ StagedIsBacked'
  BY <1>1, BackingStays
<1>3. CASE articleKeywords' = NoCounts
  BY <1>2, <1>3, NothingToPassOn DEF EvidenceInv
<1>4. CASE articleKeywords' = articleKeywords /\ step' = step
  <2>1. BatchPassesOn'
    BY <1>1, <1>4 DEF EvidenceInv, BatchPassesOn
  <2> QED
    BY <1>2, <2>1 DEF EvidenceInv
<1>5. CASE articleKeywords' = articleKeywords /\ step \notin WithBatch
  <2>1. articleKeywords' = NoCounts
    BY <1>5 DEF NothingInHand
  <2> QED
    BY <1>3, <2>1
<1>6. \/ articleKeywords' = NoCounts
      \/ articleKeywords' = articleKeywords /\ (step' = step \/ step \notin WithBatch)
  <2>1. CASE StageNews \/ UpsertNews
    BY <2>1 DEF StageNews, UpsertNews, AppendOf, Advance, GoDown, RepeatTask, WithBatch, AfterKeywords,
       AfterTrends
  <2>2. CASE (\E end \in 1 .. MaxLog : PlanBatch(end)) \/ Restart
    BY <2>2 DEF PlanBatch, Restart, WithBatch, AfterKeywords, AfterTrends
  <2>3. CASE CommitBatch \/ Fail
    BY <2>3 DEF CommitBatch, Fail, GoDown
  <2>4. CASE \/ UNCHANGED vars \/ (\E m \in Messages : Arrive(m))
             \/ (\E d \in Dictionaries : EditDictionary(d))
    BY <2>4 DEF vars, sinkVars, Arrive, EditDictionary
  <2> QED
    BY <2>1, <2>2, <2>3, <2>4 DEF Next, WorldNext, JobNext
<1> QED
  BY <1>3, <1>4, <1>5, <1>6

LEMMA TokenizeEvidence ==
  ASSUME SinkInv, RowsInv, EvidenceInv, Tokenize
  PROVE  EvidenceInv'
<1>1. [Next]_vars
  BY DEF Next, JobNext
<1>2. /\ step' = "stageKeywords"
      /\ UNCHANGED <<trends, relations, stgTrends, stgRelations>>
  BY StepOrder DEF Tokenize, tableVars, stagingVars
<1>3. BackedByKeywords' /\ StagedIsBacked'
  BY <1>1, <1>2, BackingStays
<1>4. BatchPassesOn'
  BY <1>2 DEF BatchPassesOn, AfterKeywords, AfterTrends
<1> QED
  BY <1>3, <1>4 DEF EvidenceInv

\* A step of the handler that goes on, or is repeated, keeps what is in hand; one that
\* fails drops it.
LEMMA BatchStep ==
  ASSUME RowsInv, EvidenceInv,
         StageKeywords \/ UpsertKeywords \/ StageTrends \/ UpsertTrends
           \/ StageRelations \/ UpsertRelations
  PROVE  /\ [Next]_vars
         /\ \/ articleKeywords' = articleKeywords /\ step' = StepAfter(step)
            \/ BatchPassesOn'
<1>1. CASE RepeatTask
  <2>1. /\ UNCHANGED <<keywords, step, articleKeywords>>
        /\ step \in {"stageKeywords", "stageTrends", "stageRelations"}
    BY <1>1, StepOrder DEF RepeatTask, StageKeywords, UpsertKeywords, StageTrends, UpsertTrends,
       StageRelations, UpsertRelations, Advance, tableVars
  <2>2. BatchPassesOn'
    BY <2>1 DEF EvidenceInv, BatchPassesOn
  <2> QED
    BY <2>2, Outcomes
<1>2. CASE Advance \/ GoDown
  BY <1>2, Outcomes, NothingToPassOn DEF Advance, GoDown
<1> QED
  BY <1>1, <1>2, Outcomes

LEMMA StageKeywordsEvidence ==
  ASSUME SinkInv, RowsInv, EvidenceInv, StageKeywords
  PROVE  EvidenceInv'
<1>1. UNCHANGED <<keywords, trends, relations, stgTrends, stgRelations>> /\ step = "stageKeywords"
  BY DEF StageKeywords, tableVars
<1>2. BackedByKeywords' /\ StagedIsBacked'
  BY <1>1, BatchStep, BackingStays
<1>3. ASSUME articleKeywords' = articleKeywords, step' = StepAfter(step)
      PROVE  BatchPassesOn'
  <2>1. step' = "upsertKeywords"
    BY <1>1, <1>3, StepOrder
  <2>2. stgKeywords' = stgKeywords \union RowsOf(articleKeywords)
    BY <1>1, <2>1 DEF StageKeywords, AppendOf, GoDown, RepeatTask
  <2>3. ASSUME NEW row \in ArticleKeyword, articleKeywords[row] > 0
        PROVE  \E r \in RowsOf(articleKeywords) : r.key = row
    BY <2>3, RowsOfBatch, TypesNow DEF CountTypeOK, PlainTypeOK
  <2>4. \A row \in ArticleKeyword : articleKeywords[row] > 0 => \E r \in stgKeywords' : r.key = row
    BY <2>2, <2>3
  <2> QED
    BY <1>3, <2>1, <2>4 DEF BatchPassesOn, Staged, AfterKeywords, AfterTrends
<1> QED
  BY <1>2, <1>3, BatchStep DEF EvidenceInv

LEMMA UpsertKeywordsEvidence ==
  ASSUME SinkInv, RowsInv, EvidenceInv, UpsertKeywords
  PROVE  EvidenceInv'
<1>1. UNCHANGED <<trends, relations, stgTrends, stgRelations>> /\ step = "upsertKeywords"
  BY DEF UpsertKeywords
<1>2. BackedByKeywords' /\ StagedIsBacked'
  BY <1>1, BatchStep, BackingStays
<1>3. ASSUME articleKeywords' = articleKeywords, step' = StepAfter(step)
      PROVE  BatchPassesOn'
  <2>1. step' = "stageTrends"
    BY <1>1, <1>3, StepOrder
  <2>2. \A row \in ArticleKeyword : articleKeywords[row] > 0 => keywords'[row] > 0
    BY <1>1, UpsertedKeyword DEF EvidenceInv, BatchPassesOn
  <2> QED
    BY <1>3, <2>1, <2>2 DEF BatchPassesOn
<1> QED
  BY <1>2, <1>3, BatchStep DEF EvidenceInv

LEMMA StageTrendsEvidence ==
  ASSUME SinkInv, RowsInv, EvidenceInv, StageTrends
  PROVE  EvidenceInv'
<1>1. UNCHANGED <<keywords, trends, relations, stgRelations>> /\ step = "stageTrends"
  BY DEF StageTrends, tableVars
<1>2. PICK written \in SUBSET RowsOf(TrendBatch) : stgTrends' = stgTrends \union written
  BY DEF StageTrends, TrendBatch
<1>3. BackedByKeywords'
  BY <1>1, BatchStep, BackingStays
<1>4. ASSUME NEW r \in RowsOf(TrendBatch)
      PROVE  \E a \in ArticlesOf(r.key[1]) : keywords[<<a, r.key[2]>>] > 0
  <2>1. PICK a \in ArticlesOf(r.key[1]) : articleKeywords[<<a, r.key[2]>>] > 0
    BY TrendBatchBacked
  <2>2. r.key[2] \in Keywords /\ a \in Articles
    BY TrendBatchBacked DEF ArticlesOf
  <2>3. keywords[<<a, r.key[2]>>] > 0
    BY <1>1, <2>1, <2>2 DEF EvidenceInv, BatchPassesOn, AfterKeywords, ArticleKeyword
  <2> QED
    BY <2>3
<1>5. StagedIsBacked'
  BY <1>1, <1>2, <1>4 DEF EvidenceInv, StagedIsBacked
<1>6. ASSUME articleKeywords' = articleKeywords, step' = StepAfter(step)
      PROVE  BatchPassesOn'
  BY <1>1, <1>6, StepOrder, PassedOn DEF AfterKeywords
<1> QED
  BY <1>3, <1>5, <1>6, BatchStep DEF EvidenceInv

LEMMA UpsertTrendsEvidence ==
  ASSUME SinkInv, RowsInv, EvidenceInv, UpsertTrends
  PROVE  EvidenceInv'
<1>1. /\ UNCHANGED <<keywords, relations, stgRelations>> /\ step = "upsertTrends" /\ stgTrends' = {}
      /\ trends' = Upserted(trends, stgTrends, Total)
  BY DEF UpsertTrends, Truncated
<1>2. StagedIsBacked'
  BY <1>1, BatchStep, BackingStays
<1>3. ASSUME NEW w \in Windows, NEW k \in Keywords, trends'[<<w, k>>] > 0
      PROVE  \E a \in ArticlesOf(w) : keywords'[<<a, k>>] > 0
  <2>1. trends'[<<w, k>>] = IF Staged(stgTrends, <<w, k>>) = {} THEN trends[<<w, k>>]
                            ELSE Total(Staged(stgTrends, <<w, k>>))
    BY <1>1, TypesNow DEF Upserted, CountTypeOK, WindowKeyword
  <2>2. CASE Staged(stgTrends, <<w, k>>) = {}
    BY <1>1, <1>3, <2>1, <2>2 DEF EvidenceInv, BackedByKeywords
  <2>3. CASE Staged(stgTrends, <<w, k>>) # {}
    <3>1. PICK r \in stgTrends : r.key = <<w, k>>
      BY <2>3 DEF Staged
    <3>2. \E a \in ArticlesOf(r.key[1]) : keywords[<<a, r.key[2]>>] > 0
      BY DEF EvidenceInv, StagedIsBacked
    <3> QED
      BY <1>1, <3>1, <3>2
  <2> QED
    BY <2>2, <2>3
<1>4. ASSUME NEW w \in Windows, NEW j \in Keywords, NEW k \in Keywords, relations'[<<w, j, k>>] > 0
      PROVE  \E a \in ArticlesOf(w) : keywords'[<<a, j>>] > 0 /\ keywords'[<<a, k>>] > 0
  BY <1>1, <1>4 DEF EvidenceInv, BackedByKeywords
<1>5. BackedByKeywords'
  BY <1>3, <1>4 DEF BackedByKeywords
<1>6. ASSUME articleKeywords' = articleKeywords, step' = StepAfter(step)
      PROVE  BatchPassesOn'
  BY <1>1, <1>6, StepOrder, PassedOn DEF AfterKeywords, AfterTrends
<1> QED
  BY <1>2, <1>5, <1>6, BatchStep DEF EvidenceInv

LEMMA StageRelationsEvidence ==
  ASSUME SinkInv, RowsInv, EvidenceInv, StageRelations
  PROVE  EvidenceInv'
<1>1. UNCHANGED <<keywords, trends, relations, stgTrends>> /\ step = "stageRelations"
  BY DEF StageRelations, tableVars
<1>2. PICK written \in SUBSET RowsOf(RelationBatch) : stgRelations' = stgRelations \union written
  BY DEF StageRelations, RelationBatch
<1>3. BackedByKeywords'
  BY <1>1, BatchStep, BackingStays
<1>4. ASSUME NEW r \in RowsOf(RelationBatch)
      PROVE  \E a \in ArticlesOf(r.key[1]) :
               keywords[<<a, r.key[2]>>] > 0 /\ keywords[<<a, r.key[3]>>] > 0
  <2>1. PICK a \in ArticlesOf(r.key[1]) :
          articleKeywords[<<a, r.key[2]>>] > 0 /\ articleKeywords[<<a, r.key[3]>>] > 0
    BY RelationBatchBacked
  <2>2. r.key[2] \in Keywords /\ r.key[3] \in Keywords /\ a \in Articles
    BY RelationBatchBacked DEF ArticlesOf
  <2>3. keywords[<<a, r.key[2]>>] > 0 /\ keywords[<<a, r.key[3]>>] > 0
    BY <1>1, <2>1, <2>2 DEF EvidenceInv, BatchPassesOn, AfterKeywords, AfterTrends, ArticleKeyword
  <2> QED
    BY <2>3
<1>5. StagedIsBacked'
  BY <1>1, <1>2, <1>4 DEF EvidenceInv, StagedIsBacked
<1>6. ASSUME articleKeywords' = articleKeywords, step' = StepAfter(step)
      PROVE  BatchPassesOn'
  BY <1>1, <1>6, StepOrder, PassedOn DEF AfterKeywords, AfterTrends
<1> QED
  BY <1>3, <1>5, <1>6, BatchStep DEF EvidenceInv

LEMMA UpsertRelationsEvidence ==
  ASSUME SinkInv, RowsInv, EvidenceInv, UpsertRelations
  PROVE  EvidenceInv'
<1>1. /\ UNCHANGED <<keywords, trends, stgTrends>> /\ step = "upsertRelations"
      /\ stgRelations' = {} /\ relations' = Upserted(relations, stgRelations, Total)
  BY DEF UpsertRelations, Truncated
<1>2. StagedIsBacked'
  BY <1>1, BatchStep, BackingStays
<1>3. ASSUME NEW w \in Windows, NEW j \in Keywords, NEW k \in Keywords,
             relations'[<<w, j, k>>] > 0
      PROVE  \E a \in ArticlesOf(w) : keywords'[<<a, j>>] > 0 /\ keywords'[<<a, k>>] > 0
  <2>1. relations'[<<w, j, k>>] = IF Staged(stgRelations, <<w, j, k>>) = {} THEN relations[<<w, j, k>>]
                                  ELSE Total(Staged(stgRelations, <<w, j, k>>))
    BY <1>1, TypesNow DEF Upserted, CountTypeOK, WindowPair
  <2>2. CASE Staged(stgRelations, <<w, j, k>>) = {}
    BY <1>1, <1>3, <2>1, <2>2 DEF EvidenceInv, BackedByKeywords
  <2>3. CASE Staged(stgRelations, <<w, j, k>>) # {}
    <3>1. PICK r \in stgRelations : r.key = <<w, j, k>>
      BY <2>3 DEF Staged
    <3>2. \E a \in ArticlesOf(r.key[1]) :
            keywords[<<a, r.key[2]>>] > 0 /\ keywords[<<a, r.key[3]>>] > 0
      BY DEF EvidenceInv, StagedIsBacked
    <3> QED
      BY <1>1, <3>1, <3>2
  <2> QED
    BY <2>2, <2>3
<1>4. ASSUME NEW w \in Windows, NEW k \in Keywords, trends'[<<w, k>>] > 0
      PROVE  \E a \in ArticlesOf(w) : keywords'[<<a, k>>] > 0
  BY <1>1, <1>4 DEF EvidenceInv, BackedByKeywords
<1>5. BackedByKeywords'
  BY <1>3, <1>4 DEF BackedByKeywords
<1>6. ASSUME articleKeywords' = articleKeywords, step' = StepAfter(step)
      PROVE  BatchPassesOn'
  BY <1>1, <1>6, StepOrder, PassedOn DEF AfterKeywords, AfterTrends
<1> QED
  BY <1>2, <1>5, <1>6, BatchStep DEF EvidenceInv

LEMMA EvidenceStart == Init => NothingInHand /\ EvidenceInv
  BY DEF Init, StoreInit, NothingInHand, EvidenceInv, BatchPassesOn, StagedIsBacked,
     BackedByKeywords, AfterKeywords, AfterTrends, WindowKeyword, WindowPair

LEMMA EvidenceStep ==
  SinkInv /\ RowsInv /\ NothingInHand /\ EvidenceInv /\ [Next]_vars => EvidenceInv'
<1> SUFFICES ASSUME SinkInv, RowsInv, NothingInHand, EvidenceInv, [Next]_vars PROVE EvidenceInv'
  OBVIOUS
<1>1. CASE \/ Tokenize \/ StageKeywords \/ UpsertKeywords
           \/ StageTrends \/ UpsertTrends \/ StageRelations \/ UpsertRelations
  BY <1>1, TokenizeEvidence, StageKeywordsEvidence, UpsertKeywordsEvidence,
     StageTrendsEvidence, UpsertTrendsEvidence, StageRelationsEvidence, UpsertRelationsEvidence
<1> QED
  BY <1>1, StepKinds, UntouchedEvidence

LEMMA EvidenceAlways == Spec => []NothingInHand /\ []EvidenceInv
  BY RowsAlways, EvidenceStart, HandStep, EvidenceStep, PTL DEF Spec

\* No row of keyword_trends or keyword_relations is without rows of keywords that
\* account for it, in any state between the handler's steps and its failures.
THEOREM TrendsAreBacked == Spec => []BackedByKeywords
<1>1. EvidenceInv => BackedByKeywords
  BY DEF EvidenceInv
<1> QED
  BY <1>1, EvidenceAlways, PTL

-----------------------------------------------------------------------------
(* What is committed.                                                      *)

\* Only a commit adds to what is committed.
LEMMA CommittedKeywordsStay ==
  ASSUME SinkInv, RowsInv, CommittedInv, [Next]_vars, UNCHANGED committed
  PROVE  CommittedKeywordsAreStored'
<1>1. committed \in 0 .. planned /\ planned \in 0 .. Len(log) /\ log \in Seq(Messages)
  BY DEF SinkInv, OffsetsInv
<1>2. \A i \in 1 .. planned : log'[i] = log[i]
  BY TopicStep, TypesNow
<1>3. \A i \in Usable(committed)' : i \in Usable(committed) /\ log'[i] = log[i] /\ log[i] \in Messages
  BY <1>1, <1>2 DEF Usable
<1>4. ASSUME NEW i \in Usable(committed)'
      PROVE  \E d \in Dictionaries : \A k \in Keywords :
               Mentions[log'[i]][d][k] > 0 => keywords'[<<ArticleOf[log'[i]], k>>] > 0
  <2>1. ArticleOf[log[i]] \in Articles
    BY <1>3, StoreAssumption
  <2>2. PICK d \in Dictionaries : \A k \in Keywords :
          Mentions[log[i]][d][k] > 0 => keywords[<<ArticleOf[log[i]], k>>] > 0
    BY <1>3 DEF CommittedInv, CommittedKeywordsAreStored
  <2>3. ASSUME NEW k \in Keywords, Mentions[log[i]][d][k] > 0
        PROVE  keywords'[<<ArticleOf[log[i]], k>>] > 0
    BY <2>1, <2>2, <2>3, KeywordsStay DEF ArticleKeyword
  <2> QED
    BY <1>3, <2>3
<1> QED
  BY <1>4 DEF CommittedKeywordsAreStored

\* Tokenize counts the mentions of the batch under one dictionary.
LEMMA TokenizeTakesInHand ==
  ASSUME SinkInv, RowsInv, Tokenize
  PROVE  BatchIsInHand'
<1>1. UNCHANGED <<log, planned, committed>> /\ BatchOffsets' = BatchOffsets
  BY SameBatch DEF Tokenize
<1>2. ASSUME NEW i \in BatchOffsets
      PROVE  \E d \in Dictionaries : \A k \in Keywords :
               Mentions[log[i]][d][k] > 0 => articleKeywords'[<<ArticleOf[log[i]], k>>] > 0
  <2>1. log[i] \in Messages /\ ArticleOf[log[i]] \in Articles
    BY StoreAssumption DEF BatchOffsets, SinkInv, OffsetsInv
  <2>2. dictionary \in Dictionaries /\ OffsetsInv
    BY TypesNow DEF PlainTypeOK, SinkInv
  <2>3. ASSUME NEW k \in Keywords, Mentions[log[i]][dictionary][k] > 0
        PROVE  articleKeywords'[<<ArticleOf[log[i]], k>>] > 0
    <3>1. /\ articleKeywords'[<<ArticleOf[log[i]], k>>] = BatchCount(ArticleOf[log[i]], k)
          /\ BatchCount(ArticleOf[log[i]], k) \in Nat
      BY <2>1, TokenizeCountsBatch
    <3>2. Mentions[log[i]][dictionary][k] <= BatchCount(ArticleOf[log[i]], k)
      BY <2>2, BatchCountHolds
    <3>3. Mentions[log[i]][dictionary][k] \in Nat
      BY <2>1, <2>2, StoreAssumption
    <3> QED
      BY <2>3, <3>1, <3>2, <3>3
  <2> QED
    BY <2>2, <2>3
<1> QED
  BY <1>1, <1>2 DEF BatchIsInHand

\* The batch that is in hand is that of the same messages until the commit, and it
\* is in hand until then or until the job dies.
LEMMA BatchInHandStep ==
  ASSUME SinkInv, RowsInv, CommittedInv, [Next]_vars
  PROVE  BatchIsInHand'
<1>1. CASE Tokenize
  BY <1>1, TokenizeTakesInHand
<1>2. CASE step' \notin WithBatch
  BY <1>2 DEF BatchIsInHand
<1>3. CASE BatchOffsets' = {}
  BY <1>3 DEF BatchIsInHand
<1>4. CASE /\ UNCHANGED <<planned, committed, articleKeywords>>
           /\ step' \in WithBatch => step \in WithBatch
  <2>1. committed \in 0 .. planned /\ planned \in 0 .. Len(log) /\ planned \in 0 .. Len(log')
        /\ \A i \in 1 .. planned : log'[i] = log[i]
    BY <1>4, TopicStep, TypesNow, SinkStep DEF SinkInv, OffsetsInv
  <2>2. BatchOffsets' = BatchOffsets /\ \A i \in BatchOffsets : log'[i] = log[i]
    BY <1>4, <2>1 DEF BatchOffsets
  <2> QED
    BY <1>4, <2>2 DEF CommittedInv, BatchIsInHand
<1>5. CASE StageNews \/ UpsertNews
  <2>1. step' \in {"stageNews", "upsertNews", "tokenize", "down"}
    BY <1>5, StepOrder DEF StageNews, UpsertNews, AppendOf, Advance, GoDown, RepeatTask
  <2> QED
    BY <1>2, <2>1 DEF WithBatch, AfterKeywords, AfterTrends
<1>6. CASE \/ StageKeywords \/ UpsertKeywords \/ StageTrends \/ UpsertTrends
           \/ StageRelations \/ UpsertRelations
  <2>1. (Advance \/ GoDown \/ RepeatTask) /\ UNCHANGED <<planned, committed>> /\ step \in WithBatch
    BY <1>6, Outcomes DEF StageKeywords, UpsertKeywords, StageTrends, UpsertTrends, StageRelations,
       UpsertRelations, WithBatch, AfterKeywords, AfterTrends
  <2> QED
    BY <1>2, <1>4, <2>1 DEF Advance, GoDown, RepeatTask, WithBatch, AfterKeywords, AfterTrends
<1>7. CASE \/ UNCHANGED vars \/ (\E m \in Messages : Arrive(m))
           \/ (\E d \in Dictionaries : EditDictionary(d))
  BY <1>4, <1>7 DEF vars, sinkVars, Arrive, EditDictionary
<1>8. CASE \E end \in 1 .. MaxLog : PlanBatch(end)
  <2>1. step' = IF BatchOffsets' = {} THEN "commit" ELSE "stageNews"
    BY <1>8 DEF PlanBatch, BatchOffsets
  <2> QED
    BY <1>2, <1>3, <2>1 DEF WithBatch, AfterKeywords, AfterTrends
<1>9. CASE Restart
  <2>1. step' = ResumeAt /\ BatchOffsets' = BatchOffsets
    BY <1>9, SameBatch DEF Restart
  <2> QED
    BY <1>2, <1>3, <2>1 DEF ResumeAt, WithBatch, AfterKeywords, AfterTrends
<1>10. CASE CommitBatch \/ Fail
  BY <1>2, <1>10 DEF CommitBatch, Fail, GoDown, WithBatch, AfterKeywords, AfterTrends
<1> QED
  BY <1>1, <1>5, <1>6, <1>7, <1>8, <1>9, <1>10 DEF Next, WorldNext, JobNext

\* What the commit covers has passed to keywords: that of the batch under the
\* dictionary it was tokenized with.
LEMMA CommitStores ==
  ASSUME SinkInv, RowsInv, EvidenceInv, CommittedInv, CommitBatch
  PROVE  CommittedKeywordsAreStored'
<1>1. /\ step = "commit" /\ committed' = planned /\ UNCHANGED <<log, planned, keywords>>
  BY DEF CommitBatch, tableVars
<1>2. planned \in 0 .. Len(log) /\ committed \in 0 .. planned /\ log \in Seq(Messages)
  BY DEF SinkInv, OffsetsInv
<1>3. ASSUME NEW i \in Usable(planned)
      PROVE  \E d \in Dictionaries : \A k \in Keywords :
               Mentions[log[i]][d][k] > 0 => keywords[<<ArticleOf[log[i]], k>>] > 0
  <2>1. i \in Usable(committed) \/ i \in BatchOffsets
    BY <1>2 DEF Usable, BatchOffsets
  <2>2. CASE i \in Usable(committed)
    BY <2>2 DEF CommittedInv, CommittedKeywordsAreStored
  <2>3. CASE i \in BatchOffsets
    <3>1. ArticleOf[log[i]] \in Articles
      BY <1>2, StoreAssumption DEF Usable
    <3>2. PICK d \in Dictionaries : \A k \in Keywords :
            Mentions[log[i]][d][k] > 0 => articleKeywords[<<ArticleOf[log[i]], k>>] > 0
      BY <1>1, <2>3 DEF CommittedInv, BatchIsInHand, WithBatch, AfterKeywords, AfterTrends
    <3>3. \A row \in ArticleKeyword : articleKeywords[row] > 0 => keywords[row] > 0
      BY <1>1 DEF EvidenceInv, BatchPassesOn, AfterKeywords, AfterTrends
    <3> QED
      BY <3>1, <3>2, <3>3 DEF ArticleKeyword
  <2> QED
    BY <2>1, <2>2, <2>3
<1> QED
  BY <1>1, <1>3 DEF CommittedKeywordsAreStored, Usable

LEMMA CommittedStart == Init => CommittedInv
  BY DEF Init, CommittedInv, BatchIsInHand, CommittedKeywordsAreStored, Usable, WithBatch,
     AfterKeywords, AfterTrends

LEMMA CommittedStep ==
  SinkInv /\ RowsInv /\ EvidenceInv /\ CommittedInv /\ [Next]_vars => CommittedInv'
<1> SUFFICES ASSUME SinkInv, RowsInv, EvidenceInv, CommittedInv, [Next]_vars PROVE CommittedInv'
  OBVIOUS
<1>1. BatchIsInHand'
  BY BatchInHandStep
<1>2. CASE CommitBatch
  BY <1>1, <1>2, CommitStores DEF CommittedInv
<1>3. CASE UNCHANGED committed
  BY <1>1, <1>3, CommittedKeywordsStay DEF CommittedInv
<1>4. CommitBatch \/ UNCHANGED committed
  BY DEF Next, WorldNext, JobNext, Arrive, EditDictionary, PlanBatch, StageNews, UpsertNews,
     Tokenize, StageKeywords, UpsertKeywords, StageTrends, UpsertTrends, StageRelations,
     UpsertRelations, Restart, Fail, vars, sinkVars
<1> QED
  BY <1>2, <1>3, <1>4

\* Every message below the committed offset has its keywords in the keywords table,
\* as one of the dictionaries splits its text, whatever failed on the way and
\* whichever other messages of the article were stored after it.
THEOREM CommittedKeywords == Spec => []CommittedKeywordsAreStored
<1>1. CommittedInv => CommittedKeywordsAreStored
  BY DEF CommittedInv
<1> QED
  BY <1>1, RowsAlways, EvidenceAlways, CommittedStart, CommittedStep, PTL DEF Spec
=============================================================================
