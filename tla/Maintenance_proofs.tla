-------------------------- MODULE Maintenance_proofs --------------------------
(***************************************************************************)
(* The writers of the analysis tables beside each other: their types, what *)
(* a backfill leaves behind when nobody disturbs it, the evidence for      *)
(* trends and relations, and the stop words that are gone for good.        *)
(*                                                                         *)
(* WritersInv carries the invariants of the streaming job over the steps   *)
(* of the backfill and of the deletion.  The steps of all writers are      *)
(* sorted by what they do to the job's variables (AllSteps), so that a     *)
(* step of the job is dealt with by the lemmas of StreamSink_proofs.       *)
(***************************************************************************)
EXTENDS Maintenance, StreamSink_proofs

-----------------------------------------------------------------------------
(* The types of all writers.                                               *)

\* What the backfill and the deletion leave alone.
JobUntouched ==
  UNCHANGED <<dictionary, newsRaw, log, planned, committed, step, articleKeywords, stgNewsRaw,
              failures, edits>>

StagingShrinks ==
  /\ stgKeywords' \subseteq stgKeywords /\ stgTrends' \subseteq stgTrends
  /\ stgRelations' \subseteq stgRelations

TableTypes ==
  /\ keywords \in [ArticleKeyword -> Nat]
  /\ trends \in [WindowKeyword -> Nat]
  /\ relations \in [WindowPair -> Nat]

LEMMA JobKept ==
  ASSUME SinkInv, RowsInv, NothingInHand, JobUntouched, StagingShrinks, TableTypes'
  PROVE  SinkInv' /\ RowsInv' /\ NothingInHand'
<1>1. SinkInv'
  <2>1. OffsetsInv'
    BY DEF SinkInv, OffsetsInv, JobUntouched
  <2>2. NewsInv'
    BY SameBatch DEF SinkInv, NewsInv, CommittedNewsIsStored, JobUntouched
  <2>3. StagingInv'
    BY SameBatch DEF SinkInv, StagingInv, StagingEmpty, JobUntouched, StagingShrinks
  <2> QED
    BY <2>1, <2>2, <2>3 DEF SinkInv
<1>2. TypeOK'
  <2>1. PlainTypeOK'
    BY TypesNow DEF PlainTypeOK, JobUntouched
  <2>2. CountTypeOK'
    BY TypesNow DEF CountTypeOK, TableTypes, StagingShrinks, JobUntouched
  <2> QED
    BY <2>1, <2>2, TypeOKParts
<1>3. /\ OneRowPerAttempt(stgKeywords, "upsertKeywords")'
      /\ OneRowPerAttempt(stgTrends, "upsertTrends")'
      /\ OneRowPerAttempt(stgRelations, "upsertRelations")'
  BY DEF RowsInv, OneRowPerAttempt, StagingShrinks, JobUntouched
<1>4. NothingInHand'
  BY DEF NothingInHand, JobUntouched
<1> QED
  BY <1>1, <1>2, <1>3, <1>4 DEF RowsInv

\* What the rows of a table are after a rewriting, with a deletion before or behind it
\* or without one.
RewritingsOf(table, rows, locks, counts) ==
  {Removed(Overwritten(table, locks, counts), rows),
   Overwritten(Removed(table, rows), locks, counts),
   Overwritten(table, locks, counts)}

LEMMA RewrittenRows ==
  ASSUME NEW D, NEW table \in [D -> Nat], NEW counts \in [D -> Nat], NEW rows, NEW locks,
         NEW new \in RewritingsOf(table, rows, locks, counts)
  PROVE  new \in [D -> Nat] /\ \A row \in D : new[row] \in {0, counts[row], table[row]}
<1>1. \A t \in [D -> Nat] : /\ Removed(t, rows) \in [D -> Nat]
                            /\ \A row \in D : Removed(t, rows)[row] \in {0, t[row]}
  BY DEF Removed
<1>2. \A t \in [D -> Nat] : /\ Overwritten(t, locks, counts) \in [D -> Nat]
                            /\ \A row \in D : Overwritten(t, locks, counts)[row] \in {counts[row], t[row]}
  BY DEF Overwritten
<1>4. CASE new = Removed(Overwritten(table, locks, counts), rows)
  BY <1>1, <1>2, <1>4
<1>5. CASE new = Overwritten(Removed(table, rows), locks, counts)
  BY <1>1, <1>2, <1>5
<1>6. CASE new = Overwritten(table, locks, counts)
  BY <1>2, <1>6
<1> QED
  BY <1>4, <1>5, <1>6 DEF RewritingsOf

LEMMA WritersNow ==
  ASSUME WritersInv
  PROVE  /\ SinkInv /\ RowsInv /\ NothingInHand /\ TableTypes
         /\ bfRows \in [ArticleKeyword -> Nat]
         /\ bfCounts.trends \in [WindowKeyword -> Nat]
         /\ bfCounts.relations \in [WindowPair -> Nat]
         /\ articleKeywords \in [ArticleKeyword -> Nat]
         /\ newsRaw \in [Articles -> Messages \union {NoMessage}]
         /\ bfTexts \in [Articles -> Messages \union {NoMessage}]
         /\ stgKeywords \subseteq Row(ArticleKeyword) /\ stgTrends \subseteq Row(WindowKeyword)
         /\ stgRelations \subseteq Row(WindowPair)
         /\ dictionary \in Dictionaries /\ tableDictionary \in Dictionaries
         /\ bfDictionary \in Dictionaries
         /\ cleanup # NoCleanup => cleanup.word \in Keywords /\ cleanup.scope \in Scopes
<1>1. SinkInv /\ RowsInv /\ NothingInHand /\ TypeOKAll
  BY DEF WritersInv
<1>2. CountTypeOK /\ PlainTypeOK
  BY <1>1, TypesNow
<1>3. cleanup # NoCleanup => cleanup.word \in Keywords /\ cleanup.scope \in Scopes
  BY <1>1 DEF TypeOKAll
<1>4. BackfillTypeOK
  BY <1>1 DEF TypeOKAll
<1>5. /\ bfCounts.trends \in [WindowKeyword -> Nat]
      /\ bfCounts.relations \in [WindowPair -> Nat]
  BY <1>4 DEF BackfillTypeOK
<1> QED
  BY <1>1, <1>2, <1>3, <1>4, <1>5 DEF TableTypes, CountTypeOK, PlainTypeOK, BackfillTypeOK

\* The tables after the commit of a backfill, with a deletion waiting for it or not.
LEMMA TablesAfterCommit ==
  ASSUME WritersInv, CommitBackfill
  PROVE  /\ TableTypes' /\ JobUntouched /\ StagingShrinks
         /\ \A row \in ArticleKeyword : keywords'[row] \in {0, bfRows[row], keywords[row]}
         /\ \A row \in WindowKeyword : trends'[row] \in {0, bfCounts.trends[row], trends[row]}
         /\ \A row \in WindowPair : relations'[row] \in {0, bfCounts.relations[row], relations[row]}
<1>1. JobUntouched /\ StagingShrinks
  BY DEF CommitBackfill, JobUntouched, StagingShrinks, CleanStaging, StagedWithout, stagingVars
<1>2. /\ keywords' \in [ArticleKeyword -> Nat]
      /\ \A row \in ArticleKeyword : keywords'[row] \in {0, bfRows[row], keywords[row]}
  <2>1. keywords \in [ArticleKeyword -> Nat] /\ bfRows \in [ArticleKeyword -> Nat]
    BY WritersNow DEF TableTypes
  <2>2. PICK rows : keywords' \in RewritingsOf(keywords, rows, bfLocks.keywords, bfRows)
    <3>1. CASE waiting
      <4>1. PICK missed \in Missable, behind \in BOOLEAN :
              keywords' = CleanedBy(keywords, KeywordRows \ missed.keywords, bfLocks.keywords, bfRows, behind)
        BY <3>1, Zenon DEF CommitBackfill
      <4> QED
        BY <4>1 DEF CleanedBy, RewritingsOf
    <3>2. CASE ~waiting
      BY <3>2 DEF CommitBackfill, RewrittenKeywords, RewritingsOf
    <3> QED
      BY <3>1, <3>2
  <2> QED
    BY <2>1, <2>2, RewrittenRows
<1>3. /\ trends' \in [WindowKeyword -> Nat]
      /\ \A row \in WindowKeyword : trends'[row] \in {0, bfCounts.trends[row], trends[row]}
  <2>1. trends \in [WindowKeyword -> Nat] /\ bfCounts.trends \in [WindowKeyword -> Nat]
    BY WritersNow DEF TableTypes
  <2>2. PICK rows : trends' \in RewritingsOf(trends, rows, bfLocks.trends, bfCounts.trends)
    <3>1. CASE waiting
      <4>1. PICK missed \in Missable, behind \in BOOLEAN :
              trends' = CleanedBy(trends, TrendRows \ missed.trends, bfLocks.trends, bfCounts.trends, behind)
        <5>1. PICK missed \in Missable :
                trends' = CleanedBy(trends, TrendRows \ missed.trends, bfLocks.trends,
                                    bfCounts.trends, RelationsBlocked)
          BY <3>1, Zenon DEF CommitBackfill
        <5>2. RelationsBlocked \in BOOLEAN
          BY DEF RelationsBlocked
        <5> QED
          BY <5>1, <5>2
      <4> QED
        BY <4>1 DEF CleanedBy, RewritingsOf
    <3>2. CASE ~waiting
      BY <3>2 DEF CommitBackfill, RewrittenTrends, RewritingsOf
    <3> QED
      BY <3>1, <3>2
  <2> QED
    BY <2>1, <2>2, RewrittenRows
<1>4. /\ relations' \in [WindowPair -> Nat]
      /\ \A row \in WindowPair : relations'[row] \in {0, bfCounts.relations[row], relations[row]}
  <2>1. relations \in [WindowPair -> Nat] /\ bfCounts.relations \in [WindowPair -> Nat]
    BY WritersNow DEF TableTypes
  <2>2. PICK rows : relations' \in RewritingsOf(relations, rows, bfLocks.relations, bfCounts.relations)
    <3>1. CASE waiting
      <4>1. PICK missed \in Missable, behind \in BOOLEAN :
              relations' = CleanedBy(relations, RelationRows \ missed.relations, bfLocks.relations, bfCounts.relations, behind)
        BY <3>1, Zenon DEF CommitBackfill
      <4> QED
        BY <4>1 DEF CleanedBy, RewritingsOf
    <3>2. CASE ~waiting
      BY <3>2 DEF CommitBackfill, RewrittenRelations, RewritingsOf
    <3> QED
      BY <3>1, <3>2
  <2> QED
    BY <2>1, <2>2, RewrittenRows
<1> QED
  BY <1>1, <1>2, <1>3, <1>4 DEF TableTypes

\* No row of the word comes up behind the statement that deletes in its table.
AllRowsGo ==
  /\ \A row \in ArticleKeyword :
       keywords'[row] = IF row \in KeywordRows THEN 0 ELSE keywords[row]
  /\ \A row \in WindowKeyword : trends'[row] = IF row \in TrendRows THEN 0 ELSE trends[row]
  /\ \A row \in WindowPair : relations'[row] = IF row \in RelationRows THEN 0 ELSE relations[row]

\* The tables after a deletion.
LEMMA TablesAfterDeletion ==
  ASSUME WritersInv, DeleteKeywordData
  PROVE  /\ TableTypes' /\ JobUntouched /\ StagingShrinks
         /\ \A row \in ArticleKeyword : keywords'[row] \in {0, keywords[row]}
         /\ \A row \in WindowKeyword : trends'[row] \in {0, trends[row]}
         /\ \A row \in WindowPair : relations'[row] \in {0, relations[row]}
         /\ ~crossed' => AllRowsGo /\ ~BatchHoldsWord
         /\ \/ UNCHANGED gone
            \/ AllRowsGo /\ NobodyHolds /\ gone' = gone \union (cleanup.scope \X {cleanup.word})
<1>1. JobUntouched /\ StagingShrinks
  BY DEF DeleteKeywordData, JobUntouched, StagingShrinks, CleanStaging, StagedWithout
<1>2. PICK missed \in Missable :
        /\ relations' = Removed(relations, RelationRows \ missed.relations)
        /\ trends' = Removed(trends, TrendRows \ missed.trends)
        /\ keywords' = Removed(keywords, KeywordRows \ missed.keywords)
        /\ gone' = IF NobodyHolds /\ missed = NothingMissed
                   THEN gone \union (cleanup.scope \X {cleanup.word}) ELSE gone
        /\ crossed' = (crossed \/ BatchHoldsWord \/ missed # NothingMissed)
  BY Zenon DEF DeleteKeywordData
<1>3. TableTypes
  BY WritersNow
<1>4. /\ TableTypes'
      /\ \A row \in ArticleKeyword :
           keywords'[row] = IF row \in KeywordRows \ missed.keywords THEN 0 ELSE keywords[row]
      /\ \A row \in WindowKeyword :
           trends'[row] = IF row \in TrendRows \ missed.trends THEN 0 ELSE trends[row]
      /\ \A row \in WindowPair :
           relations'[row] = IF row \in RelationRows \ missed.relations THEN 0 ELSE relations[row]
  BY <1>2, <1>3 DEF TableTypes, Removed
<1>5. missed = NothingMissed => AllRowsGo
  BY <1>4 DEF NothingMissed, AllRowsGo
<1>6. ~crossed' => AllRowsGo /\ ~BatchHoldsWord
  BY <1>2, <1>5
<1>7. \/ UNCHANGED gone
      \/ AllRowsGo /\ NobodyHolds /\ gone' = gone \union (cleanup.scope \X {cleanup.word})
  BY <1>2, <1>5
<1> QED
  BY <1>1, <1>4, <1>6, <1>7

\* A deletion takes the staged rows of its word, and no others.
LEMMA StagedAfterCleaning ==
  ASSUME WritersInv, CleanStaging
  PROVE  /\ \A r \in stgKeywords : r \in stgKeywords' <=> r.key[2] # cleanup.word
         /\ \A r \in stgTrends : r \in stgTrends' <=> r.key[2] # cleanup.word
         /\ \A r \in stgRelations :
              r \in stgRelations' <=> r.key[2] # cleanup.word /\ r.key[3] # cleanup.word
         /\ StagingShrinks
<1>1. ASSUME NEW r \in stgKeywords
      PROVE  r \in stgKeywords' <=> r.key[2] # cleanup.word
  <2>1. r.key \in ArticleKeyword
    BY WritersNow DEF Row
  <2>2. PICK article \in Articles, k \in Keywords : r.key = <<article, k>>
    BY <2>1 DEF ArticleKeyword
  <2>3. Len(r.key) = 2 /\ 2 .. Len(r.key) = {2}
    BY <2>2
  <2> QED
    BY <2>3 DEF CleanStaging, StagedWithout
<1>2. ASSUME NEW r \in stgTrends
      PROVE  r \in stgTrends' <=> r.key[2] # cleanup.word
  <2>1. r.key \in WindowKeyword
    BY WritersNow DEF Row
  <2>2. PICK w \in Windows, k \in Keywords : r.key = <<w, k>>
    BY <2>1 DEF WindowKeyword
  <2>3. Len(r.key) = 2 /\ 2 .. Len(r.key) = {2}
    BY <2>2
  <2> QED
    BY <2>3 DEF CleanStaging, StagedWithout
<1>3. ASSUME NEW r \in stgRelations
      PROVE  r \in stgRelations' <=> r.key[2] # cleanup.word /\ r.key[3] # cleanup.word
  <2>1. r.key \in WindowPair
    BY WritersNow DEF Row
  <2>2. PICK w \in Windows, j \in Keywords, k \in Keywords : r.key = <<w, j, k>>
    BY <2>1 DEF WindowPair
  <2>3. Len(r.key) = 3 /\ 2 .. Len(r.key) = {2, 3}
    BY <2>2
  <2> QED
    BY <2>3 DEF CleanStaging, StagedWithout
<1>4. StagingShrinks
  BY DEF StagingShrinks, CleanStaging, StagedWithout
<1> QED
  BY <1>1, <1>2, <1>3, <1>4

\* A step of the streaming job and of what feeds it, beside the other writers.
StreamMoves ==
  /\ Next
  /\ \/ UNCHANGED <<dictionary, gone>>
     \/ gone' = StillGone(dictionary')
  /\ disturbed' = (disturbed \/ (bfStep = "recount" /\ tableVars' # tableVars))
  /\ UNCHANGED <<tableDictionary, bfVars, cleanupVars, crossed>>

\* A step of a backfill that writes nothing yet, or writes nothing at all.
BackfillMoves ==
  /\ \/ /\ \/ \E period \in Periods : SelectArticles(period)
           \/ \E article \in Articles : TokenizeStored(article)
        /\ gone' = StillGone(bfDictionary')
     \/ /\ ReplaceKeywords \/ \E w \in Windows : RecountWindow(w)
        /\ UNCHANGED gone
  /\ UNCHANGED <<cleanupVars, crossed, disturbed>>

BackfillEnds ==
  /\ BackfillForgets
  /\ UNCHANGED <<waiting, disturbed>> \/ (~waiting' /\ waiting' \in BOOLEAN /\ disturbed' = FALSE)
  /\ UNCHANGED <<vars, tableDictionary, bfDictionary, backfills, requests, cleanup, gone, crossed>>

\* A step of the administrator before or in the place of a deletion.
RequestMoves ==
  /\ \/ \E d \in Dictionaries : EditTables(d)
     \/ \E k \in Keywords, scope \in Scopes : CreateStopword(k, scope)
     \/ WaitForBackfill
     \/ AbandonCleanup
  /\ UNCHANGED <<vars, bfVars, crossed, disturbed>>

LEMMA AllSteps ==
  ASSUME [NextAll]_allVars, WritersInv
  PROVE  \/ StreamMoves \/ BackfillMoves \/ BackfillEnds \/ RequestMoves
         \/ DeleteKeywordData \/ CommitBackfill \/ UNCHANGED allVars
<1>1. Loadable \subseteq Dictionaries
  BY WritersNow, BackfillAssumption DEF Loadable
<1>2. ASSUME NEW m \in Messages, Stream(Arrive(m)) PROVE StreamMoves
  BY <1>2 DEF Stream, StreamMoves, Next, WorldNext, Arrive
<1>3. CASE LoadDictionary
  <2>1. PICK d \in Loadable : EditDictionary(d)
    BY <1>3 DEF LoadDictionary
  <2>2. UNCHANGED <<tableVars, disturbed, tableDictionary, bfVars, cleanupVars, crossed>>
        /\ gone' = StillGone(dictionary')
    BY <1>3, <2>1 DEF LoadDictionary, EditDictionary
  <2>3. Next
    BY <1>1, <2>1 DEF Next, WorldNext
  <2>4. disturbed' = (disturbed \/ (bfStep = "recount" /\ tableVars' # tableVars))
    BY <2>2, WritersNow DEF WritersInv, TypeOKAll
  <2> QED
    BY <2>2, <2>3, <2>4 DEF StreamMoves
<1>4. CASE JobStep
  <2>1. UNCHANGED dictionary
    BY <1>4 DEF JobStep, Stream, JobNext, PlanBatch, StageNews, UpsertNews, Tokenize, StageKeywords,
       UpsertKeywords, StageTrends, UpsertTrends, StageRelations, UpsertRelations, CommitBatch, Restart
  <2> QED
    BY <1>4, <2>1 DEF JobStep, Stream, StreamMoves, Next
<1>5. CASE Stream(Fail)
  BY <1>5 DEF Stream, StreamMoves, Next, Fail
<1>6. CASE BackfillStep
  <2>1. CASE BackfillReads
    BY <2>1 DEF BackfillReads, BackfillMoves
  <2>2. CASE EndWithoutWriting /\ UNCHANGED <<cleanupVars, history>>
    BY <2>2 DEF BackfillEnds, EndWithoutWriting, cleanupVars, history
  <2>3. CASE (ReplaceKeywords \/ \E w \in Windows : RecountWindow(w)) /\ UNCHANGED <<cleanupVars, history>>
    BY <2>3 DEF BackfillMoves, history
  <2> QED
    BY <1>6, <2>1, <2>2, <2>3 DEF BackfillStep
<1>7. CASE RollBackBackfill
  BY <1>7 DEF RollBackBackfill, RollBack, BackfillEnds
<1>8. CASE \/ \E d \in Dictionaries : EditTables(d)
           \/ \E k \in Keywords, scope \in Scopes : CreateStopword(k, scope)
           \/ WaitForBackfill \/ AbandonCleanup
  <2>1. UNCHANGED <<vars, bfVars, crossed, disturbed>>
    BY <1>8 DEF EditTables, CreateStopword, WaitForBackfill, AbandonCleanup, history
  <2> QED
    BY <1>8, <2>1 DEF RequestMoves
<1> QED
  BY <1>2, <1>3, <1>4, <1>5, <1>6, <1>7, <1>8 DEF NextAll

\* Whatever does not write the tables beside the job is a step of the job, or none.
LEMMA JobOrWriters ==
  ASSUME [NextAll]_allVars, WritersInv
  PROVE  [Next]_vars \/ DeleteKeywordData \/ CommitBackfill
<1>1. StreamMoves => Next
  BY DEF StreamMoves
<1>2. BackfillMoves \/ BackfillEnds \/ RequestMoves \/ UNCHANGED allVars => UNCHANGED vars
  BY DEF BackfillMoves, SelectArticles, TokenizeStored, ReplaceKeywords, RecountWindow,
     BackfillEnds, RequestMoves, allVars
<1> QED
  BY <1>1, <1>2, AllSteps

LEMMA JobInvsStep ==
  ASSUME [NextAll]_allVars, WritersInv
  PROVE  SinkInv' /\ RowsInv' /\ NothingInHand'
<1>1. CASE [Next]_vars
  BY <1>1, SinkStep, RowsStep, HandStep DEF WritersInv
<1>2. CASE DeleteKeywordData
  BY <1>2, TablesAfterDeletion, WritersNow, JobKept
<1>3. CASE CommitBackfill
  BY <1>3, TablesAfterCommit, WritersNow, JobKept
<1> QED
  BY <1>1, <1>2, <1>3, JobOrWriters

\* What the types say of the administrator and of the history.
RequestTypes ==
  /\ requests \in 0 .. MaxRequests
  /\ cleanup \in [word : Keywords, scope : Scopes] \union {NoCleanup}
  /\ waiting \in BOOLEAN
  /\ gone \subseteq Domains \X Keywords
  /\ crossed \in BOOLEAN /\ disturbed \in BOOLEAN
  /\ waiting => cleanup # NoCleanup

LEMMA WritersParts ==
  /\ WritersInv <=> /\ SinkInv /\ RowsInv /\ NothingInHand
                    /\ BackfillTypeOK /\ BackfillStages /\ RequestTypes
  /\ WritersInv' <=> /\ SinkInv' /\ RowsInv' /\ NothingInHand'
                     /\ BackfillTypeOK' /\ BackfillStages' /\ RequestTypes'
  BY DEF WritersInv, TypeOKAll, RowsInv, RequestTypes

\* What nobody has begun counts nothing.
LEMMA NoBackfillTypes ==
  /\ NoTexts \in [Articles -> Messages \union {NoMessage}]
  /\ NoRowsYet \in [ArticleKeyword -> Nat]
  /\ NoLocks \in [keywords : SUBSET ArticleKeyword, trends : SUBSET WindowKeyword,
                  relations : SUBSET WindowPair]
  /\ NoCountsYet \in [trends : [WindowKeyword -> Nat], relations : [WindowPair -> Nat]]
  BY DEF NoTexts, NoRowsYet, NoLocks, NoCountsYet

LEMMA WritersStart == InitAll => WritersInv
<1> SUFFICES ASSUME InitAll PROVE WritersInv
  OBVIOUS
<1>1. SinkInv /\ RowsInv /\ NothingInHand
  BY SinkStart, RowsStart, EvidenceStart DEF InitAll
<1>2. dictionary \in Dictionaries
  BY <1>1, TypesNow DEF PlainTypeOK
<1>3. BackfillTypeOK /\ BackfillStages
  BY <1>2, NoBackfillTypes, BackfillAssumption DEF InitAll, BackfillInit, BackfillTypeOK, BackfillStages
<1>4. RequestTypes
  <2>1. 0 \in 0 .. MaxRequests
    BY MaintenanceAssumption
  <2>2. /\ requests = 0 /\ cleanup = NoCleanup /\ ~waiting /\ gone = {} /\ ~crossed /\ ~disturbed
        /\ waiting \in BOOLEAN /\ crossed \in BOOLEAN /\ disturbed \in BOOLEAN
    BY DEF InitAll
  <2> QED
    BY <2>1, <2>2 DEF RequestTypes
<1> QED
  BY <1>1, <1>3, <1>4, WritersParts

\* The counts of a window: its own view of keywords, summed and paired.
LEMMA RecountTypes ==
  ASSUME WritersInv, NEW w \in Windows
  PROVE  /\ \A k \in Keywords : TrendCount(w, k) \in Nat
         /\ \A j, k \in Keywords : RelationCount(w, j, k) \in Nat
<1>1. StoredArticlesOf(w) \in SUBSET Articles
  BY DEF StoredArticlesOf, ArticlesOf
<1>2. IsFiniteSet(StoredArticlesOf(w))
  BY <1>1, FS_Subset, StoreAssumption
<1>3. \A row \in ArticleKeyword : OwnView(row) \in Nat
  BY WritersNow DEF OwnView, TableTypes
<1>4. ASSUME NEW k \in Keywords PROVE TrendCount(w, k) \in Nat
  <2> DEFINE f == [article \in Articles |-> OwnView(<<article, k>>)]
  <2>1. \A article \in StoredArticlesOf(w) : f[article] \in Nat
    BY <1>1, <1>3 DEF ArticleKeyword
  <2>2. SumFunctionOnSet(f, StoredArticlesOf(w)) \in Nat
    <3> HIDE DEF f
    <3> QED BY <1>2, <2>1, SumIsNat
  <2> QED
    BY <2>2, Zenon DEF TrendCount
<1>5. ASSUME NEW j \in Keywords, NEW k \in Keywords PROVE RelationCount(w, j, k) \in Nat
  <2> DEFINE S == {article \in StoredArticlesOf(w) :
                     {j, k} \subseteq Representative([i \in Keywords |-> OwnView(<<article, i>>)])}
  <2>1. S \in SUBSET StoredArticlesOf(w)
    OBVIOUS
  <2>2. Cardinality(S) \in Nat
    <3> HIDE DEF S
    <3>1. IsFiniteSet(S)
      BY <1>2, <2>1, FS_Subset
    <3> QED BY <3>1, FS_CardinalityType
  <2> QED
    BY <2>2 DEF RelationCount
<1> QED
  BY <1>4, <1>5

LEMMA BackfillTypesStep ==
  ASSUME [NextAll]_allVars, WritersInv
  PROVE  BackfillTypeOK' /\ BackfillStages'
<1>0. BackfillTypeOK /\ BackfillStages
  BY WritersParts
<1>1. CASE UNCHANGED bfVars /\ tableDictionary' \in Dictionaries
  BY <1>0, <1>1 DEF bfVars, BackfillTypeOK, BackfillStages
<1>2. CASE BackfillForgets /\ UNCHANGED <<tableDictionary, bfDictionary, backfills>>
  <2>1. BackfillStages'
    BY <1>2 DEF BackfillForgets, BackfillStages, NoTexts, NoRowsYet, NoLocks, NoCountsYet
  <2>2. BackfillTypeOK'
    BY <1>0, <1>2, NoBackfillTypes DEF BackfillForgets, BackfillTypeOK
  <2> QED
    BY <2>1, <2>2
<1>3. ASSUME NEW period \in Periods, SelectArticles(period)
      PROVE  BackfillTypeOK' /\ BackfillStages'
  <2>1. newsRaw \in [Articles -> Messages \union {NoMessage}]
    BY WritersNow
  <2>2. bfTexts' \in [Articles -> Messages \union {NoMessage}]
    BY <1>3, <2>1 DEF SelectArticles
  <2> QED
    BY <1>0, <1>3, <2>2, BackfillAssumption DEF SelectArticles, BackfillTypeOK, BackfillStages, Loadable
<1>4. ASSUME NEW article \in Articles, TokenizeStored(article)
      PROVE  BackfillTypeOK' /\ BackfillStages'
  <2>1. bfDictionary' \in Dictionaries /\ bfTexts[article] \in Messages
    BY <1>0, <1>4, BackfillAssumption DEF TokenizeStored, BackfillTypeOK, Loadable
  <2>2. \A k \in Keywords : Mentions[bfTexts[article]][bfDictionary'][k] \in Nat
    BY <2>1, StoreAssumption
  <2>3. bfRows' \in [ArticleKeyword -> Nat]
    BY <1>0, <1>4, <2>2 DEF TokenizeStored, BackfillTypeOK, ArticleKeyword
  <2>4. bfTexts' \in [Articles -> Messages \union {NoMessage}]
    BY <1>0, <1>4 DEF TokenizeStored, BackfillTypeOK
  <2> QED
    BY <1>0, <1>4, <2>1, <2>3, <2>4 DEF TokenizeStored, BackfillTypeOK, BackfillStages
<1>5. CASE ReplaceKeywords
  <2>1. bfLocks' \in [keywords : SUBSET ArticleKeyword, trends : SUBSET WindowKeyword,
                      relations : SUBSET WindowPair]
    BY <1>5 DEF ReplaceKeywords, TouchedRows
  <2> QED
    BY <1>0, <1>5, <2>1 DEF ReplaceKeywords, BackfillTypeOK, BackfillStages
<1>6. ASSUME NEW w \in Windows, RecountWindow(w)
      PROVE  BackfillTypeOK' /\ BackfillStages'
  <2>1. /\ bfCounts.trends \in [WindowKeyword -> Nat] /\ bfCounts.relations \in [WindowPair -> Nat]
        /\ \A k \in Keywords : TrendCount(w, k) \in Nat
        /\ \A j, k \in Keywords : RelationCount(w, j, k) \in Nat
    BY WritersNow, RecountTypes
  <2> DEFINE t == [row \in WindowKeyword |-> IF row[1] = w THEN TrendCount(w, row[2])
                                              ELSE bfCounts.trends[row]]
             r == [row \in WindowPair |-> IF row[1] = w THEN RelationCount(w, row[2], row[3])
                                          ELSE bfCounts.relations[row]]
  <2>2. t \in [WindowKeyword -> Nat]
    BY <2>1 DEF WindowKeyword
  <2>3. r \in [WindowPair -> Nat]
    BY <2>1 DEF WindowPair
  <2>4. bfCounts' = [trends |-> t, relations |-> r]
    BY <1>6 DEF RecountWindow
  <2>5. bfCounts' \in [trends : [WindowKeyword -> Nat], relations : [WindowPair -> Nat]]
    <3> HIDE DEF t, r
    <3> QED BY <2>2, <2>3, <2>4
  <2> QED
    BY <1>0, <1>6, <2>5 DEF RecountWindow, BackfillTypeOK, BackfillStages
<1>7. CASE StreamMoves \/ DeleteKeywordData \/ UNCHANGED allVars
  <2>1. UNCHANGED bfVars /\ tableDictionary' \in Dictionaries
    BY <1>0, <1>7 DEF StreamMoves, DeleteKeywordData, allVars, BackfillTypeOK
  <2> QED
    BY <1>1, <2>1
<1>8. CASE RequestMoves
  <2>1. UNCHANGED bfVars /\ tableDictionary' \in Dictionaries
    BY <1>0, <1>8 DEF RequestMoves, EditTables, CreateStopword, WaitForBackfill, AbandonCleanup,
       BackfillTypeOK
  <2> QED
    BY <1>1, <2>1
<1>9. CASE BackfillEnds \/ CommitBackfill
  BY <1>2, <1>9 DEF BackfillEnds, CommitBackfill
<1> QED
  BY <1>3, <1>4, <1>5, <1>6, <1>7, <1>8, <1>9, AllSteps DEF BackfillMoves

LEMMA RequestTypesStep ==
  ASSUME [NextAll]_allVars, WritersInv
  PROVE  RequestTypes'
<1>0. RequestTypes
  BY WritersParts
<1>1. CASE StreamMoves
  BY <1>0, <1>1 DEF StreamMoves, RequestTypes, cleanupVars, StillGone
<1>2. CASE BackfillMoves \/ UNCHANGED allVars
  BY <1>0, <1>2 DEF BackfillMoves, RequestTypes, cleanupVars, history, allVars, StillGone
<1>3. CASE BackfillEnds
  <2>1. CASE UNCHANGED <<waiting, disturbed>>
    BY <1>0, <1>3, <2>1 DEF BackfillEnds, RequestTypes
  <2>2. CASE ~waiting' /\ waiting' \in BOOLEAN /\ disturbed' = FALSE
    BY <1>0, <1>3, <2>2 DEF BackfillEnds, RequestTypes
  <2> QED
    BY <1>3, <2>1, <2>2 DEF BackfillEnds
<1>4. ASSUME NEW d \in Dictionaries, EditTables(d) PROVE RequestTypes'
  BY <1>0, <1>4, MaintenanceAssumption DEF EditTables, RequestTypes
<1>5. ASSUME NEW k \in Keywords, NEW scope \in Scopes, CreateStopword(k, scope)
      PROVE  RequestTypes'
  BY <1>0, <1>5, MaintenanceAssumption DEF CreateStopword, RequestTypes, history
<1>6. CASE WaitForBackfill \/ AbandonCleanup
  BY <1>0, <1>6 DEF WaitForBackfill, AbandonCleanup, RequestTypes, history
<1>7. CASE DeleteKeywordData
  <2>1. cleanup.scope \X {cleanup.word} \subseteq Domains \X Keywords
    BY <1>7, WritersNow DEF DeleteKeywordData, Scopes
  <2>2. gone' \subseteq Domains \X Keywords
    BY <1>0, <1>7, <2>1, TablesAfterDeletion DEF RequestTypes
  <2>3. crossed' \in BOOLEAN
    BY <1>7 DEF DeleteKeywordData
  <2>4. /\ UNCHANGED <<requests, waiting>> /\ cleanup' = NoCleanup /\ ~waiting
        /\ disturbed' \in BOOLEAN
    BY <1>7 DEF DeleteKeywordData
  <2> QED
    BY <1>0, <2>2, <2>3, <2>4 DEF RequestTypes
<1>8. CASE CommitBackfill
  <2>1. /\ requests' = requests /\ gone' = gone /\ cleanup' \in {cleanup, NoCleanup}
        /\ waiting' = FALSE /\ disturbed' = FALSE
    BY <1>8 DEF CommitBackfill
  <2>2. crossed' \in BOOLEAN
    BY <1>8 DEF CommitBackfill
  <2> QED
    BY <1>0, <2>1, <2>2 DEF RequestTypes
<1> QED
  BY <1>1, <1>2, <1>3, <1>4, <1>5, <1>6, <1>7, <1>8, AllSteps DEF RequestMoves

LEMMA WritersStep == WritersInv /\ [NextAll]_allVars => WritersInv'
  BY JobInvsStep, BackfillTypesStep, RequestTypesStep, WritersParts

LEMMA WritersAlways == SpecAll => []WritersInv
  BY WritersStart, WritersStep, PTL DEF SpecAll

\* The tables, the streaming job, the backfill and the deletion of a stop word keep
\* their types beside each other, whichever of them writes when.
THEOREM TypesOfAllWriters == SpecAll => []TypeOKAll
<1>1. WritersInv => TypeOKAll
  BY DEF WritersInv
<1> QED
  BY <1>1, WritersAlways, PTL

-----------------------------------------------------------------------------
(* What a backfill has counted.                                            *)

\* The counts are made from the tables and from what the backfill holds.
LEMMA SameCounts ==
  ASSUME UNCHANGED <<tableVars, bfRows>>
  PROVE  /\ TouchedRows' = TouchedRows
         /\ AffectedArticles' = AffectedArticles /\ AffectedWindows' = AffectedWindows
         /\ UNCHANGED bfLocks =>
              /\ \A w, k : TrendCount(w, k)' = TrendCount(w, k)
              /\ \A w, j, k : RelationCount(w, j, k)' = RelationCount(w, j, k)
<1>1. /\ TouchedRows' = TouchedRows
      /\ AffectedArticles' = AffectedArticles /\ AffectedWindows' = AffectedWindows
  BY DEF tableVars, TouchedRows, AffectedWindows, AffectedArticles
<1>2. ASSUME UNCHANGED bfLocks
      PROVE  /\ \A row : OwnView(row)' = OwnView(row)
             /\ \A w : StoredArticlesOf(w)' = StoredArticlesOf(w)
  BY <1>2 DEF tableVars, OwnView, StoredArticlesOf
<1>3. ASSUME UNCHANGED bfLocks, NEW w, NEW k
      PROVE  TrendCount(w, k)' = TrendCount(w, k)
  BY <1>2, <1>3, Zenon DEF TrendCount
<1>4. ASSUME UNCHANGED bfLocks, NEW w, NEW j, NEW k
      PROVE  RelationCount(w, j, k)' = RelationCount(w, j, k)
  <2>1. \A article : [i \in Keywords |-> OwnView(<<article, i>>)]' = [i \in Keywords |-> OwnView(<<article, i>>)]
    BY <1>2, <1>4, Zenon
  <2>2. \A article : Representative([i \in Keywords |-> OwnView(<<article, i>>)])'
                    = Representative([i \in Keywords |-> OwnView(<<article, i>>)])
    BY <2>1, Zenon
  <2> DEFINE S == {article \in StoredArticlesOf(w) :
                     {j, k} \subseteq Representative([i \in Keywords |-> OwnView(<<article, i>>)])}
  <2>3. S' = S
    <3>1. StoredArticlesOf(w)' = StoredArticlesOf(w)
      BY <1>2, <1>4
    <3>2. ASSUME NEW article
          PROVE  ({j, k} \subseteq Representative([i \in Keywords |-> OwnView(<<article, i>>)]))'
                   <=> {j, k} \subseteq Representative([i \in Keywords |-> OwnView(<<article, i>>)])
      BY <2>2, Zenon
    <3>3. S \subseteq S'
      BY <3>1, <3>2, Zenon
    <3>4. S' \subseteq S
      BY <3>1, <3>2, Zenon
    <3> QED
      BY <3>3, <3>4
  <2>4. RelationCount(w, j, k)' = (IF KeywordOrder[j] >= KeywordOrder[k] THEN 0 ELSE Cardinality(S'))
    BY Zenon DEF RelationCount
  <2>5. RelationCount(w, j, k) = (IF KeywordOrder[j] >= KeywordOrder[k] THEN 0 ELSE Cardinality(S))
    BY Zenon DEF RelationCount
  <2> HIDE DEF S
  <2> QED
    BY <2>3, <2>4, <2>5
<1> QED
  BY <1>1, <1>3, <1>4

LEMMA RecountStart == InitAll => RecountInv
  BY DEF InitAll, BackfillInit, RecountInv

\* Nothing changes under the counts as long as nobody else writes.
LEMMA RecountKept ==
  ASSUME RecountInv, UNCHANGED <<tableVars, bfVars>>, disturbed \/ ~disturbed', ~disturbed' => ~disturbed
  PROVE  RecountInv'
<1>1. UNCHANGED <<bfStep, bfRows, bfLocks, bfCounts, bfRecounted>>
  BY DEF bfVars
<1> QED
  BY <1>1, SameCounts DEF RecountInv

LEMMA RecountStep ==
  ASSUME [NextAll]_allVars, WritersInv, RecountInv
  PROVE  RecountInv'
<1>1. CASE bfStep' # "recount" \/ disturbed'
  BY <1>1 DEF RecountInv
<1>2. CASE StreamMoves
  <2>1. CASE bfStep' # "recount" \/ disturbed'
    BY <1>1, <2>1
  <2>2. CASE bfStep' = "recount" /\ ~disturbed'
    <3>1. ~disturbed /\ UNCHANGED <<tableVars, bfVars>>
      BY <1>2, <2>2 DEF StreamMoves, bfVars
    <3> QED
      BY <2>2, <3>1, RecountKept
  <2> QED
    BY <2>1, <2>2
<1>3. CASE ReplaceKeywords /\ UNCHANGED disturbed
  <2>1. /\ UNCHANGED <<tableVars, bfRows, bfCounts, bfRecounted>> /\ bfLocks' = TouchedRows
        /\ bfRecounted = {} /\ bfCounts = NoCountsYet
    BY <1>3 DEF ReplaceKeywords, vars, WritersInv, BackfillStages
  <2> QED
    BY <2>1, SameCounts DEF RecountInv, NoCountsYet
<1>4. ASSUME NEW w \in Windows, RecountWindow(w), UNCHANGED disturbed
      PROVE  RecountInv'
  <2>1. /\ UNCHANGED <<tableVars, bfRows, bfLocks, bfStep, disturbed>> /\ bfStep = "recount"
        /\ w \in AffectedWindows /\ bfRecounted' = bfRecounted \union {w}
    BY <1>4 DEF RecountWindow, vars
  <2> SUFFICES ASSUME ~disturbed PROVE RecountInv'
    BY <2>1 DEF RecountInv
  <2>2. /\ bfLocks = TouchedRows /\ bfRecounted \subseteq AffectedWindows
        /\ \A row \in WindowKeyword : bfCounts.trends[row] =
             IF row[1] \in bfRecounted THEN TrendCount(row[1], row[2]) ELSE 0
        /\ \A row \in WindowPair : bfCounts.relations[row] =
             IF row[1] \in bfRecounted THEN RelationCount(row[1], row[2], row[3]) ELSE 0
    BY <2>1 DEF RecountInv
  <2>3. /\ \A row \in WindowKeyword : bfCounts'.trends[row] =
             IF row[1] = w THEN TrendCount(w, row[2]) ELSE bfCounts.trends[row]
        /\ \A row \in WindowPair : bfCounts'.relations[row] =
             IF row[1] = w THEN RelationCount(w, row[2], row[3]) ELSE bfCounts.relations[row]
    BY <1>4 DEF RecountWindow
  <2>4. /\ \A row \in WindowKeyword : bfCounts'.trends[row] =
             IF row[1] \in bfRecounted' THEN TrendCount(row[1], row[2]) ELSE 0
        /\ \A row \in WindowPair : bfCounts'.relations[row] =
             IF row[1] \in bfRecounted' THEN RelationCount(row[1], row[2], row[3]) ELSE 0
    BY <2>1, <2>2, <2>3
  <2>5. bfLocks' = TouchedRows' /\ bfRecounted' \subseteq AffectedWindows'
    BY <2>1, <2>2, SameCounts
  <2> QED
    BY <2>1, <2>4, <2>5, SameCounts DEF RecountInv
<1>5. CASE BackfillMoves
  <2>1. ASSUME NEW period \in Periods, SelectArticles(period) PROVE bfStep' # "recount"
    BY <2>1 DEF SelectArticles
  <2>2. ASSUME NEW article \in Articles, TokenizeStored(article) PROVE bfStep' # "recount"
    BY <2>2 DEF TokenizeStored
  <2> QED
    BY <1>1, <1>3, <1>4, <1>5, <2>1, <2>2 DEF BackfillMoves
<1>6. CASE BackfillEnds \/ CommitBackfill
  BY <1>1, <1>6 DEF BackfillEnds, CommitBackfill, BackfillForgets
<1>7. CASE RequestMoves
  <2>1. UNCHANGED <<tableVars, bfVars, disturbed>>
    BY <1>7 DEF RequestMoves, vars
  <2> QED
    BY <2>1, RecountKept
<1>8. CASE DeleteKeywordData
  <2>1. UNCHANGED bfStep
    BY <1>8 DEF DeleteKeywordData, bfVars
  <2> QED
    BY <1>1, <1>8, <2>1 DEF DeleteKeywordData
<1>9. CASE UNCHANGED allVars
  <2>1. UNCHANGED <<tableVars, bfVars, disturbed>>
    BY <1>9 DEF allVars, vars, history
  <2> QED
    BY <2>1, RecountKept
<1> QED
  BY <1>2, <1>5, <1>6, <1>7, <1>8, <1>9, AllSteps

-----------------------------------------------------------------------------
(* Rows that are not there.                                                *)

\* Nobody counts a keyword of an article.
RowIsClear(row) ==
  keywords[row] = 0 /\ articleKeywords[row] = 0 /\ bfRows[row] = 0 /\ Staged(stgKeywords, row) = {}

\* What a step of the job does to the counts of keywords.
LEMMA KeywordMoves ==
  ASSUME [Next]_vars
  PROVE  /\ UNCHANGED keywords \/ UpsertKeywords
         /\ articleKeywords' = articleKeywords \/ articleKeywords' = NoCounts \/ Tokenize
         /\ stgKeywords' \subseteq stgKeywords
              \/ \E written \in SUBSET RowsOf(articleKeywords) : stgKeywords' = stgKeywords \union written
<1>1. CASE WorldNext
  BY <1>1 DEF WorldNext, Arrive, EditDictionary, tableVars, stagingVars
<1>2. CASE JobNext
  <2>1. ASSUME NEW end, PlanBatch(end)
        PROVE  UNCHANGED <<keywords, articleKeywords, stgKeywords>>
    BY <2>1 DEF PlanBatch, tableVars, stagingVars
  <2>2. CASE StageNews \/ StageTrends \/ StageRelations
    BY <2>2 DEF StageNews, StageTrends, StageRelations, tableVars, AppendOf, RepeatTask, Advance, GoDown
  <2>3. CASE UpsertNews \/ UpsertTrends \/ UpsertRelations
    BY <2>3 DEF UpsertNews, UpsertTrends, UpsertRelations, Advance
  <2>4. CASE Tokenize
    BY <2>4 DEF Tokenize, tableVars, stagingVars
  <2>5. CASE StageKeywords
    BY <2>5 DEF StageKeywords, tableVars, AppendOf, RepeatTask, Advance, GoDown
  <2>6. CASE UpsertKeywords
    BY <2>6 DEF UpsertKeywords, Advance, Truncated
  <2>7. CASE CommitBatch \/ Restart
    BY <2>7 DEF CommitBatch, Restart, tableVars, stagingVars
  <2> QED
    BY <1>2, <2>1, <2>2, <2>3, <2>4, <2>5, <2>6, <2>7 DEF JobNext
<1>3. CASE Fail \/ UNCHANGED vars
  BY <1>3 DEF Fail, GoDown, vars, sinkVars, tableVars, stagingVars
<1> QED
  BY <1>1, <1>2, <1>3 DEF Next

\* What a step does to what the backfill has counted.
LEMMA BackfillRowMoves ==
  ASSUME [NextAll]_allVars, WritersInv
  PROVE  \/ UNCHANGED bfRows \/ bfRows' = NoRowsYet
         \/ \E article \in Articles : TokenizeStored(article)
<1>1. CASE StreamMoves \/ RequestMoves \/ DeleteKeywordData \/ UNCHANGED allVars
  BY <1>1 DEF StreamMoves, RequestMoves, DeleteKeywordData, allVars, bfVars
<1>2. CASE BackfillMoves
  BY <1>2 DEF BackfillMoves, SelectArticles, ReplaceKeywords, RecountWindow
<1>3. CASE BackfillEnds \/ CommitBackfill
  BY <1>3 DEF BackfillEnds, CommitBackfill, BackfillForgets
<1> QED
  BY <1>1, <1>2, <1>3, AllSteps

\* Only a tokenizer makes a count of a row that nobody counts.
LEMMA ClearRow ==
  ASSUME [NextAll]_allVars, WritersInv, NEW row \in ArticleKeyword, RowIsClear(row)
  PROVE  /\ keywords'[row] = 0 /\ Staged(stgKeywords, row)' = {}
         /\ articleKeywords'[row] = 0 \/ Tokenize
         /\ bfRows'[row] = 0 \/ \E article \in Articles : TokenizeStored(article)
<1>1. bfRows'[row] = 0 \/ \E article \in Articles : TokenizeStored(article)
  BY BackfillRowMoves DEF RowIsClear, NoRowsYet
<1>2. CASE [Next]_vars
  <2>1. keywords'[row] = 0
    <3>1. CASE UpsertKeywords
      BY <3>1, UpsertedKeyword, WritersNow DEF RowIsClear
    <3> QED
      BY <1>2, <3>1, KeywordMoves DEF RowIsClear
  <2>2. articleKeywords'[row] = 0 \/ Tokenize
    BY <1>2, KeywordMoves DEF RowIsClear, NoCounts
  <2>3. Staged(stgKeywords, row)' = {}
    <3>1. \A r \in stgKeywords : r.key # row
      BY DEF RowIsClear, Staged
    <3>2. \A r \in RowsOf(articleKeywords) : r.key # row
      <4>1. articleKeywords[row] = 0 /\ DOMAIN articleKeywords = ArticleKeyword
        BY WritersNow DEF RowIsClear
      <4> QED
        BY <4>1 DEF RowsOf
    <3>3. \A r \in stgKeywords' : r.key # row
      BY <1>2, <3>1, <3>2, KeywordMoves
    <3> QED
      BY <3>3 DEF Staged
  <2> QED
    BY <1>1, <2>1, <2>2, <2>3
<1>3. CASE DeleteKeywordData \/ CommitBackfill
  <2>1. JobUntouched /\ StagingShrinks /\ keywords'[row] \in {0, bfRows[row], keywords[row]}
    BY <1>3, TablesAfterDeletion, TablesAfterCommit
  <2> QED
    BY <1>1, <2>1 DEF RowIsClear, JobUntouched, StagingShrinks, Staged
<1> QED
  BY <1>2, <1>3, JobOrWriters

-----------------------------------------------------------------------------
(* What is counted is stored.                                              *)

\* A stored article stays stored, with a message of its own.
LEMMA NewsStays ==
  ASSUME [NextAll]_allVars, WritersInv, CountedIsStored, NEW article \in Articles
  PROVE  /\ newsRaw[article] # NoMessage => newsRaw'[article] # NoMessage
         /\ newsRaw'[article] # NoMessage => ArticleOf[newsRaw'[article]] = article
<1>1. CASE UNCHANGED newsRaw
  BY <1>1 DEF CountedIsStored
<1>2. CASE UpsertNews
  <2>1. newsRaw'[article] \in NewsRow(article)
    BY <1>2 DEF UpsertNews
  <2>2. stgNewsRaw \subseteq Messages
    BY WritersNow DEF SinkInv, NewsInv
  <2> QED
    BY <2>1, <2>2, StoreAssumption DEF NewsRow, StagedOf, CountedIsStored
<1>3. [Next]_vars => UNCHANGED newsRaw \/ UpsertNews
  BY DEF Next, WorldNext, JobNext, Arrive, EditDictionary, PlanBatch, StageNews, Tokenize,
     StageKeywords, UpsertKeywords, StageTrends, UpsertTrends, StageRelations, UpsertRelations,
     CommitBatch, Restart, Fail, vars, tableVars
<1>4. DeleteKeywordData \/ CommitBackfill => UNCHANGED newsRaw
  BY DEF DeleteKeywordData, CommitBackfill
<1> QED
  BY <1>1, <1>2, <1>3, <1>4, JobOrWriters

LEMMA TextsStep ==
  ASSUME [NextAll]_allVars, WritersInv, CountedIsStored, NEW article \in Articles,
         bfTexts'[article] # NoMessage
  PROVE  newsRaw'[article] # NoMessage /\ ArticleOf[bfTexts'[article]] = article
<1>1. CASE UNCHANGED bfTexts
  BY <1>1, NewsStays DEF CountedIsStored
<1>2. ASSUME NEW period \in Periods, SelectArticles(period)
      PROVE  newsRaw'[article] # NoMessage /\ ArticleOf[bfTexts'[article]] = article
  <2>1. bfTexts'[article] = newsRaw[article]
    BY <1>2 DEF SelectArticles
  <2> QED
    BY <2>1, NewsStays DEF CountedIsStored
<1>3. ASSUME NEW other \in Articles, TokenizeStored(other)
      PROVE  newsRaw'[article] # NoMessage /\ ArticleOf[bfTexts'[article]] = article
  <2>1. bfTexts'[article] = bfTexts[article]
    BY <1>3, WritersNow DEF TokenizeStored
  <2> QED
    BY <2>1, NewsStays DEF CountedIsStored
<1>4. CASE BackfillEnds \/ CommitBackfill
  BY <1>4 DEF BackfillEnds, CommitBackfill, BackfillForgets, NoTexts
<1>5. CASE StreamMoves \/ RequestMoves \/ DeleteKeywordData \/ UNCHANGED allVars
  BY <1>1, <1>5 DEF StreamMoves, RequestMoves, DeleteKeywordData, allVars, bfVars
<1>6. CASE BackfillMoves
  BY <1>1, <1>2, <1>3, <1>6 DEF BackfillMoves, ReplaceKeywords, RecountWindow
<1> QED
  BY <1>4, <1>5, <1>6, AllSteps

\* A batch is tokenized behind the upsert that stores its articles.
LEMMA TokenizeCountsStored ==
  ASSUME WritersInv, Tokenize, NEW article \in Articles, newsRaw[article] = NoMessage,
         NEW k \in Keywords
  PROVE  articleKeywords'[<<article, k>>] = 0
<1>1. \A i \in BatchOffsets : newsRaw[ArticleOf[log[i]]] # NoMessage
  BY WritersNow DEF SinkInv, NewsInv, Tokenize, AfterNews
<1>2. {i \in BatchOffsets : ArticleOf[log[i]] = article} = {}
  BY <1>1
<1>3. BatchCount(article, k) = 0
  BY <1>2, SumEmpty DEF BatchCount
<1> QED
  BY <1>3, WritersNow, TokenizeCountsBatch

LEMMA TokenizeStoredRows ==
  ASSUME WritersInv, NEW article \in Articles, TokenizeStored(article), NEW row \in ArticleKeyword
  PROVE  bfRows'[row] = IF row[1] = article THEN Mentions[bfTexts[article]][bfDictionary'][row[2]]
                        ELSE bfRows[row]
  BY DEF TokenizeStored

LEMMA CountedStep ==
  ASSUME [NextAll]_allVars, WritersInv, CountedIsStored
  PROVE  CountedIsStored'
<1>1. ASSUME NEW row \in ArticleKeyword, newsRaw'[row[1]] = NoMessage
      PROVE  RowIsClear(row)'
  <2>1. PICK article \in Articles, k \in Keywords : row = <<article, k>>
    BY DEF ArticleKeyword
  <2>2. newsRaw[article] = NoMessage
    BY <1>1, <2>1, NewsStays
  <2>3. RowIsClear(row)
    BY <2>1, <2>2 DEF CountedIsStored, RowIsClear
  <2>4. Tokenize => articleKeywords'[row] = 0
    BY <2>1, <2>2, TokenizeCountsStored
  <2>5. ASSUME NEW other \in Articles, TokenizeStored(other) PROVE bfRows'[row] = 0
    <3>1. other # article
      BY <2>2, <2>5 DEF TokenizeStored, CountedIsStored
    <3> QED
      BY <2>1, <2>3, <2>5, <3>1, TokenizeStoredRows DEF RowIsClear
  <2> QED
    BY <2>3, <2>4, <2>5, ClearRow DEF RowIsClear
<1>2. \A article \in Articles :
        newsRaw'[article] # NoMessage => ArticleOf[newsRaw'[article]] = article
  BY NewsStays
<1>3. \A article \in Articles : bfTexts'[article] # NoMessage =>
        newsRaw'[article] # NoMessage /\ ArticleOf[bfTexts'[article]] = article
  BY TextsStep
<1> QED
  BY <1>1, <1>2, <1>3 DEF CountedIsStored, RowIsClear

LEMMA CountedStart == InitAll => CountedIsStored
<1> SUFFICES ASSUME InitAll PROVE CountedIsStored
  OBVIOUS
<1>1. \A article \in Articles : newsRaw[article] = NoMessage /\ bfTexts[article] = NoMessage
  BY DEF InitAll, Init, StoreInit, BackfillInit, NoTexts
<1>2. \A row \in ArticleKeyword : RowIsClear(row)
  BY DEF InitAll, Init, StoreInit, BackfillInit, NoRowsYet, NoCounts, RowIsClear, Staged
<1> QED
  BY <1>1, <1>2 DEF CountedIsStored, RowIsClear

LEMMA CountedAlways == SpecAll => []CountedIsStored
<1>1. WritersInv /\ CountedIsStored /\ [NextAll]_allVars => CountedIsStored'
  BY CountedStep
<1> QED
  BY <1>1, CountedStart, WritersAlways, PTL DEF SpecAll

-----------------------------------------------------------------------------
(* A backfill that nobody has disturbed.                                   *)

\* It leaves keywords as it sees it, the windows of its articles as it has counted
\* them, and the other windows alone.
LEMMA RecountedTables ==
  ASSUME WritersInv, RecountInv, CommitBackfill, ~disturbed, ~waiting
  PROVE  /\ \A row \in ArticleKeyword : keywords'[row] = OwnView(row)
         /\ \A row \in WindowKeyword : trends'[row] =
              IF row[1] \in AffectedWindows THEN TrendCount(row[1], row[2]) ELSE trends[row]
         /\ \A row \in WindowPair : relations'[row] =
              IF row[1] \in AffectedWindows THEN RelationCount(row[1], row[2], row[3])
              ELSE relations[row]
<1>1. bfStep = "recount" /\ bfRecounted = AffectedWindows
  BY DEF CommitBackfill, ReadyToCommit
<1>2. /\ bfLocks = TouchedRows
      /\ \A row \in WindowKeyword : bfCounts.trends[row] =
           IF row[1] \in AffectedWindows THEN TrendCount(row[1], row[2]) ELSE 0
      /\ \A row \in WindowPair : bfCounts.relations[row] =
           IF row[1] \in AffectedWindows THEN RelationCount(row[1], row[2], row[3]) ELSE 0
  BY <1>1 DEF RecountInv
<1>3. /\ keywords' = Overwritten(keywords, bfLocks.keywords, bfRows)
      /\ trends' = Overwritten(trends, bfLocks.trends, bfCounts.trends)
      /\ relations' = Overwritten(relations, bfLocks.relations, bfCounts.relations)
  BY DEF CommitBackfill, RewrittenKeywords, RewrittenTrends, RewrittenRelations
<1>4. TableTypes
  BY WritersNow
<1>5. ASSUME NEW row \in ArticleKeyword PROVE keywords'[row] = OwnView(row)
  <2>1. keywords'[row] = IF row \in bfLocks.keywords \/ bfRows[row] > 0 THEN bfRows[row]
                         ELSE keywords[row]
    BY <1>3, <1>4 DEF Overwritten, TableTypes
  <2>2. bfRows[row] > 0 => row \in bfLocks.keywords
    <3>1. PICK article \in Articles, k \in Keywords : row = <<article, k>>
      BY DEF ArticleKeyword
    <3> QED
      BY <1>2, <3>1 DEF TouchedRows, AffectedArticles
  <2> QED
    BY <2>1, <2>2 DEF OwnView
<1>6. ASSUME NEW row \in WindowKeyword
      PROVE  trends'[row] = IF row[1] \in AffectedWindows THEN TrendCount(row[1], row[2])
                            ELSE trends[row]
  <2>1. trends'[row] = IF row \in bfLocks.trends \/ bfCounts.trends[row] > 0
                       THEN bfCounts.trends[row] ELSE trends[row]
    BY <1>3, <1>4 DEF Overwritten, TableTypes
  <2>2. row \in bfLocks.trends <=> row[1] \in AffectedWindows /\ trends[row] > 0
    BY <1>2 DEF TouchedRows
  <2>3. trends[row] \in Nat /\ bfCounts.trends[row] \in Nat
    BY WritersNow DEF TableTypes
  <2> QED
    BY <1>2, <2>1, <2>2, <2>3
<1>7. ASSUME NEW row \in WindowPair
      PROVE  relations'[row] = IF row[1] \in AffectedWindows
                               THEN RelationCount(row[1], row[2], row[3]) ELSE relations[row]
  <2>1. relations'[row] = IF row \in bfLocks.relations \/ bfCounts.relations[row] > 0
                          THEN bfCounts.relations[row] ELSE relations[row]
    BY <1>3, <1>4 DEF Overwritten, TableTypes
  <2>2. row \in bfLocks.relations <=> row[1] \in AffectedWindows /\ relations[row] > 0
    BY <1>2 DEF TouchedRows
  <2>3. relations[row] \in Nat /\ bfCounts.relations[row] \in Nat
    BY WritersNow DEF TableTypes
  <2> QED
    BY <1>2, <2>1, <2>2, <2>3
<1> QED
  BY <1>5, <1>6, <1>7

\* The articles of a window that are not stored have nothing to count.
LEMMA UnstoredCountNothing ==
  ASSUME WritersInv, CountedIsStored, NEW w,
         NEW article \in ArticlesOf(w) \ StoredArticlesOf(w), NEW k \in Keywords
  PROVE  OwnView(<<article, k>>) = 0
<1>1. article \in Articles /\ newsRaw[article] = NoMessage
  BY DEF StoredArticlesOf, ArticlesOf
<1>2. <<article, k>> \in ArticleKeyword
  BY <1>1 DEF ArticleKeyword
<1> QED
  BY <1>1, <1>2 DEF CountedIsStored, OwnView

\* So a count over the stored articles of a window is one over all of them.
LEMMA TrendCountIsSum ==
  ASSUME WritersInv, CountedIsStored, NEW w \in Windows, NEW k \in Keywords, NEW view,
         \A article \in Articles : view[article] = OwnView(<<article, k>>)
  PROVE  TrendCount(w, k) = SumFunctionOnSet(view, ArticlesOf(w))
<1> DEFINE f == [article \in Articles |-> OwnView(<<article, k>>)]
<1>1. /\ ArticlesOf(w) \subseteq Articles /\ StoredArticlesOf(w) \in SUBSET ArticlesOf(w)
      /\ IsFiniteSet(ArticlesOf(w))
  <2>1. ArticlesOf(w) \subseteq Articles /\ StoredArticlesOf(w) \in SUBSET ArticlesOf(w)
    BY DEF ArticlesOf, StoredArticlesOf
  <2> QED
    BY <2>1, FS_Subset, StoreAssumption
<1>2. \A row \in ArticleKeyword : OwnView(row) \in Nat
  BY WritersNow DEF OwnView, TableTypes
<1>3. \A article \in ArticlesOf(w) : f[article] \in Nat /\ f[article] = view[article]
  BY <1>1, <1>2 DEF ArticleKeyword
<1>4. \A article \in ArticlesOf(w) \ StoredArticlesOf(w) : f[article] = 0
  BY <1>1, UnstoredCountNothing
<1>5. TrendCount(w, k) = SumFunctionOnSet(f, StoredArticlesOf(w))
  BY Zenon DEF TrendCount
<1> HIDE DEF f
<1>6. SumFunctionOnSet(f, ArticlesOf(w)) = SumFunctionOnSet(f, StoredArticlesOf(w))
  BY <1>1, <1>3, <1>4, SumOfSupport
<1>7. SumFunctionOnSet(f, ArticlesOf(w)) = SumFunctionOnSet(view, ArticlesOf(w))
  BY <1>1, <1>3, SumSame
<1> QED
  BY <1>5, <1>6, <1>7

LEMMA RelationCountIsSum ==
  ASSUME WritersInv, CountedIsStored, NEW w \in Windows, NEW j \in Keywords, NEW k \in Keywords,
         NEW table, \A row \in ArticleKeyword : table[row] = OwnView(row)
  PROVE  RelationCount(w, j, k) =
           IF KeywordOrder[j] >= KeywordOrder[k] THEN 0
           ELSE Cardinality({article \in ArticlesOf(w) :
                  {j, k} \subseteq Representative([i \in Keywords |-> table[<<article, i>>]])})
<1> DEFINE Own(article) == [i \in Keywords |-> OwnView(<<article, i>>)]
           Now(article) == [i \in Keywords |-> table[<<article, i>>]]
<1>1. ArticlesOf(w) \subseteq Articles /\ StoredArticlesOf(w) \subseteq ArticlesOf(w)
  BY DEF ArticlesOf, StoredArticlesOf
<1>2. ASSUME NEW article \in ArticlesOf(w) PROVE Own(article) = Now(article)
  <2>1. \A i \in Keywords : OwnView(<<article, i>>) = table[<<article, i>>]
    BY <1>1, <1>2 DEF ArticleKeyword
  <2> QED
    BY <2>1
<1>3. ASSUME NEW article \in ArticlesOf(w) \ StoredArticlesOf(w)
      PROVE  ~ ({j, k} \subseteq Representative(Own(article)))
  <2>1. Own(article)[j] = 0
    BY <1>3, UnstoredCountNothing
  <2>2. j \notin Representative(Own(article))
    <3> HIDE DEF Own
    <3> QED
      BY <2>1 DEF Representative
  <2> QED
    BY <2>2
<1>4. {article \in StoredArticlesOf(w) : {j, k} \subseteq Representative(Own(article))}
        = {article \in ArticlesOf(w) : {j, k} \subseteq Representative(Now(article))}
  <2> HIDE DEF Own, Now
  <2> QED
    BY <1>1, <1>2, <1>3
<1> QED
  BY <1>4 DEF RelationCount

\* A backfill that no other writer disturbs leaves the trends and relations of every
\* window it rewrites as its keywords, old and new, add up to.
THEOREM BackfillRecountsExactly == SpecAll => RecountIsExact
<1>1. ASSUME WritersInv, CountedIsStored, RecountInv, CommitBackfill, ~disturbed, ~waiting,
             NEW w \in AffectedWindows
      PROVE  WindowAddsUp(w, keywords', trends', relations')
  <2>1. w \in Windows
    BY <1>1, StoreAssumption DEF AffectedWindows, AffectedArticles
  <2>2. \A row \in ArticleKeyword : keywords'[row] = OwnView(row)
    BY <1>1, RecountedTables
  <2>3. ASSUME NEW k \in Keywords
        PROVE  trends'[<<w, k>>] =
                 SumFunctionOnSet([article \in Articles |-> keywords'[<<article, k>>]], ArticlesOf(w))
    <3> DEFINE view == [article \in Articles |-> keywords'[<<article, k>>]]
    <3>1. \A article \in Articles : view[article] = OwnView(<<article, k>>)
      BY <2>2 DEF ArticleKeyword
    <3>2. TrendCount(w, k) = SumFunctionOnSet(view, ArticlesOf(w))
      <4> HIDE DEF view
      <4> QED
        BY <1>1, <2>1, <3>1, TrendCountIsSum
    <3>3. <<w, k>> \in WindowKeyword /\ <<w, k>>[1] = w /\ <<w, k>>[2] = k
      BY <2>1 DEF WindowKeyword
    <3>4. trends'[<<w, k>>] = TrendCount(w, k)
      BY <1>1, <3>3, RecountedTables
    <3> QED
      BY <3>2, <3>4
  <2>4. ASSUME NEW j \in Keywords, NEW k \in Keywords
        PROVE  relations'[<<w, j, k>>] =
                 IF KeywordOrder[j] >= KeywordOrder[k] THEN 0
                 ELSE Cardinality({article \in ArticlesOf(w) :
                        {j, k} \subseteq Representative([i \in Keywords |-> keywords'[<<article, i>>]])})
    <3>1. <<w, j, k>> \in WindowPair /\ <<w, j, k>>[1] = w /\ <<w, j, k>>[2] = j
            /\ <<w, j, k>>[3] = k
      BY <2>1 DEF WindowPair
    <3>2. relations'[<<w, j, k>>] = RelationCount(w, j, k)
      BY <1>1, <3>1, RecountedTables
    <3> QED
      BY <1>1, <2>1, <2>2, <3>2, RelationCountIsSum
  <2> QED
    BY <2>3, <2>4 DEF WindowAddsUp
<1>2. WritersInv /\ CountedIsStored /\ RecountInv =>
        [CommitBackfill /\ ~disturbed /\ ~waiting
           => \A w \in AffectedWindows : WindowAddsUp(w, keywords', trends', relations')]_allVars
  BY <1>1
<1>3. WritersInv /\ RecountInv /\ [NextAll]_allVars => RecountInv'
  BY RecountStep
<1> QED
  BY <1>2, <1>3, RecountStart, WritersAlways, CountedAlways, PTL DEF SpecAll, RecountIsExact

-----------------------------------------------------------------------------
(* The evidence for trends and relations.                                  *)

\* A deletion takes the trends and relations of a word with the keywords behind them.
LEMMA DeletionEvidence ==
  ASSUME WritersInv, EvidenceInv, DeleteKeywordData, ~crossed'
  PROVE  EvidenceInv'
<1>0. AllRowsGo /\ ~BatchHoldsWord
  BY TablesAfterDeletion
<1>1. /\ cleanup.word \in Keywords /\ UNCHANGED <<step, articleKeywords>> /\ CleanStaging
      /\ articleKeywords \in [ArticleKeyword -> Nat]
  BY WritersNow DEF DeleteKeywordData
<1>2. \A article \in Articles, k \in Keywords : articleKeywords[<<article, k>>] > 0 => k # cleanup.word
  BY <1>0 DEF BatchHoldsWord
<1>3. ASSUME NEW article \in Articles, NEW k \in Keywords,
             k # cleanup.word \/ DomainOfArticle(article) \notin cleanup.scope
      PROVE  keywords'[<<article, k>>] = keywords[<<article, k>>]
  <2>1. <<article, k>> \in ArticleKeyword /\ <<article, k>> \notin KeywordRows
    BY <1>3 DEF ArticleKeyword, KeywordRows
  <2> QED
    BY <1>0, <2>1 DEF AllRowsGo
<1>4. BatchPassesOn'
  <2>1. ASSUME step' = "upsertKeywords", NEW row \in ArticleKeyword, articleKeywords'[row] > 0
        PROVE  Staged(stgKeywords, row)' # {}
    <3>1. PICK article \in Articles, k \in Keywords : row = <<article, k>>
      BY DEF ArticleKeyword
    <3>2. k # cleanup.word /\ Staged(stgKeywords, row) # {}
      BY <1>1, <1>2, <2>1, <3>1 DEF EvidenceInv, BatchPassesOn
    <3>3. PICK r \in stgKeywords : r.key = row
      BY <3>2 DEF Staged
    <3>4. r \in stgKeywords'
      BY <1>1, <3>1, <3>2, <3>3, StagedAfterCleaning
    <3> QED
      BY <3>3, <3>4 DEF Staged
  <2>2. ASSUME step' \in AfterKeywords, NEW row \in ArticleKeyword, articleKeywords'[row] > 0
        PROVE  keywords'[row] > 0
    <3>1. PICK article \in Articles, k \in Keywords : row = <<article, k>>
      BY DEF ArticleKeyword
    <3>2. k # cleanup.word /\ keywords[row] > 0
      BY <1>1, <1>2, <2>2, <3>1 DEF EvidenceInv, BatchPassesOn
    <3> QED
      BY <1>3, <3>1, <3>2
  <2> QED
    BY <2>1, <2>2 DEF BatchPassesOn
<1>5. StagedIsBacked'
  <2>1. ASSUME NEW r \in stgTrends'
        PROVE  \E article \in ArticlesOf(r.key[1]) : keywords'[<<article, r.key[2]>>] > 0
    <3>1. r \in stgTrends /\ r.key[2] # cleanup.word
      BY <1>1, StagedAfterCleaning DEF StagingShrinks
    <3>2. r.key[2] \in Keywords
      BY <3>1, WritersNow, TypesNow
    <3>3. PICK article \in ArticlesOf(r.key[1]) : keywords[<<article, r.key[2]>>] > 0
      BY <3>1 DEF EvidenceInv, StagedIsBacked
    <3> QED
      BY <1>3, <3>1, <3>2, <3>3 DEF ArticlesOf
  <2>2. ASSUME NEW r \in stgRelations'
        PROVE  \E article \in ArticlesOf(r.key[1]) :
                 keywords'[<<article, r.key[2]>>] > 0 /\ keywords'[<<article, r.key[3]>>] > 0
    <3>1. r \in stgRelations /\ r.key[2] # cleanup.word /\ r.key[3] # cleanup.word
      BY <1>1, StagedAfterCleaning DEF StagingShrinks
    <3>2. r.key[2] \in Keywords /\ r.key[3] \in Keywords
      BY <3>1, WritersNow, TypesNow
    <3>3. PICK article \in ArticlesOf(r.key[1]) :
            keywords[<<article, r.key[2]>>] > 0 /\ keywords[<<article, r.key[3]>>] > 0
      BY <3>1 DEF EvidenceInv, StagedIsBacked
    <3> QED
      BY <1>3, <3>1, <3>2, <3>3 DEF ArticlesOf
  <2> QED
    BY <2>1, <2>2 DEF StagedIsBacked
<1>6. ASSUME NEW w \in Windows, NEW k \in Keywords, trends'[<<w, k>>] > 0
      PROVE  \E article \in ArticlesOf(w) : keywords'[<<article, k>>] > 0
  <2>1. <<w, k>> \in WindowKeyword
    BY DEF WindowKeyword
  <2>2. <<w, k>> \notin TrendRows /\ trends[<<w, k>>] > 0
    BY <1>0, <1>6, <2>1 DEF AllRowsGo
  <2>3. k # cleanup.word \/ DomainOf[w] \notin cleanup.scope
    BY <2>1, <2>2 DEF TrendRows
  <2>4. PICK article \in ArticlesOf(w) : keywords[<<article, k>>] > 0
    BY <2>2 DEF EvidenceInv, BackedByKeywords
  <2> QED
    BY <1>3, <2>3, <2>4 DEF ArticlesOf, DomainOfArticle
<1>7. ASSUME NEW w \in Windows, NEW j \in Keywords, NEW k \in Keywords, relations'[<<w, j, k>>] > 0
      PROVE  \E article \in ArticlesOf(w) : keywords'[<<article, j>>] > 0 /\ keywords'[<<article, k>>] > 0
  <2>1. <<w, j, k>> \in WindowPair
    BY DEF WindowPair
  <2>2. <<w, j, k>> \notin RelationRows /\ relations[<<w, j, k>>] > 0
    BY <1>0, <1>7, <2>1 DEF AllRowsGo
  <2>3. cleanup.word \notin {j, k} \/ DomainOf[w] \notin cleanup.scope
    BY <2>1, <2>2 DEF RelationRows
  <2>4. PICK article \in ArticlesOf(w) : keywords[<<article, j>>] > 0 /\ keywords[<<article, k>>] > 0
    BY <2>2 DEF EvidenceInv, BackedByKeywords
  <2> QED
    BY <1>3, <2>3, <2>4 DEF ArticlesOf, DomainOfArticle
<1> QED
  BY <1>4, <1>5, <1>6, <1>7 DEF EvidenceInv, BackedByKeywords

\* What a backfill has counted for a window it has counted from the keywords.
LEMMA CountedFromKeywords ==
  ASSUME WritersInv, NEW w \in Windows
  PROVE  /\ \A k \in Keywords : TrendCount(w, k) > 0 =>
              \E article \in ArticlesOf(w) : OwnView(<<article, k>>) > 0
         /\ \A j, k \in Keywords : RelationCount(w, j, k) > 0 =>
              \E article \in ArticlesOf(w) : OwnView(<<article, j>>) > 0 /\ OwnView(<<article, k>>) > 0
<1>1. /\ StoredArticlesOf(w) \subseteq ArticlesOf(w) /\ StoredArticlesOf(w) \in SUBSET Articles
      /\ IsFiniteSet(StoredArticlesOf(w))
  <2>1. StoredArticlesOf(w) \subseteq ArticlesOf(w) /\ StoredArticlesOf(w) \in SUBSET Articles
    BY DEF ArticlesOf, StoredArticlesOf
  <2> QED
    BY <2>1, FS_Subset, StoreAssumption
<1>2. \A row \in ArticleKeyword : OwnView(row) \in Nat
  BY WritersNow DEF OwnView, TableTypes
<1>3. ASSUME NEW k \in Keywords, TrendCount(w, k) > 0
      PROVE  \E article \in ArticlesOf(w) : OwnView(<<article, k>>) > 0
  <2> DEFINE f == [article \in Articles |-> OwnView(<<article, k>>)]
  <2>1. \A article \in StoredArticlesOf(w) : f[article] \in Nat /\ f[article] = OwnView(<<article, k>>)
    BY <1>1, <1>2 DEF ArticleKeyword
  <2>2. SumFunctionOnSet(f, StoredArticlesOf(w)) > 0
    BY <1>3, Zenon DEF TrendCount
  <2> HIDE DEF f
  <2>3. \E article \in StoredArticlesOf(w) : f[article] > 0
    BY <1>1, <2>1, <2>2, SumPositive
  <2> QED
    BY <1>1, <2>1, <2>3
<1>4. ASSUME NEW j \in Keywords, NEW k \in Keywords, RelationCount(w, j, k) > 0
      PROVE  \E article \in ArticlesOf(w) : OwnView(<<article, j>>) > 0 /\ OwnView(<<article, k>>) > 0
  <2> DEFINE S == {article \in StoredArticlesOf(w) :
                     {j, k} \subseteq Representative([i \in Keywords |-> OwnView(<<article, i>>)])}
  <2>1. Cardinality(S) > 0
    BY <1>4 DEF RelationCount
  <2>2. S # {}
    <3> HIDE DEF S
    <3> QED
      BY <2>1, FS_EmptySet
  <2>3. PICK article \in StoredArticlesOf(w) :
          {j, k} \subseteq Representative([i \in Keywords |-> OwnView(<<article, i>>)])
    BY <2>2
  <2> QED
    BY <1>1, <2>3 DEF Representative
<1> QED
  BY <1>3, <1>4

\* A backfill that nobody disturbs, and no batch in flight spans, replaces trends and
\* relations with their keywords.
LEMMA CommitEvidence ==
  ASSUME WritersInv, RecountInv, EvidenceInv, CommitBackfill, ~crossed'
  PROVE  EvidenceInv'
<1>1. ~waiting /\ ~disturbed /\ articleKeywords' = NoCounts /\ stgTrends = {} /\ stgRelations = {}
  BY DEF CommitBackfill
<1>2. BatchPassesOn'
  BY <1>1, NothingToPassOn
<1>3. StagedIsBacked'
  BY <1>1 DEF CommitBackfill, stagingVars, StagedIsBacked
<1>4. ASSUME NEW article \in Articles, NEW k \in Keywords
      PROVE  /\ <<article, k>> \in ArticleKeyword
             /\ keywords'[<<article, k>>] = OwnView(<<article, k>>)
             /\ WindowOf[article] \notin AffectedWindows =>
                  keywords'[<<article, k>>] = keywords[<<article, k>>]
  <2>1. <<article, k>> \in ArticleKeyword
    BY DEF ArticleKeyword
  <2>2. keywords'[<<article, k>>] = OwnView(<<article, k>>)
    BY <1>1, <2>1, RecountedTables
  <2>3. bfLocks = TouchedRows
    BY <1>1 DEF CommitBackfill, ReadyToCommit, RecountInv
  <2> QED
    BY <2>1, <2>2, <2>3 DEF OwnView, TouchedRows, AffectedWindows
<1>5. ASSUME NEW w \in Windows, NEW k \in Keywords, trends'[<<w, k>>] > 0
      PROVE  \E article \in ArticlesOf(w) : keywords'[<<article, k>>] > 0
  <2>1. <<w, k>> \in WindowKeyword /\ <<w, k>>[1] = w /\ <<w, k>>[2] = k
    BY DEF WindowKeyword
  <2>2. CASE w \in AffectedWindows
    <3>1. TrendCount(w, k) > 0
      BY <1>1, <1>5, <2>1, <2>2, RecountedTables
    <3> QED
      BY <1>4, <3>1, CountedFromKeywords DEF ArticlesOf
  <2>3. CASE w \notin AffectedWindows
    <3>1. trends[<<w, k>>] > 0
      BY <1>1, <1>5, <2>1, <2>3, RecountedTables
    <3> QED
      BY <1>4, <2>3, <3>1 DEF EvidenceInv, BackedByKeywords, ArticlesOf
  <2> QED
    BY <2>2, <2>3
<1>6. ASSUME NEW w \in Windows, NEW j \in Keywords, NEW k \in Keywords, relations'[<<w, j, k>>] > 0
      PROVE  \E article \in ArticlesOf(w) : keywords'[<<article, j>>] > 0 /\ keywords'[<<article, k>>] > 0
  <2>1. <<w, j, k>> \in WindowPair /\ <<w, j, k>>[1] = w /\ <<w, j, k>>[2] = j /\ <<w, j, k>>[3] = k
    BY DEF WindowPair
  <2>2. CASE w \in AffectedWindows
    <3>1. RelationCount(w, j, k) > 0
      BY <1>1, <1>6, <2>1, <2>2, RecountedTables
    <3>2. PICK article \in ArticlesOf(w) : OwnView(<<article, j>>) > 0 /\ OwnView(<<article, k>>) > 0
      BY <3>1, CountedFromKeywords
    <3> QED
      BY <1>4, <3>2 DEF ArticlesOf
  <2>3. CASE w \notin AffectedWindows
    <3>1. relations[<<w, j, k>>] > 0
      BY <1>1, <1>6, <2>1, <2>3, RecountedTables
    <3> QED
      BY <1>4, <2>3, <3>1 DEF EvidenceInv, BackedByKeywords, ArticlesOf
  <2> QED
    BY <2>2, <2>3
<1> QED
  BY <1>2, <1>3, <1>5, <1>6 DEF EvidenceInv, BackedByKeywords

LEMMA CrossedStays ==
  ASSUME [NextAll]_allVars, WritersInv, crossed
  PROVE  crossed'
<1>1. StreamMoves \/ BackfillMoves \/ BackfillEnds \/ RequestMoves \/ UNCHANGED allVars
        => UNCHANGED crossed
  BY DEF StreamMoves, BackfillMoves, BackfillEnds, RequestMoves, allVars, history
<1>2. DeleteKeywordData \/ CommitBackfill => crossed'
  BY DEF DeleteKeywordData, CommitBackfill
<1> QED
  BY <1>1, <1>2, AllSteps

LEMMA EvidenceBesideWriters ==
  ASSUME [NextAll]_allVars, WritersInv, RecountInv, EvidenceUnlessCrossed
  PROVE  EvidenceUnlessCrossed'
<1> SUFFICES ASSUME ~crossed' PROVE EvidenceInv'
  BY DEF EvidenceUnlessCrossed
<1>1. EvidenceInv
  BY CrossedStays DEF EvidenceUnlessCrossed
<1>2. CASE [Next]_vars
  BY <1>1, <1>2, WritersNow, EvidenceStep
<1>3. CASE DeleteKeywordData
  BY <1>1, <1>3, DeletionEvidence
<1>4. CASE CommitBackfill
  BY <1>1, <1>4, CommitEvidence
<1> QED
  BY <1>2, <1>3, <1>4, JobOrWriters

\* A trend or relation has its keywords behind it beside all writers, unless a deletion
\* or a backfill has replaced rows under a batch or a backfill in flight.
THEOREM BackedBesideWriters == SpecAll => []BackedUnlessCrossed
<1>1. InitAll => EvidenceUnlessCrossed
  BY EvidenceStart DEF InitAll, EvidenceUnlessCrossed
<1>2. WritersInv /\ RecountInv /\ [NextAll]_allVars => RecountInv'
  BY RecountStep
<1>3. WritersInv /\ RecountInv /\ EvidenceUnlessCrossed /\ [NextAll]_allVars => EvidenceUnlessCrossed'
  BY EvidenceBesideWriters
<1>4. EvidenceUnlessCrossed => BackedUnlessCrossed
  BY DEF EvidenceUnlessCrossed, EvidenceInv, BackedUnlessCrossed
<1> QED
  BY <1>1, <1>2, <1>3, <1>4, RecountStart, WritersAlways, PTL DEF SpecAll

-----------------------------------------------------------------------------
(* Stop words that are gone.                                               *)

\* A word is gone from a domain: what GoneInv says of each.
TrendIsClear(row) == trends[row] = 0 /\ bfCounts.trends[row] = 0 /\ Staged(stgTrends, row) = {}
RelationIsClear(row) ==
  relations[row] = 0 /\ bfCounts.relations[row] = 0 /\ Staged(stgRelations, row) = {}

IsStopped(g) ==
  /\ g \in Stopped[dictionary] \intersect Stopped[tableDictionary]
  /\ bfStep # "idle" => g \in Stopped[bfDictionary]
KeywordsAreClear(g) ==
  \A row \in ArticleKeyword : DomainOfArticle(row[1]) = g[1] /\ row[2] = g[2] => RowIsClear(row)
TrendsAreClear(g) ==
  \A row \in WindowKeyword : DomainOf[row[1]] = g[1] /\ row[2] = g[2] => TrendIsClear(row)
RelationsAreClear(g) ==
  \A row \in WindowPair :
    DomainOf[row[1]] = g[1] /\ g[2] \in {row[2], row[3]} => RelationIsClear(row)
IsGone(g) == IsStopped(g) /\ KeywordsAreClear(g) /\ TrendsAreClear(g) /\ RelationsAreClear(g)

LEMMA GoneParts ==
  /\ GoneInv <=> \A g \in gone : IsGone(g)
  /\ GoneInv' <=> \A g \in gone' : IsGone(g)'
  BY DEF GoneInv, IsGone, IsStopped, KeywordsAreClear, TrendsAreClear, RelationsAreClear,
     RowIsClear, TrendIsClear, RelationIsClear

\* What a step of the job does to trends and relations.
LEMMA AggregateMoves ==
  ASSUME [Next]_vars
  PROVE  /\ UNCHANGED trends \/ UpsertTrends
         /\ UNCHANGED relations \/ UpsertRelations
         /\ stgTrends' \subseteq stgTrends
              \/ \E written \in SUBSET RowsOf(TrendBatch) : stgTrends' = stgTrends \union written
         /\ stgRelations' \subseteq stgRelations
              \/ \E written \in SUBSET RowsOf(RelationBatch) :
                   stgRelations' = stgRelations \union written
<1>1. CASE WorldNext
  BY <1>1 DEF WorldNext, Arrive, EditDictionary, tableVars, stagingVars
<1>2. CASE JobNext
  <2>1. ASSUME NEW end, PlanBatch(end)
        PROVE  UNCHANGED <<trends, relations, stgTrends, stgRelations>>
    BY <2>1 DEF PlanBatch, tableVars, stagingVars
  <2>2. CASE StageNews \/ StageKeywords
    BY <2>2 DEF StageNews, StageKeywords, tableVars
  <2>3. CASE UpsertNews \/ UpsertKeywords
    BY <2>3 DEF UpsertNews, UpsertKeywords
  <2>4. CASE Tokenize \/ CommitBatch \/ Restart
    BY <2>4 DEF Tokenize, CommitBatch, Restart, tableVars, stagingVars
  <2>5. CASE StageTrends
    BY <2>5 DEF StageTrends, TrendBatch, tableVars
  <2>6. CASE UpsertTrends
    BY <2>6 DEF UpsertTrends, Truncated
  <2>7. CASE StageRelations
    BY <2>7 DEF StageRelations, RelationBatch, tableVars
  <2>8. CASE UpsertRelations
    BY <2>8 DEF UpsertRelations, Truncated
  <2> QED
    BY <1>2, <2>1, <2>2, <2>3, <2>4, <2>5, <2>6, <2>7, <2>8 DEF JobNext
<1>3. CASE Fail \/ UNCHANGED vars
  BY <1>3 DEF Fail, vars, sinkVars, tableVars, stagingVars
<1> QED
  BY <1>1, <1>2, <1>3 DEF Next

\* What a step does to what the backfill has counted of windows.
LEMMA BackfillCountMoves ==
  ASSUME [NextAll]_allVars, WritersInv
  PROVE  \/ UNCHANGED bfCounts \/ bfCounts' = NoCountsYet
         \/ \E w \in Windows : RecountWindow(w)
<1>1. CASE StreamMoves \/ RequestMoves \/ DeleteKeywordData \/ UNCHANGED allVars
  BY <1>1 DEF StreamMoves, RequestMoves, DeleteKeywordData, allVars, bfVars
<1>2. CASE BackfillMoves
  BY <1>2 DEF BackfillMoves, SelectArticles, ReplaceKeywords, TokenizeStored
<1>3. CASE BackfillEnds \/ CommitBackfill
  BY <1>3 DEF BackfillEnds, CommitBackfill, BackfillForgets
<1> QED
  BY <1>1, <1>2, <1>3, AllSteps

\* Everybody who takes up a dictionary takes up one with the stop word.
LEMMA StoppedStep ==
  ASSUME [NextAll]_allVars, WritersInv, NEW g, IsStopped(g), g \in gone'
  PROVE  IsStopped(g)'
<1>1. CASE StreamMoves \/ UNCHANGED allVars
  BY <1>1 DEF StreamMoves, StillGone, IsStopped, bfVars, allVars, vars
<1>2. CASE BackfillMoves
  <2>1. UNCHANGED <<dictionary, tableDictionary>>
    BY <1>2 DEF BackfillMoves, SelectArticles, TokenizeStored, ReplaceKeywords, RecountWindow, vars
  <2>2. CASE gone' = StillGone(bfDictionary')
    BY <2>1, <2>2 DEF StillGone, IsStopped
  <2>3. CASE ReplaceKeywords \/ \E w \in Windows : RecountWindow(w)
    BY <2>1, <2>3 DEF ReplaceKeywords, RecountWindow, IsStopped
  <2> QED
    BY <1>2, <2>2, <2>3 DEF BackfillMoves
<1>5. CASE BackfillEnds \/ CommitBackfill
  BY <1>5 DEF BackfillEnds, CommitBackfill, BackfillForgets, IsStopped, vars
<1>6. ASSUME NEW d \in Dictionaries, EditTables(d) PROVE IsStopped(g)'
  BY <1>6 DEF EditTables, IsStopped, vars, bfVars
<1>7. ASSUME NEW k \in Keywords, NEW scope \in Scopes, CreateStopword(k, scope)
      PROVE  IsStopped(g)'
  BY <1>7 DEF CreateStopword, IsStopped, vars, bfVars
<1>8. CASE WaitForBackfill \/ AbandonCleanup \/ DeleteKeywordData
  BY <1>8 DEF WaitForBackfill, AbandonCleanup, DeleteKeywordData, IsStopped, vars, bfVars
<1> QED
  BY <1>1, <1>2, <1>5, <1>6, <1>7, <1>8, AllSteps DEF RequestMoves

\* A tokenizer with the stop word does not return it.
LEMMA StoppedIsNotTokenized ==
  ASSUME WritersInv, CountedIsStored, NEW g, IsStopped(g), IsStopped(g)',
         NEW article \in Articles, NEW k \in Keywords, g = <<DomainOfArticle(article), k>>
  PROVE  /\ Tokenize => articleKeywords'[<<article, k>>] = 0
         /\ TokenizeStored(article) => bfRows'[<<article, k>>] = 0
<1>1. ASSUME Tokenize PROVE articleKeywords'[<<article, k>>] = 0
  <2> DEFINE R == {i \in BatchOffsets : ArticleOf[log[i]] = article}
             f == [i \in BatchOffsets |-> Mentions[log[i]][dictionary][k]]
  <2>1. log \in Seq(Messages) /\ planned \in 0 .. Len(log) /\ committed \in 0 .. planned
    BY WritersNow DEF SinkInv, OffsetsInv
  <2>2. BatchOffsets \subseteq 1 .. Len(log) /\ R \subseteq BatchOffsets
    BY <2>1 DEF BatchOffsets
  <2>3. IsFiniteSet(R)
    <3> HIDE DEF R
    <3>1. IsFiniteSet(1 .. Len(log))
      BY <2>1, FS_Interval
    <3> QED
      BY <2>2, <3>1, FS_Subset
  <2>4. \A i \in R : f[i] = 0
    <3>1. \A i \in R : log[i] \in Messages /\ ArticleOf[log[i]] = article
      BY <2>1, <2>2
    <3>2. \A i \in R : Mentions[log[i]][dictionary][k] = 0
      BY <3>1, WritersNow, MaintenanceAssumption DEF IsStopped
    <3> QED
      BY <3>2
  <2>5. SumFunctionOnSet(f, R) = 0
    <3> HIDE DEF f, R
    <3> QED
      BY <2>3, <2>4, SumOfZeros
  <2>6. BatchCount(article, k) = 0
    BY <2>5 DEF BatchCount
  <2> QED
    BY <1>1, <2>6, WritersNow, TokenizeCountsBatch
<1>2. ASSUME TokenizeStored(article) PROVE bfRows'[<<article, k>>] = 0
  <2>1. bfTexts[article] \in Messages /\ ArticleOf[bfTexts[article]] = article
    BY <1>2, WritersNow DEF TokenizeStored, CountedIsStored
  <2>2. g \in Stopped[bfDictionary'] /\ bfDictionary' \in Dictionaries
    BY <1>2, WritersNow, BackfillAssumption DEF TokenizeStored, IsStopped, Loadable
  <2>3. Mentions[bfTexts[article]][bfDictionary'][k] = 0
    BY <2>1, <2>2, MaintenanceAssumption
  <2>4. <<article, k>> \in ArticleKeyword
    BY DEF ArticleKeyword
  <2> QED
    BY <1>2, <2>3, <2>4, TokenizeStoredRows
<1> QED
  BY <1>1, <1>2

LEMMA KeywordsClearStep ==
  ASSUME [NextAll]_allVars, WritersInv, CountedIsStored, NEW g \in Domains \X Keywords, IsGone(g),
         IsStopped(g)'
  PROVE  KeywordsAreClear(g)'
<1> SUFFICES ASSUME NEW row \in ArticleKeyword, DomainOfArticle(row[1]) = g[1], row[2] = g[2]
             PROVE  RowIsClear(row)'
  BY DEF KeywordsAreClear
<1>1. PICK article \in Articles, k \in Keywords : row = <<article, k>>
  BY DEF ArticleKeyword
<1>2. g = <<DomainOfArticle(article), k>>
  BY <1>1
<1>3. RowIsClear(row) /\ IsStopped(g)
  BY DEF IsGone, KeywordsAreClear
<1>4. Tokenize => articleKeywords'[row] = 0
  BY <1>1, <1>2, <1>3, StoppedIsNotTokenized
<1>5. ASSUME NEW other \in Articles, TokenizeStored(other) PROVE bfRows'[row] = 0
  <2>1. CASE other = article
    BY <1>1, <1>2, <1>3, <1>5, <2>1, StoppedIsNotTokenized
  <2>2. CASE other # article
    BY <1>1, <1>3, <1>5, <2>2, TokenizeStoredRows DEF RowIsClear
  <2> QED
    BY <2>1, <2>2
<1> QED
  BY <1>3, <1>4, <1>5, ClearRow DEF RowIsClear

\* No writer has counts of the word for a window of the domain.
LEMMA NoEvidenceOfGone ==
  ASSUME WritersInv, NEW g, IsGone(g), NEW w \in Windows, DomainOf[w] = g[1], g[2] \in Keywords
  PROVE  /\ \A article \in ArticlesOf(w) : articleKeywords[<<article, g[2]>>] = 0
         /\ \A article \in ArticlesOf(w) : OwnView(<<article, g[2]>>) = 0
<1>1. ASSUME NEW article \in ArticlesOf(w) PROVE RowIsClear(<<article, g[2]>>)
  <2>1. article \in Articles /\ DomainOfArticle(article) = g[1]
    BY DEF ArticlesOf, DomainOfArticle
  <2>2. <<article, g[2]>> \in ArticleKeyword
    BY <2>1 DEF ArticleKeyword
  <2> QED
    BY <2>1, <2>2 DEF IsGone, KeywordsAreClear
<1> QED
  BY <1>1 DEF RowIsClear, OwnView

LEMMA TrendsClearStep ==
  ASSUME [NextAll]_allVars, WritersInv, NEW g \in Domains \X Keywords, IsGone(g)
  PROVE  TrendsAreClear(g)'
<1> SUFFICES ASSUME NEW row \in WindowKeyword, DomainOf[row[1]] = g[1], row[2] = g[2]
             PROVE  TrendIsClear(row)'
  BY DEF TrendsAreClear
<1>1. row[1] \in Windows /\ g[2] \in Keywords
  BY DEF WindowKeyword
<1>2. TrendIsClear(row)
  BY DEF IsGone, TrendsAreClear
<1>3. /\ \A article \in ArticlesOf(row[1]) : articleKeywords[<<article, g[2]>>] = 0
      /\ \A article \in ArticlesOf(row[1]) : OwnView(<<article, g[2]>>) = 0
  BY <1>1, NoEvidenceOfGone
<1>4. bfCounts'.trends[row] = 0
  <2>1. ASSUME NEW w \in Windows, RecountWindow(w) PROVE bfCounts'.trends[row] = 0
    <3>1. bfCounts'.trends[row] = IF row[1] = w THEN TrendCount(w, row[2]) ELSE bfCounts.trends[row]
      BY <2>1 DEF RecountWindow
    <3>2. TrendCount(row[1], g[2]) \in Nat
      BY <1>1, RecountTypes
    <3>3. ASSUME TrendCount(row[1], g[2]) > 0 PROVE FALSE
      <4>1. PICK article \in ArticlesOf(row[1]) : OwnView(<<article, g[2]>>) > 0
        BY <1>1, <3>3, CountedFromKeywords
      <4> QED
        BY <1>3, <4>1
    <3> QED
      BY <1>2, <3>1, <3>2, <3>3 DEF TrendIsClear
  <2> QED
    BY <1>2, <2>1, BackfillCountMoves DEF TrendIsClear, NoCountsYet
<1>5. CASE [Next]_vars
  <2>1. trends'[row] = 0
    <3>1. CASE UpsertTrends
      BY <1>2, <3>1, UpsertedTrend, WritersNow DEF TrendIsClear
    <3> QED
      BY <1>2, <1>5, <3>1, AggregateMoves DEF TrendIsClear
  <2>2. Staged(stgTrends, row)' = {}
    <3>1. \A r \in stgTrends : r.key # row
      BY <1>2 DEF TrendIsClear, Staged
    <3>2. ASSUME NEW r \in RowsOf(TrendBatch), r.key = row PROVE FALSE
      <4>1. PICK article \in ArticlesOf(r.key[1]) : articleKeywords[<<article, r.key[2]>>] > 0
        BY WritersNow, TrendBatchBacked
      <4> QED
        BY <1>3, <3>2, <4>1
    <3>3. \A r \in stgTrends' : r.key # row
      BY <1>5, <3>1, <3>2, AggregateMoves
    <3> QED
      BY <3>3 DEF Staged
  <2> QED
    BY <1>4, <2>1, <2>2 DEF TrendIsClear
<1>6. CASE DeleteKeywordData \/ CommitBackfill
  <2>1. StagingShrinks /\ trends'[row] \in {0, bfCounts.trends[row], trends[row]}
    BY <1>6, TablesAfterDeletion, TablesAfterCommit
  <2> QED
    BY <1>2, <1>4, <2>1 DEF TrendIsClear, StagingShrinks, Staged
<1> QED
  BY <1>5, <1>6, JobOrWriters

LEMMA RelationsClearStep ==
  ASSUME [NextAll]_allVars, WritersInv, NEW g \in Domains \X Keywords, IsGone(g)
  PROVE  RelationsAreClear(g)'
<1> SUFFICES ASSUME NEW row \in WindowPair, DomainOf[row[1]] = g[1], g[2] \in {row[2], row[3]}
             PROVE  RelationIsClear(row)'
  BY DEF RelationsAreClear
<1>1. row[1] \in Windows /\ row[2] \in Keywords /\ row[3] \in Keywords /\ g[2] \in Keywords
  BY DEF WindowPair
<1>2. RelationIsClear(row)
  BY DEF IsGone, RelationsAreClear
<1>3. /\ \A article \in ArticlesOf(row[1]) : articleKeywords[<<article, g[2]>>] = 0
      /\ \A article \in ArticlesOf(row[1]) : OwnView(<<article, g[2]>>) = 0
  BY <1>1, NoEvidenceOfGone
<1>4. bfCounts'.relations[row] = 0
  <2>1. ASSUME NEW w \in Windows, RecountWindow(w) PROVE bfCounts'.relations[row] = 0
    <3>1. bfCounts'.relations[row] = IF row[1] = w THEN RelationCount(w, row[2], row[3])
                                     ELSE bfCounts.relations[row]
      BY <2>1 DEF RecountWindow
    <3>2. RelationCount(row[1], row[2], row[3]) \in Nat
      BY <1>1, RecountTypes
    <3>3. ASSUME RelationCount(row[1], row[2], row[3]) > 0 PROVE FALSE
      <4>1. PICK article \in ArticlesOf(row[1]) :
              OwnView(<<article, row[2]>>) > 0 /\ OwnView(<<article, row[3]>>) > 0
        BY <1>1, <3>3, CountedFromKeywords
      <4> QED
        BY <1>3, <4>1
    <3> QED
      BY <1>2, <3>1, <3>2, <3>3 DEF RelationIsClear
  <2> QED
    BY <1>2, <2>1, BackfillCountMoves DEF RelationIsClear, NoCountsYet
<1>5. CASE [Next]_vars
  <2>1. relations'[row] = 0
    <3>1. CASE UpsertRelations
      BY <1>2, <3>1, UpsertedRelation, WritersNow DEF RelationIsClear
    <3> QED
      BY <1>2, <1>5, <3>1, AggregateMoves DEF RelationIsClear
  <2>2. Staged(stgRelations, row)' = {}
    <3>1. \A r \in stgRelations : r.key # row
      BY <1>2 DEF RelationIsClear, Staged
    <3>2. ASSUME NEW r \in RowsOf(RelationBatch), r.key = row PROVE FALSE
      <4>1. PICK article \in ArticlesOf(r.key[1]) :
              articleKeywords[<<article, r.key[2]>>] > 0 /\ articleKeywords[<<article, r.key[3]>>] > 0
        BY WritersNow, RelationBatchBacked
      <4> QED
        BY <1>3, <3>2, <4>1
    <3>3. \A r \in stgRelations' : r.key # row
      BY <1>5, <3>1, <3>2, AggregateMoves
    <3> QED
      BY <3>3 DEF Staged
  <2> QED
    BY <1>4, <2>1, <2>2 DEF RelationIsClear
<1>6. CASE DeleteKeywordData \/ CommitBackfill
  <2>1. StagingShrinks /\ relations'[row] \in {0, bfCounts.relations[row], relations[row]}
    BY <1>6, TablesAfterDeletion, TablesAfterCommit
  <2> QED
    BY <1>2, <1>4, <2>1 DEF RelationIsClear, StagingShrinks, Staged
<1> QED
  BY <1>5, <1>6, JobOrWriters

\* A deletion that finds nobody with counts of the word leaves none behind.
LEMMA DeletionClears ==
  ASSUME WritersInv, DeleteKeywordData, NobodyHolds, AllRowsGo, NEW g \in cleanup.scope \X {cleanup.word}
  PROVE  IsGone(g)'
<1>1. /\ g[2] = cleanup.word /\ g[1] \in cleanup.scope
      /\ bfStep = "idle" /\ CleanStaging
      /\ UNCHANGED <<dictionary, tableDictionary, bfStep, articleKeywords, bfRows, bfCounts>>
  BY DEF DeleteKeywordData, NobodyHolds, bfVars
<1>2. bfRows = NoRowsYet /\ bfCounts = NoCountsYet
  BY <1>1 DEF WritersInv, BackfillStages
<1>3. IsStopped(g)'
  BY <1>1 DEF NobodyHolds, IsStopped
<1>4. KeywordsAreClear(g)'
  <2> SUFFICES ASSUME NEW row \in ArticleKeyword, DomainOfArticle(row[1]) = g[1], row[2] = g[2]
               PROVE  RowIsClear(row)'
    BY DEF KeywordsAreClear
  <2>1. row \in KeywordRows
    BY <1>1 DEF KeywordRows
  <2>2. keywords'[row] = 0
    BY <2>1 DEF AllRowsGo
  <2>3. articleKeywords'[row] = 0 /\ bfRows'[row] = 0
    BY <1>1, <1>2, <2>1 DEF NobodyHolds, NoRowsYet
  <2>4. Staged(stgKeywords, row)' = {}
    BY <1>1, StagedAfterCleaning DEF Staged, StagingShrinks
  <2> QED
    BY <2>2, <2>3, <2>4 DEF RowIsClear
<1>5. TrendsAreClear(g)'
  <2> SUFFICES ASSUME NEW row \in WindowKeyword, DomainOf[row[1]] = g[1], row[2] = g[2]
               PROVE  TrendIsClear(row)'
    BY DEF TrendsAreClear
  <2>1. row \in TrendRows
    BY <1>1 DEF TrendRows
  <2>2. trends'[row] = 0 /\ bfCounts'.trends[row] = 0
    BY <1>1, <1>2, <2>1 DEF AllRowsGo, NoCountsYet
  <2>3. Staged(stgTrends, row)' = {}
    BY <1>1, StagedAfterCleaning DEF Staged, StagingShrinks
  <2> QED
    BY <2>2, <2>3 DEF TrendIsClear
<1>6. RelationsAreClear(g)'
  <2> SUFFICES ASSUME NEW row \in WindowPair, DomainOf[row[1]] = g[1], g[2] \in {row[2], row[3]}
               PROVE  RelationIsClear(row)'
    BY DEF RelationsAreClear
  <2>1. row \in RelationRows
    BY <1>1 DEF RelationRows
  <2>2. relations'[row] = 0 /\ bfCounts'.relations[row] = 0
    BY <1>1, <1>2, <2>1 DEF AllRowsGo, NoCountsYet
  <2>3. Staged(stgRelations, row)' = {}
    BY <1>1, StagedAfterCleaning DEF Staged, StagingShrinks
  <2> QED
    BY <2>2, <2>3 DEF RelationIsClear
<1> QED
  BY <1>3, <1>4, <1>5, <1>6 DEF IsGone

LEMMA GoneMoves ==
  ASSUME [NextAll]_allVars, WritersInv
  PROVE  gone' \subseteq gone \/ (/\ DeleteKeywordData /\ NobodyHolds /\ AllRowsGo
                                  /\ gone' = gone \union (cleanup.scope \X {cleanup.word}))
<1>1. StreamMoves \/ BackfillMoves \/ BackfillEnds \/ CommitBackfill \/ UNCHANGED allVars
        => gone' \subseteq gone
  BY DEF StreamMoves, BackfillMoves, BackfillEnds, CommitBackfill, allVars, history, StillGone
<1>2. RequestMoves => gone' \subseteq gone
  BY DEF RequestMoves, EditTables, CreateStopword, WaitForBackfill, AbandonCleanup, history
<1> QED
  BY <1>1, <1>2, AllSteps, TablesAfterDeletion

LEMMA GoneStep ==
  ASSUME [NextAll]_allVars, WritersInv, CountedIsStored, GoneInv
  PROVE  GoneInv'
<1>1. ASSUME NEW g \in gone, g \in gone' PROVE IsGone(g)'
  <2>1. g \in Domains \X Keywords /\ IsGone(g)
    BY GoneParts DEF WritersInv, TypeOKAll
  <2> QED
    BY <1>1, <2>1, StoppedStep, KeywordsClearStep, TrendsClearStep, RelationsClearStep DEF IsGone
<1>2. ASSUME NEW g \in gone', g \notin gone PROVE IsGone(g)'
  BY <1>2, GoneMoves, DeletionClears
<1> QED
  BY <1>1, <1>2, GoneParts

\* A stop word whose rows a deletion took away, when every tokenizer knew the word and
\* nobody had counts of it in hand, has no row again as long as it is a stop word.
THEOREM GoneStaysOut == SpecAll => []StopwordStaysOut
<1>1. InitAll => GoneInv
  BY DEF InitAll, GoneInv
<1>2. WritersInv /\ CountedIsStored /\ GoneInv /\ [NextAll]_allVars => GoneInv'
  BY GoneStep
<1>3. WritersInv /\ GoneInv => StopwordStaysOut
  <2> SUFFICES ASSUME WritersInv, GoneInv, NEW g \in gone
               PROVE  /\ \A article \in Articles :
                           DomainOfArticle(article) = g[1] => keywords[<<article, g[2]>>] = 0
                      /\ \A w \in Windows : DomainOf[w] = g[1] =>
                           /\ trends[<<w, g[2]>>] = 0
                           /\ \A j \in Keywords : /\ relations[<<w, j, g[2]>>] = 0
                                                  /\ relations[<<w, g[2], j>>] = 0
    BY DEF StopwordStaysOut
  <2>1. g[2] \in Keywords /\ IsGone(g)
    BY GoneParts DEF WritersInv, TypeOKAll
  <2>2. ASSUME NEW article \in Articles, DomainOfArticle(article) = g[1]
        PROVE  keywords[<<article, g[2]>>] = 0
    BY <2>1, <2>2 DEF IsGone, KeywordsAreClear, RowIsClear, ArticleKeyword
  <2>3. ASSUME NEW w \in Windows, DomainOf[w] = g[1]
        PROVE  trends[<<w, g[2]>>] = 0
    BY <2>1, <2>3 DEF IsGone, TrendsAreClear, TrendIsClear, WindowKeyword
  <2>4. ASSUME NEW w \in Windows, DomainOf[w] = g[1], NEW j \in Keywords
        PROVE  relations[<<w, j, g[2]>>] = 0 /\ relations[<<w, g[2], j>>] = 0
    BY <2>1, <2>4 DEF IsGone, RelationsAreClear, RelationIsClear, WindowPair
  <2> QED
    BY <2>2, <2>3, <2>4
<1> QED
  BY <1>1, <1>2, <1>3, WritersAlways, CountedAlways, PTL DEF SpecAll
==============================================================================
