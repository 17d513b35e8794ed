----------------------------- MODULE StreamSink -----------------------------
(***************************************************************************)
(* processing/spark_job.py: the streaming query, its foreachBatch handler  *)
(* write_to_sinks, and the staging upserts of storage/news_db.py.          *)
(*                                                                         *)
(* Every table is written in two steps: a JDBC append to its staging table *)
(* and one transaction that moves the staged rows over and truncates.  An  *)
(* append commits each partition on its own, so a failure can leave a part *)
(* of the rows behind.  On a cluster, Spark runs a task that fails again,  *)
(* also one whose partition is committed.  An exception ends the query;    *)
(* the container restarts, and the query runs its last planned batch again *)
(* unless that batch was committed.                                        *)
(***************************************************************************)
EXTENDS KeywordStore, Sequences

CONSTANTS TasksRepeat,  \* a failed task runs again: spark_master is not local[*]
          MaxLog,       \* bound: messages in the topic
          MaxFailures,  \* bound: failures of the streaming job and of its tasks
          MaxEdits      \* bound: edits of the dictionary

ASSUME SinkBounds ==
  TasksRepeat \in BOOLEAN /\ MaxLog \in Nat /\ MaxFailures \in Nat /\ MaxEdits \in Nat

VARIABLES
  log,             \* the Kafka topic
  planned,         \* end offset of the last batch in the checkpoint's offset log
  committed,       \* end offset of the last batch in its commit log
  step,            \* what write_to_sinks does next
  articleKeywords, \* article_keywords, persisted when it is first used
  stgNewsRaw, stgKeywords, stgTrends, stgRelations,  \* the staging tables
  failures,        \* failures of the job, and of tasks that had written, so far
  edits            \* edits of the dictionary so far

stagingVars == <<stgNewsRaw, stgKeywords, stgTrends, stgRelations>>
sinkVars == <<log, planned, committed, step, articleKeywords, stagingVars, failures, edits>>
vars == <<dictionary, tableVars, sinkVars>>

\* A faulty variant of Steps: trends before keywords.
StepsTrendsFirst ==
  <<"stageNews", "upsertNews", "tokenize", "stageTrends", "upsertTrends", "stageKeywords",
    "upsertKeywords", "stageRelations", "upsertRelations", "commit">>

Steps ==
  <<"stageNews", "upsertNews", "tokenize", "stageKeywords", "upsertKeywords", "stageTrends",
    "upsertTrends", "stageRelations", "upsertRelations", "commit">>

StepAfter(s) == Steps[(CHOOSE i \in 1 .. Len(Steps) - 1 : Steps[i] = s) + 1]

\* A staged row.  Batch and attempt tell apart rows that are staged more than once: by
\* several runs of a batch, or of a task.
Row(keys) == [key : keys, count : Nat \ {0}, batch : Nat, attempt : 0 .. MaxFailures]

SinkTypeOK ==
  /\ log \in Seq(Messages) /\ Len(log) <= MaxLog
  /\ planned \in 0 .. Len(log)
  /\ committed \in 0 .. planned
  /\ step \in {Steps[i] : i \in 1 .. Len(Steps)} \union {"idle", "down"}
  /\ articleKeywords \in [ArticleKeyword -> Nat]
  /\ stgNewsRaw \subseteq Messages
  /\ stgKeywords \subseteq Row(ArticleKeyword)
  /\ stgTrends \subseteq Row(WindowKeyword)
  /\ stgRelations \subseteq Row(WindowPair)
  /\ failures \in 0 .. MaxFailures
  /\ edits \in 0 .. MaxEdits

TypeOK == StoreTypeOK /\ SinkTypeOK

NoCounts == [row \in ArticleKeyword |-> 0]

Init ==
  /\ StoreInit
  /\ log = <<>>
  /\ planned = 0 /\ committed = 0
  /\ step = "idle"
  /\ articleKeywords = NoCounts
  /\ stgNewsRaw = {} /\ stgKeywords = {} /\ stgTrends = {} /\ stgRelations = {}
  /\ failures = 0 /\ edits = 0

-----------------------------------------------------------------------------
(* What surrounds the job.                                                 *)

\* A producer or a replay appends a message, one that is there already included.
Arrive(m) ==
  /\ Len(log) < MaxLog
  /\ log' = Append(log, m)
  /\ UNCHANGED <<dictionary, tableVars, planned, committed, step, articleKeywords,
                 stagingVars, failures, edits>>

\* The dictionary tables change, and the tokenizer's caches take it up.
EditDictionary(d) ==
  /\ edits < MaxEdits
  /\ d # dictionary
  /\ dictionary' = d
  /\ edits' = edits + 1
  /\ UNCHANGED <<tableVars, log, planned, committed, step, articleKeywords, stagingVars,
                 failures>>

-----------------------------------------------------------------------------
(* What the batch computes.                                                *)

\* The offsets of the batch whose rows survive dropna.
BatchOffsets == {i \in committed + 1 .. planned : log[i] \notin Unusable}

BatchMessages == {log[i] : i \in BatchOffsets}

\* groupBy(article, keyword).count(): a message that is twice in the batch counts
\* twice.
BatchCount(a, k) ==
  SumFunctionOnSet([i \in BatchOffsets |-> Mentions[log[i]][dictionary][k]],
                   {i \in BatchOffsets : ArticleOf[log[i]] = a})

\* A faulty variant of BatchTrend: the window is left out of the groupBy.
BatchTrendOfAll(w, k) == SumFunctionOnSet([a \in Articles |-> articleKeywords[<<a, k>>]], Articles)

\* The batch's own sum over the articles of a window.
BatchTrend(w, k) == SumFunctionOnSet([a \in Articles |-> articleKeywords[<<a, k>>]], ArticlesOf(w))

\* The articles of the batch that pair j with k, j ranking before k.
BatchRelation(w, j, k) ==
  Cardinality({a \in ArticlesOf(w) :
    LET counts == [i \in Keywords |-> articleKeywords[<<a, i>>]] IN
      /\ {j, k} \subseteq Representative(counts)
      /\ Rank(counts, j) < Rank(counts, k)})

\* Faulty variants of RowsOf: keywords without a mention get a row too, and
\* keywords with one mention get none.
RowsOfAll(counts) ==
  [key : DOMAIN counts, count : {0}, batch : {planned}, attempt : {failures}]
RowsOfRepeated(counts) ==
  {[key |-> key, count |-> counts[key], batch |-> planned, attempt |-> failures] :
     key \in {key \in DOMAIN counts : counts[key] > 1}}

RowsOf(counts) ==
  {[key |-> key, count |-> counts[key], batch |-> planned, attempt |-> failures] :
     key \in {key \in DOMAIN counts : counts[key] > 0}}

-----------------------------------------------------------------------------
(* The upserts: the rows staged for a key become its row in the table.     *)

Staged(rows, key) == {r \in rows : r.key = key}

\* A faulty variant of Largest: the rows are summed, as for trends.
LargestSummed(rows) == SumFunctionOnSet([r \in rows |-> r.count], rows)

Largest(rows) == Max({r.count : r \in rows})
Total(rows) == SumFunctionOnSet([r \in rows |-> r.count], rows)

Upserted(table, staging, Combine(_)) ==
  [key \in DOMAIN table |->
     IF Staged(staging, key) = {} THEN table[key] ELSE Combine(Staged(staging, key))]

\* A faulty variant of Truncated: the staging table is kept.
TruncatedNever(staging) == staging

Truncated(staging) == {}

StagedOf(a) == {m \in stgNewsRaw : ArticleOf[m] = a}

\* A faulty variant of NewsRow: an article staged more than once is left out.
NewsRowOfSingles(a) ==
  IF Cardinality(StagedOf(a)) # 1 THEN {newsRaw[a]} ELSE StagedOf(a)

\* The row of rank 1 by ingested_at, whatever the table holds.
NewsRow(a) ==
  IF StagedOf(a) = {} THEN {newsRaw[a]}
  ELSE {m \in StagedOf(a) : \A n \in StagedOf(a) : IngestedAt[n] <= IngestedAt[m]}

-----------------------------------------------------------------------------
(* The steps of a batch.                                                   *)

\* A trigger with new data plans the batch in the offset log.
PlanBatch(end) ==
  /\ step = "idle"
  /\ end \in planned + 1 .. Len(log)
  /\ planned' = end
  /\ step' = IF \A i \in committed + 1 .. end : log[i] \in Unusable
             THEN "commit" ELSE "stageNews"
  /\ UNCHANGED <<dictionary, tableVars, log, committed, articleKeywords, stagingVars,
                 failures, edits>>

\* The job dies, and with it what it holds in memory.
GoDown ==
  /\ failures < MaxFailures
  /\ failures' = failures + 1
  /\ step' = "down"
  /\ articleKeywords' = NoCounts

Advance == step' = StepAfter(step) /\ UNCHANGED <<failures, articleKeywords>>

\* A task fails behind the commit of its partition, and the append goes on with
\* those rows staged already.
RepeatTask ==
  /\ TasksRepeat
  /\ failures < MaxFailures
  /\ failures' = failures + 1
  /\ UNCHANGED <<step, articleKeywords>>

\* An append writes all its rows, or fails, or has to repeat a task, having written
\* some of them.
AppendOf(written, rows) ==
  \/ written = rows /\ Advance
  \/ written # rows /\ GoDown
  \/ RepeatTask

StageNews ==
  /\ step = "stageNews"
  /\ \E written \in SUBSET BatchMessages :
       /\ stgNewsRaw' = stgNewsRaw \union written
       /\ AppendOf(written, BatchMessages)
  /\ UNCHANGED <<dictionary, tableVars, log, planned, committed, stgKeywords, stgTrends,
                 stgRelations, edits>>

UpsertNews ==
  /\ step = "upsertNews"
  /\ newsRaw' \in [Articles -> Messages \union {NoMessage}]
  /\ \A a \in Articles : newsRaw'[a] \in NewsRow(a)
  /\ stgNewsRaw' = Truncated(stgNewsRaw)
  /\ Advance
  /\ UNCHANGED <<dictionary, keywords, trends, relations, log, planned, committed,
                 stgKeywords, stgTrends, stgRelations, edits>>

\* article_keywords is computed and persisted when the append below first needs
\* it, with the dictionary of that moment.
Tokenize ==
  /\ step = "tokenize"
  /\ articleKeywords' = [row \in ArticleKeyword |-> BatchCount(row[1], row[2])]
  /\ step' = StepAfter(step)
  /\ UNCHANGED <<dictionary, tableVars, log, planned, committed, stagingVars, failures, edits>>

StageKeywords ==
  /\ step = "stageKeywords"
  /\ \E written \in SUBSET RowsOf(articleKeywords) :
       /\ stgKeywords' = stgKeywords \union written
       /\ AppendOf(written, RowsOf(articleKeywords))
  /\ UNCHANGED <<dictionary, tableVars, log, planned, committed, stgNewsRaw, stgTrends,
                 stgRelations, edits>>

UpsertKeywords ==
  /\ step = "upsertKeywords"
  /\ keywords' = Upserted(keywords, stgKeywords, Largest)
  /\ stgKeywords' = Truncated(stgKeywords)
  /\ Advance
  /\ UNCHANGED <<dictionary, newsRaw, trends, relations, log, planned, committed,
                 stgNewsRaw, stgTrends, stgRelations, edits>>

StageTrends ==
  LET batch == RowsOf([row \in WindowKeyword |-> BatchTrend(row[1], row[2])]) IN
  /\ step = "stageTrends"
  /\ \E written \in SUBSET batch :
       /\ stgTrends' = stgTrends \union written
       /\ AppendOf(written, batch)
  /\ UNCHANGED <<dictionary, tableVars, log, planned, committed, stgNewsRaw, stgKeywords,
                 stgRelations, edits>>

UpsertTrends ==
  /\ step = "upsertTrends"
  /\ trends' = Upserted(trends, stgTrends, Total)
  /\ stgTrends' = Truncated(stgTrends)
  /\ Advance
  /\ UNCHANGED <<dictionary, newsRaw, keywords, relations, log, planned, committed,
                 stgNewsRaw, stgKeywords, stgRelations, edits>>

StageRelations ==
  LET batch == RowsOf([row \in WindowPair |-> BatchRelation(row[1], row[2], row[3])]) IN
  /\ step = "stageRelations"
  /\ \E written \in SUBSET batch :
       /\ stgRelations' = stgRelations \union written
       /\ AppendOf(written, batch)
  /\ UNCHANGED <<dictionary, tableVars, log, planned, committed, stgNewsRaw, stgKeywords,
                 stgTrends, edits>>

UpsertRelations ==
  /\ step = "upsertRelations"
  /\ relations' = Upserted(relations, stgRelations, Total)
  /\ stgRelations' = Truncated(stgRelations)
  /\ Advance
  /\ UNCHANGED <<dictionary, newsRaw, keywords, trends, log, planned, committed,
                 stgNewsRaw, stgKeywords, stgTrends, edits>>

\* The handler returns, article_keywords is unpersisted, the offsets are committed.
CommitBatch ==
  /\ step = "commit"
  /\ committed' = planned
  /\ step' = "idle"
  /\ articleKeywords' = NoCounts
  /\ UNCHANGED <<dictionary, tableVars, log, planned, stagingVars, failures, edits>>

\* Any step can raise, or the process be killed between two of them.
Fail ==
  /\ step # "down"
  /\ GoDown
  /\ UNCHANGED <<dictionary, tableVars, log, planned, committed, stagingVars, edits>>

\* A faulty variant of ResumeAt: the planned batch is taken for done.
ResumeAtIdle == "idle"

\* The step a restarted query takes up: the batch that was planned, if it was not
\* committed, from its beginning.
ResumeAt ==
  IF planned = committed THEN "idle" ELSE IF BatchOffsets = {} THEN "commit" ELSE "stageNews"

Restart ==
  /\ step = "down"
  /\ step' = ResumeAt
  /\ UNCHANGED <<dictionary, tableVars, log, planned, committed, articleKeywords,
                 stagingVars, failures, edits>>

-----------------------------------------------------------------------------
WorldNext ==
  \/ \E m \in Messages : Arrive(m)
  \/ \E d \in Dictionaries : EditDictionary(d)

JobNext ==
  \/ \E end \in 1 .. MaxLog : PlanBatch(end)
  \/ StageNews \/ UpsertNews
  \/ Tokenize
  \/ StageKeywords \/ UpsertKeywords
  \/ StageTrends \/ UpsertTrends
  \/ StageRelations \/ UpsertRelations
  \/ CommitBatch
  \/ Restart

Next == WorldNext \/ JobNext \/ Fail

Spec == Init /\ [][Next]_vars

\* The container is restarted whenever it stops, and a query that is up goes on.
FairSpec == Spec /\ WF_vars(JobNext)

-----------------------------------------------------------------------------
(* Properties.                                                             *)

Usable(n) == {i \in 1 .. n : log[i] \notin Unusable}

\* Offsets are committed only behind the upserts: every usable message below the
\* committed offset has its article in news_raw, whichever attempts failed where.
CommittedNewsIsStored ==
  \A i \in Usable(committed) : newsRaw[ArticleOf[log[i]]] # NoMessage

\* ... and its keywords in the keywords table, as one of the dictionaries that
\* were in force splits the text.
CommittedKeywordsAreStored ==
  \A i \in Usable(committed) :
    \E d \in Dictionaries :
      \A k \in Keywords : Mentions[log[i]][d][k] > 0 => keywords[<<ArticleOf[log[i]], k>>] > 0

\* A committed batch leaves no staged row behind for the next batch to take up,
\* the leftovers of its own failed attempts included.
NothingLeftInStaging ==
  step = "idle" => stgNewsRaw = {} /\ stgKeywords = {} /\ stgTrends = {} /\ stgRelations = {}

\* The most often a message can mention a keyword, under any dictionary.
MostMentions(m, k) == Max({Mentions[m][d][k] : d \in Dictionaries})

MentionsInTopic(articles, k) ==
  SumFunctionOnSet([i \in Usable(planned) |-> MostMentions(log[i], k)],
                   {i \in Usable(planned) : ArticleOf[log[i]] \in articles})

\* Running a batch again never inflates the keywords table: no row counts more
\* mentions than the topic's messages of that article hold.
KeywordsNeverInflated ==
  \A a \in Articles, k \in Keywords : keywords[<<a, k>>] <= MentionsInTopic({a}, k)

\* A trend or relation row never appears without its evidence: there is an article
\* of the window with rows in keywords for the word, or for both words.  The
\* tables are written in that order, also across failures.
BackedByKeywords ==
  /\ \A w \in Windows, k \in Keywords :
       trends[<<w, k>>] > 0 => \E a \in ArticlesOf(w) : keywords[<<a, k>>] > 0
  /\ \A w \in Windows, j, k \in Keywords :
       relations[<<w, j, k>>] > 0 =>
         \E a \in ArticlesOf(w) : keywords[<<a, j>>] > 0 /\ keywords[<<a, k>>] > 0

\* A failed run of a batch, or a repeated task of an append, can add what it staged
\* once more to a trend, although README.md says that processing the same data again
\* does not duplicate the results.  With so many of them a trend is at most that many
\* times above the mentions in the topic, where a message counts each time it is there.
TrendsInflatedOnlyByFailures ==
  \A w \in Windows, k \in Keywords :
    trends[<<w, k>>] <= (1 + failures) * MentionsInTopic(ArticlesOf(w), k)

\* Every usable message in the topic ends up in news_raw and is committed, as long
\* as the job does not fail for ever.
EventuallyStored ==
  \A i \in 1 .. MaxLog :
    i <= Len(log) ~> committed >= i /\ (log[i] \in Unusable \/ newsRaw[ArticleOf[log[i]]] # NoMessage)

\* Behind its batches, staging tables and restarts the job is an at-least-once
\* consumer of the topic: each step, a failed one included, takes in a run of
\* messages from the committed offset on, moves the committed offset behind
\* messages that are stored, or changes neither.
Delivery == INSTANCE AtLeastOnce WITH done <- committed, stored <- newsRaw

IsAtLeastOnce == Delivery!Spec

\* README.md: keyword_trends holds the number of mentions of a keyword in a window.
\* So, with every batch committed, it is the sum over the articles of the window.
TrendCountsItsWindow ==
  step = "idle" /\ committed = Len(log) =>
    \A w \in Windows, k \in Keywords :
      trends[<<w, k>>] = SumFunctionOnSet([a \in Articles |-> keywords[<<a, k>>]], ArticlesOf(w))

-----------------------------------------------------------------------------
(* The inductive invariant behind CommittedNewsIsStored and                *)
(* NothingLeftInStaging.                                                   *)

AfterTrends == {"stageRelations", "upsertRelations", "commit"}
AfterKeywords == {"stageTrends", "upsertTrends"} \union AfterTrends
AfterNews == {"tokenize", "stageKeywords", "upsertKeywords"} \union AfterKeywords

StagingEmpty == stgNewsRaw = {} /\ stgKeywords = {} /\ stgTrends = {} /\ stgRelations = {}

OffsetsInv ==
  /\ log \in Seq(Messages)
  /\ planned \in 0 .. Len(log)
  /\ committed \in 0 .. planned
  /\ step \in {"idle", "down", "stageNews", "upsertNews"} \union AfterNews
  /\ step = "idle" => planned = committed

\* What news_raw owes to the batch: its messages are staged, then stored.
NewsInv ==
  /\ stgNewsRaw \subseteq Messages
  /\ CommittedNewsIsStored
  /\ step = "upsertNews" => BatchMessages \subseteq stgNewsRaw
  /\ step \in AfterNews => \A i \in BatchOffsets : newsRaw[ArticleOf[log[i]]] # NoMessage

\* Which staging tables are empty: each behind its upsert, and all of them when
\* there is no batch to run again.
StagingInv ==
  /\ step \in AfterNews => stgNewsRaw = {}
  /\ step \in AfterKeywords => stgKeywords = {}
  /\ step \in AfterTrends => stgTrends = {}
  /\ step = "commit" => stgRelations = {}
  /\ BatchOffsets = {} => StagingEmpty /\ step \in {"idle", "down", "commit"}

SinkInv == OffsetsInv /\ NewsInv /\ StagingInv

-----------------------------------------------------------------------------
(* The inductive invariants behind the properties of the counts.           *)

\* An attempt, of a batch or of a task, stages one row for a key, and its rows are
\* there only until the upsert, or once it has failed.
OneRowPerAttempt(staging, upsert) ==
  /\ \A r \in staging : r.attempt <= failures /\ (r.attempt = failures => step = upsert)
  /\ \A r, s \in staging : r.key = s.key /\ r.attempt = s.attempt => r = s

RowsInv ==
  /\ TypeOK
  /\ OneRowPerAttempt(stgKeywords, "upsertKeywords")
  /\ OneRowPerAttempt(stgTrends, "upsertTrends")
  /\ OneRowPerAttempt(stgRelations, "upsertRelations")

\* What a batch has in hand and in staging is no more than the topic mentions.
AtMostMentioned ==
  /\ \A a \in Articles, k \in Keywords : articleKeywords[<<a, k>>] <= MentionsInTopic({a}, k)
  /\ \A r \in stgKeywords : r.count <= MentionsInTopic({r.key[1]}, r.key[2])
  /\ \A r \in stgTrends : r.count <= MentionsInTopic(ArticlesOf(r.key[1]), r.key[2])

CountsInv == AtMostMentioned /\ KeywordsNeverInflated /\ TrendsInflatedOnlyByFailures

-----------------------------------------------------------------------------
(* The inductive invariants behind the evidence for trends and relations,  *)
(* and for what is committed.                                              *)

WithBatch == {"stageKeywords", "upsertKeywords"} \union AfterKeywords

NothingInHand == step \notin WithBatch => articleKeywords = NoCounts

\* What is in hand passes to staging and to keywords.
BatchPassesOn ==
  /\ step = "upsertKeywords" =>
       \A row \in ArticleKeyword : articleKeywords[row] > 0 => Staged(stgKeywords, row) # {}
  /\ step \in AfterKeywords =>
       \A row \in ArticleKeyword : articleKeywords[row] > 0 => keywords[row] > 0

\* Trends and relations are staged behind that.
StagedIsBacked ==
  /\ \A r \in stgTrends : \E a \in ArticlesOf(r.key[1]) : keywords[<<a, r.key[2]>>] > 0
  /\ \A r \in stgRelations : \E a \in ArticlesOf(r.key[1]) :
       keywords[<<a, r.key[2]>>] > 0 /\ keywords[<<a, r.key[3]>>] > 0

EvidenceInv == BatchPassesOn /\ StagedIsBacked /\ BackedByKeywords

\* The batch in hand is what its messages mention under one dictionary.
BatchIsInHand ==
  step \in WithBatch =>
    \A i \in BatchOffsets : \E d \in Dictionaries : \A k \in Keywords :
      Mentions[log[i]][d][k] > 0 => articleKeywords[<<ArticleOf[log[i]], k>>] > 0

CommittedInv == BatchIsInHand /\ CommittedKeywordsAreStored
=============================================================================
