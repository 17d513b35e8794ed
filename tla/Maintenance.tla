----------------------------- MODULE Maintenance -----------------------------
(***************************************************************************)
(* The analysis tables with everybody who writes them: the streaming job,  *)
(* the compound noun backfill, and an administrator who declares a stop    *)
(* word (create_stopword of services/dictionary.py), upon which its rows   *)
(* are deleted (delete_keyword_data_for_stopword of storage/dict_db.py).   *)
(*                                                                         *)
(* create_stopword writes the dictionary in one transaction and deletes in *)
(* a later one.  The deletion of keyword_events is left out here.          *)
(***************************************************************************)
EXTENDS Backfill

CONSTANTS
  Domains,      \* domains of articles and windows
  DomainOf,     \* the domain of a window
  Stopped,      \* Stopped[d]: the stop words of the dictionary d, per domain
  NoCleanup,    \* no deletion is due
  MaxRequests   \* bound: requests that change the dictionary tables

DomainOfArticle(article) == DomainOf[WindowOf[article]]

ASSUME MaintenanceAssumption ==
  /\ DomainOf \in [Windows -> Domains]
  /\ Stopped \in [Dictionaries -> SUBSET (Domains \X Keywords)]
  /\ \A m \in Messages, d \in Dictionaries, k \in Keywords :
       <<DomainOfArticle(ArticleOf[m]), k>> \in Stopped[d] => Mentions[m][d][k] = 0
  /\ MaxRequests \in Nat

VARIABLES
  requests,   \* requests so far
  cleanup,    \* the word and domains whose rows are to be deleted
  waiting,    \* whether the deletion waits for rows the backfill has locked
  gone,       \* history: words deleted when no writer held them, and stopped by all since
  crossed,    \* history: rows were replaced or deleted under a batch or a backfill in flight
  disturbed   \* history: the tables changed since the backfill took its locks

cleanupVars == <<requests, cleanup, waiting>>
history == <<gone, crossed, disturbed>>
allVars == <<vars, tableDictionary, bfVars, cleanupVars, history>>

Scopes == {Domains} \union {{domain} : domain \in Domains}

TypeOKAll ==
  /\ TypeOK
  /\ BackfillTypeOK
  /\ requests \in 0 .. MaxRequests
  /\ cleanup \in [word : Keywords, scope : Scopes] \union {NoCleanup}
  /\ waiting \in BOOLEAN
  /\ gone \subseteq Domains \X Keywords
  /\ crossed \in BOOLEAN /\ disturbed \in BOOLEAN

InitAll ==
  /\ Init
  /\ BackfillInit
  /\ requests = 0 /\ cleanup = NoCleanup /\ waiting = FALSE
  /\ gone = {} /\ crossed = FALSE /\ disturbed = FALSE

-----------------------------------------------------------------------------
(* Requests that change the dictionary tables.                             *)

\* A compound noun comes or goes, or a stop word is taken back.
EditTables(d) ==
  /\ requests < MaxRequests
  /\ d # tableDictionary
  /\ Stopped[d] \subseteq Stopped[tableDictionary]
  /\ tableDictionary' = d
  /\ requests' = requests + 1
  /\ gone' = gone \intersect Stopped[d]
  /\ UNCHANGED <<vars, bfVars, cleanup, waiting, crossed, disturbed>>

\* The first transaction of create_stopword: the word is inserted, or is there.  A word
\* of another language than the tokenizer asks for changes nothing for it.
CreateStopword(k, scope) ==
  /\ requests < MaxRequests
  /\ cleanup = NoCleanup
  /\ tableDictionary' \in {tableDictionary} \union
       {d \in Dictionaries : Stopped[d] = Stopped[tableDictionary] \union (scope \X {k})}
  /\ cleanup' = [word |-> k, scope |-> scope]
  /\ requests' = requests + 1
  /\ UNCHANGED <<vars, bfVars, waiting, history>>

-----------------------------------------------------------------------------
(* The deletion: relations, trends, keywords, then the staging tables.     *)

RelationRows == {row \in WindowPair : cleanup.word \in {row[2], row[3]}
                                      /\ DomainOf[row[1]] \in cleanup.scope}
TrendRows == {row \in WindowKeyword : row[2] = cleanup.word /\ DomainOf[row[1]] \in cleanup.scope}
KeywordRows == {row \in ArticleKeyword : row[2] = cleanup.word
                                         /\ DomainOfArticle(row[1]) \in cleanup.scope}

Removed(table, rows) == [row \in DOMAIN table |-> IF row \in rows THEN 0 ELSE table[row]]

\* A faulty variant of StagedWithout: the staging tables are left alone.
StagedWithoutNothing(staging, word) == staging

\* The staged rows of the word go, those of every domain.
StagedWithout(staging, word) ==
  {r \in staging : \A i \in 2 .. Len(r.key) : r.key[i] # word}

CleanStaging ==
  /\ stgKeywords' = StagedWithout(stgKeywords, cleanup.word)
  /\ stgTrends' = StagedWithout(stgTrends, cleanup.word)
  /\ stgRelations' = StagedWithout(stgRelations, cleanup.word)
  /\ UNCHANGED stgNewsRaw

RelationsBlocked == RelationRows \intersect bfLocks.relations # {}
TrendsBlocked == TrendRows \intersect bfLocks.trends # {}
KeywordsBlocked == KeywordRows \intersect bfLocks.keywords # {}

\* No writer has counts of the word in hand, or a dictionary without the stop word.
NobodyHolds ==
  /\ cleanup.scope \X {cleanup.word} \subseteq Stopped[dictionary] \intersect Stopped[tableDictionary]
  /\ \A row \in KeywordRows : articleKeywords[row] = 0
  /\ bfStep = "idle"

\* A batch has counts of the word in hand, of whatever domain.
BatchHoldsWord == \E article \in Articles : articleKeywords[<<article, cleanup.word>>] > 0

\* The statements see what was committed before each of them: a row that comes up
\* behind the one of its table, or comes back, stays.
Missable ==
  [relations : SUBSET {row \in RelationRows : relations[row] > 0},
   trends : SUBSET {row \in TrendRows : trends[row] > 0},
   keywords : SUBSET {row \in KeywordRows : keywords[row] > 0}]

NothingMissed == [relations |-> {}, trends |-> {}, keywords |-> {}]

DeleteKeywordData ==
  /\ cleanup # NoCleanup /\ ~waiting
  /\ ~RelationsBlocked /\ ~TrendsBlocked /\ ~KeywordsBlocked
  /\ \E missed \in Missable :
       /\ relations' = Removed(relations, RelationRows \ missed.relations)
       /\ trends' = Removed(trends, TrendRows \ missed.trends)
       /\ keywords' = Removed(keywords, KeywordRows \ missed.keywords)
       /\ gone' = IF NobodyHolds /\ missed = NothingMissed
                  THEN gone \union (cleanup.scope \X {cleanup.word}) ELSE gone
       /\ crossed' = (crossed \/ BatchHoldsWord \/ missed # NothingMissed)
  /\ CleanStaging
  /\ cleanup' = NoCleanup
  /\ disturbed' = (disturbed \/ bfStep = "recount")
  /\ UNCHANGED <<dictionary, newsRaw, log, planned, committed, step, articleKeywords, failures,
                 edits, tableDictionary, bfVars, requests, waiting>>

\* A statement comes to a row the backfill has touched.
WaitForBackfill ==
  /\ cleanup # NoCleanup /\ ~waiting
  /\ RelationsBlocked \/ TrendsBlocked \/ KeywordsBlocked
  /\ waiting' = TRUE
  /\ UNCHANGED <<vars, tableDictionary, bfVars, requests, cleanup, history>>

\* The request dies before the deletion, or the deletion is refused.
AbandonCleanup ==
  /\ cleanup # NoCleanup
  /\ cleanup' = NoCleanup
  /\ waiting' = FALSE
  /\ UNCHANGED <<vars, tableDictionary, bfVars, requests, history>>

-----------------------------------------------------------------------------
(* The end of a backfill, with a deletion waiting for it or not.           *)

\* The statement that waited, and those before it, do not see the rows the backfill
\* has put in the place of those it deleted; the statements after it do.
CleanedBy(table, rows, locks, counts, behind) ==
  IF behind THEN Removed(Overwritten(table, locks, counts), rows)
  ELSE Overwritten(Removed(table, rows), locks, counts)

CommitBackfill ==
  /\ ReadyToCommit
  /\ IF waiting
     THEN /\ \E missed \in Missable :
               /\ relations' = CleanedBy(relations, RelationRows \ missed.relations,
                                         bfLocks.relations, bfCounts.relations, FALSE)
               /\ trends' = CleanedBy(trends, TrendRows \ missed.trends, bfLocks.trends,
                                      bfCounts.trends, RelationsBlocked)
               /\ keywords' = CleanedBy(keywords, KeywordRows \ missed.keywords, bfLocks.keywords,
                                        bfRows, RelationsBlocked \/ TrendsBlocked)
          /\ CleanStaging
          /\ cleanup' = NoCleanup
     ELSE /\ relations' = RewrittenRelations
          /\ trends' = RewrittenTrends
          /\ keywords' = RewrittenKeywords
          /\ UNCHANGED <<stagingVars, cleanup>>
  /\ BackfillForgets
  /\ waiting' = FALSE
  /\ crossed' = (crossed \/ waiting \/ disturbed \/ articleKeywords # NoCounts
                   \/ stgTrends # {} \/ stgRelations # {})
  /\ disturbed' = FALSE
  /\ UNCHANGED <<dictionary, newsRaw, log, planned, committed, step, articleKeywords, failures,
                 edits, tableDictionary, bfDictionary, backfills, requests, gone>>

\* A deletion that waited goes on.
RollBackBackfill ==
  /\ RollBack
  /\ waiting' = FALSE
  /\ disturbed' = FALSE
  /\ UNCHANGED <<requests, cleanup, gone, crossed>>

-----------------------------------------------------------------------------
(* The streaming job beside them.                                          *)

KeysOf(staging) == {r.key : r \in staging}

\* The upsert comes to a row the backfill has touched, and waits.
UpsertBlocked ==
  \/ step = "upsertKeywords" /\ KeysOf(stgKeywords) \intersect bfLocks.keywords # {}
  \/ step = "upsertTrends" /\ KeysOf(stgTrends) \intersect bfLocks.trends # {}
  \/ step = "upsertRelations" /\ KeysOf(stgRelations) \intersect bfLocks.relations # {}

Stream(StreamAction) ==
  /\ StreamAction
  /\ disturbed' = (disturbed \/ (bfStep = "recount" /\ tableVars' # tableVars))
  /\ UNCHANGED <<tableDictionary, bfVars, cleanupVars, gone, crossed>>

JobStep == Stream(JobNext /\ ~UpsertBlocked)

\* A process that loads d keeps the words of d out.
StillGone(d) == gone \intersect Stopped[d]

\* The tokenizer of the job loads the dictionary.
LoadDictionary ==
  /\ \E d \in Loadable : EditDictionary(d)
  /\ gone' = StillGone(dictionary')
  /\ UNCHANGED <<tableDictionary, bfVars, cleanupVars, crossed, disturbed>>

\* The backfill reads texts and tokenizes them.
BackfillReads ==
  /\ \/ \E period \in Periods : SelectArticles(period)
     \/ \E article \in Articles : TokenizeStored(article)
  /\ gone' = StillGone(bfDictionary')
  /\ UNCHANGED <<cleanupVars, crossed, disturbed>>

BackfillStep ==
  \/ BackfillReads
  \/ /\ \/ EndWithoutWriting
        \/ ReplaceKeywords
        \/ \E w \in Windows : RecountWindow(w)
     /\ UNCHANGED <<cleanupVars, history>>
  \/ CommitBackfill

NextAll ==
  \/ \E m \in Messages : Stream(Arrive(m))
  \/ LoadDictionary
  \/ JobStep
  \/ Stream(Fail)
  \/ BackfillStep
  \/ RollBackBackfill
  \/ \E d \in Dictionaries : EditTables(d)
  \/ \E k \in Keywords, scope \in Scopes : CreateStopword(k, scope)
  \/ DeleteKeywordData
  \/ WaitForBackfill
  \/ AbandonCleanup

SpecAll == InitAll /\ [][NextAll]_allVars

-----------------------------------------------------------------------------
(* Properties.                                                             *)

\* A stop word whose rows were deleted when every tokenizer knew it and no batch or
\* backfill had counts of it in hand does not come back: not by the rerun of a batch
\* that had staged some of its rows, nor by a backfill; unless a process fails to read
\* the stop words, and the default ones, which it then works with, lack the word.
StopwordStaysOut ==
  \A g \in gone : LET domain == g[1]
                      k == g[2] IN
    /\ \A article \in Articles :
         DomainOfArticle(article) = domain => keywords[<<article, k>>] = 0
    /\ \A w \in Windows : DomainOf[w] = domain =>
         /\ trends[<<w, k>>] = 0
         /\ \A j \in Keywords : relations[<<w, j, k>>] = 0 /\ relations[<<w, k, j>>] = 0

\* A trend or relation has its keywords behind it, whatever the backfill, the deletion
\* and the job did in turn; only when one of the two replaced rows under a batch in
\* flight can an aggregate be left without.
BackedUnlessCrossed == crossed \/ BackedByKeywords

\* The trends and relations of a window are what its keywords add up to.
WindowAddsUp(w, keywordTable, trendTable, relationTable) ==
  /\ \A k \in Keywords :
       trendTable[<<w, k>>] =
         SumFunctionOnSet([article \in Articles |-> keywordTable[<<article, k>>]], ArticlesOf(w))
  /\ \A j, k \in Keywords :
       relationTable[<<w, j, k>>] =
         IF KeywordOrder[j] >= KeywordOrder[k] THEN 0
         ELSE Cardinality({article \in ArticlesOf(w) :
                {j, k} \subseteq Representative([i \in Keywords |-> keywordTable[<<article, i>>]])})

\* A backfill leaves every window of its articles as its keywords add up to, old rows
\* that no keyword backs any more included, unless other writers changed the tables
\* while it was writing.
RecountIsExact ==
  [][CommitBackfill /\ ~disturbed /\ ~waiting
     => \A w \in AffectedWindows : WindowAddsUp(w, keywords', trends', relations')]_allVars

-----------------------------------------------------------------------------
(* The inductive invariants behind these properties.                       *)

\* What a backfill has collected at each of its stages.
BackfillStages ==
  /\ bfStep = "idle" => bfTexts = NoTexts /\ bfRows = NoRowsYet
  /\ bfStep # "recount" => bfLocks = NoLocks /\ bfCounts = NoCountsYet /\ bfRecounted = {}

\* The invariants of the job hold beside the other writers as well, and a deletion that
\* waits is one that is due.
WritersInv ==
  /\ SinkInv /\ RowsInv /\ NothingInHand
  /\ TypeOKAll
  /\ BackfillStages
  /\ waiting => cleanup # NoCleanup

\* Whatever counts keywords of an article was read from the article, which is stored.
CountedIsStored ==
  /\ \A article \in Articles :
       /\ newsRaw[article] # NoMessage => ArticleOf[newsRaw[article]] = article
       /\ bfTexts[article] # NoMessage =>
            newsRaw[article] # NoMessage /\ ArticleOf[bfTexts[article]] = article
  /\ \A row \in ArticleKeyword : newsRaw[row[1]] = NoMessage =>
       keywords[row] = 0 /\ articleKeywords[row] = 0 /\ bfRows[row] = 0 /\ Staged(stgKeywords, row) = {}

\* A word that is gone is a stop word for everybody, and nobody holds it.
GoneInv ==
  \A g \in gone :
    /\ g \in Stopped[dictionary] \intersect Stopped[tableDictionary]
    /\ bfStep # "idle" => g \in Stopped[bfDictionary]
    /\ \A row \in ArticleKeyword : DomainOfArticle(row[1]) = g[1] /\ row[2] = g[2] =>
         keywords[row] = 0 /\ articleKeywords[row] = 0 /\ bfRows[row] = 0 /\ Staged(stgKeywords, row) = {}
    /\ \A row \in WindowKeyword : DomainOf[row[1]] = g[1] /\ row[2] = g[2] =>
         trends[row] = 0 /\ bfCounts.trends[row] = 0 /\ Staged(stgTrends, row) = {}
    /\ \A row \in WindowPair : DomainOf[row[1]] = g[1] /\ g[2] \in {row[2], row[3]} =>
         relations[row] = 0 /\ bfCounts.relations[row] = 0 /\ Staged(stgRelations, row) = {}

\* As long as nobody else writes, the backfill has locked what is there, and its
\* counts are those of the tables.
RecountInv ==
  bfStep = "recount" /\ ~disturbed =>
    /\ bfLocks = TouchedRows
    /\ bfRecounted \subseteq AffectedWindows
    /\ \A row \in WindowKeyword : bfCounts.trends[row] =
         IF row[1] \in bfRecounted THEN TrendCount(row[1], row[2]) ELSE 0
    /\ \A row \in WindowPair : bfCounts.relations[row] =
         IF row[1] \in bfRecounted THEN RelationCount(row[1], row[2], row[3]) ELSE 0

EvidenceUnlessCrossed == crossed \/ EvidenceInv
=============================================================================
