------------------------------ MODULE Backfill ------------------------------
(***************************************************************************)
(* analytics/compound_backfill.py, run by the DAG compound_keyword_backfill *)
(* (max_active_runs=1) beside the streaming job: it splits the stored      *)
(* texts that contain a compound noun again, replaces their keywords, and  *)
(* recomputes the trends and relations of their windows from keywords.     *)
(*                                                                         *)
(* It is one transaction, of several statements, each of which sees what   *)
(* was committed before it (READ COMMITTED) and what the transaction has   *)
(* written itself.  Nobody else sees its rows before the commit; a         *)
(* statement of another transaction on a row it has touched waits.         *)
(***************************************************************************)
EXTENDS StreamSink

CONSTANTS
  Periods,      \* sets of articles the WHERE clause of a backfill can select
  Containing,   \* messages whose text contains the word of the backfill
  WithDefaults, \* WithDefaults[d]: d with the default stop words in place of its own
  MaxBackfills  \* bound: backfills that are started

ASSUME BackfillAssumption ==
  /\ Periods \subseteq SUBSET Articles
  /\ Containing \subseteq Messages
  /\ WithDefaults \in [Dictionaries -> Dictionaries]
  /\ MaxBackfills \in Nat

VARIABLES
  tableDictionary,  \* the dictionary tables, which tokenizers take up later
  bfStep,           \* where the backfill is
  bfDictionary,     \* the dictionary its process has loaded
  bfTexts,          \* stored texts selected and not yet tokenized
  bfRows,           \* keyword_rows: the new counts of each article
  bfLocks,          \* rows of keywords, trends and relations it has touched
  bfCounts,         \* trend_counts and relation_counts of the windows done
  bfRecounted,      \* windows done
  backfills         \* backfills started so far

bfVars == <<bfStep, bfDictionary, bfTexts, bfRows, bfLocks, bfCounts, bfRecounted, backfills>>

NoTexts == [article \in Articles |-> NoMessage]
NoRowsYet == [row \in ArticleKeyword |-> 0]
NoLocks == [keywords |-> {}, trends |-> {}, relations |-> {}]
NoCountsYet == [trends |-> [row \in WindowKeyword |-> 0], relations |-> [row \in WindowPair |-> 0]]

BackfillTypeOK ==
  /\ tableDictionary \in Dictionaries
  /\ bfStep \in {"idle", "tokenize", "recount"}
  /\ bfDictionary \in Dictionaries
  /\ bfTexts \in [Articles -> Messages \union {NoMessage}]
  /\ bfRows \in [ArticleKeyword -> Nat]
  /\ bfLocks \in [keywords : SUBSET ArticleKeyword, trends : SUBSET WindowKeyword,
                  relations : SUBSET WindowPair]
  /\ bfCounts \in [trends : [WindowKeyword -> Nat], relations : [WindowPair -> Nat]]
  /\ bfRecounted \subseteq Windows
  /\ backfills \in 0 .. MaxBackfills

BackfillForgets ==
  /\ bfStep' = "idle"
  /\ bfTexts' = NoTexts
  /\ bfRows' = NoRowsYet
  /\ bfLocks' = NoLocks
  /\ bfCounts' = NoCountsYet
  /\ bfRecounted' = {}

BackfillInit ==
  /\ tableDictionary = dictionary
  /\ bfStep = "idle"
  /\ bfDictionary = dictionary
  /\ bfTexts = NoTexts
  /\ bfRows = NoRowsYet
  /\ bfLocks = NoLocks
  /\ bfCounts = NoCountsYet
  /\ bfRecounted = {}
  /\ backfills = 0

-----------------------------------------------------------------------------
(* What it reads.                                                          *)

\* What a process can load: the tables, or, when the stop words cannot be read, the
\* default ones (_get_stopwords).
Loadable == {tableDictionary, WithDefaults[tableDictionary]}

\* SELECT ... FROM news_raw.  A text without the word is passed over.
SelectArticles(period) ==
  /\ bfStep = "idle"
  /\ backfills < MaxBackfills
  /\ bfStep' = "tokenize"
  /\ bfTexts' = [article \in Articles |->
                   IF article \in period /\ newsRaw[article] \in Containing
                   THEN newsRaw[article] ELSE NoMessage]
  /\ bfDictionary' \in Loadable
  /\ backfills' = backfills + 1
  /\ UNCHANGED <<vars, tableDictionary, bfRows, bfLocks, bfCounts, bfRecounted>>

\* The loop over the articles, whose tokenizer may take up a new dictionary at any
\* article.
TokenizeStored(article) ==
  /\ bfStep = "tokenize"
  /\ bfTexts[article] # NoMessage
  /\ bfDictionary' \in {bfDictionary} \union Loadable
  /\ bfRows' = [row \in ArticleKeyword |->
                  IF row[1] = article THEN Mentions[bfTexts[article]][bfDictionary'][row[2]]
                  ELSE bfRows[row]]
  /\ bfTexts' = [bfTexts EXCEPT ![article] = NoMessage]
  /\ UNCHANGED <<vars, tableDictionary, bfStep, bfLocks, bfCounts, bfRecounted, backfills>>

\* article_keys: a text that yields no keyword is passed over as well, and keeps the
\* rows it has.
AffectedArticles == {article \in Articles : \E k \in Keywords : bfRows[<<article, k>>] > 0}
AffectedWindows == {WindowOf[article] : article \in AffectedArticles}

\* dry_run, or nothing to do.
EndWithoutWriting ==
  /\ bfStep = "tokenize"
  /\ bfTexts = NoTexts
  /\ BackfillForgets
  /\ UNCHANGED <<vars, tableDictionary, bfDictionary, backfills>>

-----------------------------------------------------------------------------
(* What it writes.                                                         *)

\* The rows that are there, and those it inserts.
TouchedRows ==
  [keywords |-> {row \in ArticleKeyword :
                   row[1] \in AffectedArticles /\ (keywords[row] > 0 \/ bfRows[row] > 0)},
   trends |-> {row \in WindowKeyword : row[1] \in AffectedWindows /\ trends[row] > 0},
   relations |-> {row \in WindowPair : row[1] \in AffectedWindows /\ relations[row] > 0}]

\* DELETE and INSERT of the keywords, DELETE of the trends and relations: four
\* statements, taken together.
ReplaceKeywords ==
  /\ bfStep = "tokenize"
  /\ bfTexts = NoTexts /\ AffectedArticles # {}
  /\ bfStep' = "recount"
  /\ bfLocks' = TouchedRows
  /\ UNCHANGED <<vars, tableDictionary, bfDictionary, bfTexts, bfRows, bfCounts, bfRecounted,
                 backfills>>

\* A faulty variant of OwnView: the rows deleted are still seen.
OwnViewWithDeleted(row) == IF bfRows[row] > 0 THEN bfRows[row] ELSE keywords[row]

\* keywords as the transaction sees it.
OwnView(row) == IF row \in bfLocks.keywords THEN bfRows[row] ELSE keywords[row]

StoredArticlesOf(w) == {article \in ArticlesOf(w) : newsRaw[article] # NoMessage}

\* The sum over the window's stored articles.
TrendCount(w, k) ==
  SumFunctionOnSet([article \in Articles |-> OwnView(<<article, k>>)], StoredArticlesOf(w))

\* combinations(ranked, 2), each pair in the order of the alphabet.
RelationCount(w, j, k) ==
  IF KeywordOrder[j] >= KeywordOrder[k] THEN 0
  ELSE Cardinality({article \in StoredArticlesOf(w) :
         {j, k} \subseteq Representative([i \in Keywords |-> OwnView(<<article, i>>)])})

\* One SELECT per window.
RecountWindow(w) ==
  /\ bfStep = "recount"
  /\ w \in AffectedWindows \ bfRecounted
  /\ bfRecounted' = bfRecounted \union {w}
  /\ bfCounts' =
       [trends |-> [row \in WindowKeyword |-> IF row[1] = w THEN TrendCount(w, row[2])
                                              ELSE bfCounts.trends[row]],
        relations |-> [row \in WindowPair |-> IF row[1] = w THEN RelationCount(w, row[2], row[3])
                                              ELSE bfCounts.relations[row]]]
  /\ UNCHANGED <<vars, tableDictionary, bfStep, bfDictionary, bfTexts, bfRows, bfLocks,
                 backfills>>

\* A row the backfill touched is what the backfill makes of it, and a row it inserts
\* replaces one that came up meanwhile.
Overwritten(table, locks, counts) ==
  [row \in DOMAIN table |-> IF row \in locks \/ counts[row] > 0 THEN counts[row] ELSE table[row]]

\* A faulty variant of RewrittenTrends: without the DELETE.
RewrittenTrendsOnly == Overwritten(trends, {}, bfCounts.trends)

RewrittenKeywords == Overwritten(keywords, bfLocks.keywords, bfRows)
RewrittenTrends == Overwritten(trends, bfLocks.trends, bfCounts.trends)
RewrittenRelations == Overwritten(relations, bfLocks.relations, bfCounts.relations)

\* The INSERTs of trends and relations, and the commit.
ReadyToCommit == bfStep = "recount" /\ bfRecounted = AffectedWindows

\* The task dies or a statement is refused (a deadlock, say): all is rolled back.
RollBack ==
  /\ bfStep # "idle"
  /\ BackfillForgets
  /\ UNCHANGED <<vars, tableDictionary, bfDictionary, backfills>>
=============================================================================
