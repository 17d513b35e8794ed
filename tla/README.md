# A formal model of the news trend pipeline

This directory holds TLA+ modules that model the news trend pipeline, the TLC
configurations that check them on small instances, and TLAPS proofs of the
properties that matter most for every value of the constants. Paths of the form
`src/...` are relative to the repository's parent: `src/src/ingestion/replay.py`
is `src/ingestion/replay.py` of the repository.

`PROJECT.json` is the index: components, runs, mutants, the map from definitions
to source lines, findings, hazards and theorems.

## 1. The system

Airflow DAGs poll Naver and RSS every 15 minutes and publish articles to a Kafka
topic; what cannot be published goes to a dead letter file that another DAG
replays. A Spark streaming job reads the topic, splits the texts into keywords
and fills four PostgreSQL tables through staging tables. A DAG derives spike
events from the trends. An administrator, two automatic reviewers and an
extractor maintain the dictionaries the tokenizer works with. FastAPI and a React
dashboard show the result.

```
 Naver, RSS ──> producer ──> Kafka topic ──> Spark job ──> stg_* ──> news_raw
                  │  ^                          ^  │                 keywords
       dead_letter.jsonl                dictionaries │               keyword_trends ──> event
                  │  │                          ^    └────────────>  keyword_relations  detection
                  v  │                          │                          ^              │
               replay DAG            candidate review, admin      compound backfill  keyword_events
```

| Component | State | Operations | Hard parts | What makes it correct |
|---|---|---|---|---|
| Producer (`ingestion/producer.py`) | `producer_state_{provider}.json` (timestamp per query, published urls), `_send_errors`, `_kafka_unavailable` | collect, publish, save, flush, drain | delivery callbacks of another thread, state saved before the flush, fetch failures per query, death at any step | no article a checkpoint has passed disappears unnoticed; checkpoints only move on |
| Replay (`ingestion/replay.py`) | dead letter, replayed and permanent files | read, resend, rewrite, park | runs beside producers that append to the file, killed after 300 s | bounded retries; nothing parked early; nothing lost or sent twice |
| Clients (`ingestion/api_client.py`) | the futures of a run, one result per query or feed | paged, parallel fetches | listings that shift while they are paged, partial results, one text in two domains | an ok result lacks nothing newer than the timestamp its key goes on from |
| Streaming sink (`processing/spark_job.py`, `storage/news_db.py`) | checkpoint, four staging tables, four tables | ten steps per batch | partial JDBC appends, crash between steps, rerun of a batch, repeated and reordered messages, dictionary edits | committed means stored, counts are what the articles say |
| Event detection (`analytics/event_detector.py`) | `keyword_events` | read 24 h of trends, replace events | late trends, rerun by the retry, boundaries of the lookback | events are what the trends call for |
| Backfill (`analytics/compound_backfill.py`) | the tables of the sink, in one long transaction | recompute a period | writes the same rows as the sink and as a deletion, each waiting for the other's locks | its windows add up exactly, aggregates keep their keywords, a deleted stop word stays out |
| Dictionaries and candidate review (`services/dictionary.py`, `storage/dict_db.py`, `analytics/compound_auto_*.py`, `compound_extractor.py`, `stopword_recommender.py`) | candidates of two kinds, dictionaries, audit log | extract, recommend, approve, reject, create, delete | reviewers and a slow automatic approver on the same candidate, several transactions per operation | a verdict fits its counts, a decision stands, a rejected word is kept out |
| Tokenizer caches (`processing/preprocessing.py`) | cached words and versions per process | refresh, tokenize | failing fetches, tables that change between a check and a load | a dictionary edit reaches every worker |
| Query administration (`storage/admin_db.py`, `services/admin.py`) | `query_keywords` | create, update, delete | edits between runs | the producer polls what is active |
| Operations DAGs (`kafka_recovery_dag.py`, `partition_maintenance_dag.py`) | none of their own | inspect, restart, verify | a status that is stale when used | restarts only a broker that is down |
| Dashboard (`services/dashboard.py`) | none | overview, KPIs, two series | several statements, each with a snapshot of its own, and bucket bounds | totals are those of the period asked for |
| API routers, React | a browser cache | | | thin, read-only |

## 2. Modules

| Module | Models | Extends |
|---|---|---|
| `IngestCommon` | what producers and replay share: articles, queries, the topic, the dead letter file | |
| `Producer` | one `run_once` per provider, the Kafka client thread, crashes | `IngestCommon` |
| `Replay` | `run_replay` | `IngestCommon` |
| `IngestPipeline` | both, interleaved; the properties of the collection half | `Producer`, `Replay` |
| `IngestPipeline_proofs` | five theorems about it | `IngestPipeline` |
| `NewsClient` | the fetches of one run behind `Producer`'s fetch step | |
| `NewsClient_proofs` | two theorems about it | `NewsClient` |
| `AtLeastOnce` | abstract: what the sink promises about the topic and `news_raw` | |
| `KeywordStore` | the analysis tables, keyword ranking | |
| `StreamSink` | the streaming job and the staging upserts; implements `AtLeastOnce` | `KeywordStore` |
| `StreamSink_proofs` | eight theorems about it | `StreamSink`, `Sums_proofs` |
| `Backfill` | the compound noun backfill, its locks and its own view | `StreamSink` |
| `Maintenance` | the job, the backfill and the deletion for a stop word together | `Backfill` |
| `Maintenance_proofs` | four theorems about the three writers | `Maintenance`, `StreamSink_proofs` |
| `EventDetector` | the detection job and its DAG | |
| `EventDetector_proofs` | five theorems about it | `EventDetector` |
| `DictionaryTables` | the two dictionaries, their versions, the operations on compound nouns | |
| `CandidateReview` | compound candidates: extraction, reviewer, approver, administrators | `DictionaryTables` |
| `StopwordReview` | stop word candidates: recommender and administrators | `DictionaryTables` |
| `DictionaryCache` | the caches of one tokenizing worker | `DictionaryTables` |
| `Dictionary` | the four together | `CandidateReview`, `StopwordReview`, `DictionaryCache` |
| `Dictionary_proofs` | six theorems about it | `Dictionary` |
| `Dashboard` | the dashboard's requests of several statements, beside the writers | |
| `Dashboard_proofs` | four theorems about it | `Dashboard`, `Sums_proofs` |
| `Sums_proofs` | lemmas about sums over finite sets, which those four use | |
| `MCIngest`, `MCNewsClient`, `MCSink`, `MCMaintenance`, `MCEvents`, `MCDictionary`, `MCDashboard` | small instances for TLC | |

### The collection half

An *article* stands for a (provider, domain, url) triple, the key of
`published_urls`. A *timestamp* is the set of articles published by then. That is
exact for the program's uses: it compares the publication times of articles with
timestamps of runs, and the sets are nested as the instants are ordered.

`run_once` is cut where another process or thread can observe or change
something: the start (state and active queries read), each query's fetch, each
article of the publish loop (`SkipSeen`, `Send`, `PublishToDeadLetter`), the end
of a query's loop, the save, the flush, each line of the drain, the end. The
callbacks `DeliverOk` and `DeliverError` run between any two of these, as the
client's thread does. `Crash` stands for a kill and for any exception that leaves
`run_once`, such as a failed `insert_collection_metric`.

`drops` is a history variable. It records the five ways in which the code lets go
of an article: an ok fetch that did not return it (`missed`), the end of a run
after the save and before the delivery is settled (`abandoned`), the rewrite of
the dead letter file over lines appended meanwhile (`overwritten`), the replay's
domain-less key (`collapsed`), and a death between the replay's last two writes
(`unparked`). `PassedIsAccountedFor` then says that there is no sixth way, which
is the strongest statement about loss the code satisfies. Two of the five contradict
what the documents say and are findings, each with a run of its own: `abandoned`
(`ingest_save`) and `overwritten` (`ingest_overwrite`). The others are stated here as
limits of the design. An article that `SeenCap` makes `published_urls` forget may be
published again; that loses nothing.

Abstractions: the dead letter file is a set of (article, attempt), so two equal
lines count once; a replay whose producer cannot be created changes nothing and
is no step; a line torn by a concurrent append is read as invalid JSON and
dropped, the same loss as `overwritten`; the built-in list of keywords used when
no query is active is left out, so the last active query of a provider stays
active; runs of one provider do not overlap (`max_active_runs=1`, `FileLock`).
`producer_state.json`, which `_load_seen_urls` reads, is written by no current
code: `LegacySeen` is what an old installation may have left in it.

### The clients

`Producer` takes a fetch as one step that returns what there is, or fails.
`NewsClient` opens that step: the queries, or the feeds, of one run are futures of a
pool (`StartFetch`), a Naver fetch goes through its pages (`RequestPage`) until one
ends at or before the timestamp, is short, or was the last allowed one (`capped`),
and the generator yields futures in the order they end (`YieldResult`). Between
two pages the listing may gain or lose an item, so that an item moves to another
page (`Index`, `Unlist`). A request that fails keeps the pages before it, an item
that cannot be normalised throws them away. `RowByText` and `FromTimestamp` are
the dictionaries of `_iter_articles` keyed by the query's text: of two rows with
one text, the last one's timestamp serves both. HTML stripping and feed formats are
left out.

### The streaming sink

`write_to_sinks` is a sequence of ten steps (`Steps`). Each JDBC append and each
upsert-and-truncate transaction is a step; Spark's offset log is `planned`, its
commit log `committed`. An append commits per partition, so a failed one leaves
any subset of its rows. A failure anywhere ends the query (`down`), and the
container restarts it (`restart: unless-stopped`): the last planned batch runs
again, with the messages it had and the dictionary of the day.

The tokenizer is the constant `Mentions[message][dictionary][keyword]`: which
keywords a text yields is data here. A staged row carries the batch and attempt that
wrote it, so that equal rows of two attempts stay two in a set, as they are in the
table.

On the cluster that `docker-compose.yml` starts, Spark repeats a failed task. If the
task's partition had been committed by then, its rows are staged twice and the job goes
on: `RepeatTask` counts a failure, leaves rows of the attempt so far in staging, and
runs the append again. The constant `TasksRepeat` is FALSE for `spark_master=local[*]`,
where a task is not repeated. `failures` counts both, failures of the job and tasks that
failed after they had written.

Abstractions: an article has one event time and so one window, although the upsert of
the news takes the `published_at` of a message that is delivered again; a batch is
tokenized with one dictionary, although each Python worker of Spark refreshes caches of
its own, so that one batch can mix two; `article_keywords` is persisted when it is first
used, and an executor that is lost later, whose part of it is computed again, is left
out; `startingOffsets=latest` means that the topic starts at the first planned offset;
what makes a batch fail at every restart (a value longer than its column) is excluded by
the bound on failures; of two staged payloads with equal `ingested_at` either may win,
and equal payloads in `stg_news_raw` are one, since the upsert picks one of them.

`StreamSink!Delivery` is `AtLeastOnce` with `committed` as the acknowledged offset
and `newsRaw` as what is stored: batches, attempts and staging are gone, and what
remains is that messages are taken in any number of times from the last
acknowledged offset, and are stored before the offset passes them.

### All writers of the analysis tables

`Backfill` is one transaction of several statements, of which under READ COMMITTED each
sees what others committed before it; `OwnView` is what it sees of its own rows. Its
steps are the selection, each article that is tokenized, `ReplaceKeywords` (the DELETE
and INSERT of the keywords and the DELETEs of trends and relations, four statements taken
as one), each window that is recounted, and the commit. Others see nothing of it until `CommitBackfill`. A row it has inserted,
deleted or updated is in `bfLocks`; a statement of the streaming job on such a row
waits (`UpsertBlocked`).

`Maintenance` adds `create_stopword`: the word is inserted in one transaction and the
word's rows are deleted in a second one, of several statements. If that one comes
to a row of the backfill it waits (`waiting`), and `CleanedBy` says which table
still loses the backfill's new rows when it goes on: the statement that waited
re-reads the rows it had found, and does not see those put in their place; the
statements behind it see them. The deletion is one step, but a row that comes up, or
comes back, behind the statement of its table survives it: `Missable` are the rows this
can happen to, and any of them may be missed. The statements on the staging tables come
last and are taken together, and a deletion that waited for a backfill that is rolled
back starts over.

Where two of the three cross, aggregates can be left without keywords. `crossed`
records it, and TLC shows each of its cases to be needed: a deletion while a batch
holds counts of the word, or one that misses rows; a commit of the backfill with a
deletion waiting, with tables changed since it took its locks (`disturbed`), or with a
batch or staged rows in flight.

`gone` records the words deleted, with none of their rows missed, when nobody held counts
of them. A word leaves it when a process begins to work without it: when a request takes
it from the tables, or when the job or the backfill loads a dictionary that lacks it
(`StillGone`). What a process loads is `Loadable`: the tables, or, when
`_get_stopwords` cannot read them, the same compounds with the default stop words
(`WithDefaults`). Such a word really comes back, by the rerun of a batch or by the
backfill: `StopwordStaysOut` says that there is no other way. `_get_stopwords` asks for
the language `ko` only, so `CreateStopword` may leave the dictionary as it was: then the
rows are deleted, and the word is not gone.

Abstractions: the streaming job relates two keywords in the order of their rank and
the backfill in that of the alphabet, which the model keeps; a deadlock that
PostgreSQL resolves is a roll back; the deletion of `keyword_events` is left out, as
no writer of this module reads them; an empty table of stop words, for which the tokenizer
takes the default ones too, does not occur, as the migrations fill it.

### Event detection

Time advances in units of five minutes scaled down (below). A window is
identified by its start. `WriteTrend` is any change of a row of `keyword_trends`
by the job or a backfill, removal included, of a window that has begun. A run
reads the rows with `since <= window_start < until`, and replaces: it deletes the
events with `since <= window_end < until` and upserts what it detected. The DAG
triggers the latest ended interval (no catchup), one run at a time, and repeats a
failed task once; the task may fail before its transaction or after it.
`covered`, `changed` and `changing` are history: the last replacement's `until`
and the rows written since, or while, its run read. Scores are left out: no
decision depends on them. Growth is compared in integers (`100 * (current -
previous) >= percent * previous`). A manual run for an old interval is left out.

### The dictionary

A candidate is a row (word, domain) of `compound_noun_candidates` with what the
jobs look at: status, counts, last verdict, who reviewed, and whether it was seen
since it was checked (`last_seen_at > auto_checked_at`). Three jobs work on it,
and each reads, works for minutes, and writes what it concluded from its reading;
the model cuts them there:

* the extraction (`Extract`, then `UpsertDomain` per domain) counts the compounds
  of the articles stored within its window. Texts are data here:
  `Occurrences[article][word]`. `last_seen_at` is the time at which the call began, and
  so may be `late`: older than a verdict that was written meanwhile. Whether an article stored exactly one window ago
  is still in it is left open, as it depends on the run's minute;
* the reviewer (`FetchForReview`, then `Judge` per candidate) takes the `ReviewLimit`
  candidates with the highest counts (`Outranks`; 2000 in the DAG, and what
  `last_seen_at` decides between equals is left open), asks the web search (`Answers`)
  and decides as `decide_candidate` does, the rounding of the rate
  included. Its writes name the status in their `WHERE`;
* the approver (`FetchForApproval`, then `Approve` per candidate) asks the
  encyclopedia and writes by id. What it does when the word is unknown asks for
  the status `pending`, which the schema no longer has: nothing.

`AdminReview` is the button of the dashboard: by id, whatever the status, and
with the domain `all`, since its `RETURNING` list has no domain. `FailJob` is a run
that dies; the extraction is then due again.

Every statement on a dictionary bumps its version (`WriteCompound`): the trigger
runs for each row. A worker holds `cachedVersions` and two `lru_cache`s, one entry
per domain. `tokenize` is cut into the version check and its three lazy loads
(stop words, compounds of the domain, compounds of `all` for the longest one), as
the tables may change between any two. A check may be skipped (interval) or fail,
a load may fail and fall back. `unversioned` is history: it says that a cache was
filled before any version was known, or from a fallback. In these two ways, and
no other, a worker keeps old words although its versions are current.

A stop word candidate goes through fewer hands. A run of the recommender scores
words (`ScoreWords`; which ones is left open), reads the dictionary and then the
decided candidates to exclude them, and upserts the rest in one transaction; two
runs may overlap, the DAG's and one from the dashboard. Approving a candidate
inserts the word and, unlike `create_stopword`, deletes no keyword data.

Abstractions: for the caches the operations on stop words are one action that
changes a row (`Maintenance` has `create_stopword` itself); the audit log is written in a transaction of its own and read by nothing modelled; the
approver's limit of 200 candidates and its order are left out, as nothing is promised
about whom it reaches; a rerun of the reviewer on what it checked three days ago may happen any
time; an article that is delivered again gets no new `ingested_at`; the caches'
capacity of eight domains is not exceeded.

### The dashboard

The overview runs three statements and derives its totals from cached buckets;
the KPIs run two. Each statement has a snapshot of its own, so writers act between
them. `Requests` fixes what a request asks for; the cache reaches back behind the
fetch window by its own length, and the previous period is the equally long one
before the requested one. The two series are one statement each, with bucket
arithmetic that is modelled as it is: `get_trend_series` ASSIGNS the value of a
bucket, so of two windows in a bucket the later one stays, and
`get_trend_window_series` selects by `published_at` alone. One source and domain
stand for the filters; `names` stands for the parameter `keywords`. An article that is
delivered again replaces the row of its key (`KeyOf`), dates included, and so can leave a
period, or come into it, while a request runs. The overview's search filter and its final
`keywords[:limit]` are left out, which cut the list that is shown and none of the totals;
so are spike counts, related keywords, themes, articles and the system status.

The service accepts a period that is not in the fetch window, and then shows what of
it is. The dashboard's client asks for a period in its fetch window, but for a
tolerance (`src/src/dashboard/src/app.tsx:226`). `Covered` is that condition: the lower
bounds of `PeriodCounts` and `OverviewMentions` have it as a hypothesis, the upper bounds
hold without it.

## 3. Runs

| Run | Result | Distinct states |
|---|---|---|
| `ingest` | pass, with liveness | about 709 thousand |
| `ingest_overwrite` | `DeadLetterIsNotThrownAway` is violated | |
| `ingest_save` | `NoneAbandoned` is violated | |
| `fetch` | pass, with liveness | about 113 thousand |
| `sink` | pass, with liveness and refinement | about 158 thousand |
| `sink_trends` | `TrendCountsItsWindow` is violated | |
| `backfill` | pass | about 622 thousand |
| `events` | pass | about 535 thousand |
| `dictionary` | pass, with liveness | about 249 thousand |
| `dictionary_counts` | `DocCountIsOfArticles` is violated | |
| `dictionary_rejected` | `RejectionBlocksDictionary` is violated | |
| `serving` | pass | about 1.09 million |

All configurations set `CHECK_DEADLOCK FALSE`: runs, failures, edits and time are
bounded, and when the bounds are used up the model stops, as a pipeline that
nobody schedules any more would.

**ingest.** Two queries of naver, replays in any number, two attempts, `SeenCap` 1, a
flush that may time out. A behaviour takes one of three courses (`Courses` of `MCIngest`),
each with the articles that are published and the bounds: a url found in two domains
(`x1`, `x2`, one replay key) and one death of a run or of a replay; an article with an
invalid payload beside a valid one, and one death; and two runs with one edit of the
queries between or during them (so a query loses its timestamp, comes back and takes the
fallback) and an article that an ok fetch may leave out. So every cause of `drops`
occurs, with the replay reading, sending and rewriting at any moment of a run. The courses
are apart because together they add no way for an article to be lost: two articles are
enough for one that is overwritten, collapsed or parked while another is being
published. `EventuallySettled` says that when the runs have ended the dead letter file
becomes and stays empty, on each course. But for the liveness property, proved for every
instance in `IngestPipeline_proofs`.

**fetch.** Either one query active in two domains, or one feed; four items, of which
one is old, two have one url (one of them without a date) and one cannot be
normalised; pages of two items, two of them, so that early stop, short page and
capped fetch occur; two threads; any timestamps, any listing, and one change of
it at any moment. One change moves items by one place, which is all a page bound
can tell apart. `OkIsComplete` is proved for every instance in `NewsClient_proofs`.

**sink.** Messages `m1` and `m2` of one article, in one window with `m3` of
another, `m4` in another window, and one that does not parse; two messages in the
topic, in any order and repetition, in one batch or two; two failures, of the job at any
step or of a task that had written, appends that wrote any part; one dictionary edit, under which a text yields
other keywords. Two messages are enough for each pair that can interfere: same
message twice, two payloads of one article, two articles of a window, two windows.
Two failures let a rerun fail as well. But for the liveness property, proved for
every instance in `StreamSink_proofs`.

**backfill.** Two articles in one window, one message of each, and three dictionaries:
without and with a compound, and with a stop word. Two messages, one failure of the
job or of a task, one backfill and one request that changes the dictionary tables: a
behaviour takes one of four courses (`Courses` of `MCMaintenance`), each without one of
these (one message instead of two in the first), and one refresh of the job's dictionary
on all. The default stop words are none, so that a word can
be lost by a failed read, of the job or of the backfill. Two articles are enough for a
window that one writer replaces while another has a part of it, and each pair of
writers crosses in every order on one course at least, beside a failure or a second message; a second
domain without articles tests the deletion's scope.
Proved for every instance in `Maintenance_proofs`.

**events.** One keyword: the job treats keywords apart, and the deletion does not
look at them. Windows of 2 units, a run every 3, a lookback of 8 and 9 units of
time give runs whose lookback boundaries fall on a window start, within a
window, and on its end, at either end of the lookback. In the code it is windows of 10 minutes, runs every 15 and
24 hours: the same ratio of window and interval, so the same alignments. Counts 0,
2, 5 and 7 lie on both sides of the thresholds 5, 15 % and 40 %. Three writes: one
for a window, one for its predecessor, one late.

**dictionary.** One compound in two articles of one domain, three occurrences in
each, a window of two intervals and two intervals of time: the word passes the
minimum frequency of 3 in one article, reaches the reviewer's thresholds (3
documents, 5 occurrences) only by several runs, and is decided before, during and
after them. One job dies. One word is enough for that: every action of the jobs but the
reviewer's reading touches one row, and reads only that row and the dictionary's rows of
its word. For the reviewer's reading there are two compounds in one article, of which one
is found more often, and runs that take one candidate (`ReviewLimit` 1): the other waits
behind one that comes back because it is seen again, or because its search failed.
Whether a candidate is taken depends on how many are ahead of it, so a limit of one and
two candidates show what 2000 and more would.

On the worker's side the domains are `ai` and `all`, three versions of each table, one
failed read or restart. The recommender has two runs, two scores and one word.
`MCDictionary` runs one of four sides: the jobs on compound candidates, with one word or
with the queue of two, the recommender, or the worker, each beside administrators. No
writer reads a cache, the two kinds of candidates share no row, and all that a worker sees
of the jobs is rows of the tables, which administrators write as well. The interleaving of
the sides would multiply the states and adds no behaviour of any. But for the liveness
properties, proved for every instance and the full composition in `Dictionary_proofs`.

**serving.** Three articles around the bounds of the fetch window, one undated, two
windows, two keywords (symmetric) and `LIMIT` 1; a second version of one article, with
another date; requests of each kind, with periods
and buckets that do and do not fit each other, and a period that reaches behind the
fetch window; any contents of the tables and one
change between two statements. A total is disturbed or not by a single row, so one
change is enough. Proved for every instance in `Dashboard_proofs`.

### Properties

| Property | What it says, and what it would take to break it |
|---|---|
| `PassedIsAccountedFor` | An article a saved checkpoint has passed is in the topic, the dead letter file, the permanent file or a run's hands, or left by one of the five causes. |
| `SkippedIsAccountedFor` | The same of the articles `published_urls` makes later runs skip. |
| `ParkedOnlyWhenSpent` | No valid record is parked with an attempt left. |
| `CheckpointNeverMovesBack` | No run, failed fetch or edit takes a query back. |
| `EventuallySettled` | Retries end, and leave nothing in the dead letter file. |
| `OkIsComplete` | An ok result has each dated article that was listed at the start of the run and is newer than the timestamp of the key it is saved under, but for capped fetches and listings that lost an item. |
| `EveryRowYields` | Whatever fails, each query of a run yields a result. |
| `CommittedNewsIsStored`, `CommittedKeywordsAreStored` | Once its offset is committed, a message's article is in `news_raw` and its keywords are in `keywords`, as some dictionary in force splits them. |
| `NothingLeftInStaging` | No batch hands staged rows to the next. |
| `KeywordsNeverInflated` | A stored count is at most what the messages of the article in the topic mention, however often the batch failed. |
| `BackedByKeywords` | A trend or a relation is in its table only if keywords of its window are. |
| `TrendsInflatedOnlyByFailures` | A trend exceeds the mentions of the messages in its window by one attempt's worth per failure at most, of the job or of a task that had written. |
| `EventuallyStored` | Every usable message is stored in the end. |
| `IsAtLeastOnce` | The job with its batches, failures and reruns implements `AtLeastOnce`. |
| `StopwordStaysOut` | A word deleted when nobody held it comes back neither by the rerun of a batch that had staged it nor by a backfill, until a process works without it as a stop word. |
| `BackedUnlessCrossed` | `BackedByKeywords` with all writers, but where two of them crossed. |
| `RecountIsExact` | A backfill leaves its windows as their keywords add up to, old rows included, unless the tables changed while it wrote. |
| `EventsMatchTrends` | Between runs, the events of the windows a run has both deleted and recomputed are exactly what the trends call for. |
| `QualifyingRowsHaveEvents` | A trend of five or more has its event after the first run that reads it. |
| `RerunChangesNothing` | A rerun with the same `until` changes nothing unless the trends changed. |
| `PreviousLostOnlyAtTheEdge` | While the trends rest, an event gets another predecessor only when every earlier row has left the lookback. |
| `CountsSupportVerdict` | Every counted document has the word, and a verdict of high confidence rests on counts of 3 and 5, whatever was added between the reviewer's read and its write. |
| `DecidedStaysDecided` | No job reopens a decided candidate, or adds to its counts, however old its reading. |
| `ReviewerRespectsDecisions` | The reviewer replaces no decision made while it was searching. |
| `EveryCandidateIsJudged` | A candidate nobody looked at gets a verdict, and one whose search failed is taken again, also if runs die; only a run's worth of candidates with counts as high keeps either waiting. |
| `CurrentVersionMeansCurrentWords` | Equal versions mean equal words, in every domain and cache, but for `unversioned`. |
| `WorkerLearnsOfChanges` | Once the tables rest, a worker that articles go on coming to holds their versions. |
| `DecidedStopwordsStay` | A stop word candidate keeps decision and score against runs of the recommender that looked for decided words before. |
| `PeriodCounts` | The totals of the overview are those of the period and the one before it, each between what was there all the time and what was there at any time since the request began; a bound within a bucket moves them by that bucket's part. Both totals of the KPIs count one and the same state of the table in between, each its own period. |
| `OverviewMentions` | The same of the mentions of each keyword shown. |
| `SeriesAreComplete` | A series loses nothing at either end, and nothing inside if its buckets are no longer than a window. |

Each has a mutant in `PROJECT.json`: a faulty variant of one definition, kept
beside it, under which TLC finds the property violated.

### Findings

1. `ingest_overwrite`: a dead letter appended during a replay is deleted unread.
   `README.md:125` says that failed messages are not thrown away.
2. `sink_trends`: a window that two batches share keeps the second one's count.
   `README.md:432` says that the table holds the mentions per window.
3. `ingest_save`: the state is saved before the producer is flushed, so an article of a run
   that dies between the two, or whose delivery is not settled when the flush times out,
   is passed by its checkpoint and skipped as published, and is in no file.
   `docs/design_final/Q2_KAFKA_INGESTION.md:71-72` draws the flush before the save.
4. `dictionary_counts`: the windows of the extraction overlap, a run that is repeated counts
   again, and each adds its counts to those that are there, so `doc_count` exceeds the
   number of articles with the word, and the reviewer approves words of one or two.
   `docs/develop/PREPROCESSING.md:341` and `docs/design_final/Q3_AIRFLOW_DAG.md:457` say that
   it is the number of articles.
5. `dictionary_rejected`: the approver overwrites a rejection made after it read the
   candidate, and inserts the word. `src/api/routers/dictionary.py:115` says that a
   rejection blocks the registration.

Seen on the way and stated here without a run of its own:

* A trend can be too high as well, in two ways, although `README.md:462` says that putting
  in the same data again does not duplicate results. The rows a failed append of trends
  has left in staging are summed with the rerun's, and so are those a repeated task
  writes twice: `TrendsInflatedOnlyByFailures` says how far that goes. And a message that
  is twice in one batch is counted twice.
* `prev_mentions` of an event becomes 0, and its growth 100 %, when its predecessor
  leaves the lookback; `docs/design_history/STEP4_ANALYTICS.md:133` says that it is
  the preceding window's. `PreviousLostOnlyAtTheEdge` bounds the effect. The same
  boundary deletes, and does not recompute, the events of windows that begin before
  `since` and end after it.
* `get_trend_series` shows the last window of a bucket, so the presets of 6 hours,
  12 hours and a day (buckets of 30, 60 and 120 minutes) over windows of 10 minutes
  show a part of the mentions. `SeriesAreComplete` therefore asks for buckets no
  longer than a window.
* The staging tables are `UNLOGGED`: a crash of PostgreSQL between an append and its
  upsert empties them, and the upsert then stores nothing and succeeds. The crashes of
  the model are those of the job.
* The reviewer takes the candidates with the highest counts first, and rows that are seen
  again, or whose search failed, are due again in the next run. 2000 of them with counts
  as high keep a candidate from ever being judged (`CrowdedOut`); no document says
  otherwise.
* A replay that dies between a send and its rewrite sends the record again, although
  `docs/design_final/Q3_AIRFLOW_DAG.md:279` speaks of a record that prevents it
  (`dead_letter_replayed.jsonl` is never read).

## 4. Fairness

*Ingest.* Weak fairness of each provider's run steps, of the Kafka client's
callbacks and of the replay, within the bounds of the course (`CourseFairness`). A started process goes on; the scheduler starts the
DAGs every 15 minutes; the Kafka client settles each message within its delivery
timeout. Nothing is assumed about which outcome occurs: retries end because
attempts are counted, not because a broker comes back. That the replay runs at all
needs a broker that can be reached at last, since a replay without one returns at
once. No fairness is given to crashes, the news, or edits.

*Fetch.* Weak fairness of the client's steps as a whole: every request has a timeout,
and the run asks for results until there is none. No outcome is assumed.

*Sink.* Weak fairness of the job's steps as a whole: the container restarts after
a failure and the query goes on. Failures are finitely many (`MaxFailures`).

*Backfill, serving.* None: what they promise is about what is written or shown.

*Events.* No liveness is stated: whether a trend is ever detected depends on a
clock the model bounds.

*Dictionary.* Weak fairness of the reviewer's reading and of its judging: its DAG is
scheduled every 15 minutes and a run goes through its list; deaths are bounded.
Weak fairness of `tokenize`: a worker that has an article finishes it. Strong
fairness of a version check that succeeds: articles keep coming and the interval
passes, but the check is possible only between two articles. None of the
extraction, the approver, the recommender or administrators. `MCDictionary` asks each of these of the
side that takes steps, as the other side's actions stay enabled and never occur.

## 5. Proofs

`tlapm` checks the modules named `..._proofs` with SMT, Zenon and LS4. Every safety
property the runs check is a theorem there, for every value of the constants; liveness
is not (below).

**Assumptions.** They are those of the modules, stated beside the constants and evaluated by TLC on
every run: types of the constants, and finiteness of the sets whose
members are counted or summed, which are finite in the program because tables, logs and
files are (`Articles`, `Keywords`, `Dictionaries`, `Items`, `WindowStarts`). Nothing is
assumed about sizes. Those that say more:

* `DashboardAssumption`: windows of the trends do not overlap (their starts are at least
  `WindowLength` apart), as they come from Spark's tumbling `window`; and a request's
  fields have their types, which `_window_bounds` and the query parameters of the router
  ensure. A request beyond the limits is in `Requests` and is refused by `Accepted`.
* `ClientAssumption`: the rows of a run are a sequence, pages have at least one item,
  the pool has at least one worker.
* `BackfillAssumption`: that a process that cannot read the stop words works with a
  dictionary, some `WithDefaults[d]`.
* `MaintenanceAssumption`: no text yields a stop word of the dictionary it is split with, which
  `tokenize` filters out last.
* `NoMessage`, `NoEvent`, `NoCandidate`, `NoVersions`, `NoRequest`, the values that stand for
  nothing there, are none of the things.

**Sums.** `Sums_proofs` says of `SumFunctionOnSet` what the other modules need: it is a
natural number, grows with its set and its function, splits over disjoint parts
(`SumOfParts`) and over elements, ignores zeros. The induction theorems
of the library take an operator, which the provers cannot instantiate, so induction
over a finite set is stated with a set of sets (`FiniteInductionSet`): what holds of
the empty set, and of `T \union {x}` when it holds of `T`, holds of every finite set.
That is a minimal counterexample in the well-founded natural numbers. Maxima
and minima of finite sets (`FiniteMax`, `SmallestExists`) are proved the same way.

### Collection

* `TypeCorrect`: the conjunction of the three type invariants is inductive.
* `PassedAccounted`, `SkippedAccounted`, `ParkedSpent`: `PassedIsAccountedFor` is
  not inductive. A checkpoint is saved from `outcome`, so what a query's loop has
  done must be remembered until then: `LoopInv` says that everything a finished ok
  query will pass, and everything in `seen`, is accounted for or in the run's
  hands, and of a query being published everything but `pending`. That a rewrite
  loses nothing needs `BatchInv`: each record already taken from the replay's
  batch went to the topic, to `remaining`, to `hopeless`, or was skipped.
  `AccountInv` is the conjunction, and one lemma per action shows it preserved.
* `CheckpointForward`: from `ClockInv`, timestamps are no newer than the start of
  the run in progress, which is no newer than the world.

### Clients

* `OkHoldsAllNew`: `ClientInv` says what a fetch in progress has. `ListingInv` keeps the
  listing in order and ties it to `atStart`; `Wanted` is what the fetch must bring of it;
  `FetchInv` says that what is wanted is in the pages read or still behind them, as
  an inserted item moves the others to later pages only. A page
  that ends the loop ends on an item no newer than the threshold, so the order of the
  listing leaves nothing wanted behind it; a short page is the last. Filtering a page
  (`Passing`) is a recursive function, of which the proof shows by induction on the
  length that it keeps each item newer than the threshold.

### Streaming sink

* `CommittedStored`: `SinkInv` ties the step of a batch to what is already done:
  after `upsertNews` every message of the planned batch is stored, and a stored
  row is never removed; commit only moves `committed` up to `planned`. The upsert
  needs that a staged article has a row of rank 1, that is, a maximum of
  `ingested_at` over a finite set.
* `CommittedKeywords`: `CommittedInv` says that the batch in hand is what its messages
  mention under one dictionary (`BatchIsInHand`); what is in hand passes to
  staging and from there to `keywords` (`BatchPassesOn`). The upsert may take the row an
  earlier attempt left, with another count, but it stores one, and removes none.
* `StagingLeftEmpty`: the staging tables already truncated stay empty until the
  commit; those before the current step may hold leftovers.
* `KeywordsBounded`, `TrendsBounded`: `CountsInv` bounds what is in hand, each staged row and
  the tables by what the tokenizer can make of the messages in the topic. The upsert of the
  keywords stores one row; that of the trends sums the rows of a key, of which there is
  one per attempt at most (`RowsInv`), a repeated task being an attempt of its own, and so at
  most `1 + failures` times the bound. That
  the mentions in hand of a window's articles add up to no more than the topic's needs
  sums over disjoint sets of offsets.
* `TrendsAreBacked`: `EvidenceInv` says that what is in hand has been stored in `keywords`
  before trends and relations are staged (`BatchPassesOn`), so that each staged row is
  backed (`StagedIsBacked`), leftovers of failed attempts included.
* `AtLeastOnceImplemented`: under `SinkInv` each step maps to a step of `AtLeastOnce`
  or a stutter. The upsert of the news is `Store(planned)`: the articles with a
  message in the planned batch are those with a staged row, and the row chosen is
  one of theirs. The commit is `Acknowledge(planned)`, which needs that the upsert
  happened before and no row left since.

### All writers

* `TypesOfAllWriters`: `WritersInv` is `SinkInv` and `RowsInv` beside the other writers,
  with what a backfill holds at each of its stages (`BackfillStages`).
* `BackfillRecountsExactly`: `RecountInv` says that, as long as nobody else wrote
  (`disturbed`), its locks are the rows that are there and its counts are those of the
  windows already recounted, of its own view. `CountedIsStored` is needed because the
  recount joins `news_raw`: keywords of an article that is not stored would be missed.
* `BackedBesideWriters`: `EvidenceInv` is inductive beside the backfill and the deletion
  too, as long as they did not cross (`EvidenceUnlessCrossed`). Each case of `crossed` is
  used by the lemma of the action that sets it; a deletion that misses nothing is one that
  removes all rows of the word (`AllRowsGo`).
* `GoneStaysOut`: `GoneInv` says that a deleted word is a stop word for the job, for the
  tables and for a running backfill, and that no staging table, attempt or
  backfill holds it. Staged rows count here as much as stored ones. Whatever is
  tokenized is tokenized with a dictionary that still has the words of `gone`, because a
  process that loads another one takes them out (`StillGone`); so the failed reads are
  part of the theorem, and not assumed away.

### Events

* `EventsMatch`, `QualifyingHaveEvents`, `RerunIsIdempotent`: what the last run found must
  be tied to what the table holds. `RowsInv` says that rows read and not written
  since (`changing`) are still there; `EventsInv` that the windows of the last run
  hold its detections, and that windows it deleted without reading hold nothing.
  A replacement from unchanged rows detects the same (`DetectedSame`); that the
  predecessor of a window exists is the maximum of a nonempty bounded set (`MaxOf`).
* `PreviousLost`: an event another run changes was in that run's windows as well, as there are none
  ahead (`NoneAhead`), so both detections are known. If the later lookback sees any
  earlier row it sees the latest one, and the predecessors are equal (`PreviousStays`).

### Dictionary

* `CountsSupport`: `CountsInv` adds what the jobs hold: the counts a reviewer read are
  of a row that exists and has at least them, for rows are never removed and counts
  never shrink (`Grown`). A verdict from stale counts is then supported by the row
  it is written to. That every counted document has an occurrence is a statement
  about cardinalities: the map from mentions to their articles is onto.
* `CacheCurrent`: `CacheInv` says that a worker's versions are at most the tables'
  and that without versions and without `unversioned` its caches are empty. A write
  makes a version larger than any worker's, so equal versions mean that no write
  came since, and each load read the tables as they are.
* `DecidedStays`, `ReviewerRespects`: one lemma (`DecidedStep`) on what each action
  does to a decided row.
* `DecidedStopwords`: what the upsert's condition on the status does to a decided row,
  and that no other action of the recommender writes one.

### Dashboard

* `CountsOfPeriods`, `MentionsOfOverview`: a result that is read is one of the tables at
  some instant since the request began (`ReadInv`). What was there all the time (`atStart`,
  which loses an article whose row is replaced) was in the table then, and what was in
  it then is in `since`; so a total lies between the two, and for the KPIs both totals
  are those of that one table. Keyword rows replaced with other counts are why
  `OverviewMentions` excludes `disturbed`. Every cached article is in one bucket and the
  buckets are disjoint, so a sum over buckets is a sum over the articles of the
  span (`MentionsAddUp`, `PeriodAddsUp`), and a span differs from its
  period by less than one bucket at an end (`Slack`).
* `SeriesLoseNothing`: the same for the series, with buckets from the start of the period up to its
  end rounded up (`BucketNumbers`). For the trends it needs that a bucket no longer than a
  window has one window at most, of those that do not overlap.

### Checked by TLC only

`EventuallySettled`, `EveryRowYields`, `EventuallyStored`, `EveryCandidateIsJudged` and
`WorkerLearnsOfChanges`: liveness under fairness, which the provers here
do not reach. The five findings are counterexamples, which TLC finds.

## 6. Not modelled

* `merge_compound_nouns`, the cleaning of texts and the counting of compounds
  (`_extract_candidates`): functions on strings, of which the models take the result as
  data; the repository tests the first two with examples. The statistics of the recommender:
  which words pass its threshold is left open.
* Query administration beyond activation (`ToggleQuery`): creation, audit log, and the
  call that makes Airflow run a DAG.
* The Kafka recovery DAG: a sequential script an operator starts, around a
  container that is external. It keeps no state, and nothing in the repository
  runs beside it. Partition maintenance: a call of pg_partman.
* The API routers (they parse and delegate), the remaining dashboard queries
  (single read-only statements), the React code.
* Crashes of PostgreSQL and Kafka themselves. The models use what the code relies on:
  ordered offsets, atomic transactions, a topic that keeps what it accepted.
* Manual runs of jobs beside their DAGs, except for the recommender, which the
  dashboard offers.
* Migrations, infrastructure scripts, `kafka_monitor.py`, `spark_job_annotated_ko.py`
  (an annotated copy), `aggregate_keyword_trends` and its siblings in
  `storage/news_db.py` (called by nothing).

What could follow: a theorem for `Maintenance` that its job implements
`AtLeastOnce` beside the other writers, and the refinement of `Producer`'s fetch
step by `NewsClient`.
