---------------------------- MODULE IngestCommon ----------------------------
(***************************************************************************)
(* What the ingestion components share: providers, the queries they poll,  *)
(* the articles a query can find, the Kafka topic and the dead letter file.*)
(*                                                                         *)
(* An article stands for one (provider, domain, url) triple, the key the   *)
(* producer deduplicates on.  A point in time is the set of articles       *)
(* published by then: the program only ever compares timestamps of         *)
(* articles and of runs, and those sets are nested as the instants are     *)
(* ordered.                                                                *)
(***************************************************************************)
EXTENDS Naturals, FiniteSets

CONSTANTS
  Providers,          \* "naver" and "rss": one ingest DAG each
  Queries,            \* domain::query rows of naver, feed keys of rss
  Articles,           \* (provider, domain, url) triples
  ReplayKeys,         \* provider::url, the key replay.py deduplicates on
  ProviderOf,         \* the provider that polls a query
  Found,              \* the articles a query matches
  ReplayKeyOf,        \* the replay key of an article
  Invalid,            \* articles whose payload NormalizedNewsArticle refuses
  FallbackProviders,  \* providers whose new queries start from the newest timestamp
  FetchGaps,          \* articles an ok fetch may leave out (late index, page cap)
  LegacySeen,         \* keys in producer_state.json, which no current code writes
  SeenCap,            \* how many published_urls are kept (5000 in the code)
  MaxRetryAttempts,   \* MAX_RETRY_ATTEMPTS of replay.py
  MaxCrashes          \* bound: deaths of processes, producers and replay together

ASSUME IngestDataAssumption ==
  /\ IsFiniteSet(Articles)
  /\ ProviderOf \in [Queries -> Providers]
  /\ Found \in [Queries -> SUBSET Articles]
  /\ ReplayKeyOf \in [Articles -> ReplayKeys]
  /\ Invalid \subseteq Articles
  /\ FallbackProviders \subseteq Providers
  /\ FetchGaps \subseteq Articles
  /\ LegacySeen \subseteq ReplayKeys
  /\ SeenCap \in Nat
  /\ MaxRetryAttempts \in Nat \ {0}
  /\ MaxCrashes \in Nat

VARIABLES
  topic,        \* articles with at least one message in the Kafka topic
  deadLetter,   \* dead_letter.jsonl
  drops,        \* history: the articles the pipeline let go of, with the cause
  crashes       \* process deaths so far

sharedVars == <<topic, deadLetter, drops, crashes>>

QueriesOf(p) == {q \in Queries : ProviderOf[q] = p}

\* One line of dead_letter.jsonl.  Two lines of one article and attempt differ
\* only in when and why they were written, which nothing reads.
DeadLetterRecord == [article : Articles, attempt : 1 .. MaxRetryAttempts]

ArticlesIn(lines) == {rec.article : rec \in lines}

(***************************************************************************)
(* Why an article a checkpoint has passed may be nowhere:                  *)
(*   missed      an ok fetch did not return it                             *)
(*   abandoned   its run ended, after saving, before the delivery was      *)
(*               settled and written down                                  *)
(*   overwritten its line was appended while a replay was running          *)
(*   collapsed   a replay took it for another domain's copy of the url     *)
(*   unparked    a replay ended between its two last file writes           *)
(***************************************************************************)
DropCause == {"missed", "abandoned", "overwritten", "collapsed", "unparked"}

Because(articles, cause) == articles \X {cause}

SharedTypeOK ==
  /\ topic \subseteq Articles
  /\ deadLetter \subseteq DeadLetterRecord
  /\ drops \subseteq Articles \X DropCause
  /\ crashes \in 0 .. MaxCrashes

SharedInit ==
  /\ topic = {}
  /\ deadLetter = {}
  /\ drops = {}
  /\ crashes = 0
=============================================================================
