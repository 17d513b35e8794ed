---------------------------- MODULE KeywordStore ----------------------------
(***************************************************************************)
(* The analysis tables of PostgreSQL and what is computed from an article: *)
(* news_raw, keywords, keyword_trends and keyword_relations, written by    *)
(* the Spark job and by the compound noun backfill.                        *)
(*                                                                         *)
(* An article is a (provider, domain, url) triple; its event time, and so  *)
(* its window, does not change.  A message is one payload of an article:   *)
(* the topic can hold several of one article, with other texts.            *)
(***************************************************************************)
EXTENDS Integers, FiniteSets, FiniteSetsExt

CONSTANTS
  Articles,        \* (provider, domain, url) triples
  Windows,         \* (provider, domain, window_start, window_end) tuples
  Keywords,        \* the words tokenize can return
  Dictionaries,    \* contents the compound noun and stopword tables can have
  Messages,        \* payloads that can be in the topic
  NoMessage,       \* news_raw has no row of the article
  Unusable,        \* messages that do not parse, or have no url or event time
  ArticleOf,       \* the article of a message
  WindowOf,        \* the window the event time of an article falls into
  IngestedAt,      \* ingested_at of a message
  Mentions,        \* Mentions[m][d][k]: how often tokenize returns k
  KeywordOrder,    \* the alphabetical order of the keywords, as a rank
  RelationLimit    \* relation_keyword_limit

ASSUME StoreAssumption ==
  /\ IsFiniteSet(Articles) /\ IsFiniteSet(Dictionaries)
  /\ NoMessage \notin Messages
  /\ Unusable \subseteq Messages
  /\ ArticleOf \in [Messages -> Articles]
  /\ WindowOf \in [Articles -> Windows]
  /\ IngestedAt \in [Messages -> Nat]
  /\ Mentions \in [Messages -> [Dictionaries -> [Keywords -> Nat]]]
  /\ KeywordOrder \in [Keywords -> Nat]
  /\ RelationLimit \in Nat

VARIABLES
  dictionary,   \* the dictionary tokenize works with
  newsRaw,      \* news_raw: the message of the article that is stored
  keywords,     \* keywords: keyword_count of an article and keyword, 0 for no row
  trends,       \* keyword_trends: keyword_count of a window and keyword
  relations     \* keyword_relations: cooccurrence_count of a window and a pair

tableVars == <<newsRaw, keywords, trends, relations>>

ArticleKeyword == Articles \X Keywords
WindowKeyword == Windows \X Keywords
WindowPair == Windows \X Keywords \X Keywords

ArticlesOf(w) == {a \in Articles : WindowOf[a] = w}

\* keyword_rank of k among an article's counts: most frequent first, then by name.
Before(counts, j, k) ==
  \/ counts[j] > counts[k]
  \/ counts[j] = counts[k] /\ KeywordOrder[j] < KeywordOrder[k]

Rank(counts, k) == 1 + Cardinality({j \in Keywords : counts[j] > 0 /\ Before(counts, j, k)})

\* The keywords of an article that are paired: the relation_keyword_limit best.
Representative(counts) ==
  {k \in Keywords : counts[k] > 0 /\ Rank(counts, k) <= RelationLimit}

StoreTypeOK ==
  /\ dictionary \in Dictionaries
  /\ newsRaw \in [Articles -> Messages \union {NoMessage}]
  /\ keywords \in [ArticleKeyword -> Nat]
  /\ trends \in [WindowKeyword -> Nat]
  /\ relations \in [WindowPair -> Nat]

StoreInit ==
  /\ dictionary \in Dictionaries
  /\ newsRaw = [a \in Articles |-> NoMessage]
  /\ keywords = [row \in ArticleKeyword |-> 0]
  /\ trends = [row \in WindowKeyword |-> 0]
  /\ relations = [row \in WindowPair |-> 0]
=============================================================================
