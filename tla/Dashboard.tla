------------------------------ MODULE Dashboard ------------------------------
(***************************************************************************)
(* services/dashboard.py: requests that read the analysis tables, several  *)
(* statements each, every statement with a snapshot of its own (READ       *)
(* COMMITTED), while the streaming job and the others go on writing.       *)
(*                                                                         *)
(* Instants and lengths of time are in units that divide everything the    *)
(* dashboard offers.  One source and one domain stand for the filters,     *)
(* which every statement applies alike.                                    *)
(***************************************************************************)
EXTENDS Integers, FiniteSets, FiniteSetsExt, Functions

CONSTANTS
  Articles,      \* articles with their dates: what a row of news_raw can hold
  KeyOf,         \* (provider, domain, url), the key of that row
  Keywords,
  EventTime,     \* COALESCE(published_at, ingested_at) of an article
  Undated,       \* articles without published_at
  KeywordCounts, \* counts a keyword can have in a tokenized article
  WindowStarts,  \* the windows that can have rows in keyword_trends
  TrendCounts,   \* counts of a trend row; 0 stands for no row
  WindowLength,  \* of a trend row
  Requests,      \* requests a client may send
  NoRequest,
  Limit,         \* how many candidate keywords the overview takes
  MaxWindow,     \* API_MAX_QUERY_WINDOW_DAYS
  MaxBuckets,    \* the widest series, in buckets
  MaxChanges     \* bound: changes of the tables

Kinds == {"overview", "kpis", "trend", "window"}

ArticleKeys == {KeyOf[a] : a \in Articles}

\* The windows of the streaming job are tumbling: their starts are a length apart.
ASSUME DashboardAssumption ==
  /\ IsFiniteSet(Articles) /\ IsFiniteSet(Keywords) /\ IsFiniteSet(WindowStarts)
  /\ EventTime \in [Articles -> Int]
  /\ DOMAIN KeyOf = Articles
  /\ KeywordCounts \subseteq Nat /\ 0 \in KeywordCounts
  /\ TrendCounts \subseteq Nat
  /\ WindowStarts \subseteq Int
  /\ \A s, t \in WindowStarts : s < t => t - s >= WindowLength
  /\ WindowLength \in Nat \ {0}
  /\ \A r \in Requests :
       /\ r.kind \in Kinds
       /\ r.start \in Int /\ r.end \in Int /\ r.fetchStart \in Int /\ r.fetchEnd \in Int
       /\ r.bucket \in Nat \ {0}
       /\ r.names \subseteq Keywords
  /\ NoRequest \notin Requests
  /\ {Limit, MaxWindow, MaxBuckets, MaxChanges} \subseteq Nat

VARIABLES
  newsRaw,      \* articles in news_raw
  keywords,     \* keywords: the counts of each article's key
  trends,       \* keyword_trends: keyword_count of a window start and keyword
  changes,      \* changes of the tables so far
  request,      \* the request being served, or served last
  stage,        \* the statement it runs next
  candidates,   \* cache_keywords
  articleBuckets, keywordBuckets,  \* what the statements have returned, by bucket
  shown,        \* the answer's totals
  atStart,      \* history: what news_raw held when the request began and holds still
  since,        \* history: all it has held since
  disturbed     \* history: a row of a table was rewritten since

tables == <<newsRaw, keywords, trends, changes>>
results == <<candidates, articleBuckets, keywordBuckets, shown>>
history == <<atStart, since, disturbed>>
vars == <<tables, request, stage, results, history>>

Stages == {"candidates", "articles", "keywords", "derive", "kpis", "unique", "trend", "window",
           "answered"}
NoMentions == [k \in Keywords |-> 0]
NoAnswer == [current |-> 0, prev |-> 0, unique |-> 0, mentions |-> NoMentions]
Points(buckets) == buckets \X Keywords

TypeOK ==
  /\ newsRaw \subseteq Articles
  /\ keywords \in [ArticleKeys -> [Keywords -> KeywordCounts]]
  /\ trends \in [WindowStarts \X Keywords -> TrendCounts]
  /\ changes \in 0 .. MaxChanges
  /\ request \in Requests \union {NoRequest}
  /\ stage \in Stages
  /\ candidates \subseteq Keywords /\ Cardinality(candidates) <= Limit
  /\ \A i \in DOMAIN articleBuckets : articleBuckets[i] \in 0 .. Cardinality(since)
  /\ \A p \in DOMAIN keywordBuckets : keywordBuckets[p] \in Nat
  /\ shown \in [current : Nat, prev : Nat, unique : 0 .. Cardinality(Keywords),
                mentions : [Keywords -> Nat]]
  /\ atStart \subseteq newsRaw /\ newsRaw \subseteq since /\ since \subseteq Articles
  /\ disturbed \in BOOLEAN

StoredKeys == {KeyOf[a] : a \in newsRaw}

Init ==
  /\ newsRaw \in SUBSET Articles
  /\ \A a, b \in newsRaw : KeyOf[a] = KeyOf[b] => a = b
  /\ keywords \in [ArticleKeys -> [Keywords -> KeywordCounts]]
  /\ \A key \in ArticleKeys \ StoredKeys : keywords[key] = NoMentions
  /\ trends \in [WindowStarts \X Keywords -> TrendCounts]
  /\ changes = 0
  /\ request = NoRequest /\ stage = "answered"
  /\ candidates = {} /\ articleBuckets = <<>> /\ keywordBuckets = <<>> /\ shown = NoAnswer
  /\ atStart = {} /\ since = newsRaw /\ disturbed = FALSE

-----------------------------------------------------------------------------
(* The writers.                                                            *)

Change == changes < MaxChanges /\ changes' = changes + 1

\* ON CONFLICT DO UPDATE: an article that is delivered again takes the dates of
\* the new message.
StoreArticle(a) ==
  LET replaced == {b \in newsRaw : KeyOf[b] = KeyOf[a]} IN
  /\ Change
  /\ a \notin newsRaw
  /\ newsRaw' = (newsRaw \ replaced) \union {a}
  /\ atStart' = atStart \ replaced
  /\ since' = since \union {a}
  /\ disturbed' = (disturbed \/ replaced # {})
  /\ UNCHANGED <<keywords, trends, request, stage, results>>

StoreKeyword(a, k, n) ==
  /\ Change
  /\ a \in newsRaw
  /\ keywords' = [keywords EXCEPT ![KeyOf[a]][k] = n]
  /\ disturbed' = TRUE
  /\ UNCHANGED <<newsRaw, trends, request, stage, results, atStart, since>>

StoreTrend(s, k, n) ==
  /\ Change
  /\ trends' = [trends EXCEPT ![<<s, k>>] = n]
  /\ disturbed' = TRUE
  /\ UNCHANGED <<newsRaw, keywords, request, stage, results, atStart, since>>

-----------------------------------------------------------------------------
(* What the statements select.                                             *)

Between(articles, from, until) == {a \in articles : from <= EventTime[a] /\ EventTime[a] < until}

Mentions(articles, k) == SumFunctionOnSet([a \in Articles |-> keywords[KeyOf[a]][k]], articles)

WindowsBetween(from, until) == {s \in WindowStarts : from <= s /\ s < until}

TrendMentions(from, until, k) ==
  SumFunctionOnSet([s \in WindowStarts |-> trends[<<s, k>>]], WindowsBetween(from, until))

Trending(from, until) == {k \in Keywords : TrendMentions(from, until, k) > 0}

\* A faulty variant of TopKeywords: the statement has no LIMIT.
TopKeywordsUnlimited(from, until) == {Trending(from, until)}

\* ORDER BY mentions DESC LIMIT: no keyword outside has more than one inside.
TopKeywords(from, until) ==
  {top \in SUBSET Trending(from, until) :
     /\ Cardinality(top) = Min({Limit, Cardinality(Trending(from, until))})
     /\ \A j \in top, k \in Trending(from, until) \ top :
          TrendMentions(from, until, j) >= TrendMentions(from, until, k)}

\* date_bin(bucket, time, origin), as the index of the bucket.
BucketIndex(time, origin, bucket) == (time - origin) \div bucket

\* A faulty variant of TotalBuckets: a bucket begun at the end is left out.
TotalBucketsRoundedDown(from, until, bucket) == Max({1, (until - from) \div bucket})

\* max(1, ceil((until - from) / bucket))
TotalBuckets(from, until, bucket) == Max({1, (until - from + bucket - 1) \div bucket})

Buckets(from, until, bucket) == 0 .. TotalBuckets(from, until, bucket) - 1

InBucket(articles, origin, bucket, i) ==
  {a \in articles : BucketIndex(EventTime[a], origin, bucket) = i}

-----------------------------------------------------------------------------
(* A request arrives.                                                      *)

\* _window_bounds, for the period and for the fetch window, and the checks of
\* get_trend_window_series.
Accepted(r) ==
  /\ r.start < r.end /\ r.end - r.start <= MaxWindow
  /\ r.kind = "overview" => r.fetchStart < r.fetchEnd /\ r.fetchEnd - r.fetchStart <= MaxWindow
  /\ r.kind = "window" => TotalBuckets(r.start, r.end, r.bucket) <= MaxBuckets

FirstStage(kind) == IF kind = "overview" THEN "candidates" ELSE kind

Receive(r) ==
  /\ stage = "answered"
  /\ Accepted(r)
  /\ request' = r
  /\ stage' = FirstStage(r.kind)
  /\ candidates' = {} /\ articleBuckets' = <<>> /\ keywordBuckets' = <<>> /\ shown' = NoAnswer
  /\ atStart' = newsRaw /\ since' = newsRaw
  /\ disturbed' = FALSE
  /\ UNCHANGED tables

Proceed(from, to) ==
  /\ stage = from
  /\ stage' = to
  /\ UNCHANGED <<tables, request, history>>

-----------------------------------------------------------------------------
(* get_dashboard_overview.                                                 *)

\* A faulty variant of DataStart: the cache begins with the fetch window.
DataStartOfFetch(r) == r.fetchStart

\* The cache reaches back behind the fetch window by its own length.
DataStart(r) == r.fetchStart - (r.fetchEnd - r.fetchStart)

CacheBuckets(r) == Buckets(DataStart(r), r.fetchEnd, r.bucket)

Cached(articles, r) == Between(articles, DataStart(r), r.fetchEnd)

\* The articles in the i-th bucket of the cache.
CachedIn(articles, r, i) == InBucket(Cached(articles, r), DataStart(r), r.bucket, i)

\* What the two statements of _fetch_overview_cache_rows make of the articles stored.
ArticleCounts(articles, r) ==
  [i \in CacheBuckets(r) |-> Cardinality(CachedIn(articles, r, i))]

MentionCounts(articles, r, names) ==
  [p \in CacheBuckets(r) \X names |-> Mentions(CachedIn(articles, r, p[1]), p[2])]

\* get_top_keywords over the fetch window.
FetchCandidates ==
  /\ Proceed("candidates", "articles")
  /\ candidates' \in TopKeywords(request.fetchStart, request.fetchEnd)
  /\ UNCHANGED <<articleBuckets, keywordBuckets, shown>>

FetchArticleBuckets ==
  /\ Proceed("articles", "keywords")
  /\ articleBuckets' = ArticleCounts(newsRaw, request)
  /\ UNCHANGED <<candidates, keywordBuckets, shown>>

FetchKeywordBuckets ==
  /\ Proceed("keywords", "derive")
  /\ keywordBuckets' = MentionCounts(newsRaw, request, candidates)
  /\ UNCHANGED <<candidates, articleBuckets, shown>>

\* A faulty variant of Indices: a bucket that starts at the end counts too.
IndicesClosed(r, from, until) ==
  {i \in CacheBuckets(r) : LET at == DataStart(r) + i * r.bucket IN from <= at /\ at <= until}

\* current_indices and prev_indices: the buckets that start in the span.
Indices(r, from, until) ==
  {i \in CacheBuckets(r) : LET at == DataStart(r) + i * r.bucket IN from <= at /\ at < until}

PrevStart(r) == r.start - (r.end - r.start)

\* _derive_overview_from_cache.
DeriveOverview ==
  /\ Proceed("derive", "answered")
  /\ LET current == Indices(request, request.start, request.end)
         prev == Indices(request, PrevStart(request), request.start)
         mentions == [k \in Keywords |->
                        IF k \in candidates
                        THEN SumFunctionOnSet(keywordBuckets, current \X {k}) ELSE 0]
     IN shown' = [current |-> SumFunctionOnSet(articleBuckets, current),
                  prev |-> SumFunctionOnSet(articleBuckets, prev),
                  unique |-> Cardinality({k \in Keywords : mentions[k] > 0}),
                  mentions |-> mentions]
  /\ UNCHANGED <<candidates, articleBuckets, keywordBuckets>>

-----------------------------------------------------------------------------
(* get_kpis: the statement on news_raw, then the one on keyword_trends.    *)

CountArticles ==
  /\ Proceed("kpis", "unique")
  /\ shown' = [shown EXCEPT
       !.current = Cardinality(Between(newsRaw, request.start, request.end)),
       !.prev = Cardinality(Between(newsRaw, PrevStart(request), request.start))]
  /\ UNCHANGED <<candidates, articleBuckets, keywordBuckets>>

CountUniqueKeywords ==
  /\ Proceed("unique", "answered")
  /\ shown' = [shown EXCEPT !.unique = Cardinality(Trending(request.start, request.end))]
  /\ UNCHANGED <<candidates, articleBuckets, keywordBuckets>>

-----------------------------------------------------------------------------
(* get_trend_series and get_trend_window_series, for the names asked for.  *)

\* Rows come in the order of window_start and each OVERWRITES the value of
\* its bucket: the last one stays.
LastOf(windows) == {s \in windows : \A t \in windows : t <= s}

WindowsInBucket(r, i) ==
  {s \in WindowsBetween(r.start, r.end) : BucketIndex(s, r.start, r.bucket) = i}

TrendPoint(r, i, k) ==
  SumFunctionOnSet([s \in WindowStarts |-> trends[<<s, k>>]],
                   LastOf({s \in WindowsInBucket(r, i) : trends[<<s, k>>] > 0}))

FetchTrendSeries ==
  /\ Proceed("trend", "answered")
  /\ keywordBuckets' = [p \in Buckets(request.start, request.end, request.bucket) \X request.names
                          |-> TrendPoint(request, p[1], p[2])]
  /\ UNCHANGED <<candidates, articleBuckets, shown>>

\* By published_at alone: an article without it is not selected.
FetchWindowSeries ==
  /\ Proceed("window", "answered")
  /\ LET dated == Between(newsRaw \ Undated, request.start, request.end) IN
     keywordBuckets' = [p \in Buckets(request.start, request.end, request.bucket) \X request.names
       |-> Mentions(InBucket(dated, request.start, request.bucket, p[1]), p[2])]
  /\ UNCHANGED <<candidates, articleBuckets, shown>>

-----------------------------------------------------------------------------
Serve ==
  \/ \E r \in Requests : Receive(r)
  \/ FetchCandidates \/ FetchArticleBuckets \/ FetchKeywordBuckets \/ DeriveOverview
  \/ CountArticles \/ CountUniqueKeywords
  \/ FetchTrendSeries \/ FetchWindowSeries

Write ==
  \/ \E a \in Articles : StoreArticle(a)
  \/ \E a \in Articles, k \in Keywords, n \in KeywordCounts : StoreKeyword(a, k, n)
  \/ \E s \in WindowStarts, k \in Keywords, n \in TrendCounts : StoreTrend(s, k, n)

Next == Serve \/ Write

Spec == Init /\ [][Next]_vars

-----------------------------------------------------------------------------
(* Properties.                                                             *)

Answered(kind) == request # NoRequest /\ request.kind = kind /\ stage = "answered"

\* By how far the buckets can move a bound that no bucket starts at.
Slack(r, t) ==
  IF (t - DataStart(r)) % r.bucket = 0 \/ t = r.fetchEnd THEN 0 ELSE r.bucket - 1

\* The period lies in the fetch window, as the dashboard's client asks for it.
Covered(r) == r.fetchStart <= r.start /\ r.end <= r.fetchEnd

\* The number of articles shown for a period lies between the articles of the
\* period that were there all the time and those that were there at any time since
\* the request began, except for the part of one bucket at a bound that is no
\* bucket's start.
CountOfPeriod(n, r, from, until) ==
  /\ Covered(r) => Cardinality(Between(atStart, from + Slack(r, from), until)) <= n
  /\ n <= Cardinality(Between(since, from, until + Slack(r, until)))

\* The two totals of one statement count one and the same table: what news_raw held
\* at some instant since the request began.  So each of them lies between the
\* counts of its own period, and none of its articles is in the other.
CountOfKpis(r) ==
  \E stored \in SUBSET since :
    /\ atStart \subseteq stored
    /\ shown.current = Cardinality(Between(stored, r.start, r.end))
    /\ shown.prev = Cardinality(Between(stored, PrevStart(r), r.start))

\* The totals are those of the requested period and of the equally long one
\* before it, whichever way they are computed.  The overview adds up cached
\* buckets: the cache reaches back far enough for both periods, and no bucket
\* is counted on both sides of a bound.
PeriodCounts ==
  /\ Answered("overview") =>
       /\ CountOfPeriod(shown.current, request, request.start, request.end)
       /\ CountOfPeriod(shown.prev, request, PrevStart(request), request.start)
  /\ Answered("kpis") => CountOfKpis(request)

\* When nothing was rewritten while it ran, the overview shows, for each of its
\* candidates, the mentions of the period; a bound inside a bucket moves them
\* by the mentions of that bucket only.
OverviewMentions ==
  Answered("overview") /\ ~disturbed =>
    \A k \in candidates :
      LET from == request.start
          until == request.end
      IN /\ Covered(request) =>
              shown.mentions[k] >= Mentions(Between(atStart, from + Slack(request, from), until), k)
         /\ shown.mentions[k] <= Mentions(Between(since, from, until + Slack(request, until)), k)

\* The sum of one keyword's points in a series.
Total(k) ==
  SumFunctionOnSet(keywordBuckets, {p \in DOMAIN keywordBuckets : p[2] = k})

\* A series over buckets no longer than a window shows every mention of the
\* trends; and the two ways to ask for a series lose nothing at either end.
SeriesAreComplete ==
  ~disturbed =>
    /\ Answered("trend") /\ request.bucket <= WindowLength =>
         \A k \in request.names : Total(k) = TrendMentions(request.start, request.end, k)
    /\ Answered("window") =>
         \A k \in request.names :
           Total(k) = Mentions(Between(newsRaw \ Undated, request.start, request.end), k)

-----------------------------------------------------------------------------
(* The inductive invariant behind them.                                    *)

StagesOf == [overview |-> {"candidates", "articles", "keywords", "derive"},
             kpis |-> {"kpis", "unique"}, trend |-> {"trend"}, window |-> {"window"}]

\* The statements a request runs are those of its kind.
StagesInv ==
  /\ stage # "answered" => request # NoRequest /\ stage \in StagesOf[request.kind]
  /\ request # NoRequest => Accepted(request)

\* Rows of keywords belong to stored articles.
MentionsInv == \A key \in ArticleKeys \ StoredKeys : keywords[key] = NoMentions

\* What has been read is what the tables held at one instant since the request began.
ReadInv ==
  /\ stage \in {"keywords", "derive"} =>
       \E stored \in SUBSET since :
         /\ atStart \subseteq stored
         /\ articleBuckets = ArticleCounts(stored, request)
  /\ stage = "derive" =>
       /\ keywordBuckets \in [CacheBuckets(request) \X candidates -> Nat]
       /\ ~disturbed =>
            \E stored \in SUBSET since :
              /\ atStart \subseteq stored
              /\ keywordBuckets = MentionCounts(stored, request, candidates)
  /\ stage = "unique" => CountOfKpis(request)

DashboardInv ==
  /\ TypeOK /\ StagesInv /\ MentionsInv /\ ReadInv
  /\ PeriodCounts /\ OverviewMentions /\ SeriesAreComplete
=============================================================================
