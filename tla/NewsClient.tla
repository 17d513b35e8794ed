----------------------------- MODULE NewsClient -----------------------------
(***************************************************************************)
(* ingestion/api_client.py as _iter_articles of producer.py uses it: the   *)
(* fetches of one run, which go on in a pool of threads and are handed to  *)
(* the run in the order they end, while the news sites go on publishing.   *)
(* Producer abstracts all this to one step per query.                      *)
(*                                                                         *)
(* A run polls either the Naver queries, page after page of a listing that *)
(* is sorted newest first, or the RSS feeds, each one document.            *)
(***************************************************************************)
EXTENDS Naturals, FiniteSets, SequencesExt, FiniteSetsExt

CONSTANTS
  RowsOf,      \* per provider, the active query rows, or the feeds, in order
  Items,       \* entries of listings and feeds
  DateOf,      \* when an item was published; 0 without a date that parses
  UrlOf,       \* its url, or NoUrl
  NoUrl,
  Broken,      \* items whose normalisation raises
  Dates,       \* instants of articles and of earlier runs
  Display,     \* items on a page
  MaxPages,    \* NAVER_NEWS_MAX_PAGES
  Workers,     \* threads of the pool
  MaxChanges   \* bound: changes of the listings during the run

Providers == {"naver", "rss"}

ASSUME ClientAssumption ==
  /\ \A p \in Providers :
       /\ RowsOf[p] \in Seq(ToSet(RowsOf[p]))
       /\ \A i \in 1 .. Len(RowsOf[p]) : DOMAIN RowsOf[p][i] = {"domain", "text"}
  /\ IsFiniteSet(Items)
  /\ Dates \subseteq Nat \ {0}
  /\ DateOf \in [Items -> Dates \union {0}]
  /\ Broken \subseteq Items
  /\ {Display, MaxPages, Workers} \subseteq Nat \ {0}
  /\ MaxChanges \in Nat

VARIABLES
  provider,    \* the provider of the run
  stamps,      \* keyword_timestamps, 0 where there is none
  listing,     \* what a search, or a feed, has to show, newest first
  atStart,     \* history: what it showed when the run began
  shrunk,      \* history: texts whose listing lost an item since
  changes,     \* changes of the listings so far
  job,         \* the future of each row
  results      \* what the generator has yielded, in order

vars == <<provider, stamps, listing, atStart, shrunk, changes, job, results>>

Rows == RowsOf[provider]
AllRows == UNION {ToSet(RowsOf[p]) : p \in Providers}
Texts == {row.text : row \in AllRows}
Jobs == 1 .. Len(Rows)

NewJob == [phase |-> "queued", page |-> 0, articles |-> <<>>, ok |-> TRUE, capped |-> FALSE]

TypeOK ==
  /\ provider \in Providers
  /\ stamps \in [AllRows -> Dates \union {0}]
  /\ listing \in [Texts -> Seq(Items)]
  /\ atStart \in [Texts -> SUBSET Items]
  /\ shrunk \subseteq Texts
  /\ changes \in 0 .. MaxChanges
  /\ job \in [Jobs -> [phase : {"queued", "fetching", "done", "yielded"}, page : 0 .. MaxPages,
                       articles : Seq(Items), ok : BOOLEAN, capped : BOOLEAN]]
  /\ Cardinality({j \in Jobs : job[j].phase = "fetching"}) <= Workers
  /\ results \in Seq([text : Texts, key : ToSet(Rows), articles : SUBSET Items,
                      ok : BOOLEAN, capped : BOOLEAN])

\* Newest first; an item without a date can be anywhere.
InOrder(items) ==
  \A i, k \in 1 .. Len(items) :
    i < k /\ DateOf[items[i]] # 0 => DateOf[items[i]] >= DateOf[items[k]]

Listings == {items \in UNION {[1 .. n -> Items] : n \in 0 .. Cardinality(Items)} :
               IsInjective(items) /\ InOrder(items)}

Init ==
  /\ provider \in Providers
  /\ stamps \in [AllRows -> Dates \union {0}]
  /\ \A row \in AllRows \ ToSet(Rows) : stamps[row] = 0
  /\ \E shown \in Listings :
       listing = [text \in Texts |-> IF text = Rows[1].text THEN shown ELSE <<>>]
  /\ atStart = [text \in Texts |-> ToSet(listing[text])]
  /\ shrunk = {}
  /\ changes = 0
  /\ job = [j \in Jobs |-> NewJob]
  /\ results = <<>>

-----------------------------------------------------------------------------
(* The news sites.                                                         *)

Index(text, item) ==
  /\ changes < MaxChanges
  /\ item \notin ToSet(listing[text])
  /\ \E i \in 1 .. Len(listing[text]) + 1 :
       /\ InOrder(InsertAt(listing[text], i, item))
       /\ listing' = [listing EXCEPT ![text] = InsertAt(@, i, item)]
  /\ changes' = changes + 1
  /\ UNCHANGED <<provider, stamps, atStart, shrunk, job, results>>

\* An article is taken down, or drops off the end of a feed.
Unlist(text) ==
  /\ changes < MaxChanges
  /\ \E i \in 1 .. Len(listing[text]) : listing' = [listing EXCEPT ![text] = RemoveAt(@, i)]
  /\ shrunk' = shrunk \union {text}
  /\ changes' = changes + 1
  /\ UNCHANGED <<provider, stamps, atStart, job, results>>

-----------------------------------------------------------------------------
(* What the run hands to the client, and makes of its results.             *)

\* state_keys and row_by_query are keyed by the text: its last row wins.
RowByText(text) == Rows[Max({j \in Jobs : Rows[j].text = text})]

\* What a key goes on from: its own timestamp; for Naver, else the newest of all.
KeyThreshold(row) ==
  IF stamps[row] = 0 /\ provider = "naver" THEN Max({stamps[r] : r \in AllRows}) ELSE stamps[row]

\* from_timestamps, keyed by the text as well.
FromTimestamp(text) == KeyThreshold(RowByText(text))

Threshold(j) == FromTimestamp(Rows[j].text)

-----------------------------------------------------------------------------
(* A fetch.                                                                *)

\* The pool takes the futures in the order they were submitted.
StartFetch(j) ==
  /\ job[j].phase = "queued"
  /\ \A i \in Jobs : i < j => job[i].phase # "queued"
  /\ Cardinality({i \in Jobs : job[i].phase = "fetching"}) < Workers
  /\ job' = [job EXCEPT ![j].phase = "fetching"]
  /\ UNCHANGED <<provider, stamps, listing, atStart, shrunk, changes, results>>

\* A faulty variant of PageOf: the pages start one item too late.
PageOfShifted(items, page) ==
  SubSeq(items, 2 + page * Display, Min({Len(items), (page + 1) * Display + 1}))

\* The items from start = 1 + page * display on.
PageOf(items, page) ==
  SubSeq(items, 1 + page * Display, Min({Len(items), (page + 1) * Display}))

\* With a threshold, what is newer; an item without a date is not.
Passing(items, threshold) ==
  LET kept[n \in 0 .. Len(items)] ==
        IF n = 0 THEN <<>>
        ELSE IF threshold = 0 \/ DateOf[items[n]] > threshold
        THEN Append(kept[n - 1], items[n]) ELSE kept[n - 1]
  IN kept[Len(items)]

\* The last item of the page is not newer than the threshold: the pages behind it
\* hold nothing new.
IsPassed(items, threshold) ==
  /\ threshold > 0 /\ items # <<>>
  /\ DateOf[Last(items)] \in 1 .. threshold

\* A faulty variant of IsLastPage: one page too many.
IsLastPageTooLate(page) == page = MaxPages

IsLastPage(page) == page + 1 = MaxPages

\* The loop goes on to the next page, stops early, or has no page left.
RequestPage(j) ==
  LET items == PageOf(listing[Rows[j].text], job[j].page)
      stop == IsPassed(items, Threshold(j))
      last == IsLastPage(job[j].page)
      read == [job[j] EXCEPT !.articles = @ \o Passing(items, Threshold(j)),
                             !.page = @ + 1,
                             !.capped = last /\ ~stop /\ Len(items) = Display,
                             !.phase = IF stop \/ last THEN "done" ELSE "fetching"]
  IN /\ provider = "naver" /\ job[j].phase = "fetching"
     /\ ToSet(items) \intersect Broken = {}
     /\ job' = [job EXCEPT ![j] = read]
     /\ UNCHANGED <<provider, stamps, listing, atStart, shrunk, changes, results>>

\* A faulty variant of FailedJob: the fetch is queued again.
FailedJobAgain(articles) ==
  [phase |-> "queued", page |-> 0, articles |-> articles, ok |-> FALSE, capped |-> FALSE]

FailedJob(articles) ==
  [phase |-> "done", page |-> 0, articles |-> articles, ok |-> FALSE, capped |-> FALSE]

\* An HTTP error, a timeout, a lost connection or a broken body ends the loop; what
\* the pages before it held is returned.
RequestFails(j) ==
  /\ provider = "naver" /\ job[j].phase = "fetching"
  /\ job' = [job EXCEPT ![j] = FailedJob(@.articles)]
  /\ UNCHANGED <<provider, stamps, listing, atStart, shrunk, changes, results>>

\* Any other exception, such as that of a date that does not parse, leaves fetch_news
\* and takes along what the pages before it held.
FetchRaises(j) ==
  /\ job[j].phase = "fetching"
  /\ \/ provider = "rss"
     \/ ToSet(PageOf(listing[Rows[j].text], job[j].page)) \intersect Broken # {}
  /\ job' = [job EXCEPT ![j] = FailedJob(<<>>)]
  /\ UNCHANGED <<provider, stamps, listing, atStart, shrunk, changes, results>>

\* _fetch_feed: the whole feed, unless an entry has no link.
FetchFeed(j) ==
  /\ provider = "rss" /\ job[j].phase = "fetching"
  /\ ToSet(listing[Rows[j].text]) \intersect Broken = {}
  /\ job' = [job EXCEPT ![j].articles = Passing(listing[Rows[j].text], Threshold(j)),
                        ![j].phase = "done"]
  /\ UNCHANGED <<provider, stamps, listing, atStart, shrunk, changes, results>>

\* The first item of every url.
Deduplicated(articles) ==
  {articles[i] : i \in {i \in 1 .. Len(articles) :
     /\ UrlOf[articles[i]] # NoUrl
     /\ \A k \in 1 .. i - 1 : UrlOf[articles[k]] # UrlOf[articles[i]]}}

\* as_completed hands over any future that is done.
YieldResult(j) ==
  /\ job[j].phase = "done"
  /\ job' = [job EXCEPT ![j].phase = "yielded"]
  /\ results' = Append(results,
       [text |-> Rows[j].text, key |-> RowByText(Rows[j].text),
        articles |-> Deduplicated(job[j].articles), ok |-> job[j].ok, capped |-> job[j].capped])
  /\ UNCHANGED <<provider, stamps, listing, atStart, shrunk, changes>>

WorldNext ==
  \E text \in Texts : Unlist(text) \/ \E item \in Items : Index(text, item)

ClientNext ==
  \E j \in Jobs :
    StartFetch(j) \/ RequestPage(j) \/ RequestFails(j) \/ FetchRaises(j) \/ FetchFeed(j)
      \/ YieldResult(j)

Next == WorldNext \/ ClientNext

\* Every request has a timeout, and the run asks for results until there is none.
FairSpec == Init /\ [][Next]_vars /\ WF_vars(ClientNext)

-----------------------------------------------------------------------------
(* Properties.                                                             *)

\* The checkpoint of a key is moved to the start of the run by an ok result, and what
\* its next fetch leaves out is everything until then.  So an ok result that arrives
\* under a key must hold the url of every dated article its listing showed when the
\* run began that is newer than the timestamp of that key, although the listing
\* shifts under the page numbers while it is read.  Excepted are a fetch that used up
\* its pages, and a listing that lost an item.
OkIsComplete ==
  \A i \in 1 .. Len(results) : LET r == results[i] IN
    r.ok /\ ~r.capped /\ r.text \notin shrunk =>
      \A item \in atStart[r.text] :
        DateOf[item] > KeyThreshold(r.key) /\ UrlOf[item] # NoUrl =>
          \E article \in r.articles : UrlOf[article] = UrlOf[item]

\* Whatever fails, every row of the run gets its result.
EveryRowYields == <>(\A j \in Jobs : job[j].phase = "yielded" /\ Len(results) = Len(Rows))

-----------------------------------------------------------------------------
(* The inductive invariants behind OkIsComplete.                           *)

\* A listing stays in order, and loses nothing unless an item is taken down.
ListingInv ==
  \A text \in Texts :
    /\ InOrder(listing[text])
    /\ text \notin shrunk => atStart[text] \subseteq ToSet(listing[text])

\* What a fetch must bring.
Wanted(j) == {item \in atStart[Rows[j].text] : DateOf[item] > Threshold(j)}

\* A fetch has what it must bring of the pages behind it, and in the end everything:
\* what is inserted meanwhile pushes items onto later pages, never onto earlier ones.
FetchInv ==
  \A j \in Jobs : LET items == listing[Rows[j].text] IN
    /\ job[j].phase = "queued" => job[j] = NewJob
    /\ job[j].phase = "fetching" => job[j].page < MaxPages /\ job[j].ok /\ ~job[j].capped
    /\ Rows[j].text \notin shrunk =>
         /\ job[j].phase = "fetching" =>
              \A i \in 1 .. Len(items) :
                i <= job[j].page * Display /\ items[i] \in Wanted(j)
                  => items[i] \in ToSet(job[j].articles)
         /\ job[j].phase \in {"done", "yielded"} /\ job[j].ok /\ ~job[j].capped
              => Wanted(j) \subseteq ToSet(job[j].articles)

ClientInv == TypeOK /\ ListingInv /\ FetchInv /\ OkIsComplete
=============================================================================
