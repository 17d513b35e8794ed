-------------------------- MODULE Dashboard_proofs ---------------------------
(***************************************************************************)
(* Proofs about Dashboard: its types, and that what a request answers is   *)
(* what the tables held, for any articles, keywords, periods, bucket       *)
(* lengths and limits, and any writes between two statements of a request. *)
(* The argument is DashboardInv.  A statement's result lies between the    *)
(* articles that were there all the time and those there at any time since *)
(* the request began (ReadInv); every row of a period is in one bucket     *)
(* and the buckets are disjoint, so that sums over buckets are sums over   *)
(* the period; and what a bucket cut by an end of the period adds or       *)
(* leaves out is at most Slack.                                            *)
(***************************************************************************)
EXTENDS Dashboard, Sums_proofs, TLAPS

-----------------------------------------------------------------------------
(* Buckets of time.                                                        *)

\* A time lies in its bucket.
LEMMA BucketHolds ==
  ASSUME NEW t \in Int, NEW o \in Int, NEW b \in Nat \ {0}
  PROVE  /\ BucketIndex(t, o, b) \in Int
         /\ o + BucketIndex(t, o, b) * b <= t
         /\ t < o + (BucketIndex(t, o, b) + 1) * b
<1> DEFINE d == t - o
<1>1. d \in Int /\ t = o + d
  OBVIOUS
<1> HIDE DEF d
<1>2. d \div b \in Int /\ (d \div b) * b <= d /\ d < (d \div b) * b + b
  BY <1>1
<1> DEFINE i == d \div b
<1>3. i \in Int /\ i * b <= d /\ d < i * b + b
  BY <1>2
<1> HIDE DEF i
<1>4. i * b \in Int /\ (i + 1) * b = i * b + b
  BY <1>3
<1>5. o + i * b <= t /\ t < o + (i + 1) * b
  BY <1>1, <1>3, <1>4
<1>6. BucketIndex(t, o, b) = i
  BY DEF BucketIndex, i, d
<1> QED
  BY <1>3, <1>5, <1>6

\* The order of buckets is that of their starts.
LEMMA BucketOrder ==
  ASSUME NEW i \in Int, NEW k \in Int, NEW b \in Nat \ {0}
  PROVE  /\ i * b < k * b => i < k
         /\ i < k => (i + 1) * b <= k * b
         /\ i <= k => i * b <= k * b
         /\ i * b \in Int /\ (i + 1) * b = i * b + b
<1>1. i * b \in Int /\ k * b \in Int /\ (i + 1) * b = i * b + b
  OBVIOUS
<1>2. ASSUME i <= k PROVE i * b <= k * b
  BY <1>2
<1>3. ASSUME k <= i PROVE k * b <= i * b
  BY <1>3
<1>4. ASSUME i < k PROVE (i + 1) * b <= k * b
  BY <1>4
<1> QED
  BY <1>1, <1>2, <1>3, <1>4

\* The buckets of a period are finitely many, and together they reach its end.
LEMMA BucketNumbers ==
  ASSUME NEW from \in Int, NEW until \in Int, NEW b \in Nat \ {0}
  PROVE  /\ TotalBuckets(from, until, b) \in Nat /\ until - from <= TotalBuckets(from, until, b) * b
         /\ Buckets(from, until, b) \subseteq Nat /\ IsFiniteSet(Buckets(from, until, b))
<1> DEFINE d == until - from + b - 1
           q == d \div b
           n == TotalBuckets(from, until, b)
<1>1. d \in Int
  OBVIOUS
<1>2. q \in Int /\ d < q * b + b
  <2> HIDE DEF d
  <2> QED BY <1>1
<1>3. n = IF 1 >= q THEN 1 ELSE q
  BY <1>2, MaxOfTwo DEF TotalBuckets
<1>4. q * b \in Int /\ until - from <= q * b
  <2>1. q * b \in Int
    <3> HIDE DEF q
    <3> QED BY <1>2
  <2> HIDE DEF q
  <2> QED
    BY <1>2, <2>1
<1> HIDE DEF q, n
<1>5. q <= n /\ n \in Nat
  BY <1>2, <1>3
<1>6. q * b <= n * b /\ n * b \in Int
  BY <1>2, <1>5, BucketOrder
<1>7. until - from <= n * b
  BY <1>4, <1>6
<1>8. 0 .. n - 1 \subseteq Nat /\ IsFiniteSet(0 .. n - 1)
  BY <1>5, FS_Interval
<1> QED
  BY <1>5, <1>7, <1>8 DEF n, Buckets

\* A time of the period lies in one of its buckets.
LEMMA IndexInPeriod ==
  ASSUME NEW from \in Int, NEW until \in Int, NEW b \in Nat \ {0},
         NEW t \in Int, from <= t, t < until
  PROVE  BucketIndex(t, from, b) \in Buckets(from, until, b)
<1> DEFINE i == BucketIndex(t, from, b)
           n == TotalBuckets(from, until, b)
<1>1. i \in Int /\ from + i * b <= t /\ t < from + (i + 1) * b
  BY BucketHolds
<1>2. n \in Nat /\ until - from <= n * b
  BY BucketNumbers
<1> HIDE DEF i, n
<1>3. i * b \in Int /\ n * b \in Int /\ (i + 1) * b \in Int
  BY <1>1, <1>2, BucketOrder
<1>4. i * b < n * b /\ 0 * b < (i + 1) * b
  BY <1>1, <1>2, <1>3
<1>5. i < n
  BY <1>1, <1>2, <1>4, BucketOrder
<1>6. 0 < i + 1
  BY <1>1, <1>4, BucketOrder
<1>7. i \in 0 .. n - 1
  BY <1>1, <1>2, <1>5, <1>6
<1> QED
  BY <1>7 DEF Buckets, i, n

\* A bound of a period that moves by nothing is where a bucket starts.
LEMMA BoundStartsBucket ==
  ASSUME NEW t \in Int, NEW o \in Int, NEW b \in Nat \ {0}, (t - o) % b = 0
  PROVE  \E q \in Int : t = o + q * b
<1> DEFINE d == t - o
<1>1. d \in Int /\ t = o + d /\ d % b = 0
  OBVIOUS
<1> HIDE DEF d
<1>2. d \div b \in Int /\ d = (d \div b) * b
  BY <1>1
<1> QED
  BY <1>1, <1>2

-----------------------------------------------------------------------------
(* Counts and sums over buckets.                                           *)

\* A set counts as many as the sum of a one for each of its members.
LEMMA CardinalityIsSum ==
  ASSUME NEW S, IsFiniteSet(S), NEW f, \A x \in S : f[x] = 1
  PROVE  SumFunctionOnSet(f, S) = Cardinality(S)
<1> DEFINE C == {s \in SUBSET S : SumFunctionOnSet(f, s) = Cardinality(s)}
<1>1. {} \in C
  BY SumEmpty, FS_EmptySet
<1>2. ASSUME NEW s \in SUBSET S, NEW x \in S, s \in C, x \notin s PROVE s \union {x} \in C
  <2>1. IsFiniteSet(s) /\ Cardinality(s) \in Nat
    BY FS_Subset, FS_CardinalityType
  <2>2. Cardinality(s \union {x}) = Cardinality(s) + 1
    BY <1>2, <2>1, FS_AddElement
  <2>3. \A y \in s : f[y] \in Nat
    OBVIOUS
  <2>4. SumFunctionOnSet(f, s \union {x}) = f[x] + SumFunctionOnSet(f, s)
    BY <1>2, <2>1, <2>3, SumAdd
  <2>5. SumFunctionOnSet(f, s) = Cardinality(s) /\ f[x] = 1
    BY <1>2
  <2>6. SumFunctionOnSet(f, s \union {x}) = Cardinality(s \union {x})
    BY <2>1, <2>2, <2>4, <2>5
  <2> QED
    BY <2>6
<1>3. S \in C
  <2> HIDE DEF C
  <2> QED BY <1>1, <1>2, FiniteInductionSet
<1> QED
  BY <1>3

\* Disjoint parts, counted one by one.
LEMMA CountOfParts ==
  ASSUME NEW A, IsFiniteSet(A), NEW S, IsFiniteSet(S), NEW part \in [A -> SUBSET S],
         \A a, b \in A : a # b => part[a] \intersect part[b] = {},
         NEW total, \A a \in A : total[a] = Cardinality(part[a])
  PROVE  SumFunctionOnSet(total, A) = Cardinality(UNION {part[a] : a \in A})
<1> DEFINE f == [x \in S |-> 1]
           All == UNION {part[a] : a \in A}
<1>1. \A x \in S : f[x] = 1 /\ f[x] \in Nat
  OBVIOUS
<1>2. ASSUME NEW a \in A PROVE total[a] = SumFunctionOnSet(f, part[a])
  <2>1. IsFiniteSet(part[a]) /\ part[a] \subseteq S
    BY FS_Subset
  <2> HIDE DEF f
  <2>2. SumFunctionOnSet(f, part[a]) = Cardinality(part[a])
    BY <1>1, <2>1, CardinalityIsSum
  <2> QED
    BY <2>2
<1>3. All \subseteq S /\ IsFiniteSet(All)
  BY FS_Subset
<1> HIDE DEF f
<1>4. SumFunctionOnSet(total, A) = SumFunctionOnSet(f, All)
  BY <1>1, <1>2, SumOfParts
<1>5. SumFunctionOnSet(f, All) = Cardinality(All)
  <2> HIDE DEF All
  <2> QED BY <1>1, <1>3, CardinalityIsSum
<1> QED
  BY <1>4, <1>5

\* What the assumption says of a request.
LEMMA RequestFacts ==
  ASSUME NEW r \in Requests
  PROVE  /\ r.start \in Int /\ r.end \in Int /\ r.fetchStart \in Int /\ r.fetchEnd \in Int
         /\ r.bucket \in Nat \ {0} /\ r.names \subseteq Keywords /\ r.kind \in Kinds
         /\ DataStart(r) \in Int /\ PrevStart(r) \in Int
         /\ CacheBuckets(r) \subseteq Nat /\ IsFiniteSet(CacheBuckets(r))
<1>1. /\ r.start \in Int /\ r.end \in Int /\ r.fetchStart \in Int /\ r.fetchEnd \in Int
      /\ r.bucket \in Nat \ {0} /\ r.names \subseteq Keywords /\ r.kind \in Kinds
  BY DashboardAssumption
<1>2. DataStart(r) \in Int /\ PrevStart(r) \in Int
  BY <1>1 DEF DataStart, PrevStart
<1>3. CacheBuckets(r) \subseteq Nat /\ IsFiniteSet(CacheBuckets(r))
  BY <1>1, <1>2, BucketNumbers DEF CacheBuckets
<1> QED
  BY <1>1, <1>2, <1>3

\* The articles of the buckets that start in the span.
InSpan(N, r, from, until) == UNION {CachedIn(N, r, i) : i \in Indices(r, from, until)}

\* The buckets of a span are finitely many, and what they hold is stored.
LEMMA SpanFacts ==
  ASSUME NEW r \in Requests, NEW N \in SUBSET Articles, NEW from \in Int, NEW until \in Int
  PROVE  /\ IsFiniteSet(Indices(r, from, until))
         /\ Indices(r, from, until) \subseteq CacheBuckets(r)
         /\ \A i \in Indices(r, from, until) : CachedIn(N, r, i) \subseteq N
         /\ IsFiniteSet(N) /\ InSpan(N, r, from, until) \subseteq N
<1>1. Indices(r, from, until) \subseteq CacheBuckets(r)
  BY DEF Indices
<1>2. IsFiniteSet(Indices(r, from, until))
  BY <1>1, RequestFacts, FS_Subset
<1>3. \A i \in Indices(r, from, until) : CachedIn(N, r, i) \subseteq N
  BY DEF CachedIn, InBucket, Cached, Between
<1>4. IsFiniteSet(N)
  BY DashboardAssumption, FS_Subset
<1> QED
  BY <1>1, <1>2, <1>3, <1>4 DEF InSpan

\* The cached articles add up to those of the buckets.
LEMMA ArticlesAddUp ==
  ASSUME NEW r \in Requests, NEW N \in SUBSET Articles, NEW from \in Int, NEW until \in Int,
         NEW counts, \A i \in CacheBuckets(r) : counts[i] = Cardinality(CachedIn(N, r, i))
  PROVE  SumFunctionOnSet(counts, Indices(r, from, until)) = Cardinality(InSpan(N, r, from, until))
<1> DEFINE A == Indices(r, from, until)
           part == [i \in A |-> CachedIn(N, r, i)]
<1>1. IsFiniteSet(A) /\ A \subseteq CacheBuckets(r) /\ IsFiniteSet(N)
      /\ \A i \in A : CachedIn(N, r, i) \subseteq N
  BY SpanFacts
<1> HIDE DEF A
<1>2. part \in [A -> SUBSET N]
  BY <1>1
<1>3. \A i, k \in A : i # k => part[i] \intersect part[k] = {}
  BY DEF CachedIn, InBucket
<1>4. \A i \in A : counts[i] = Cardinality(part[i])
  BY <1>1
<1>5. {part[i] : i \in A} = {CachedIn(N, r, i) : i \in A}
  OBVIOUS
<1> HIDE DEF part
<1>6. SumFunctionOnSet(counts, A) = Cardinality(UNION {part[i] : i \in A})
  <2>1. IsFiniteSet(A) /\ IsFiniteSet(N)
    BY <1>1
  <2> QED
    BY <2>1, <1>2, <1>3, <1>4, CountOfParts
<1> QED
  BY <1>5, <1>6, Zenon DEF InSpan, A

\* The mentions of the buckets of a span add up to those of what is cached in them.
LEMMA MentionsAddUp ==
  ASSUME NEW r \in Requests, NEW N \in SUBSET Articles, NEW from \in Int, NEW until \in Int,
         keywords \in [ArticleKeys -> [Keywords -> KeywordCounts]],
         NEW k \in Keywords, NEW counts,
         \A i \in CacheBuckets(r) : counts[<<i, k>>] = Mentions(CachedIn(N, r, i), k)
  PROVE  SumFunctionOnSet(counts, Indices(r, from, until) \X {k})
           = Mentions(InSpan(N, r, from, until), k)
<1> DEFINE I == Indices(r, from, until)
           A == I \X {k}
           part == [p \in A |-> CachedIn(N, r, p[1])]
           f == [a \in Articles |-> keywords[KeyOf[a]][k]]
<1>1. IsFiniteSet(I) /\ I \subseteq CacheBuckets(r) /\ IsFiniteSet(N)
      /\ \A i \in I : CachedIn(N, r, i) \subseteq N
  BY SpanFacts
<1> HIDE DEF I
<1>2. IsFiniteSet(A)
  BY <1>1, FS_Product, FS_Singleton
<1>3. part \in [A -> SUBSET N]
  BY <1>1
<1>4. \A p, q \in A : p # q => part[p] \intersect part[q] = {}
  <2> SUFFICES ASSUME NEW i \in I, NEW h \in I, i # h
               PROVE  CachedIn(N, r, i) \intersect CachedIn(N, r, h) = {}
    OBVIOUS
  <2> QED
    BY DEF CachedIn, InBucket
<1>5. \A a \in N : f[a] \in Nat
  BY DashboardAssumption DEF ArticleKeys
<1>6. ASSUME NEW p \in A PROVE counts[p] = SumFunctionOnSet(f, part[p])
  <2>1. PICK i \in I : p = <<i, k>>
    OBVIOUS
  <2>2. counts[<<i, k>>] = Mentions(CachedIn(N, r, i), k)
    BY <1>1
  <2>3. part[<<i, k>>] = CachedIn(N, r, i)
    OBVIOUS
  <2>4. Mentions(CachedIn(N, r, i), k) = SumFunctionOnSet(f, CachedIn(N, r, i))
    BY Zenon DEF Mentions
  <2> QED
    BY <2>1, <2>2, <2>3, <2>4
<1>7. UNION {part[p] : p \in A} = InSpan(N, r, from, until)
  <2>1. UNION {part[p] : p \in A} \subseteq UNION {CachedIn(N, r, i) : i \in I}
    OBVIOUS
  <2>2. UNION {CachedIn(N, r, i) : i \in I} \subseteq UNION {part[p] : p \in A}
    <3> SUFFICES ASSUME NEW i \in I, NEW a \in CachedIn(N, r, i)
                 PROVE  a \in UNION {part[p] : p \in A}
      OBVIOUS
    <3>1. <<i, k>> \in A /\ part[<<i, k>>] = CachedIn(N, r, i)
      OBVIOUS
    <3> HIDE DEF A, part
    <3> QED
      BY <3>1
  <2> QED
    BY <2>1, <2>2 DEF InSpan, I
<1> HIDE DEF A, part, f
<1>8. SumFunctionOnSet(counts, A) = SumFunctionOnSet(f, UNION {part[p] : p \in A})
  <2>1. IsFiniteSet(A) /\ IsFiniteSet(N)
    BY <1>1, <1>2
  <2>2. \A p \in A : counts[p] = SumFunctionOnSet(f, part[p])
    BY <1>6
  <2> QED
    BY <2>1, <2>2, <1>3, <1>4, <1>5, SumOfParts
<1>9. SumFunctionOnSet(counts, A) = Mentions(InSpan(N, r, from, until), k)
  BY <1>7, <1>8, Zenon DEF Mentions, f
<1> QED
  BY <1>9 DEF A, I

-----------------------------------------------------------------------------
(* A period and the buckets that start in it.                              *)

\* What an end of a period cuts is nothing, or less than a bucket.
LEMMA SlackIsNat ==
  ASSUME NEW r \in Requests, NEW t \in Int
  PROVE  Slack(r, t) \in Nat /\ (Slack(r, t) = 0 \/ Slack(r, t) = r.bucket - 1)
BY RequestFacts DEF Slack

\* What is in the buckets lies in the period, but for the rest of its last bucket.
LEMMA SpanInPeriod ==
  ASSUME NEW r \in Requests, NEW N \in SUBSET Articles, NEW from \in Int, NEW until \in Int
  PROVE  InSpan(N, r, from, until) \subseteq Between(N, from, until + Slack(r, until))
<1> SUFFICES ASSUME NEW i \in Indices(r, from, until), NEW a \in CachedIn(N, r, i)
             PROVE  a \in Between(N, from, until + Slack(r, until))
  BY DEF InSpan
<1> DEFINE t == EventTime[a]
           o == DataStart(r)
           b == r.bucket
<1>1. /\ a \in N /\ t \in Int /\ o \in Int /\ b \in Nat \ {0} /\ o <= t /\ t < r.fetchEnd
      /\ BucketIndex(t, o, b) = i /\ r.fetchEnd \in Int
  BY RequestFacts, DashboardAssumption DEF CachedIn, InBucket, Cached, Between
<1>2. from <= o + i * b /\ o + i * b < until
  BY DEF Indices
<1> HIDE DEF t, o, b
<1>3. i \in Int /\ o + i * b <= t /\ t < o + (i + 1) * b
  BY <1>1, BucketHolds
<1>4. i * b \in Int /\ (i + 1) * b = i * b + b
  BY <1>1, <1>3, BucketOrder
<1>5. from <= t
  BY <1>1, <1>2, <1>3, <1>4
<1>6. t < until + Slack(r, until)
  <2>1. CASE (until - o) % b = 0
    <3>1. PICK q \in Int : until = o + q * b
      BY <1>1, <2>1, BoundStartsBucket
    <3>2. q * b \in Int
      BY <1>1, BucketOrder
    <3>3. i * b < q * b
      BY <1>1, <1>2, <1>4, <3>1, <3>2
    <3>4. i < q
      BY <1>1, <1>3, <3>3, BucketOrder
    <3>5. (i + 1) * b <= q * b
      BY <1>1, <1>3, <3>4, BucketOrder
    <3>6. t < until
      BY <1>1, <1>3, <1>4, <3>1, <3>2, <3>5
    <3>7. Slack(r, until) \in Nat
      BY SlackIsNat
    <3> QED
      BY <1>1, <3>6, <3>7
  <2>2. CASE until = r.fetchEnd
    <3>1. Slack(r, until) \in Nat
      BY SlackIsNat
    <3> QED
      BY <1>1, <2>2, <3>1
  <2>3. CASE (until - o) % b # 0 /\ until # r.fetchEnd
    <3>1. Slack(r, until) = b - 1
      BY <2>3 DEF Slack, o, b
    <3> QED
      BY <1>1, <1>2, <1>3, <1>4, <3>1
  <2> QED
    BY <2>1, <2>2, <2>3
<1> QED
  BY <1>1, <1>5, <1>6 DEF Between, t

\* What lies in a period of the cache is in its buckets, but for the rest of the bucket
\* the period begins in.
LEMMA PeriodInSpan ==
  ASSUME NEW r \in Requests, NEW N \in SUBSET Articles, NEW M \in SUBSET N,
         NEW from \in Int, NEW until \in Int, DataStart(r) <= from, until <= r.fetchEnd
  PROVE  Between(M, from + Slack(r, from), until) \subseteq InSpan(N, r, from, until)
<1> SUFFICES ASSUME NEW a \in Between(M, from + Slack(r, from), until)
             PROVE  a \in InSpan(N, r, from, until)
  OBVIOUS
<1> DEFINE t == EventTime[a]
           o == DataStart(r)
           b == r.bucket
           i == BucketIndex(t, o, b)
<1>1. /\ a \in N /\ t \in Int /\ o \in Int /\ b \in Nat \ {0} /\ r.fetchEnd \in Int
      /\ o <= from /\ until <= r.fetchEnd
  BY RequestFacts, DashboardAssumption DEF Between
<1>2. from + Slack(r, from) <= t /\ t < until /\ Slack(r, from) \in Nat
  BY SlackIsNat DEF Between
<1> HIDE DEF t, o, b
<1>3. from <= t /\ o <= t /\ t < r.fetchEnd
  BY <1>1, <1>2
<1>4. i \in Int /\ o + i * b <= t /\ t < o + (i + 1) * b
  BY <1>1, BucketHolds
<1>5. i \in CacheBuckets(r)
  BY <1>1, <1>3, IndexInPeriod DEF CacheBuckets, o, b
<1> HIDE DEF i
<1>6. i * b \in Int /\ (i + 1) * b = i * b + b
  BY <1>1, <1>4, BucketOrder
<1>7. from <= o + i * b
  <2>1. CASE (from - o) % b = 0
    <3>0. o \in Int /\ b \in Nat \ {0}
      BY <1>1
    <3>1. PICK q \in Int : from = o + q * b
      BY <2>1, <3>0, BoundStartsBucket
    <3>2. q * b \in Int
      BY <1>1, BucketOrder
    <3>3. q * b < (i + 1) * b
      BY <1>1, <1>3, <1>4, <1>6, <3>1, <3>2
    <3>4. q < i + 1
      BY <1>1, <1>4, <3>3, BucketOrder
    <3>5. q * b <= i * b
      <4>1. q <= i
        BY <1>4, <3>4
      <4> QED
        BY <1>1, <1>4, <4>1, BucketOrder
    <3> QED
      BY <1>1, <1>6, <3>1, <3>2, <3>5
  <2>2. CASE from = r.fetchEnd
    BY <1>1, <1>3, <2>2
  <2>3. CASE (from - o) % b # 0 /\ from # r.fetchEnd
    <3>1. Slack(r, from) = b - 1
      BY <2>3 DEF Slack, o, b
    <3> QED
      BY <1>1, <1>2, <1>4, <1>6, <3>1
  <2> QED
    BY <2>1, <2>2, <2>3
<1>8. o + i * b < until
  BY <1>1, <1>2, <1>4, <1>6
<1>9. i \in Indices(r, from, until)
  BY <1>5, <1>7, <1>8 DEF Indices, o, b
<1>10. a \in CachedIn(N, r, i)
  BY <1>1, <1>3 DEF CachedIn, InBucket, Cached, Between, t, o, b, i
<1> QED
  BY <1>9, <1>10 DEF InSpan

\* The cache reaches back far enough for the period and for the one before it.
LEMMA CacheCovers ==
  ASSUME NEW r \in Requests, Accepted(r), Covered(r)
  PROVE  /\ DataStart(r) <= r.start /\ r.end <= r.fetchEnd
         /\ DataStart(r) <= PrevStart(r) /\ r.start <= r.fetchEnd
BY RequestFacts DEF Accepted, Covered, DataStart, PrevStart

\* More articles, more of them in a period.
LEMMA CountsGrow ==
  ASSUME NEW N \in SUBSET Articles, NEW M \in SUBSET N
  PROVE  /\ IsFiniteSet(N) /\ IsFiniteSet(M) /\ Cardinality(M) \in Nat /\ Cardinality(N) \in Nat
         /\ Cardinality(M) <= Cardinality(N)
BY DashboardAssumption, FS_Subset, FS_CardinalityType

\* More articles, more mentions.
LEMMA MentionsGrow ==
  ASSUME keywords \in [ArticleKeys -> [Keywords -> KeywordCounts]],
         NEW N \in SUBSET Articles, NEW M \in SUBSET N, NEW k \in Keywords
  PROVE  /\ Mentions(M, k) \in Nat /\ Mentions(N, k) \in Nat
         /\ Mentions(M, k) <= Mentions(N, k)
<1> DEFINE f == [a \in Articles |-> keywords[KeyOf[a]][k]]
<1>1. \A a \in N : f[a] \in Nat
  BY DashboardAssumption DEF ArticleKeys
<1>2. IsFiniteSet(N) /\ IsFiniteSet(M)
  BY CountsGrow
<1> HIDE DEF f
<1>3. SumFunctionOnSet(f, N) \in Nat /\ SumFunctionOnSet(f, M) \in Nat
  BY <1>1, <1>2, SumIsNat
<1>4. SumFunctionOnSet(f, M) <= SumFunctionOnSet(f, N)
  BY <1>1, <1>2, SumSubset
<1>5. Mentions(M, k) = SumFunctionOnSet(f, M) /\ Mentions(N, k) = SumFunctionOnSet(f, N)
  BY Zenon DEF Mentions, f
<1> QED
  BY <1>3, <1>4, <1>5

\* A period of more articles holds more of them.
LEMMA BetweenGrows ==
  ASSUME NEW N \in SUBSET Articles, NEW M \in SUBSET N, NEW from, NEW until
  PROVE  /\ Between(M, from, until) \subseteq Between(N, from, until)
         /\ Between(N, from, until) \subseteq N
BY DEF Between

-----------------------------------------------------------------------------
(* What the answers add up to.                                             *)

\* The articles that the buckets of a span add up to, between two bounds.
LEMMA PeriodAddsUp ==
  ASSUME since \in SUBSET Articles, NEW r \in Requests,
         NEW N \in SUBSET since, atStart \in SUBSET N, NEW from \in Int, NEW until \in Int,
         Covered(r) => DataStart(r) <= from /\ until <= r.fetchEnd,
         NEW counts, \A i \in CacheBuckets(r) : counts[i] = Cardinality(CachedIn(N, r, i))
  PROVE  /\ SumFunctionOnSet(counts, Indices(r, from, until)) \in Nat
         /\ CountOfPeriod(SumFunctionOnSet(counts, Indices(r, from, until)), r, from, until)
<1> DEFINE U == InSpan(N, r, from, until)
           n == SumFunctionOnSet(counts, Indices(r, from, until))
           most == Between(since, from, until + Slack(r, until))
           least == Between(atStart, from + Slack(r, from), until)
<1>1. N \in SUBSET Articles
  OBVIOUS
<1>2. n = Cardinality(U)
  BY <1>1, ArticlesAddUp
<1>3. U \subseteq Between(N, from, until + Slack(r, until))
  BY <1>1, SpanInPeriod
<1>4. most \in SUBSET Articles /\ U \in SUBSET most
  BY <1>3, BetweenGrows DEF Between
<1>5. Covered(r) => least \subseteq U
  BY <1>1, PeriodInSpan
<1>6. U \in SUBSET Articles
  BY <1>4
<1> HIDE DEF U, n, most, least
<1>7. Cardinality(U) \in Nat /\ Cardinality(U) <= Cardinality(most)
  BY <1>4, CountsGrow
<1>8. Covered(r) => Cardinality(least) <= Cardinality(U)
  BY <1>5, <1>6, CountsGrow
<1>9. n \in Nat /\ n <= Cardinality(most) /\ (Covered(r) => Cardinality(least) <= n)
  BY <1>2, <1>7, <1>8
<1> QED
  BY <1>9 DEF CountOfPeriod, n, most, least

\* The mentions that the buckets of a span add up to, between two bounds.
LEMMA MentionsOfPeriod ==
  ASSUME since \in SUBSET Articles, keywords \in [ArticleKeys -> [Keywords -> KeywordCounts]],
         NEW r \in Requests, Accepted(r), NEW N \in SUBSET since, atStart \in SUBSET N,
         NEW k \in Keywords, NEW counts,
         \A i \in CacheBuckets(r) : counts[<<i, k>>] = Mentions(CachedIn(N, r, i), k)
  PROVE  LET n == SumFunctionOnSet(counts, Indices(r, r.start, r.end) \X {k})
         IN  /\ Covered(r) => n >= Mentions(Between(atStart, r.start + Slack(r, r.start), r.end), k)
             /\ n <= Mentions(Between(since, r.start, r.end + Slack(r, r.end)), k)
<1> DEFINE U == InSpan(N, r, r.start, r.end)
           n == SumFunctionOnSet(counts, Indices(r, r.start, r.end) \X {k})
           most == Between(since, r.start, r.end + Slack(r, r.end))
           least == Between(atStart, r.start + Slack(r, r.start), r.end)
<1>1. N \in SUBSET Articles /\ r.start \in Int /\ r.end \in Int
  BY RequestFacts
<1>2. n = Mentions(U, k)
  BY <1>1, MentionsAddUp
<1>3. U \subseteq Between(N, r.start, r.end + Slack(r, r.end))
  BY <1>1, SpanInPeriod
<1>4. most \in SUBSET Articles /\ U \in SUBSET most
  BY <1>3, BetweenGrows DEF Between
<1>5. Covered(r) => least \subseteq U
  BY <1>1, PeriodInSpan, CacheCovers
<1>6. U \in SUBSET Articles
  BY <1>4
<1> HIDE DEF U, n, most, least
<1>7. Mentions(U, k) \in Nat /\ Mentions(U, k) <= Mentions(most, k)
  BY <1>4, MentionsGrow
<1>8. Covered(r) => Mentions(least, k) <= Mentions(U, k) /\ Mentions(least, k) \in Nat
  BY <1>5, <1>6, MentionsGrow
<1>9. n <= Mentions(most, k) /\ (Covered(r) => n >= Mentions(least, k))
  BY <1>2, <1>7, <1>8
<1> QED
  BY <1>9 DEF n, most, least

\* Every trend row of the period is the only one of its bucket, and is shown in it.
LEMMA TrendAddsUp ==
  ASSUME trends \in [WindowStarts \X Keywords -> TrendCounts], NEW r \in Requests,
         r.bucket <= WindowLength, NEW k \in Keywords, NEW points, NEW A,
         A = Buckets(r.start, r.end, r.bucket) \X {k},
         \A p \in A : points[p] = TrendPoint(r, p[1], k)
  PROVE  SumFunctionOnSet(points, A) = TrendMentions(r.start, r.end, k)
<1> DEFINE f == [s \in WindowStarts |-> trends[<<s, k>>]]
           S == WindowsBetween(r.start, r.end)
           R == {s \in S : f[s] > 0}
           W(i) == {s \in WindowsInBucket(r, i) : trends[<<s, k>>] > 0}
           part == [p \in A |-> LastOf(W(p[1]))]
<1>1. /\ S \subseteq WindowStarts /\ IsFiniteSet(S) /\ R \in SUBSET S /\ IsFiniteSet(R)
      /\ \A s \in S : f[s] \in Nat
  <2>1. S \subseteq WindowStarts
    BY DEF WindowsBetween
  <2>2. IsFiniteSet(S) /\ R \in SUBSET S
    BY <2>1, DashboardAssumption, FS_Subset
  <2>3. IsFiniteSet(R)
    <3> HIDE DEF R
    <3> QED BY <2>2, FS_Subset
  <2>4. \A s \in S : f[s] \in Nat
    BY <2>1, DashboardAssumption
  <2> QED
    BY <2>1, <2>2, <2>3, <2>4
<1>2. IsFiniteSet(A)
  BY RequestFacts, BucketNumbers, FS_Product, FS_Singleton
<1>3. ASSUME NEW i PROVE LastOf(W(i)) = W(i)
  <2> SUFFICES ASSUME NEW s \in W(i), NEW t \in W(i) PROVE t <= s
    BY DEF LastOf
  <2> DEFINE o == r.start
             b == r.bucket
  <2>1. /\ s \in WindowStarts /\ t \in WindowStarts /\ s \in Int /\ t \in Int
        /\ o \in Int /\ b \in Nat \ {0} /\ b <= WindowLength /\ WindowLength \in Nat
        /\ BucketIndex(s, o, b) = i /\ BucketIndex(t, o, b) = i
    BY RequestFacts, DashboardAssumption DEF WindowsInBucket, WindowsBetween
  <2> HIDE DEF o, b
  <2>2. i \in Int /\ o + i * b <= s /\ t < o + (i + 1) * b
    BY <2>1, BucketHolds
  <2>3. i * b \in Int /\ (i + 1) * b = i * b + b
    BY <2>1, <2>2, BucketOrder
  <2>4. t - s < WindowLength
    BY <2>1, <2>2, <2>3
  <2>5. s < t => t - s >= WindowLength
    BY <2>1, DashboardAssumption
  <2> QED
    BY <2>1, <2>4, <2>5
<1>4. ASSUME NEW i PROVE W(i) \subseteq R
  BY <1>1 DEF WindowsInBucket
<1>5. part \in [A -> SUBSET R]
  <2>1. \A i : LastOf(W(i)) \subseteq R
    BY <1>3, <1>4
  <2> HIDE DEF W, R
  <2> QED
    BY <2>1
<1>6. \A p, q \in A : p # q => part[p] \intersect part[q] = {}
  <2>1. ASSUME NEW i, NEW h, i # h PROVE LastOf(W(i)) \intersect LastOf(W(h)) = {}
    <3>1. W(i) \intersect W(h) = {}
      BY <2>1 DEF WindowsInBucket
    <3>2. LastOf(W(i)) = W(i) /\ LastOf(W(h)) = W(h)
      BY <1>3
    <3> HIDE DEF W
    <3> QED
      BY <3>1, <3>2
  <2>2. \A p, q \in A : p # q => p[1] # q[1]
    OBVIOUS
  <2> HIDE DEF W
  <2> QED
    BY <2>1, <2>2
<1>7. \A p \in A : points[p] = SumFunctionOnSet(f, part[p])
  <2> SUFFICES ASSUME NEW p \in A PROVE points[p] = SumFunctionOnSet(f, LastOf(W(p[1])))
    OBVIOUS
  <2> QED
    BY Zenon DEF TrendPoint
<1>8. UNION {part[p] : p \in A} = R
  <2>1. ASSUME NEW s \in R PROVE s \in UNION {part[p] : p \in A}
    <3> DEFINE i == BucketIndex(s, r.start, r.bucket)
    <3>1. i \in Buckets(r.start, r.end, r.bucket)
      <4>1. s \in Int /\ r.start <= s /\ s < r.end
        BY DashboardAssumption DEF WindowsBetween
      <4> QED
        BY <4>1, RequestFacts, IndexInPeriod
    <3>2. s \in W(i)
      BY <1>1 DEF WindowsInBucket
    <3> HIDE DEF i
    <3>3. <<i, k>> \in A /\ <<i, k>>[1] = i
      BY <3>1
    <3>4. part[<<i, k>>] = W(i)
      BY <1>3, <3>3
    <3> HIDE DEF part, W, R
    <3> QED
      BY <3>2, <3>3, <3>4
  <2>2. \A p \in A : part[p] \subseteq R
    BY <1>5
  <2> HIDE DEF part, R
  <2> QED
    BY <2>1, <2>2
<1> HIDE DEF f, S, R, W, part
<1>9. SumFunctionOnSet(points, A) = SumFunctionOnSet(f, UNION {part[p] : p \in A})
  <2>1. IsFiniteSet(R) /\ \A s \in R : f[s] \in Nat
    BY <1>1
  <2> QED
    BY <1>2, <1>5, <1>6, <1>7, <2>1, SumOfParts
<1>10. SumFunctionOnSet(f, S) = SumFunctionOnSet(f, R)
  <2>1. \A s \in S \ R : f[s] = 0
    BY <1>1 DEF R
  <2> QED
    BY <1>1, <2>1, SumOfSupport
<1>11. SumFunctionOnSet(points, A) = SumFunctionOnSet(f, S)
  BY <1>8, <1>9, <1>10, Zenon
<1> QED
  BY <1>11, Zenon DEF TrendMentions, f, S

\* Every article of the period is in one bucket.
LEMMA WindowAddsUp ==
  ASSUME keywords \in [ArticleKeys -> [Keywords -> KeywordCounts]], NEW r \in Requests,
         NEW N \in SUBSET Articles, NEW k \in Keywords, NEW points,
         \A p \in Buckets(r.start, r.end, r.bucket) \X {k} :
            points[p] = Mentions(InBucket(Between(N, r.start, r.end), r.start, r.bucket, p[1]), k)
  PROVE  SumFunctionOnSet(points, Buckets(r.start, r.end, r.bucket) \X {k})
           = Mentions(Between(N, r.start, r.end), k)
<1> DEFINE dated == Between(N, r.start, r.end)
           A == Buckets(r.start, r.end, r.bucket) \X {k}
           f == [a \in Articles |-> keywords[KeyOf[a]][k]]
           part == [p \in A |-> InBucket(dated, r.start, r.bucket, p[1])]
<1>1. dated \subseteq Articles /\ IsFiniteSet(dated) /\ \A a \in dated : f[a] \in Nat
  <2>1. dated \subseteq Articles
    BY DEF Between
  <2>2. \A a \in dated : f[a] \in Nat
    BY <2>1, DashboardAssumption DEF ArticleKeys
  <2> QED
    BY <2>1, <2>2, DashboardAssumption, FS_Subset
<1>2. IsFiniteSet(A)
  BY RequestFacts, BucketNumbers, FS_Product, FS_Singleton
<1>3. part \in [A -> SUBSET dated]
  BY DEF InBucket
<1>4. \A p, q \in A : p # q => part[p] \intersect part[q] = {}
  BY DEF InBucket
<1>5. \A p \in A : points[p] = SumFunctionOnSet(f, part[p])
  <2> SUFFICES ASSUME NEW p \in A
               PROVE  points[p] = SumFunctionOnSet(f, InBucket(dated, r.start, r.bucket, p[1]))
    OBVIOUS
  <2> QED
    BY Zenon DEF Mentions
<1>6. UNION {part[p] : p \in A} = dated
  <2>1. ASSUME NEW a \in dated PROVE a \in UNION {part[p] : p \in A}
    <3> DEFINE i == BucketIndex(EventTime[a], r.start, r.bucket)
    <3>1. i \in Buckets(r.start, r.end, r.bucket)
      <4>1. EventTime[a] \in Int /\ r.start <= EventTime[a] /\ EventTime[a] < r.end
        BY <1>1, DashboardAssumption DEF Between
      <4> QED
        BY <4>1, RequestFacts, IndexInPeriod
    <3>2. a \in InBucket(dated, r.start, r.bucket, i)
      BY DEF InBucket
    <3> HIDE DEF i
    <3>3. <<i, k>> \in A /\ part[<<i, k>>] = InBucket(dated, r.start, r.bucket, i)
      BY <3>1
    <3> HIDE DEF part
    <3> QED
      BY <3>2, <3>3
  <2>2. \A p \in A : part[p] \subseteq dated
    BY <1>3
  <2> HIDE DEF part
  <2> QED
    BY <2>1, <2>2
<1> HIDE DEF f, part
<1>7. SumFunctionOnSet(points, A) = SumFunctionOnSet(f, UNION {part[p] : p \in A})
  <2>1. IsFiniteSet(dated) /\ \A a \in dated : f[a] \in Nat
    BY <1>1
  <2> QED
    BY <1>2, <1>3, <1>4, <1>5, <2>1, SumOfParts, SMTT(60)
<1> QED
  BY <1>6, <1>7, Zenon DEF Mentions, f

\* What has been read stays what it was.
LEMMA MentionsStay ==
  ASSUME UNCHANGED <<keywords, request, candidates>>, NEW stored
  PROVE  MentionCounts(stored, request, candidates)' = MentionCounts(stored, request, candidates)
<1>1. ASSUME NEW p \in CacheBuckets(request) \X candidates
      PROVE  Mentions(CachedIn(stored, request, p[1]), p[2])'
               = Mentions(CachedIn(stored, request, p[1]), p[2])
  BY DEF Mentions
<1>2. (CacheBuckets(request) \X candidates)' = CacheBuckets(request) \X candidates
  OBVIOUS
<1> QED
  BY <1>1, <1>2 DEF MentionCounts

-----------------------------------------------------------------------------
(* The writers.                                                            *)

\* An article that is new adds to what has been there and brings no mentions yet; one
\* that is delivered again takes its older row with it.
LEMMA StoreArticleKeeps ==
  ASSUME DashboardInv, NEW a \in Articles, StoreArticle(a)
  PROVE  DashboardInv'
<1> USE DEF DashboardInv
<1>1. /\ since \in SUBSET since' /\ since' \in SUBSET Articles /\ newsRaw' \in SUBSET since'
      /\ atStart' \in SUBSET newsRaw' /\ atStart' \in SUBSET atStart /\ atStart \in SUBSET Articles
      /\ changes' \in 0 .. MaxChanges /\ disturbed' \in BOOLEAN
      /\ UNCHANGED <<keywords, trends, request, stage, candidates, articleBuckets, keywordBuckets,
                     shown>>
  <2> DEFINE replaced == {b \in newsRaw : KeyOf[b] = KeyOf[a]}
  <2>1. /\ newsRaw' = (newsRaw \ replaced) \union {a} /\ atStart' = atStart \ replaced
        /\ since' = since \union {a} /\ disturbed' = (disturbed \/ replaced # {}) /\ Change
        /\ UNCHANGED <<keywords, trends, request, stage, candidates, articleBuckets, keywordBuckets,
                       shown>>
    BY DEF StoreArticle, results
  <2>2. /\ atStart \subseteq newsRaw /\ newsRaw \subseteq since /\ since \subseteq Articles
        /\ disturbed \in BOOLEAN /\ changes \in 0 .. MaxChanges
    BY DEF TypeOK
  <2> HIDE DEF replaced
  <2>3. changes' \in 0 .. MaxChanges
    BY <2>1, <2>2, DashboardAssumption DEF Change
  <2> QED
    BY <2>1, <2>2, <2>3
<1>2. keywords \in [ArticleKeys -> [Keywords -> KeywordCounts]]
  BY DEF TypeOK
<1>3. ~disturbed' => /\ ~disturbed /\ newsRaw' = newsRaw \union {a} /\ atStart' = atStart
                     /\ \A b \in newsRaw : KeyOf[b] # KeyOf[a]
  BY DEF StoreArticle, TypeOK
<1>4. ASSUME NEW from, NEW until
      PROVE  /\ Cardinality(Between(since, from, until))
                <= Cardinality(Between(since', from, until))
             /\ Cardinality(Between(since, from, until)) \in Nat
             /\ Cardinality(Between(since', from, until)) \in Nat
             /\ \A k \in Keywords : /\ Mentions(Between(since, from, until), k)
                                         <= Mentions(Between(since', from, until), k)
                                    /\ Mentions(Between(since, from, until), k) \in Nat
                                    /\ Mentions(Between(since', from, until), k) \in Nat
  <2> DEFINE M == Between(since, from, until)
             N == Between(since', from, until)
  <2>1. M \in SUBSET N /\ N \in SUBSET Articles
    BY <1>1, BetweenGrows
  <2> HIDE DEF M, N
  <2>2. /\ Cardinality(M) <= Cardinality(N) /\ Cardinality(M) \in Nat /\ Cardinality(N) \in Nat
    BY <2>1, CountsGrow
  <2>3. \A k \in Keywords : /\ Mentions(M, k) <= Mentions(N, k)
                            /\ Mentions(M, k) \in Nat /\ Mentions(N, k) \in Nat
    BY <1>2, <2>1, MentionsGrow
  <2> QED
    BY <2>2, <2>3 DEF M, N
<1>5. ASSUME ~disturbed', NEW from, NEW until, NEW k \in Keywords
      PROVE  Mentions(Between(newsRaw' \ Undated, from, until), k)
               = Mentions(Between(newsRaw \ Undated, from, until), k)
  <2> DEFINE M == Between(newsRaw \ Undated, from, until)
             N == Between(newsRaw' \ Undated, from, until)
             f == [b \in Articles |-> keywords[KeyOf[b]][k]]
  <2>1. M \in SUBSET N /\ N \in SUBSET Articles /\ N \ M \subseteq {a}
    BY <1>1, <1>3, <1>5 DEF Between
  <2>2. \A b \in N : f[b] \in Nat
    BY <1>2, <2>1, DashboardAssumption DEF ArticleKeys
  <2>3. f[a] = 0
    <3>1. KeyOf[a] \in ArticleKeys \ StoredKeys
      BY <1>3, <1>5 DEF ArticleKeys, StoredKeys
    <3>2. keywords[KeyOf[a]] = NoMentions
      BY <3>1 DEF MentionsInv, StoredKeys
    <3> QED
      BY <3>2 DEF NoMentions
  <2>4. IsFiniteSet(N)
    BY <2>1, CountsGrow
  <2> HIDE DEF M, N, f
  <2>5. \A b \in N \ M : f[b] = 0
    BY <2>1, <2>3
  <2>6. SumFunctionOnSet(f, N) = SumFunctionOnSet(f, M)
    BY <2>1, <2>2, <2>4, <2>5, SumOfSupport
  <2> QED
    BY <2>6, Zenon DEF Mentions, M, N, f
<1>6. ASSUME NEW from, NEW until
      PROVE  Cardinality(Between(atStart', from, until)) <= Cardinality(Between(atStart, from, until))
             /\ Cardinality(Between(atStart', from, until)) \in Nat
             /\ Cardinality(Between(atStart, from, until)) \in Nat
  <2> DEFINE M == Between(atStart', from, until)
             N == Between(atStart, from, until)
  <2>1. M \in SUBSET N /\ N \in SUBSET Articles
    BY <1>1, BetweenGrows
  <2> HIDE DEF M, N
  <2>2. /\ Cardinality(M) <= Cardinality(N) /\ Cardinality(M) \in Nat /\ Cardinality(N) \in Nat
    BY <2>1, CountsGrow
  <2> QED
    BY <2>2 DEF M, N
<1>7. TypeOK'
  <2>1. Cardinality(since) \in Nat /\ Cardinality(since') \in Nat
        /\ Cardinality(since) <= Cardinality(since')
    BY <1>1, CountsGrow
  <2>2. \A i \in DOMAIN articleBuckets : articleBuckets[i] \in 0 .. Cardinality(since')
    BY <2>1 DEF TypeOK
  <2>3. newsRaw' \subseteq Articles
    BY <1>1
  <2> QED
    BY <1>1, <1>2, <2>2, <2>3 DEF TypeOK
<1>8. StagesInv' /\ MentionsInv'
  <2>1. StoredKeys \subseteq StoredKeys'
    <3> SUFFICES ASSUME NEW b \in newsRaw PROVE KeyOf[b] \in StoredKeys'
      BY DEF StoredKeys
    <3>1. a \in newsRaw' /\ (KeyOf[b] # KeyOf[a] => b \in newsRaw')
      BY DEF StoreArticle
    <3> QED
      BY <3>1 DEF StoredKeys
  <2>2. MentionsInv'
    BY <1>1, <2>1 DEF MentionsInv, NoMentions
  <2> QED
    BY <1>1, <2>2 DEF StagesInv
<1>9. request # NoRequest =>
        request \in Requests /\ request.names \subseteq Keywords /\ request.start \in Int
  BY RequestFacts DEF TypeOK
<1>10. CountOfKpis(request) => CountOfKpis(request)'
  <2> SUFFICES ASSUME NEW stored \in SUBSET since, atStart \subseteq stored,
                      shown.current = Cardinality(Between(stored, request.start, request.end)),
                      shown.prev = Cardinality(Between(stored, PrevStart(request), request.start))
               PROVE  CountOfKpis(request)'
    BY DEF CountOfKpis
  <2> QED
    BY <1>1 DEF CountOfKpis
<1>11. ReadInv'
  <2>1. stage \in {"keywords", "derive"} =>
          \E stored \in SUBSET since' :
            atStart' \subseteq stored /\ articleBuckets = ArticleCounts(stored, request)
    BY <1>1 DEF ReadInv
  <2>2. stage = "derive" /\ ~disturbed' =>
          \E stored \in SUBSET since' :
            /\ atStart' \subseteq stored
            /\ keywordBuckets = MentionCounts(stored, request, candidates)'
    BY <1>1, <1>3, MentionsStay DEF ReadInv
  <2>3. stage = "derive" => keywordBuckets \in [CacheBuckets(request) \X candidates -> Nat]
    BY DEF ReadInv
  <2>4. stage = "unique" => CountOfKpis(request)'
    BY <1>10 DEF ReadInv
  <2>5. stage \in {"keywords", "derive"} =>
          \E stored \in SUBSET since' :
            atStart' \subseteq stored /\ articleBuckets = ArticleCounts(stored, request)'
    BY <1>1, <2>1 DEF ArticleCounts
  <2> QED
    BY <1>1, <2>2, <2>3, <2>4, <2>5 DEF ReadInv
<1>12. ASSUME NEW n \in Nat, NEW from, NEW until, CountOfPeriod(n, request, from, until)
       PROVE  /\ Covered(request) =>
                   Cardinality(Between(atStart', from + Slack(request, from), until)) <= n
              /\ n <= Cardinality(Between(since', from, until + Slack(request, until)))
  <2> DEFINE most == Cardinality(Between(since, from, until + Slack(request, until)))
             most2 == Cardinality(Between(since', from, until + Slack(request, until)))
             least == Cardinality(Between(atStart, from + Slack(request, from), until))
             least2 == Cardinality(Between(atStart', from + Slack(request, from), until))
  <2>1. most <= most2 /\ most \in Nat /\ most2 \in Nat
    BY <1>4
  <2>2. least2 <= least /\ least2 \in Nat /\ least \in Nat
    BY <1>6
  <2>3. n <= most /\ (Covered(request) => least <= n)
    BY <1>12 DEF CountOfPeriod
  <2> HIDE DEF most, most2, least, least2
  <2>4. n <= most2 /\ (Covered(request) => least2 <= n)
    BY <2>1, <2>2, <2>3
  <2> QED
    BY <2>4 DEF most2, least2
<1>13. PeriodCounts'
  <2>1. shown.current \in Nat /\ shown.prev \in Nat
    BY DEF TypeOK
  <2>2. Answered("overview") =>
          /\ CountOfPeriod(shown.current, request, request.start, request.end)'
          /\ CountOfPeriod(shown.prev, request, PrevStart(request), request.start)'
    <3> DEFINE c == shown.current
               p == shown.prev
               from == request.start
               until == request.end
               before == PrevStart(request)
    <3> SUFFICES ASSUME Answered("overview")
                 PROVE  /\ CountOfPeriod(c, request, from, until)'
                        /\ CountOfPeriod(p, request, before, from)'
      OBVIOUS
    <3>1. CountOfPeriod(c, request, from, until) /\ CountOfPeriod(p, request, before, from)
      BY DEF PeriodCounts
    <3>2. c' = c /\ p' = p /\ from' = from /\ until' = until /\ before' = before
      BY <1>1
    <3>3. \A n \in Nat : \A x, y : CountOfPeriod(n, request, x, y) =>
             /\ Covered(request) => Cardinality(Between(atStart', x + Slack(request, x), y)) <= n
             /\ n <= Cardinality(Between(since', x, y + Slack(request, y)))
      BY <1>12
    <3> QED
      BY <1>1, <2>1, <3>1, <3>3 DEF CountOfPeriod
  <2>3. Answered("kpis") => CountOfKpis(request)'
    BY <1>10 DEF PeriodCounts
  <2> QED
    BY <1>1, <2>2, <2>3 DEF PeriodCounts, Answered
<1>14. OverviewMentions'
  <2> SUFFICES ASSUME Answered("overview"), ~disturbed', NEW k \in candidates
               PROVE  /\ Covered(request) => shown.mentions[k] >=
                           Mentions(Between(atStart', request.start + Slack(request, request.start),
                                            request.end), k)
                      /\ shown.mentions[k] <=
                           Mentions(Between(since', request.start,
                                            request.end + Slack(request, request.end)), k)
    BY <1>1 DEF OverviewMentions, Answered, Mentions
  <2> DEFINE n == shown.mentions[k]
             most == Mentions(Between(since, request.start,
                                      request.end + Slack(request, request.end)), k)
             most2 == Mentions(Between(since', request.start,
                                       request.end + Slack(request, request.end)), k)
  <2>1. k \in Keywords /\ n \in Nat
    BY DEF TypeOK
  <2>2. most <= most2 /\ most \in Nat /\ most2 \in Nat
    BY <1>4, <2>1
  <2>3. n <= most
    BY <1>3 DEF OverviewMentions
  <2>4. n <= most2
    <3> HIDE DEF n, most, most2
    <3> QED BY <2>1, <2>2, <2>3
  <2> QED
    BY <1>3, <2>4 DEF OverviewMentions
<1>15. SeriesAreComplete'
  <2>1. ASSUME ~disturbed', Answered("window"), NEW k \in request.names
        PROVE  Total(k) = Mentions(Between(newsRaw' \ Undated, request.start, request.end), k)
    <3>1. k \in Keywords
      BY <1>9, <2>1 DEF Answered
    <3>2. Total(k) = Mentions(Between(newsRaw \ Undated, request.start, request.end), k)
      BY <1>3, <2>1 DEF SeriesAreComplete
    <3> QED
      BY <1>5, <2>1, <3>1, <3>2
  <2> QED
    BY <1>1, <1>3, <2>1 DEF SeriesAreComplete, Answered, Total, TrendMentions, Mentions
<1> QED
  BY <1>7, <1>8, <1>11, <1>13, <1>14, <1>15

\* What is rewritten while a request runs is no longer held against its mentions.
LEMMA RewriteKeeps ==
  ASSUME DashboardInv,
         \/ \E a \in Articles, k \in Keywords, n \in KeywordCounts : StoreKeyword(a, k, n)
         \/ \E s \in WindowStarts, k \in Keywords, n \in TrendCounts : StoreTrend(s, k, n)
  PROVE  DashboardInv'
<1> USE DEF DashboardInv
<1>1. /\ changes' \in 0 .. MaxChanges /\ disturbed' = TRUE
      /\ UNCHANGED <<newsRaw, request, stage, candidates, articleBuckets, keywordBuckets, shown,
                     atStart, since>>
  <2>1. /\ Change /\ disturbed' = TRUE
        /\ UNCHANGED <<newsRaw, request, stage, candidates, articleBuckets, keywordBuckets, shown,
                       atStart, since>>
    BY DEF StoreKeyword, StoreTrend, results
  <2>2. changes' \in 0 .. MaxChanges
    BY <2>1, DashboardAssumption DEF Change, TypeOK
  <2> QED
    BY <2>1, <2>2
<1>2. keywords' \in [ArticleKeys -> [Keywords -> KeywordCounts]] /\ MentionsInv'
  <2>1. ASSUME NEW a \in Articles, NEW k \in Keywords, NEW n \in KeywordCounts,
               StoreKeyword(a, k, n)
        PROVE  keywords' \in [ArticleKeys -> [Keywords -> KeywordCounts]] /\ MentionsInv'
    <3> DEFINE key == KeyOf[a]
    <3>1. keywords' = [keywords EXCEPT ![key] = [keywords[key] EXCEPT ![k] = n]]
          /\ key \in StoredKeys /\ key \in ArticleKeys
      BY <2>1 DEF StoreKeyword, StoredKeys, ArticleKeys
    <3>2. keywords \in [ArticleKeys -> [Keywords -> KeywordCounts]]
      BY DEF TypeOK
    <3>3. [keywords[key] EXCEPT ![k] = n] \in [Keywords -> KeywordCounts]
      BY <3>1, <3>2
    <3> HIDE DEF key
    <3>4. keywords' \in [ArticleKeys -> [Keywords -> KeywordCounts]]
      BY <3>1, <3>2, <3>3
    <3>5. \A b \in ArticleKeys \ StoredKeys : keywords'[b] = keywords[b]
      BY <3>1, <3>2
    <3> QED
      BY <1>1, <3>4, <3>5 DEF MentionsInv, NoMentions, StoredKeys
  <2>2. ASSUME NEW s \in WindowStarts, NEW k \in Keywords, NEW n \in TrendCounts,
               StoreTrend(s, k, n)
        PROVE  keywords' \in [ArticleKeys -> [Keywords -> KeywordCounts]] /\ MentionsInv'
    BY <1>1, <2>2 DEF StoreTrend, MentionsInv, NoMentions, StoredKeys, TypeOK
  <2> QED
    BY <2>1, <2>2
<1>3. trends' \in [WindowStarts \X Keywords -> TrendCounts]
  <2>1. trends \in [WindowStarts \X Keywords -> TrendCounts]
    BY DEF TypeOK
  <2> QED
    BY <2>1 DEF StoreKeyword, StoreTrend
<1>4. TypeOK'
  BY <1>1, <1>2, <1>3 DEF TypeOK
<1>5. StagesInv' /\ ReadInv' /\ PeriodCounts'
  BY <1>1 DEF StagesInv, ReadInv, ArticleCounts, PeriodCounts, Answered, CountOfPeriod, CountOfKpis
<1>6. OverviewMentions' /\ SeriesAreComplete'
  BY <1>1 DEF OverviewMentions, SeriesAreComplete
<1> QED
  BY <1>2, <1>4, <1>5, <1>6

-----------------------------------------------------------------------------
(* The requests.                                                           *)

\* A statement belongs to requests of one kind.
LEMMA KindOfStage ==
  ASSUME TypeOK, StagesInv, stage # "answered"
  PROVE  /\ request \in Requests /\ Accepted(request)
         /\ stage \in {"candidates", "articles", "keywords", "derive"} => request.kind = "overview"
         /\ stage \in {"kpis", "unique"} => request.kind = "kpis"
         /\ stage = "trend" => request.kind = "trend"
         /\ stage = "window" => request.kind = "window"
<1>1. request \in Requests /\ Accepted(request) /\ stage \in StagesOf[request.kind]
  BY DEF TypeOK, StagesInv
<1>2. request.kind \in Kinds
  BY <1>1, RequestFacts
<1> QED
  BY <1>1, <1>2 DEF Kinds, StagesOf

\* A request arrives, and starts with nothing read.
LEMMA ReceiveKeeps ==
  ASSUME DashboardInv, NEW r \in Requests, Receive(r)
  PROVE  DashboardInv'
<1> USE DEF DashboardInv
<1>1. /\ Accepted(r) /\ request' = r /\ stage' = FirstStage(r.kind)
      /\ candidates' = {} /\ articleBuckets' = <<>> /\ keywordBuckets' = <<>> /\ shown' = NoAnswer
      /\ atStart' = newsRaw /\ since' = newsRaw /\ disturbed' = FALSE
      /\ UNCHANGED <<newsRaw, keywords, trends, changes>>
  BY DEF Receive, tables
<1>2. r.kind \in Kinds /\ r # NoRequest
  BY RequestFacts, DashboardAssumption
<1>3. /\ stage' \in Stages /\ stage' \in StagesOf[r.kind]
      /\ stage' \notin {"answered", "keywords", "derive", "unique"}
  BY <1>1, <1>2 DEF FirstStage, Kinds, StagesOf, Stages
<1>4. DOMAIN articleBuckets' = {} /\ DOMAIN keywordBuckets' = {}
  BY <1>1
<1>5. candidates' \subseteq Keywords /\ Cardinality(candidates') <= Limit
  BY <1>1, FS_EmptySet, DashboardAssumption
<1>6. shown' \in [current : Nat, prev : Nat, unique : 0 .. Cardinality(Keywords),
                  mentions : [Keywords -> Nat]]
  <2>1. 0 \in 0 .. Cardinality(Keywords)
    BY DashboardAssumption, FS_CardinalityType
  <2>2. NoMentions \in [Keywords -> Nat]
    BY DEF NoMentions
  <2> QED
    BY <1>1, <2>1, <2>2 DEF NoAnswer
<1>7. TypeOK'
  BY <1>1, <1>3, <1>4, <1>5, <1>6 DEF TypeOK
<1>8. StagesInv'
  BY <1>1, <1>2, <1>3 DEF StagesInv, Accepted
<1>9. MentionsInv'
  BY <1>1 DEF MentionsInv, StoredKeys
<1>10. ReadInv' /\ PeriodCounts' /\ OverviewMentions' /\ SeriesAreComplete'
  BY <1>3 DEF ReadInv, PeriodCounts, OverviewMentions, SeriesAreComplete, Answered
<1> QED
  BY <1>7, <1>8, <1>9, <1>10

\* The candidates are at most the LIMIT of their query.
LEMMA FetchCandidatesKeeps ==
  ASSUME DashboardInv, FetchCandidates
  PROVE  DashboardInv'
<1> USE DEF DashboardInv
<1>1. /\ stage = "candidates" /\ stage' = "articles"
      /\ candidates' \in TopKeywords(request.fetchStart, request.fetchEnd)
      /\ UNCHANGED <<newsRaw, keywords, trends, changes, request, articleBuckets, keywordBuckets,
                     shown, atStart, since, disturbed>>
  BY DEF FetchCandidates, Proceed, tables, history
<1>2. request \in Requests /\ Accepted(request) /\ request.kind = "overview"
  BY <1>1, KindOfStage
<1>3. candidates' \subseteq Keywords /\ Cardinality(candidates') <= Limit
  <2> DEFINE T == Trending(request.fetchStart, request.fetchEnd)
  <2>1. candidates' \subseteq T /\ Cardinality(candidates') = Min({Limit, Cardinality(T)})
    BY <1>1 DEF TopKeywords
  <2>2. T \subseteq Keywords
    BY DEF Trending
  <2> HIDE DEF T
  <2>3. Limit \in Nat /\ Cardinality(T) \in Nat
    BY <2>2, DashboardAssumption, FS_Subset, FS_CardinalityType
  <2>4. Min({Limit, Cardinality(T)}) <= Limit
    BY <2>3, MinOfTwo
  <2> QED
    BY <2>1, <2>2, <2>4
<1>4. TypeOK'
  BY <1>1, <1>3 DEF TypeOK, Stages
<1>5. StagesInv'
  BY <1>1, <1>2 DEF StagesInv, StagesOf
<1>6. MentionsInv'
  BY <1>1 DEF MentionsInv, StoredKeys
<1>7. ReadInv' /\ PeriodCounts' /\ OverviewMentions' /\ SeriesAreComplete'
  BY <1>1 DEF ReadInv, PeriodCounts, OverviewMentions, SeriesAreComplete, Answered
<1> QED
  BY <1>4, <1>5, <1>6, <1>7

\* The cache of articles is read at one instant, this one.
LEMMA FetchArticleBucketsKeeps ==
  ASSUME DashboardInv, FetchArticleBuckets
  PROVE  DashboardInv'
<1> USE DEF DashboardInv
<1>1. /\ stage = "articles" /\ stage' = "keywords"
      /\ articleBuckets' = ArticleCounts(newsRaw, request)
      /\ UNCHANGED <<newsRaw, keywords, trends, changes, request, candidates, keywordBuckets,
                     shown, atStart, since, disturbed>>
  BY DEF FetchArticleBuckets, Proceed, tables, history
<1>2. request \in Requests /\ Accepted(request) /\ request.kind = "overview"
  BY <1>1, KindOfStage
<1>3. ASSUME NEW i \in DOMAIN articleBuckets' PROVE articleBuckets'[i] \in 0 .. Cardinality(since)
  <2> DEFINE M == CachedIn(newsRaw, request, i)
  <2>1. articleBuckets'[i] = Cardinality(M)
    BY <1>1 DEF ArticleCounts
  <2>2. M \in SUBSET since /\ since \in SUBSET Articles
    BY DEF CachedIn, InBucket, Cached, Between, TypeOK
  <2> HIDE DEF M
  <2> QED
    BY <2>1, <2>2, CountsGrow
<1>4. TypeOK'
  BY <1>1, <1>3 DEF TypeOK, Stages
<1>5. StagesInv'
  BY <1>1, <1>2 DEF StagesInv, StagesOf
<1>6. MentionsInv'
  BY <1>1 DEF MentionsInv, StoredKeys
<1>7. ReadInv'
  <2>1. articleBuckets' = ArticleCounts(newsRaw, request)' /\ atStart' \subseteq newsRaw'
        /\ newsRaw' \in SUBSET since'
    BY <1>1 DEF ArticleCounts, TypeOK
  <2> QED
    BY <1>1, <2>1 DEF ReadInv
<1>8. PeriodCounts' /\ OverviewMentions' /\ SeriesAreComplete'
  BY <1>1 DEF PeriodCounts, OverviewMentions, SeriesAreComplete, Answered
<1> QED
  BY <1>4, <1>5, <1>6, <1>7, <1>8

\* And so is that of keywords, between two statements of which writers may have come.
LEMMA FetchKeywordBucketsKeeps ==
  ASSUME DashboardInv, FetchKeywordBuckets
  PROVE  DashboardInv'
<1> USE DEF DashboardInv
<1>1. /\ stage = "keywords" /\ stage' = "derive"
      /\ keywordBuckets' = MentionCounts(newsRaw, request, candidates)
      /\ UNCHANGED <<newsRaw, keywords, trends, changes, request, candidates, articleBuckets,
                     shown, atStart, since, disturbed>>
  BY DEF FetchKeywordBuckets, Proceed, tables, history
<1>2. request \in Requests /\ Accepted(request) /\ request.kind = "overview"
  BY <1>1, KindOfStage
<1>3. keywordBuckets' \in [CacheBuckets(request) \X candidates -> Nat]
  <2>1. ASSUME NEW p \in CacheBuckets(request) \X candidates
        PROVE  Mentions(CachedIn(newsRaw, request, p[1]), p[2]) \in Nat
    <3> DEFINE M == CachedIn(newsRaw, request, p[1])
    <3>1. M \in SUBSET Articles /\ p[2] \in Keywords
      BY DEF CachedIn, InBucket, Cached, Between, TypeOK
    <3>2. keywords \in [ArticleKeys -> [Keywords -> KeywordCounts]]
      BY DEF TypeOK
    <3> HIDE DEF M
    <3>3. Mentions(M, p[2]) \in Nat
      BY <3>1, <3>2, MentionsGrow
    <3> QED
      BY <3>3 DEF M
  <2> QED
    BY <1>1, <2>1 DEF MentionCounts
<1>4. TypeOK'
  BY <1>1, <1>3 DEF TypeOK, Stages
<1>5. StagesInv'
  BY <1>1, <1>2 DEF StagesInv, StagesOf
<1>6. MentionsInv'
  BY <1>1 DEF MentionsInv, StoredKeys
<1>7. ReadInv'
  <2>1. keywordBuckets' = MentionCounts(newsRaw, request, candidates)'
        /\ atStart' \subseteq newsRaw'
        /\ newsRaw' \in SUBSET since'
    <3>1. MentionCounts(newsRaw, request, candidates)' = MentionCounts(newsRaw, request, candidates)
      <4> DEFINE N == newsRaw
      <4>1. ASSUME NEW stored, stored = newsRaw
            PROVE  MentionCounts(stored, request, candidates)'
                     = MentionCounts(stored, request, candidates)
        BY <1>1, MentionsStay
      <4> QED
        BY <1>1, <4>1 DEF MentionCounts
    <3> QED
      BY <1>1, <3>1 DEF TypeOK
  <2>2. \E stored \in SUBSET since :
           atStart \subseteq stored /\ articleBuckets = ArticleCounts(stored, request)
    BY <1>1 DEF ReadInv
  <2> QED
    BY <1>1, <1>3, <2>1, <2>2 DEF ReadInv, ArticleCounts
<1>8. PeriodCounts' /\ OverviewMentions' /\ SeriesAreComplete'
  BY <1>1 DEF PeriodCounts, OverviewMentions, SeriesAreComplete, Answered
<1> QED
  BY <1>4, <1>5, <1>6, <1>7, <1>8

\* The cached buckets add up to the periods.
LEMMA DeriveOverviewKeeps ==
  ASSUME DashboardInv, DeriveOverview
  PROVE  DashboardInv'
<1> DEFINE r == request
           current == Indices(r, r.start, r.end)
           prev == Indices(r, PrevStart(r), r.start)
           mentions == [k \in Keywords |->
                          IF k \in candidates
                          THEN SumFunctionOnSet(keywordBuckets, current \X {k}) ELSE 0]
           c == SumFunctionOnSet(articleBuckets, current)
           p == SumFunctionOnSet(articleBuckets, prev)
           u == Cardinality({k \in Keywords : mentions[k] > 0})
<1> USE DEF DashboardInv
<1>1. /\ stage = "derive" /\ stage' = "answered"
      /\ shown' = [current |-> c, prev |-> p, unique |-> u, mentions |-> mentions]
      /\ UNCHANGED <<newsRaw, keywords, trends, changes, request, candidates, articleBuckets,
                     keywordBuckets, atStart, since, disturbed>>
  BY DEF DeriveOverview, Proceed, tables, history
<1>2. r \in Requests /\ Accepted(r) /\ r.kind = "overview"
  BY <1>1, KindOfStage
<1>3. /\ r.start \in Int /\ r.end \in Int /\ PrevStart(r) \in Int
      /\ Covered(r) => /\ DataStart(r) <= r.start /\ r.end <= r.fetchEnd
                       /\ DataStart(r) <= PrevStart(r) /\ r.start <= r.fetchEnd
  BY <1>2, RequestFacts, CacheCovers
<1>4. since \in SUBSET Articles /\ keywords \in [ArticleKeys -> [Keywords -> KeywordCounts]]
      /\ candidates \subseteq Keywords
  BY DEF TypeOK
<1>5. PICK N \in SUBSET since : atStart \subseteq N /\ articleBuckets = ArticleCounts(N, r)
  BY <1>1 DEF ReadInv
<1>6. \A i \in CacheBuckets(r) : articleBuckets[i] = Cardinality(CachedIn(N, r, i))
  BY <1>5 DEF ArticleCounts
<1>7. /\ c \in Nat /\ CountOfPeriod(c, r, r.start, r.end)
      /\ p \in Nat /\ CountOfPeriod(p, r, PrevStart(r), r.start)
  <2> DEFINE at == r.start
             until == r.end
             before == PrevStart(r)
             req == r
  <2>1. req \in Requests /\ at \in Int /\ until \in Int /\ before \in Int
        /\ N \in SUBSET since /\ atStart \in SUBSET N
    BY <1>2, <1>3, <1>5
  <2>2. Covered(req) => DataStart(req) <= at /\ until <= req.fetchEnd
    BY <1>3
  <2>3. Covered(req) => DataStart(req) <= before /\ at <= req.fetchEnd
    BY <1>3
  <2>4. \A i \in CacheBuckets(req) : articleBuckets[i] = Cardinality(CachedIn(N, req, i))
    BY <1>6
  <2> HIDE DEF at, until, before, req
  <2>5. /\ SumFunctionOnSet(articleBuckets, Indices(req, at, until)) \in Nat
        /\ CountOfPeriod(SumFunctionOnSet(articleBuckets, Indices(req, at, until)), req, at, until)
    BY <1>4, <2>1, <2>2, <2>4, PeriodAddsUp
  <2>6. /\ SumFunctionOnSet(articleBuckets, Indices(req, before, at)) \in Nat
        /\ CountOfPeriod(SumFunctionOnSet(articleBuckets, Indices(req, before, at)),
                         req, before, at)
    BY <1>4, <2>1, <2>3, <2>4, PeriodAddsUp
  <2> QED
    BY <2>5, <2>6 DEF at, until, before, req
<1>8. mentions \in [Keywords -> Nat] /\ u \in 0 .. Cardinality(Keywords)
  <2>1. ASSUME NEW k \in candidates PROVE SumFunctionOnSet(keywordBuckets, current \X {k}) \in Nat
    <3>1. IsFiniteSet(current) /\ current \subseteq CacheBuckets(r)
      BY <1>2, <1>3, <1>4, SpanFacts
    <3>2. keywordBuckets \in [CacheBuckets(r) \X candidates -> Nat]
      BY <1>1 DEF ReadInv
    <3> DEFINE A == current \X {k}
    <3>3. IsFiniteSet(A)
      <4> HIDE DEF current
      <4> QED BY <3>1, FS_Product, FS_Singleton
    <3>4. \A q \in A : keywordBuckets[q] \in Nat
      <4> HIDE DEF current, r
      <4> QED BY <3>1, <3>2
    <3> HIDE DEF A
    <3>5. SumFunctionOnSet(keywordBuckets, A) \in Nat
      BY <3>3, <3>4, SumIsNat
    <3> QED
      BY <3>5 DEF A
  <2>2. mentions \in [Keywords -> Nat]
    <3> HIDE DEF current
    <3> QED BY <2>1
  <2> DEFINE M == {k \in Keywords : mentions[k] > 0}
  <2>3. M \subseteq Keywords
    OBVIOUS
  <2> HIDE DEF M
  <2>4. Cardinality(M) \in Nat /\ Cardinality(M) <= Cardinality(Keywords)
        /\ Cardinality(Keywords) \in Nat
    BY <2>3, DashboardAssumption, FS_Subset, FS_CardinalityType
  <2> QED
    BY <2>2, <2>4 DEF M
<1>9. ASSUME ~disturbed, NEW k \in candidates
      PROVE  LET n == SumFunctionOnSet(keywordBuckets, current \X {k})
             IN  /\ Covered(r) =>
                      n >= Mentions(Between(atStart, r.start + Slack(r, r.start), r.end), k)
                 /\ n <= Mentions(Between(since, r.start, r.end + Slack(r, r.end)), k)
  <2>1. PICK M \in SUBSET since :
               atStart \subseteq M /\ keywordBuckets = MentionCounts(M, r, candidates)
    BY <1>1, <1>9 DEF ReadInv
  <2>2. \A i \in CacheBuckets(r) : keywordBuckets[<<i, k>>] = Mentions(CachedIn(M, r, i), k)
    BY <2>1 DEF MentionCounts
  <2>3. k \in Keywords /\ atStart \in SUBSET M
    BY <1>4, <2>1
  <2> DEFINE req == r
  <2>4. req \in Requests /\ Accepted(req)
        /\ \A i \in CacheBuckets(req) : keywordBuckets[<<i, k>>] = Mentions(CachedIn(M, req, i), k)
    BY <1>2, <2>2
  <2> HIDE DEF req
  <2>5. LET n == SumFunctionOnSet(keywordBuckets, Indices(req, req.start, req.end) \X {k})
        IN  /\ Covered(req) =>
                 n >= Mentions(Between(atStart, req.start + Slack(req, req.start), req.end), k)
            /\ n <= Mentions(Between(since, req.start, req.end + Slack(req, req.end)), k)
    BY <1>4, <2>3, <2>4, MentionsOfPeriod
  <2> QED
    BY <2>5 DEF req
<1> HIDE DEF c, p, u
<1>10. shown'.current = c /\ shown'.prev = p /\ shown'.mentions = mentions
  BY <1>1
<1>11. TypeOK'
  <2>1. shown' \in [current : Nat, prev : Nat, unique : 0 .. Cardinality(Keywords),
                    mentions : [Keywords -> Nat]]
    <3> HIDE DEF mentions
    <3> QED BY <1>1, <1>7, <1>8
  <2> QED
    BY <1>1, <2>1 DEF TypeOK, Stages
<1>12. StagesInv' /\ MentionsInv'
  BY <1>1 DEF StagesInv, MentionsInv, StoredKeys
<1>13. ReadInv'
  BY <1>1 DEF ReadInv
<1>14. PeriodCounts'
  <2>1. CountOfPeriod(c, request, request.start, request.end)
        /\ CountOfPeriod(p, request, PrevStart(request), request.start)
    BY <1>7
  <2> QED
    BY <1>1, <1>2, <1>10, <2>1 DEF PeriodCounts, Answered, CountOfPeriod
<1>15. OverviewMentions'
  <2> SUFFICES ASSUME ~disturbed, NEW k \in candidates
               PROVE  /\ Covered(request) => mentions[k] >=
                           Mentions(Between(atStart, request.start + Slack(request, request.start),
                                            request.end), k)
                      /\ mentions[k] <=
                           Mentions(Between(since, request.start,
                                            request.end + Slack(request, request.end)), k)
    <3> HIDE DEF mentions
    <3> QED BY <1>1, <1>10 DEF OverviewMentions, Answered, Mentions
  <2>1. mentions[k] = SumFunctionOnSet(keywordBuckets, current \X {k})
    BY <1>4
  <2> QED
    BY <1>9, <2>1
<1>16. SeriesAreComplete'
  BY <1>1, <1>2 DEF SeriesAreComplete, Answered
<1> QED
  BY <1>11, <1>12, <1>13, <1>14, <1>15, <1>16

\* One statement counts the articles of both periods at one instant.
LEMMA CountArticlesKeeps ==
  ASSUME DashboardInv, CountArticles
  PROVE  DashboardInv'
<1> DEFINE r == request
           C == Between(newsRaw, r.start, r.end)
           P == Between(newsRaw, PrevStart(r), r.start)
<1> USE DEF DashboardInv
<1>1. /\ stage = "kpis" /\ stage' = "unique"
      /\ shown' = [shown EXCEPT !.current = Cardinality(C), !.prev = Cardinality(P)]
      /\ UNCHANGED <<newsRaw, keywords, trends, changes, request, candidates, articleBuckets,
                     keywordBuckets, atStart, since, disturbed>>
  BY DEF CountArticles, Proceed, tables, history
<1>2. r \in Requests /\ Accepted(r) /\ r.kind = "kpis"
  BY <1>1, KindOfStage
<1>3. newsRaw \in SUBSET Articles /\ newsRaw \in SUBSET since /\ atStart \subseteq newsRaw
  BY DEF TypeOK
<1>4. C \in SUBSET Articles /\ P \in SUBSET Articles
  BY <1>3 DEF Between
<1>5. Cardinality(C) \in Nat /\ Cardinality(P) \in Nat
  <2> HIDE DEF C, P
  <2> QED
    BY <1>4, CountsGrow
<1>6. CountOfKpis(request)'
  <2>1. shown'.current = Cardinality(C) /\ shown'.prev = Cardinality(P)
    BY <1>1 DEF TypeOK
  <2> QED
    BY <1>1, <1>3, <2>1 DEF CountOfKpis
<1> HIDE DEF C, P
<1>7. /\ shown' \in [current : Nat, prev : Nat, unique : 0 .. Cardinality(Keywords),
                     mentions : [Keywords -> Nat]]
      /\ shown'.current = Cardinality(C) /\ shown'.prev = Cardinality(P)
  <2>1. shown \in [current : Nat, prev : Nat, unique : 0 .. Cardinality(Keywords),
                   mentions : [Keywords -> Nat]]
    BY DEF TypeOK
  <2> QED
    BY <1>1, <1>5, <2>1
<1>8. TypeOK'
  BY <1>1, <1>7 DEF TypeOK, Stages
<1>9. StagesInv' /\ MentionsInv'
  BY <1>1, <1>2 DEF StagesInv, StagesOf, MentionsInv, StoredKeys
<1>10. ReadInv'
  BY <1>1, <1>6 DEF ReadInv
<1>11. PeriodCounts' /\ OverviewMentions' /\ SeriesAreComplete'
  BY <1>1 DEF PeriodCounts, OverviewMentions, SeriesAreComplete, Answered
<1> QED
  BY <1>8, <1>9, <1>10, <1>11

\* The second statement of the kpis leaves the counts of the first.
LEMMA CountUniqueKeywordsKeeps ==
  ASSUME DashboardInv, CountUniqueKeywords
  PROVE  DashboardInv'
<1> DEFINE T == Trending(request.start, request.end)
<1> USE DEF DashboardInv
<1>1. /\ stage = "unique" /\ stage' = "answered"
      /\ shown' = [shown EXCEPT !.unique = Cardinality(T)]
      /\ UNCHANGED <<newsRaw, keywords, trends, changes, request, candidates, articleBuckets,
                     keywordBuckets, atStart, since, disturbed>>
  BY DEF CountUniqueKeywords, Proceed, tables, history
<1>2. request \in Requests /\ Accepted(request) /\ request.kind = "kpis"
  BY <1>1, KindOfStage
<1>3. Cardinality(T) \in 0 .. Cardinality(Keywords)
  <2>1. T \subseteq Keywords
    BY DEF Trending
  <2> HIDE DEF T
  <2> QED
    BY <2>1, DashboardAssumption, FS_Subset, FS_CardinalityType
<1> HIDE DEF T
<1>4. /\ shown' \in [current : Nat, prev : Nat, unique : 0 .. Cardinality(Keywords),
                     mentions : [Keywords -> Nat]]
      /\ shown'.current = shown.current /\ shown'.prev = shown.prev
  <2>1. shown \in [current : Nat, prev : Nat, unique : 0 .. Cardinality(Keywords),
                   mentions : [Keywords -> Nat]]
    BY DEF TypeOK
  <2> QED
    BY <1>1, <1>3, <2>1
<1>5. TypeOK'
  BY <1>1, <1>4 DEF TypeOK, Stages
<1>6. StagesInv' /\ MentionsInv' /\ ReadInv'
  BY <1>1, <1>2 DEF StagesInv, MentionsInv, StoredKeys, ReadInv
<1>7. PeriodCounts'
  <2>1. CountOfKpis(request)
    BY <1>1 DEF ReadInv
  <2> QED
    BY <1>1, <1>2, <1>4, <2>1 DEF PeriodCounts, Answered, CountOfKpis
<1>8. OverviewMentions' /\ SeriesAreComplete'
  BY <1>1, <1>2 DEF OverviewMentions, SeriesAreComplete, Answered
<1> QED
  BY <1>5, <1>6, <1>7, <1>8

\* The points of a keyword, among all points of a series.
LEMMA PointsOf ==
  ASSUME NEW B, NEW names, NEW k \in names
  PROVE  {p \in B \X names : p[2] = k} = B \X {k}
<1>1. ASSUME NEW p \in B \X names, p[2] = k PROVE p \in B \X {k}
  BY <1>1
<1>2. ASSUME NEW p \in B \X {k} PROVE p \in B \X names /\ p[2] = k
  BY <1>2
<1> QED
  BY <1>1, <1>2

\* A series that ends a request leaves the other kinds of requests alone.
LEMMA SeriesStep ==
  ASSUME DashboardInv, stage \in {"trend", "window"}, stage' = "answered",
         UNCHANGED <<newsRaw, keywords, trends, changes, request, candidates, articleBuckets,
                     shown, atStart, since, disturbed>>,
         \A p \in DOMAIN keywordBuckets' : keywordBuckets'[p] \in Nat,
         SeriesAreComplete'
  PROVE  DashboardInv'
<1> USE DEF DashboardInv
<1>1. request \in Requests /\ Accepted(request) /\ request.kind \in {"trend", "window"}
  BY KindOfStage
<1>2. TypeOK'
  BY DEF TypeOK, Stages
<1>3. StagesInv' /\ MentionsInv' /\ ReadInv'
  BY <1>1 DEF StagesInv, MentionsInv, StoredKeys, ReadInv
<1>4. PeriodCounts' /\ OverviewMentions'
  BY <1>1 DEF PeriodCounts, OverviewMentions, Answered
<1> QED
  BY <1>2, <1>3, <1>4

\* A point for each bucket: the windows that start in the period are in one bucket each.
LEMMA FetchTrendSeriesKeeps ==
  ASSUME DashboardInv, FetchTrendSeries
  PROVE  DashboardInv'
<1> DEFINE r == request
           B == Buckets(r.start, r.end, r.bucket)
<1>1. /\ stage = "trend" /\ stage' = "answered"
      /\ keywordBuckets' = [p \in B \X r.names |-> TrendPoint(r, p[1], p[2])]
      /\ UNCHANGED <<newsRaw, keywords, trends, changes, request, candidates, articleBuckets,
                     shown, atStart, since, disturbed>>
  BY DEF FetchTrendSeries, Proceed, tables, history
<1>2. r \in Requests /\ Accepted(r) /\ r.kind = "trend" /\ r.names \subseteq Keywords
  BY <1>1, KindOfStage, RequestFacts DEF DashboardInv
<1>3. trends \in [WindowStarts \X Keywords -> TrendCounts]
  BY DEF DashboardInv, TypeOK
<1>4. ASSUME NEW p \in B \X r.names PROVE TrendPoint(r, p[1], p[2]) \in Nat
  <2> DEFINE k == p[2]
             f == [s \in WindowStarts |-> trends[<<s, k>>]]
             L == LastOf({s \in WindowsInBucket(r, p[1]) : trends[<<s, k>>] > 0})
  <2>1. k \in Keywords
    BY <1>2
  <2>2. L \subseteq WindowStarts
    BY DEF LastOf, WindowsInBucket, WindowsBetween
  <2>3. IsFiniteSet(L)
    <3> HIDE DEF L
    <3> QED BY <2>2, DashboardAssumption, FS_Subset
  <2>4. \A s \in L : f[s] \in Nat
    <3> HIDE DEF L, k
    <3> QED BY <1>3, <2>1, <2>2, DashboardAssumption
  <2>5. TrendPoint(r, p[1], p[2]) = SumFunctionOnSet(f, L)
    BY Zenon DEF TrendPoint
  <2> HIDE DEF L, f
  <2>6. SumFunctionOnSet(f, L) \in Nat
    BY <2>3, <2>4, SumIsNat
  <2> QED
    BY <2>5, <2>6
<1>5. \A p \in DOMAIN keywordBuckets' : keywordBuckets'[p] \in Nat
  BY <1>1, <1>4
<1>6. ASSUME NEW k \in r.names, r.bucket <= WindowLength
      PROVE  Total(k)' = TrendMentions(r.start, r.end, k)
  <2> DEFINE A == B \X {k}
             points == keywordBuckets'
  <2>1. {p \in DOMAIN points : p[2] = k} = A
    <3>1. DOMAIN points = B \X r.names
      BY <1>1
    <3>2. {p \in B \X r.names : p[2] = k} = A
      BY PointsOf
    <3> QED
      BY <3>1, <3>2
  <2>2. \A p \in A : points[p] = TrendPoint(r, p[1], k)
    <3> SUFFICES ASSUME NEW i \in B PROVE points[<<i, k>>] = TrendPoint(r, i, k)
      OBVIOUS
    <3> HIDE DEF B
    <3> QED
      BY <1>1
  <2> DEFINE q == r
  <2>3. k \in Keywords /\ q \in Requests /\ q.bucket <= WindowLength
        /\ A = Buckets(q.start, q.end, q.bucket) \X {k}
        /\ \A p \in A : points[p] = TrendPoint(q, p[1], k)
    BY <1>2, <1>6, <2>2
  <2> HIDE DEF q, A, points
  <2>4. SumFunctionOnSet(points, A) = TrendMentions(q.start, q.end, k)
    BY <1>3, <2>3, TrendAddsUp
  <2>5. Total(k)' = SumFunctionOnSet(points, A)
    BY <2>1, Zenon DEF Total, points
  <2> QED
    BY <2>4, <2>5 DEF q
<1>7. SeriesAreComplete'
  <2> SUFFICES ASSUME r.bucket <= WindowLength, NEW k \in r.names
               PROVE  Total(k)' = TrendMentions(r.start, r.end, k)
    BY <1>1, <1>2 DEF SeriesAreComplete, Answered, TrendMentions
  <2> QED
    BY <1>6
<1> QED
  BY <1>1, <1>5, <1>7, SeriesStep

\* The same for the series from the articles themselves.
LEMMA FetchWindowSeriesKeeps ==
  ASSUME DashboardInv, FetchWindowSeries
  PROVE  DashboardInv'
<1> DEFINE r == request
           B == Buckets(r.start, r.end, r.bucket)
           dated == Between(newsRaw \ Undated, r.start, r.end)
<1>1. /\ stage = "window" /\ stage' = "answered"
      /\ keywordBuckets' = [p \in B \X r.names |->
                              Mentions(InBucket(dated, r.start, r.bucket, p[1]), p[2])]
      /\ UNCHANGED <<newsRaw, keywords, trends, changes, request, candidates, articleBuckets,
                     shown, atStart, since, disturbed>>
  BY DEF FetchWindowSeries, Proceed, tables, history
<1>2. r \in Requests /\ Accepted(r) /\ r.kind = "window" /\ r.names \subseteq Keywords
  BY <1>1, KindOfStage, RequestFacts DEF DashboardInv
<1>3. keywords \in [ArticleKeys -> [Keywords -> KeywordCounts]]
      /\ newsRaw \ Undated \in SUBSET Articles
  BY DEF DashboardInv, TypeOK
<1>4. ASSUME NEW p \in B \X r.names
      PROVE  Mentions(InBucket(dated, r.start, r.bucket, p[1]), p[2]) \in Nat
  <2> DEFINE M == InBucket(dated, r.start, r.bucket, p[1])
  <2>1. M \in SUBSET Articles /\ p[2] \in Keywords
    BY <1>2, <1>3 DEF InBucket, Between
  <2> HIDE DEF M
  <2>2. Mentions(M, p[2]) \in Nat
    BY <1>3, <2>1, MentionsGrow
  <2> QED
    BY <2>2 DEF M
<1>5. \A p \in DOMAIN keywordBuckets' : keywordBuckets'[p] \in Nat
  BY <1>1, <1>4
<1>6. ASSUME NEW k \in r.names PROVE Total(k)' = Mentions(dated, k)
  <2> DEFINE A == B \X {k}
             points == keywordBuckets'
             N == newsRaw \ Undated
             d == Between(N, r.start, r.end)
  <2>1. {p \in DOMAIN points : p[2] = k} = A
    <3>1. DOMAIN points = B \X r.names
      BY <1>1
    <3>2. {p \in B \X r.names : p[2] = k} = A
      BY PointsOf
    <3> QED
      BY <3>1, <3>2
  <2>2. \A p \in A : points[p] = Mentions(InBucket(d, r.start, r.bucket, p[1]), k)
    <3> SUFFICES ASSUME NEW i \in B
                 PROVE  points[<<i, k>>] = Mentions(InBucket(d, r.start, r.bucket, i), k)
      OBVIOUS
    <3> HIDE DEF B
    <3> QED
      BY <1>1
  <2> HIDE DEF points
  <2>3. r \in Requests /\ N \in SUBSET Articles /\ k \in Keywords
    BY <1>2, <1>3
  <2>4. SumFunctionOnSet(points, A) = Mentions(d, k)
    <3>1. keywords \in [ArticleKeys -> [Keywords -> KeywordCounts]]
      BY <1>3
    <3> HIDE DEF r, N
    <3> QED
      BY <2>2, <2>3, <3>1, WindowAddsUp
  <2>5. Total(k)' = SumFunctionOnSet(points, A)
    BY <2>1, Zenon DEF Total, points
  <2> QED
    BY <2>4, <2>5
<1>7. SeriesAreComplete'
  <2> SUFFICES ASSUME NEW k \in r.names PROVE Total(k)' = Mentions(dated, k)
    BY <1>1, <1>2 DEF SeriesAreComplete, Answered, Mentions
  <2> QED
    BY <1>6
<1> QED
  BY <1>1, <1>5, <1>7, SeriesStep

-----------------------------------------------------------------------------
(* The beginning, and the theorems.                                        *)

\* Before the first request nothing has been answered.
LEMMA InitKeeps ==
  ASSUME Init PROVE DashboardInv
<1>1. /\ newsRaw \in SUBSET Articles /\ keywords \in [ArticleKeys -> [Keywords -> KeywordCounts]]
      /\ \A key \in ArticleKeys \ StoredKeys : keywords[key] = NoMentions
      /\ trends \in [WindowStarts \X Keywords -> TrendCounts]
      /\ changes = 0 /\ request = NoRequest /\ stage = "answered" /\ candidates = {}
      /\ articleBuckets = <<>> /\ keywordBuckets = <<>> /\ shown = NoAnswer
      /\ atStart = {} /\ since = newsRaw /\ disturbed = FALSE
  BY DEF Init
<1>2. DOMAIN articleBuckets = {} /\ DOMAIN keywordBuckets = {}
  BY <1>1
<1>3. Cardinality(candidates) <= Limit /\ changes \in 0 .. MaxChanges
  BY <1>1, FS_EmptySet, DashboardAssumption
<1>4. shown \in [current : Nat, prev : Nat, unique : 0 .. Cardinality(Keywords),
                 mentions : [Keywords -> Nat]]
  <2>1. 0 \in 0 .. Cardinality(Keywords)
    BY DashboardAssumption, FS_CardinalityType
  <2>2. NoMentions \in [Keywords -> Nat]
    BY DEF NoMentions
  <2> QED
    BY <1>1, <2>1, <2>2 DEF NoAnswer
<1>5. TypeOK
  BY <1>1, <1>2, <1>3, <1>4 DEF TypeOK, Stages
<1>6. StagesInv /\ MentionsInv /\ ReadInv
  BY <1>1 DEF StagesInv, MentionsInv, StoredKeys, ReadInv
<1>7. PeriodCounts /\ OverviewMentions /\ SeriesAreComplete
  BY <1>1 DEF PeriodCounts, OverviewMentions, SeriesAreComplete, Answered
<1> QED
  BY <1>5, <1>6, <1>7 DEF DashboardInv

\* A step of nothing.
LEMMA StutterKeeps ==
  ASSUME DashboardInv, UNCHANGED vars PROVE DashboardInv'
<1> USE DEF DashboardInv
<1>1. UNCHANGED <<newsRaw, keywords, trends, changes, request, stage, candidates, articleBuckets,
                  keywordBuckets, shown, atStart, since, disturbed>>
  BY DEF vars, tables, results, history
<1>2. TypeOK' /\ StagesInv' /\ MentionsInv'
  BY <1>1 DEF TypeOK, StagesInv, MentionsInv, StoredKeys
<1>3. ReadInv'
  BY <1>1, MentionsStay DEF ReadInv, ArticleCounts, CountOfKpis
<1>4. PeriodCounts'
  BY <1>1 DEF PeriodCounts, Answered, CountOfPeriod, CountOfKpis
<1>5. OverviewMentions'
  BY <1>1 DEF OverviewMentions, Answered, Mentions
<1>6. SeriesAreComplete'
  BY <1>1 DEF SeriesAreComplete, Answered, Total, TrendMentions, Mentions
<1> QED
  BY <1>2, <1>3, <1>4, <1>5, <1>6

\* A step of a request or of a writer.
LEMMA StepKeeps ==
  ASSUME DashboardInv, [Next]_vars PROVE DashboardInv'
<1>1. CASE Serve
  BY <1>1, ReceiveKeeps, FetchCandidatesKeeps, FetchArticleBucketsKeeps, FetchKeywordBucketsKeeps,
     DeriveOverviewKeeps, CountArticlesKeeps, CountUniqueKeywordsKeeps, FetchTrendSeriesKeeps,
     FetchWindowSeriesKeeps
     DEF Serve
<1>2. CASE Write
  BY <1>2, StoreArticleKeeps, RewriteKeeps DEF Write
<1>3. CASE UNCHANGED vars
  BY <1>3, StutterKeeps
<1> QED
  BY <1>1, <1>2, <1>3 DEF Next

\* The inductive invariant holds throughout.
LEMMA DashboardInvariant ==
  Spec => []DashboardInv
<1>1. Init => DashboardInv
  BY InitKeeps
<1>2. DashboardInv /\ [Next]_vars => DashboardInv'
  BY StepKeeps
<1> QED
  BY <1>1, <1>2, PTL DEF Spec

\* Whatever is written while a request runs, its results have their types: above all,
\* the overview takes no more candidates than its LIMIT.
THEOREM TypeCorrect ==
  Spec => []TypeOK
<1>1. DashboardInv => TypeOK
  BY DEF DashboardInv
<1> QED
  BY <1>1, DashboardInvariant, PTL

\* The totals of the overview and of the kpis are those of the period asked for and of
\* the one before it, for any bucket length and any period.
THEOREM CountsOfPeriods ==
  Spec => []PeriodCounts
<1>1. DashboardInv => PeriodCounts
  BY DEF DashboardInv
<1> QED
  BY <1>1, DashboardInvariant, PTL

\* The mentions the overview adds up from its cache are those of the period.
THEOREM MentionsOfOverview ==
  Spec => []OverviewMentions
<1>1. DashboardInv => OverviewMentions
  BY DEF DashboardInv
<1> QED
  BY <1>1, DashboardInvariant, PTL

\* A series loses no mention at either end, nor between its buckets.
THEOREM SeriesLoseNothing ==
  Spec => []SeriesAreComplete
<1>1. DashboardInv => SeriesAreComplete
  BY DEF DashboardInv
<1> QED
  BY <1>1, DashboardInvariant, PTL

=============================================================================
