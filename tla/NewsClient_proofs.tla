-------------------------- MODULE NewsClient_proofs --------------------------
(***************************************************************************)
(* Proofs about NewsClient: its types, and that an ok result is complete,  *)
(* OkIsComplete, for any number of rows, threads, pages, items and changes *)
(* of the listings.  The argument is ClientInv: while a fetch goes on, the *)
(* pages it has read hold what it must bring of them, because an item that *)
(* is inserted moves the others to later pages only; and the page that     *)
(* ends the loop early ends on an item that is no newer than the           *)
(* threshold, behind which the order of the listing leaves nothing new.    *)
(***************************************************************************)
EXTENDS NewsClient, Sums_proofs, SequenceTheorems, TLAPS

-----------------------------------------------------------------------------
(* Sequences of items.                                                     *)

\* What InsertAt makes of a sequence, place by place.
LEMMA Inserted ==
  ASSUME NEW S, NEW s \in Seq(S), NEW i \in 1 .. Len(s) + 1, NEW e \in S
  PROVE  /\ InsertAt(s, i, e) \in Seq(S) /\ Len(InsertAt(s, i, e)) = Len(s) + 1
         /\ \A k \in 1 .. Len(s) + 1 : InsertAt(s, i, e)[k] =
              IF k < i THEN s[k] ELSE IF k = i THEN e ELSE s[k - 1]
<1> DEFINE front == SubSeq(s, 1, i - 1)
           back == SubSeq(s, i, Len(s))
<1>1. Len(s) \in Nat /\ i \in Int /\ \A k \in 1 .. Len(s) : s[k] \in S
  BY LenProperties
<1>2. front \in Seq(S) /\ Len(front) = i - 1 /\ \A k \in 1 .. i - 1 : front[k] = s[k]
  <2>1. \A k \in 1 .. i - 1 : s[k] \in S
    BY <1>1
  <2> QED
    BY <1>1, <2>1, SubSeqProperties
<1>3. /\ back \in Seq(S) /\ Len(back) = Len(s) - i + 1
      /\ \A k \in 1 .. Len(s) - i + 1 : back[k] = s[i + k - 1]
  <2>1. \A k \in i .. Len(s) : s[k] \in S
    BY <1>1
  <2> QED
    BY <1>1, <2>1, SubSeqProperties
<1>4. <<e>> \in Seq(S) /\ Len(<<e>>) = 1 /\ <<e>>[1] = e
  OBVIOUS
<1> HIDE DEF front, back
<1>5. /\ front \o <<e>> \in Seq(S) /\ Len(front \o <<e>>) = i
      /\ \A k \in 1 .. i : (front \o <<e>>)[k] = IF k < i THEN s[k] ELSE e
  BY <1>1, <1>2, <1>4, ConcatProperties
<1>6. /\ (front \o <<e>>) \o back \in Seq(S) /\ Len((front \o <<e>>) \o back) = Len(s) + 1
      /\ \A k \in 1 .. Len(s) + 1 : ((front \o <<e>>) \o back)[k] =
           IF k <= i THEN (front \o <<e>>)[k] ELSE back[k - i]
  BY <1>1, <1>3, <1>5, ConcatProperties
<1>7. ASSUME NEW k \in 1 .. Len(s) + 1
      PROVE  ((front \o <<e>>) \o back)[k] = IF k < i THEN s[k] ELSE IF k = i THEN e ELSE s[k - 1]
  <2>1. CASE k <= i
    BY <1>1, <1>5, <1>6, <1>7, <2>1
  <2>2. CASE k > i
    <3>1. k - i \in 1 .. Len(s) - i + 1 /\ i + (k - i) - 1 = k - 1 /\ ~ (k <= i)
      BY <1>1, <1>7, <2>2
    <3>2. ((front \o <<e>>) \o back)[k] = back[k - i]
      BY <1>6, <3>1
    <3>3. back[k - i] = s[k - 1]
      BY <1>3, <3>1
    <3>4. ~ (k < i) /\ k # i
      BY <1>1, <1>7, <2>2
    <3> QED
      BY <3>2, <3>3, <3>4, Zenon
  <2>3. k <= i \/ k > i
    BY <1>1, <1>7
  <2> QED
    BY <2>1, <2>2, <2>3, Zenon
<1> QED
  BY <1>6, <1>7 DEF InsertAt, front, back

\* What RemoveAt makes of a sequence, place by place.
LEMMA Dropped ==
  ASSUME NEW S, NEW s \in Seq(S), NEW i \in 1 .. Len(s)
  PROVE  /\ RemoveAt(s, i) \in Seq(S) /\ Len(RemoveAt(s, i)) = Len(s) - 1
         /\ \A k \in 1 .. Len(s) - 1 : RemoveAt(s, i)[k] = IF k < i THEN s[k] ELSE s[k + 1]
<1> DEFINE front == SubSeq(s, 1, i - 1)
           back == SubSeq(s, i + 1, Len(s))
<1>1. Len(s) \in Nat /\ i \in Int /\ \A k \in 1 .. Len(s) : s[k] \in S
  BY LenProperties
<1>2. front \in Seq(S) /\ Len(front) = i - 1 /\ \A k \in 1 .. i - 1 : front[k] = s[k]
  <2>1. \A k \in 1 .. i - 1 : s[k] \in S
    BY <1>1
  <2> QED
    BY <1>1, <2>1, SubSeqProperties
<1>3. /\ back \in Seq(S) /\ Len(back) = Len(s) - i
      /\ \A k \in 1 .. Len(s) - i : back[k] = s[i + k]
  <2>1. \A k \in i + 1 .. Len(s) : s[k] \in S
    BY <1>1
  <2>2. /\ back \in Seq(S) /\ Len(back) = IF i + 1 <= Len(s) THEN Len(s) - (i + 1) + 1 ELSE 0
        /\ \A k \in 1 .. Len(s) - (i + 1) + 1 : back[k] = s[(i + 1) + k - 1]
    BY <1>1, <2>1, SubSeqProperties
  <2> HIDE DEF back
  <2>3. Len(back) = Len(s) - i
    BY <1>1, <2>2
  <2>4. ASSUME NEW k \in 1 .. Len(s) - i PROVE back[k] = s[i + k]
    <3>1. k \in 1 .. Len(s) - (i + 1) + 1 /\ (i + 1) + k - 1 = i + k
      BY <1>1
    <3>2. back[k] = s[(i + 1) + k - 1]
      BY <2>2, <3>1
    <3> QED
      BY <3>1, <3>2
  <2> QED
    BY <2>2, <2>3, <2>4
<1> HIDE DEF front, back
<1>4. /\ front \o back \in Seq(S) /\ Len(front \o back) = Len(s) - 1
      /\ \A k \in 1 .. Len(s) - 1 : (front \o back)[k] = IF k <= i - 1 THEN front[k] ELSE back[k - (i - 1)]
  <2>1. /\ front \o back \in Seq(S) /\ Len(front \o back) = Len(front) + Len(back)
        /\ \A k \in 1 .. Len(front) + Len(back) : (front \o back)[k] =
             IF k <= Len(front) THEN front[k] ELSE back[k - Len(front)]
    BY <1>2, <1>3, ConcatProperties
  <2>2. Len(front) = i - 1 /\ Len(front) + Len(back) = Len(s) - 1
    BY <1>1, <1>2, <1>3
  <2> QED
    BY <2>1, <2>2
<1>5. ASSUME NEW k \in 1 .. Len(s) - 1
      PROVE  (front \o back)[k] = IF k < i THEN s[k] ELSE s[k + 1]
  <2>1. CASE k < i
    BY <1>1, <1>2, <1>4, <2>1
  <2>2. CASE k >= i
    <3>1. k - (i - 1) \in 1 .. Len(s) - i /\ i + (k - (i - 1)) = k + 1 /\ ~ (k <= i - 1)
      BY <1>1, <1>5, <2>2
    <3>2. (front \o back)[k] = back[k - (i - 1)]
      BY <1>4, <3>1
    <3>3. back[k - (i - 1)] = s[k + 1]
      BY <1>3, <3>1
    <3>4. ~ (k < i)
      BY <1>1, <1>5, <2>2
    <3> QED
      BY <3>2, <3>3, <3>4, Zenon
  <2>3. k < i \/ k >= i
    BY <1>1, <1>5
  <2> QED
    BY <2>1, <2>2, <2>3, Zenon
<1> QED
  BY <1>4, <1>5 DEF RemoveAt, front, back

\* A page holds the items from its first place on, as many as fit on it.
LEMMA PageHolds ==
  ASSUME NEW items \in Seq(Items), NEW page \in Nat
  PROVE  /\ PageOf(items, page) \in Seq(Items)
         /\ \A i \in 1 .. Len(items) : page * Display < i /\ i <= (page + 1) * Display
              => items[i] \in ToSet(PageOf(items, page))
         /\ PageOf(items, page) # <<>> =>
              \E n \in 1 .. Len(items) : /\ Last(PageOf(items, page)) = items[n]
                                         /\ n <= (page + 1) * Display
         /\ \A i \in 1 .. Len(items) : i > (page + 1) * Display => Len(PageOf(items, page)) = Display
<1> DEFINE first == page * Display
           n == Min({Len(items), (page + 1) * Display})
<1>1. Display \in Nat /\ Display > 0
  BY ClientAssumption
<1>2. first \in Nat /\ (page + 1) * Display = first + Display
  BY <1>1
<1>3. Len(items) \in Nat /\ \A i \in 1 .. Len(items) : items[i] \in Items
  BY LenProperties
<1>4. n = IF Len(items) <= first + Display THEN Len(items) ELSE first + Display
  <2>1. first + Display \in Int /\ Len(items) \in Int
    BY <1>1, <1>2, <1>3
  <2> HIDE DEF first
  <2> QED
    BY <1>2, <2>1, MinOfTwo
<1>5. PageOf(items, page) = SubSeq(items, 1 + first, n)
  BY DEF PageOf
<1> HIDE DEF first, n
<1>6. /\ SubSeq(items, 1 + first, n) \in Seq(Items)
      /\ Len(SubSeq(items, 1 + first, n)) = IF 1 + first <= n THEN n - (1 + first) + 1 ELSE 0
      /\ \A i \in 1 .. n - (1 + first) + 1 : SubSeq(items, 1 + first, n)[i] = items[(1 + first) + i - 1]
  <2>1. 1 + first \in Int /\ n \in Int /\ \A i \in 1 + first .. n : items[i] \in Items
    BY <1>1, <1>2, <1>3, <1>4
  <2> QED
    BY <2>1, SubSeqProperties
<1> DEFINE s == PageOf(items, page)
<1>7. /\ s \in Seq(Items) /\ Len(s) = IF first <= n THEN n - first ELSE 0
      /\ \A i \in 1 .. n - first : s[i] = items[first + i]
  <2>1. /\ n \in Int /\ first \in Int /\ n - (1 + first) + 1 = n - first
        /\ \A i \in Int : (1 + first) + i - 1 = first + i
    BY <1>1, <1>2, <1>3, <1>4
  <2> QED
    BY <1>5, <1>6, <2>1
<1> HIDE DEF s
<1>8. DOMAIN s = 1 .. Len(s)
  BY <1>7, LenProperties
<1>9. ASSUME NEW i \in 1 .. Len(items), first < i, i <= first + Display
      PROVE  items[i] \in ToSet(s)
  <2>1. i - first \in 1 .. n - first /\ first + (i - first) = i /\ first <= n
    BY <1>1, <1>2, <1>3, <1>4, <1>9
  <2>2. s[i - first] = items[i] /\ i - first \in DOMAIN s
    BY <1>7, <1>8, <2>1
  <2> QED
    BY <2>2 DEF ToSet
<1>10. ASSUME s # <<>>
       PROVE  \E k \in 1 .. Len(items) : Last(s) = items[k] /\ k <= first + Display
  <2>1. Len(s) \in Nat \ {0}
    BY <1>7, <1>10, EmptySeq
  <2>2. /\ n - first \in 1 .. n - first /\ Len(s) = n - first /\ first + (n - first) = n
        /\ n \in 1 .. Len(items) /\ n <= first + Display
    BY <1>1, <1>2, <1>3, <1>4, <1>7, <2>1
  <2>3. Last(s) = items[n]
    BY <1>7, <2>2 DEF Last
  <2> QED
    BY <2>2, <2>3
<1>11. ASSUME NEW i \in 1 .. Len(items), i > first + Display
       PROVE  Len(s) = Display
  BY <1>1, <1>2, <1>3, <1>4, <1>7, <1>11
<1> QED
  BY <1>2, <1>7, <1>9, <1>10, <1>11 DEF s, first

\* The function behind Passing: what is kept of the first items.
KeptStep(kept, items, threshold, n) ==
  IF n = 0 THEN <<>>
  ELSE IF threshold = 0 \/ DateOf[items[n]] > threshold
  THEN Append(kept[n - 1], items[n]) ELSE kept[n - 1]

IsKept(kept, items, threshold, m) ==
  kept = [n \in 0 .. m |-> KeptStep(kept, items, threshold, n)]

\* The function exists for any number of items.
LEMMA KeptExists ==
  ASSUME NEW items, NEW threshold, NEW m \in Nat
  PROVE  \E kept : IsKept(kept, items, threshold, m)
<1> DEFINE T == {n \in Nat : \E kept : IsKept(kept, items, threshold, n)}
<1>1. 0 \in T
  <2> DEFINE kept == [n \in 0 .. 0 |-> <<>>]
  <2>1. \A n \in 0 .. 0 : KeptStep(kept, items, threshold, n) = <<>>
    BY DEF KeptStep
  <2>2. IsKept(kept, items, threshold, 0)
    BY <2>1 DEF IsKept
  <2> QED
    BY <2>2
<1>2. ASSUME NEW n \in Nat, n \in T PROVE n + 1 \in T
  <2>1. PICK kept : IsKept(kept, items, threshold, n)
    BY <1>2
  <2> DEFINE more == [i \in 0 .. n + 1 |-> KeptStep(kept, items, threshold, i)]
  <2>2. ASSUME NEW i \in 0 .. n PROVE kept[i] = more[i]
    BY <2>1 DEF IsKept
  <2>3. ASSUME NEW i \in 0 .. n + 1
        PROVE  KeptStep(kept, items, threshold, i) = KeptStep(more, items, threshold, i)
    <3>1. CASE i = 0
      BY <3>1 DEF KeptStep
    <3>2. CASE i # 0
      <4>1. i - 1 \in 0 .. n
        BY <2>3, <3>2
      <4>2. kept[i - 1] = more[i - 1]
        BY <2>2, <4>1
      <4> HIDE DEF more
      <4> QED
        BY <3>2, <4>2 DEF KeptStep
    <3> QED
      BY <3>1, <3>2
  <2>4. more = [i \in 0 .. n + 1 |-> KeptStep(more, items, threshold, i)]
    BY <2>3
  <2>5. \E k : IsKept(k, items, threshold, n + 1)
    <3> HIDE DEF more
    <3> QED BY <2>4 DEF IsKept
  <2> QED
    BY <1>2, <2>5
<1>3. Nat \subseteq T
  <2> HIDE DEF T
  <2> QED BY <1>1, <1>2, NatInductionSet
<1> QED
  BY <1>3

\* Passing is the last value of that function.
LEMMA KeptIsPassing ==
  ASSUME NEW items \in Seq(Items), NEW threshold
  PROVE  \E kept : /\ IsKept(kept, items, threshold, Len(items))
                   /\ Passing(items, threshold) = kept[Len(items)]
<1> DEFINE kept == CHOOSE k : IsKept(k, items, threshold, Len(items))
<1>1. IsKept(kept, items, threshold, Len(items))
  <2> HIDE DEF kept
  <2>1. \E k : IsKept(k, items, threshold, Len(items))
    BY KeptExists, LenProperties
  <2> QED
    BY <2>1, Zenon DEF kept
<1>2. Passing(items, threshold) = kept[Len(items)]
  BY Zenon DEF Passing, IsKept, KeptStep
<1> QED
  BY <1>1, <1>2

\* The loop keeps what is newer than the threshold.
LEMMA PassingKeeps ==
  ASSUME NEW items \in Seq(Items), NEW threshold
  PROVE  /\ Passing(items, threshold) \in Seq(Items)
         /\ \A item \in ToSet(items) :
              DateOf[item] > threshold => item \in ToSet(Passing(items, threshold))
<1>1. PICK kept : /\ IsKept(kept, items, threshold, Len(items))
                  /\ Passing(items, threshold) = kept[Len(items)]
  BY KeptIsPassing
<1>2. Len(items) \in Nat /\ DOMAIN items = 1 .. Len(items)
      /\ \A i \in 1 .. Len(items) : items[i] \in Items
  BY LenProperties
<1>3. \A n \in 0 .. Len(items) : kept[n] = KeptStep(kept, items, threshold, n)
  BY <1>1 DEF IsKept
<1> DEFINE Holds(n) == /\ kept[n] \in Seq(Items)
                       /\ \A i \in 1 .. n :
                            DateOf[items[i]] > threshold => items[i] \in ToSet(kept[n])
           T == {n \in Nat : n <= Len(items) => Holds(n)}
<1>4. 0 \in T
  <2>1. kept[0] = <<>>
    BY <1>2, <1>3 DEF KeptStep
  <2>2. kept[0] \in Seq(Items)
    BY <2>1
  <2>3. \A i \in 1 .. 0 : DateOf[items[i]] > threshold => items[i] \in ToSet(kept[0])
    OBVIOUS
  <2>4. Holds(0)
    BY <2>2, <2>3
  <2> QED
    BY <2>4
<1>5. ASSUME NEW n \in Nat, n \in T PROVE n + 1 \in T
  <2> SUFFICES ASSUME n + 1 <= Len(items) PROVE Holds(n + 1)
    BY <1>5
  <2>1. Holds(n)
    BY <1>2, <1>5
  <2>2. /\ n + 1 \in 0 .. Len(items) /\ n + 1 # 0 /\ (n + 1) - 1 = n /\ items[n + 1] \in Items
        /\ \A i \in 1 .. n + 1 : i \in 1 .. n \/ i = n + 1
    BY <1>2, <1>5
  <2>3. kept[n + 1] = IF threshold = 0 \/ DateOf[items[n + 1]] > threshold
                      THEN Append(kept[n], items[n + 1]) ELSE kept[n]
    BY <1>3, <2>2 DEF KeptStep
  <2>4. /\ Append(kept[n], items[n + 1]) \in Seq(Items)
        /\ items[n + 1] \in ToSet(Append(kept[n], items[n + 1]))
        /\ ToSet(kept[n]) \subseteq ToSet(Append(kept[n], items[n + 1]))
    <3> DEFINE s == kept[n]
               e == items[n + 1]
    <3>1. s \in Seq(Items) /\ e \in Items
      BY <2>1, <2>2
    <3> HIDE DEF s, e
    <3>2. /\ Append(s, e) \in Seq(Items) /\ Len(Append(s, e)) = Len(s) + 1 /\ Len(s) \in Nat
          /\ \A i \in 1 .. Len(s) : Append(s, e)[i] = s[i]
          /\ Append(s, e)[Len(s) + 1] = e
      BY <3>1
    <3>3. DOMAIN s = 1 .. Len(s) /\ DOMAIN Append(s, e) = 1 .. Len(s) + 1
      BY <3>1, <3>2
    <3>4. e \in ToSet(Append(s, e)) /\ ToSet(s) \subseteq ToSet(Append(s, e))
      BY <3>2, <3>3 DEF ToSet
    <3> QED
      BY <3>2, <3>4 DEF s, e
  <2>5. kept[n + 1] \in Seq(Items)
    BY <2>1, <2>3, <2>4
  <2>6. ASSUME NEW i \in 1 .. n + 1, DateOf[items[i]] > threshold
        PROVE  items[i] \in ToSet(kept[n + 1])
    <3>1. CASE i \in 1 .. n
      BY <2>1, <2>3, <2>4, <2>6, <3>1
    <3>2. CASE i = n + 1
      BY <2>3, <2>4, <2>6, <3>2
    <3> QED
      BY <2>2, <2>6, <3>1, <3>2
  <2> QED
    BY <2>5, <2>6
<1>6. Nat \subseteq T
  <2> HIDE DEF T
  <2> QED BY <1>4, <1>5, NatInductionSet
<1>7. Holds(Len(items))
  BY <1>2, <1>6
<1>8. ASSUME NEW item \in ToSet(items), DateOf[item] > threshold
      PROVE  item \in ToSet(kept[Len(items)])
  <2>1. PICK i \in 1 .. Len(items) : item = items[i]
    BY <1>2 DEF ToSet
  <2> QED
    BY <1>7, <1>8, <2>1
<1> QED
  BY <1>1, <1>7, <1>8

\* Of the articles with a url, the first one is kept.
LEMMA FirstOfUrlIsKept ==
  ASSUME NEW articles \in Seq(Items), NEW item \in ToSet(articles), UrlOf[item] # NoUrl
  PROVE  \E article \in Deduplicated(articles) : UrlOf[article] = UrlOf[item]
<1>1. Len(articles) \in Nat /\ DOMAIN articles = 1 .. Len(articles)
  BY LenProperties
<1> DEFINE S == {i \in 1 .. Len(articles) : UrlOf[articles[i]] = UrlOf[item]}
<1>2. S \subseteq Nat /\ S # {}
  BY <1>1 DEF ToSet
<1>3. PICK i \in S : \A k \in S : i <= k
  <2> HIDE DEF S
  <2> QED BY <1>2, SmallestExists
<1>4. \A k \in 1 .. i - 1 : UrlOf[articles[k]] # UrlOf[articles[i]]
  <2> SUFFICES ASSUME NEW k \in 1 .. i - 1, UrlOf[articles[k]] = UrlOf[articles[i]] PROVE FALSE
    OBVIOUS
  <2>1. k \in S /\ ~ (i <= k)
    BY <1>1
  <2> QED
    BY <1>3, <2>1
<1>5. articles[i] \in Deduplicated(articles)
  BY <1>4 DEF Deduplicated
<1> QED
  BY <1>5

\* Deduplicated articles are items.
LEMMA DeduplicatedItems ==
  ASSUME NEW articles \in Seq(Items)
  PROVE  Deduplicated(articles) \in SUBSET Items
<1>1. \A i \in 1 .. Len(articles) : articles[i] \in Items
  BY LenProperties
<1> QED
  BY <1>1 DEF Deduplicated

-----------------------------------------------------------------------------
(* The rows and their thresholds.                                          *)

\* The rows of the run, and their texts, are known ones.
LEMMA RowFacts ==
  ASSUME provider \in Providers
  PROVE  /\ Len(Rows) \in Nat /\ IsFiniteSet(Jobs) /\ Jobs \subseteq Nat
         /\ ToSet(Rows) \subseteq AllRows
         /\ \A j \in Jobs : Rows[j] \in ToSet(Rows) /\ Rows[j].text \in Texts
<1>1. Rows \in Seq(ToSet(Rows))
  BY ClientAssumption DEF Rows
<1>2. Len(Rows) \in Nat /\ DOMAIN Rows = 1 .. Len(Rows)
  BY <1>1, LenProperties
<1>3. IsFiniteSet(Jobs)
  BY <1>2, FS_Interval DEF Jobs
<1>4. ToSet(Rows) \subseteq AllRows
  BY DEF AllRows, Rows
<1>5. \A j \in Jobs : Rows[j] \in ToSet(Rows)
  BY <1>2 DEF ToSet, Jobs
<1> QED
  BY <1>2, <1>3, <1>4, <1>5 DEF Jobs, Texts

\* There are finitely many rows, so that their stamps have a maximum.
LEMMA FinitelyManyRows ==
  IsFiniteSet(AllRows)
<1>1. ASSUME NEW p \in Providers PROVE IsFiniteSet(ToSet(RowsOf[p]))
  <2> DEFINE s == RowsOf[p]
  <2>1. s \in Seq(ToSet(s))
    BY ClientAssumption
  <2> HIDE DEF s
  <2>2. Len(s) \in Nat /\ DOMAIN s = 1 .. Len(s)
    BY <2>1, LenProperties
  <2>3. IsFiniteSet(DOMAIN s)
    BY <2>2, FS_Interval
  <2>4. IsFiniteSet({s[i] : i \in DOMAIN s})
    BY <2>3, FiniteImage
  <2> QED
    BY <2>4 DEF ToSet, s
<1>2. AllRows = ToSet(RowsOf["naver"]) \union ToSet(RowsOf["rss"])
  BY DEF AllRows, Providers
<1> QED
  BY <1>1, <1>2, FS_Union DEF Providers

\* A threshold is a time, or 0.
LEMMA ThresholdIsNat ==
  ASSUME stamps \in [AllRows -> Dates \union {0}], NEW row \in AllRows
  PROVE  KeyThreshold(row) \in Nat
<1> DEFINE S == {stamps[r] : r \in AllRows}
<1>1. \A r \in AllRows : stamps[r] \in Nat
  <2>1. Dates \union {0} \subseteq Nat
    BY ClientAssumption
  <2> QED
    BY <2>1
<1>2. IsFiniteSet(S)
  BY FinitelyManyRows, FiniteImage
<1>3. S \subseteq Nat /\ S # {}
  BY <1>1
<1>4. Max(S) \in Nat
  <2> HIDE DEF S
  <2> QED
    BY <1>2, <1>3, FiniteMax
<1> QED
  BY <1>1, <1>4 DEF KeyThreshold

\* The row that stands for a text is a row of the run.
LEMMA RowByTextKnown ==
  ASSUME provider \in Providers, NEW j \in Jobs
  PROVE  RowByText(Rows[j].text) \in ToSet(Rows)
<1> DEFINE S == {i \in Jobs : Rows[i].text = Rows[j].text}
<1>1. S \subseteq Nat /\ S # {} /\ S \subseteq Jobs
  BY RowFacts
<1>2. IsFiniteSet(S)
  BY <1>1, RowFacts, FS_Subset
<1>3. Max(S) \in S
  <2> HIDE DEF S
  <2> QED
    BY <1>1, <1>2, FiniteMax
<1> QED
  BY <1>3, RowFacts DEF RowByText

\* A fetch goes by the threshold of the key its result will arrive under.
LEMMA JobThreshold ==
  ASSUME TypeOK, NEW j \in Jobs
  PROVE  Threshold(j) \in Nat /\ Threshold(j) = KeyThreshold(RowByText(Rows[j].text))
<1>1. provider \in Providers /\ stamps \in [AllRows -> Dates \union {0}]
  BY DEF TypeOK
<1>2. RowByText(Rows[j].text) \in AllRows
  BY <1>1, RowByTextKnown, RowFacts
<1> QED
  BY <1>1, <1>2, ThresholdIsNat DEF Threshold, FromTimestamp

-----------------------------------------------------------------------------
(* Type correctness.                                                       *)

Phases == {"queued", "fetching", "done", "yielded"}

JobRecords == [phase : Phases, page : 0 .. MaxPages, articles : Seq(Items),
               ok : BOOLEAN, capped : BOOLEAN]

Fetching == {j \in Jobs : job[j].phase = "fetching"}

\* The pool has its limit when no fetch is added to those under way.
LEMMA PoolShrinks ==
  ASSUME TypeOK, provider' = provider, Fetching' \subseteq Fetching
  PROVE  (Cardinality({j \in Jobs : job[j].phase = "fetching"}) <= Workers)'
<1>1. IsFiniteSet(Fetching)
  BY RowFacts, FS_Subset DEF TypeOK, Fetching
<1>2. Cardinality(Fetching') <= Cardinality(Fetching) /\ IsFiniteSet(Fetching')
  BY <1>1, FS_Subset
<1>3. Cardinality(Fetching') \in Nat /\ Cardinality(Fetching) \in Nat
  BY <1>1, <1>2, FS_CardinalityType
<1>4. Cardinality(Fetching) <= Workers
  BY DEF TypeOK, Fetching
<1>5. Cardinality(Fetching') <= Workers
  BY <1>2, <1>3, <1>4, ClientAssumption
<1> QED
  BY <1>5 DEF Fetching

\* A job that changes, and the others.
LEMMA JobChanges ==
  ASSUME TypeOK, NEW j \in Jobs, NEW r \in JobRecords,
         job' = [job EXCEPT ![j] = r], provider' = provider, r.phase # "fetching" \/ j \in Fetching
  PROVE  /\ (job \in [Jobs -> JobRecords])'
         /\ (Cardinality({i \in Jobs : job[i].phase = "fetching"}) <= Workers)'
         /\ job'[j] = r /\ \A i \in Jobs : i # j => job'[i] = job[i]
<1>1. job \in [Jobs -> JobRecords] /\ Jobs' = Jobs
  BY DEF TypeOK, JobRecords, Phases, Jobs, Rows
<1>2. job' \in [Jobs -> JobRecords] /\ job'[j] = r /\ \A i \in Jobs : i # j => job'[i] = job[i]
  BY <1>1
<1>3. Fetching' \subseteq Fetching
  BY <1>1, <1>2 DEF Fetching
<1> QED
  BY <1>1, <1>2, <1>3, PoolShrinks DEF JobRecords

\* The values a future has.
LEMMA JobTypes ==
  ASSUME TypeOK, NEW j \in Jobs
  PROVE  job[j] \in JobRecords /\ NewJob \in JobRecords
         /\ \A articles \in Seq(Items) : FailedJob(articles) \in JobRecords
<1>1. <<>> \in Seq(Items) /\ 0 \in 0 .. MaxPages
  BY ClientAssumption
<1> QED
  BY <1>1 DEF TypeOK, JobRecords, Phases, NewJob, FailedJob

-----------------------------------------------------------------------------
(* The parts of the invariant, for one job and for one result.             *)

FetchHolds(j, f) == LET items == listing[Rows[j].text] IN
  /\ f.phase = "queued" => f = NewJob
  /\ f.phase = "fetching" => f.page < MaxPages /\ f.ok /\ ~f.capped
  /\ Rows[j].text \notin shrunk =>
       /\ f.phase = "fetching" =>
            \A i \in 1 .. Len(items) :
              i <= f.page * Display /\ items[i] \in Wanted(j) => items[i] \in ToSet(f.articles)
       /\ f.phase \in {"done", "yielded"} /\ f.ok /\ ~f.capped
            => Wanted(j) \subseteq ToSet(f.articles)

ResultHolds(r) ==
  r.ok /\ ~r.capped /\ r.text \notin shrunk =>
    \A item \in atStart[r.text] :
      DateOf[item] > KeyThreshold(r.key) /\ UrlOf[item] # NoUrl =>
        \E article \in r.articles : UrlOf[article] = UrlOf[item]

\* FetchInv, one job at a time.
LEMMA FetchInvByJob ==
  FetchInv <=> \A j \in Jobs : FetchHolds(j, job[j])
BY DEF FetchInv, FetchHolds

\* A step of one job keeps the invariant of the others.
LEMMA FetchStep ==
  ASSUME TypeOK, FetchInv, NEW j \in Jobs, NEW r, job' = [job EXCEPT ![j] = r],
         UNCHANGED <<provider, stamps, listing, atStart, shrunk>>, FetchHolds(j, r)
  PROVE  FetchInv'
<1>1. /\ Jobs' = Jobs /\ Rows' = Rows /\ AllRows' = AllRows
      /\ \A i \in Jobs : Wanted(i)' = Wanted(i)
  BY DEF Jobs, Rows, AllRows, Wanted, Threshold, FromTimestamp, RowByText, KeyThreshold
<1>2. DOMAIN job = Jobs
  BY DEF TypeOK
<1>3. ASSUME NEW i \in Jobs PROVE FetchHolds(i, job[i])'
  <2>1. FetchHolds(i, job'[i])
    BY <1>2, FetchInvByJob
  <2> QED
    BY <1>1, <2>1 DEF FetchHolds
<1>4. \A i \in Jobs' : FetchHolds(i, job[i])'
  BY <1>1, <1>3
<1> QED
  BY <1>4 DEF FetchInv, FetchHolds

\* A result keeps what it holds, whatever happens later.
LEMMA ResultStays ==
  ASSUME UNCHANGED <<provider, stamps, atStart>>, shrunk \subseteq shrunk',
         NEW r, ResultHolds(r)
  PROVE  ResultHolds(r)'
<1>1. KeyThreshold(r.key)' = KeyThreshold(r.key)
  BY DEF KeyThreshold, AllRows
<1> QED
  BY <1>1 DEF ResultHolds

\* A step that yields nothing.
LEMMA ResultsStay ==
  ASSUME OkIsComplete, UNCHANGED <<provider, stamps, atStart, results>>, shrunk \subseteq shrunk'
  PROVE  OkIsComplete'
<1>1. ASSUME NEW i \in 1 .. Len(results) PROVE ResultHolds(results[i])'
  <2> DEFINE r == results[i]
  <2>1. ResultHolds(r)
    BY DEF OkIsComplete, ResultHolds
  <2>2. r' = r
    OBVIOUS
  <2>3. ASSUME NEW q, q = r PROVE ResultHolds(q)'
    BY <2>1, <2>3, ResultStays
  <2> QED
    BY <2>2, <2>3 DEF ResultHolds
<1> QED
  BY <1>1 DEF OkIsComplete, ResultHolds

\* A step that leaves the listings alone.
LEMMA ListingsStay ==
  ASSUME ListingInv, UNCHANGED <<listing, atStart, shrunk>>
  PROVE  ListingInv'
BY DEF ListingInv, InOrder

\* The members of a concatenation.
LEMMA SetOfConcat ==
  ASSUME NEW S, NEW s \in Seq(S), NEW t \in Seq(S)
  PROVE  s \o t \in Seq(S) /\ ToSet(s \o t) = ToSet(s) \union ToSet(t)
<1>1. /\ s \o t \in Seq(S) /\ Len(s \o t) = Len(s) + Len(t) /\ Len(s) \in Nat /\ Len(t) \in Nat
      /\ \A i \in 1 .. Len(s) + Len(t) : (s \o t)[i] = IF i <= Len(s) THEN s[i] ELSE t[i - Len(s)]
  BY ConcatProperties, LenProperties
<1>2. /\ DOMAIN s = 1 .. Len(s) /\ DOMAIN t = 1 .. Len(t)
      /\ DOMAIN (s \o t) = 1 .. Len(s) + Len(t)
  BY <1>1, LenProperties
<1>3. ASSUME NEW i \in DOMAIN (s \o t) PROVE (s \o t)[i] \in ToSet(s) \union ToSet(t)
  <2>1. CASE i <= Len(s)
    BY <1>1, <1>2, <2>1 DEF ToSet
  <2>2. CASE ~ (i <= Len(s))
    <3>1. i - Len(s) \in 1 .. Len(t)
      BY <1>1, <1>2, <2>2
    <3> QED
      BY <1>1, <1>2, <2>2, <3>1 DEF ToSet
  <2> QED
    BY <2>1, <2>2
<1>4. ASSUME NEW i \in DOMAIN s PROVE s[i] \in ToSet(s \o t)
  BY <1>1, <1>2, <1>4 DEF ToSet
<1>5. ASSUME NEW i \in DOMAIN t PROVE t[i] \in ToSet(s \o t)
  <2>1. Len(s) + i \in 1 .. Len(s) + Len(t) /\ ~ (Len(s) + i <= Len(s)) /\ (Len(s) + i) - Len(s) = i
    BY <1>1, <1>2
  <2>2. (s \o t)[Len(s) + i] = t[i]
    BY <1>1, <2>1
  <2> QED
    BY <1>2, <2>1, <2>2 DEF ToSet
<1>6. ToSet(s \o t) \subseteq ToSet(s) \union ToSet(t)
  <2> SUFFICES ASSUME NEW e \in ToSet(s \o t) PROVE e \in ToSet(s) \union ToSet(t)
    OBVIOUS
  <2>1. PICK i \in DOMAIN (s \o t) : e = (s \o t)[i]
    BY Zenon DEF ToSet
  <2> QED
    BY <1>3, <2>1, Zenon
<1>7. ToSet(s) \subseteq ToSet(s \o t) /\ ToSet(t) \subseteq ToSet(s \o t)
  <2>1. ASSUME NEW e \in ToSet(s) PROVE e \in ToSet(s \o t)
    <3>1. PICK i \in DOMAIN s : e = s[i]
      BY <2>1, Zenon DEF ToSet
    <3> QED
      BY <1>4, <3>1, Zenon
  <2>2. ASSUME NEW e \in ToSet(t) PROVE e \in ToSet(s \o t)
    <3>1. PICK i \in DOMAIN t : e = t[i]
      BY <2>2, Zenon DEF ToSet
    <3> QED
      BY <1>5, <3>1, Zenon
  <2> QED
    BY <2>1, <2>2
<1> QED
  BY <1>1, <1>6, <1>7

-----------------------------------------------------------------------------
(* The news sites.                                                         *)

\* A new item pushes the others onto later pages, never onto earlier ones.
LEMMA IndexKeeps ==
  ASSUME ClientInv, NEW text \in Texts, NEW item \in Items, Index(text, item)
  PROVE  ClientInv'
<1> DEFINE s == listing[text]
<1> USE DEF ClientInv
<1>1. s \in Seq(Items) /\ Len(s) \in Nat /\ DOMAIN s = 1 .. Len(s) /\ listing \in [Texts -> Seq(Items)]
  BY LenProperties DEF TypeOK
<1>2. PICK p \in 1 .. Len(s) + 1 : /\ InOrder(InsertAt(s, p, item))
                                   /\ listing' = [listing EXCEPT ![text] = InsertAt(s, p, item)]
  BY DEF Index
<1> DEFINE new == InsertAt(s, p, item)
<1>3. /\ new \in Seq(Items) /\ Len(new) = Len(s) + 1
      /\ \A k \in 1 .. Len(s) + 1 :
           new[k] = IF k < p THEN s[k] ELSE IF k = p THEN item ELSE s[k - 1]
  <2> HIDE DEF s
  <2>1. s \in Seq(Items) /\ p \in 1 .. Len(s) + 1
    BY <1>1, <1>2
  <2>2. /\ InsertAt(s, p, item) \in Seq(Items) /\ Len(InsertAt(s, p, item)) = Len(s) + 1
        /\ \A k \in 1 .. Len(s) + 1 : InsertAt(s, p, item)[k] =
             IF k < p THEN s[k] ELSE IF k = p THEN item ELSE s[k - 1]
    BY <2>1, Inserted
  <2> QED
    BY <2>2
<1>4. /\ UNCHANGED <<provider, stamps, atStart, shrunk, job, results>>
      /\ item \notin ToSet(s) /\ changes' \in 0 .. MaxChanges
  BY ClientAssumption DEF Index, TypeOK
<1>5. listing' \in [Texts -> Seq(Items)] /\ listing'[text] = new
      /\ \A other \in Texts : other # text => listing'[other] = listing[other]
  <2> HIDE DEF new
  <2> QED BY <1>1, <1>2, <1>3 DEF new
<1> HIDE DEF new
<1>6. ToSet(s) \subseteq ToSet(new)
  <2> SUFFICES ASSUME NEW k \in 1 .. Len(s) PROVE s[k] \in ToSet(new)
    BY <1>1 DEF ToSet
  <2>1. DOMAIN new = 1 .. Len(s) + 1
    BY <1>3, LenProperties
  <2>2. CASE k < p
    <3>1. k \in 1 .. Len(s) + 1 /\ new[k] = s[k]
      BY <1>1, <1>3, <2>2
    <3> QED
      BY <2>1, <3>1 DEF ToSet
  <2>3. CASE ~ (k < p)
    <3>1. k + 1 \in 1 .. Len(s) + 1 /\ ~ (k + 1 < p) /\ k + 1 # p /\ (k + 1) - 1 = k
      BY <1>1, <2>3
    <3>2. new[k + 1] = s[k]
      BY <1>3, <3>1
    <3> QED
      BY <2>1, <3>1, <3>2 DEF ToSet
  <2> QED
    BY <2>2, <2>3
<1> HIDE DEF s
<1>7. /\ Jobs' = Jobs /\ Rows' = Rows /\ Texts' = Texts /\ AllRows' = AllRows
      /\ \A j \in Jobs : Wanted(j)' = Wanted(j)
  BY <1>4 DEF Jobs, Rows, Texts, AllRows, Wanted, Threshold, FromTimestamp, RowByText, KeyThreshold
<1>8. TypeOK'
  BY <1>4, <1>5, <1>7 DEF TypeOK
<1>9. ListingInv'
  <2> SUFFICES ASSUME NEW other \in Texts
               PROVE  /\ InOrder(listing'[other])
                      /\ other \notin shrunk => atStart[other] \subseteq ToSet(listing'[other])
    BY <1>4, <1>7 DEF ListingInv, InOrder
  <2>1. InOrder(listing[other]) /\ (other \notin shrunk => atStart[other] \subseteq ToSet(listing[other]))
    BY DEF ListingInv
  <2>2. CASE other = text
    BY <1>2, <1>5, <1>6, <2>1, <2>2 DEF new, s
  <2>3. CASE other # text
    BY <1>5, <2>1, <2>3
  <2> QED
    BY <2>2, <2>3
<1>10. FetchInv'
  <2>1. ASSUME NEW j \in Jobs PROVE FetchHolds(j, job[j])'
    <3>1. FetchHolds(j, job[j])
      BY FetchInvByJob
    <3>2. CASE Rows[j].text # text
      <4>1. listing'[Rows[j].text] = listing[Rows[j].text]
        BY <1>5, <3>2, RowFacts DEF TypeOK
      <4> QED
        BY <1>4, <1>7, <3>1, <4>1 DEF FetchHolds
    <3>3. CASE Rows[j].text = text
      <4>1. ASSUME text \notin shrunk, job[j].phase = "fetching",
                   NEW k \in 1 .. Len(new), k <= job[j].page * Display, new[k] \in Wanted(j)
            PROVE  new[k] \in ToSet(job[j].articles)
        <5>0. k \in 1 .. Len(s) + 1
          BY <1>3, <4>1
        <5>1. new[k] # item
          <6>1. Wanted(j) \subseteq ToSet(s)
            BY <3>3, <4>1 DEF ListingInv, Wanted, s
          <6> QED
            BY <1>4, <4>1, <6>1
        <5>2. k # p
          BY <1>3, <5>0, <5>1
        <5>3. job[j].page \in Nat /\ job[j].page * Display \in Nat
          BY ClientAssumption DEF TypeOK
        <5>4. ASSUME NEW i \in 1 .. Len(s), i <= job[j].page * Display, s[i] \in Wanted(j)
              PROVE  s[i] \in ToSet(job[j].articles)
          BY <3>1, <3>3, <4>1, <5>4 DEF FetchHolds, s
        <5>5. CASE k < p
          <6>1. new[k] = s[k] /\ k \in 1 .. Len(s)
            BY <1>1, <1>3, <5>0, <5>5 DEF s
          <6> QED
            BY <4>1, <5>4, <6>1
        <5>6. CASE ~ (k < p)
          <6>1. k - 1 \in 1 .. Len(s)
            BY <1>1, <5>0, <5>2, <5>6 DEF s
          <6>2. k - 1 <= job[j].page * Display
            BY <4>1, <5>0, <5>3
          <6>3. new[k] = s[k - 1]
            BY <1>3, <5>0, <5>2, <5>6
          <6> QED
            BY <4>1, <5>4, <6>1, <6>2, <6>3
        <5> QED
          BY <5>5, <5>6
      <4>2. listing'[Rows[j].text] = new
        BY <1>5, <3>3
      <4> QED
        BY <1>4, <1>7, <3>1, <3>3, <4>1, <4>2 DEF FetchHolds
    <3> QED
      BY <3>2, <3>3
  <2>2. \A j \in Jobs' : FetchHolds(j, job[j])'
    BY <1>7, <2>1
  <2> QED
    BY <2>2 DEF FetchInv, FetchHolds
<1>11. OkIsComplete'
  BY <1>4, ResultsStay
<1> QED
  BY <1>8, <1>9, <1>10, <1>11

\* An item that is taken down excuses the fetches of its listing.
LEMMA UnlistKeeps ==
  ASSUME ClientInv, NEW text \in Texts, Unlist(text)
  PROVE  ClientInv'
<1> DEFINE s == listing[text]
<1> USE DEF ClientInv
<1>1. s \in Seq(Items) /\ Len(s) \in Nat /\ listing \in [Texts -> Seq(Items)]
  BY LenProperties DEF TypeOK
<1>2. PICK p \in 1 .. Len(s) : listing' = [listing EXCEPT ![text] = RemoveAt(s, p)]
  BY DEF Unlist
<1> DEFINE new == RemoveAt(s, p)
<1>3. /\ new \in Seq(Items) /\ Len(new) = Len(s) - 1
      /\ \A k \in 1 .. Len(s) - 1 : new[k] = IF k < p THEN s[k] ELSE s[k + 1]
  BY <1>1, Dropped
<1>4. /\ UNCHANGED <<provider, stamps, atStart, job, results>>
      /\ shrunk' = shrunk \union {text} /\ changes' \in 0 .. MaxChanges
  BY ClientAssumption DEF Unlist, TypeOK
<1>5. listing' \in [Texts -> Seq(Items)] /\ listing'[text] = new
      /\ \A other \in Texts : other # text => listing'[other] = listing[other]
  <2> HIDE DEF new
  <2> QED BY <1>1, <1>2, <1>3 DEF new
<1> HIDE DEF new
<1>6. InOrder(new)
  <2>1. InOrder(s)
    BY DEF ListingInv
  <2> SUFFICES ASSUME NEW i \in 1 .. Len(new), NEW k \in 1 .. Len(new), i < k, DateOf[new[i]] # 0
               PROVE  DateOf[new[i]] >= DateOf[new[k]]
    BY DEF InOrder
  <2> DEFINE at(n) == IF n < p THEN n ELSE n + 1
  <2>2. i \in 1 .. Len(s) - 1 /\ k \in 1 .. Len(s) - 1
    BY <1>3
  <2>3. at(i) \in 1 .. Len(s) /\ at(k) \in 1 .. Len(s) /\ at(i) < at(k)
    BY <1>1, <2>2
  <2>4. new[i] = s[at(i)] /\ new[k] = s[at(k)]
    BY <1>3, <2>2
  <2> HIDE DEF at, s
  <2> QED
    BY <2>1, <2>3, <2>4 DEF InOrder
<1> HIDE DEF s
<1>7. /\ Jobs' = Jobs /\ Rows' = Rows /\ Texts' = Texts /\ AllRows' = AllRows
      /\ \A j \in Jobs : Wanted(j)' = Wanted(j)
  BY <1>4 DEF Jobs, Rows, Texts, AllRows, Wanted, Threshold, FromTimestamp, RowByText, KeyThreshold
<1>8. TypeOK'
  BY <1>4, <1>5, <1>7 DEF TypeOK
<1>9. ListingInv'
  <2> SUFFICES ASSUME NEW other \in Texts
               PROVE  /\ InOrder(listing'[other])
                      /\ other \notin shrunk' => atStart[other] \subseteq ToSet(listing'[other])
    BY <1>4, <1>7 DEF ListingInv, InOrder
  <2> QED
    BY <1>4, <1>5, <1>6 DEF ListingInv
<1>10. FetchInv'
  <2>1. ASSUME NEW j \in Jobs PROVE FetchHolds(j, job[j])'
    <3>1. FetchHolds(j, job[j])
      BY FetchInvByJob
    <3>2. CASE Rows[j].text # text
      <4>1. listing'[Rows[j].text] = listing[Rows[j].text]
        BY <1>5, <3>2, RowFacts DEF TypeOK
      <4> QED
        BY <1>4, <1>7, <3>1, <4>1 DEF FetchHolds
    <3>3. CASE Rows[j].text = text
      BY <1>4, <1>7, <3>1, <3>3 DEF FetchHolds
    <3> QED
      BY <3>2, <3>3
  <2>2. \A j \in Jobs' : FetchHolds(j, job[j])'
    BY <1>7, <2>1
  <2> QED
    BY <2>2 DEF FetchInv, FetchHolds
<1>11. OkIsComplete'
  BY <1>4, ResultsStay
<1> QED
  BY <1>8, <1>9, <1>10, <1>11

-----------------------------------------------------------------------------
(* The fetches.                                                            *)

\* A fetch that goes on, or comes to an end, with what it must have.
LEMMA JobStepKeeps ==
  ASSUME ClientInv, NEW j \in Fetching, NEW r \in JobRecords, job' = [job EXCEPT ![j] = r],
         UNCHANGED <<provider, stamps, listing, atStart, shrunk, changes, results>>,
         FetchHolds(j, r)
  PROVE  ClientInv'
<1> USE DEF ClientInv
<1>1. j \in Jobs /\ Jobs' = Jobs /\ Rows' = Rows
  BY DEF Fetching, Jobs, Rows
<1>2. /\ (job \in [Jobs -> JobRecords])'
      /\ (Cardinality({i \in Jobs : job[i].phase = "fetching"}) <= Workers)'
  BY <1>1, JobChanges
<1>3. TypeOK'
  BY <1>1, <1>2 DEF TypeOK, JobRecords, Phases, AllRows, Texts
<1>4. FetchInv'
  BY <1>1, FetchStep
<1> QED
  BY <1>3, <1>4, ListingsStay, ResultsStay

\* A fetch begins with nothing, and with a thread of the pool.
LEMMA StartFetchKeeps ==
  ASSUME ClientInv, NEW j \in Jobs, StartFetch(j)
  PROVE  ClientInv'
<1> DEFINE r == [NewJob EXCEPT !.phase = "fetching"]
<1> USE DEF ClientInv
<1>1. job[j] = NewJob /\ DOMAIN job = Jobs
  BY DEF StartFetch, FetchInv, TypeOK
<1>2. /\ job' = [job EXCEPT ![j] = r] /\ Jobs' = Jobs /\ Rows' = Rows
      /\ UNCHANGED <<provider, stamps, listing, atStart, shrunk, changes, results>>
  BY <1>1 DEF StartFetch, Jobs, Rows
<1>3. /\ r \in JobRecords /\ r.phase = "fetching" /\ r.page = 0 /\ r.ok /\ ~r.capped
      /\ r.articles = <<>>
  BY JobTypes DEF NewJob, JobRecords, Phases
<1> HIDE DEF r
<1>4. job' \in [Jobs -> JobRecords]
  BY <1>2, <1>3, JobTypes DEF TypeOK, JobRecords, Phases
<1>5. Cardinality({i \in Jobs : job'[i].phase = "fetching"}) <= Workers
  <2>1. {i \in Jobs : job'[i].phase = "fetching"} = Fetching \union {j} /\ j \notin Fetching
    BY <1>1, <1>2, <1>3 DEF Fetching, NewJob
  <2>2. IsFiniteSet(Fetching)
    BY RowFacts, FS_Subset DEF TypeOK, Fetching
  <2>3. Cardinality(Fetching \union {j}) = Cardinality(Fetching) + 1 /\ Cardinality(Fetching) \in Nat
    BY <2>1, <2>2, FS_AddElement, FS_CardinalityType
  <2>4. Cardinality(Fetching) < Workers
    BY DEF StartFetch, Fetching
  <2>5. Cardinality(Fetching \union {j}) <= Workers
    BY <2>3, <2>4, ClientAssumption
  <2> QED
    BY <2>1, <2>5, Zenon
<1>6. TypeOK'
  BY <1>2, <1>4, <1>5 DEF TypeOK, JobRecords, Phases, AllRows, Texts
<1>7. FetchHolds(j, r)
  <2>1. \A i \in 1 .. Len(listing[Rows[j].text]) : ~ (i <= 0 * Display)
    BY ClientAssumption
  <2>2. 0 < MaxPages
    BY ClientAssumption
  <2> QED
    BY <1>3, <2>1, <2>2 DEF FetchHolds
<1>8. FetchInv'
  BY <1>2, <1>7, FetchStep
<1> QED
  BY <1>2, <1>6, <1>8, ListingsStay, ResultsStay

\* A fetch that fails is not ok.
LEMMA FetchFails ==
  ASSUME ClientInv, NEW j \in Jobs, RequestFails(j) \/ FetchRaises(j)
  PROVE  ClientInv'
<1> USE DEF ClientInv
<1>1. PICK articles \in Seq(Items) : job' = [job EXCEPT ![j] = FailedJob(articles)]
  <2>1. job[j].articles \in Seq(Items) /\ <<>> \in Seq(Items) /\ DOMAIN job = Jobs
    BY DEF TypeOK
  <2>2. \/ job' = [job EXCEPT ![j] = FailedJob(job[j].articles)]
        \/ job' = [job EXCEPT ![j] = FailedJob(<<>>)]
    BY <2>1 DEF RequestFails, FetchRaises
  <2> QED
    BY <2>1, <2>2
<1>2. /\ UNCHANGED <<provider, stamps, listing, atStart, shrunk, changes, results>>
      /\ j \in Fetching
  BY DEF RequestFails, FetchRaises, Fetching
<1>3. FailedJob(articles) \in JobRecords /\ FetchHolds(j, FailedJob(articles))
  BY JobTypes DEF FetchHolds, FailedJob
<1> QED
  BY <1>1, <1>2, <1>3, JobStepKeeps

\* A feed is one document: all of it is read at once.
LEMMA FetchFeedKeeps ==
  ASSUME ClientInv, NEW j \in Jobs, FetchFeed(j)
  PROVE  ClientInv'
<1> DEFINE s == listing[Rows[j].text]
           kept == Passing(s, Threshold(j))
           r == [job[j] EXCEPT !.articles = kept, !.phase = "done"]
<1> USE DEF ClientInv
<1>1. DOMAIN job = Jobs /\ job[j] \in JobRecords /\ Rows[j].text \in Texts /\ s \in Seq(Items)
  BY JobTypes, RowFacts DEF TypeOK
<1>2. /\ UNCHANGED <<provider, stamps, listing, atStart, shrunk, changes, results>>
      /\ j \in Fetching
  BY DEF FetchFeed, Fetching
<1>3. kept \in Seq(Items) /\ \A item \in ToSet(s) : DateOf[item] > Threshold(j) => item \in ToSet(kept)
  BY <1>1, PassingKeeps
<1> HIDE DEF kept
<1>4. job' = [job EXCEPT ![j] = r]
  BY <1>1 DEF FetchFeed, kept
<1>5. r \in JobRecords /\ r.phase = "done" /\ r.articles = kept
  BY <1>1, <1>3 DEF JobRecords, Phases
<1>6. Rows[j].text \notin shrunk => Wanted(j) \subseteq ToSet(kept)
  BY <1>1, <1>3 DEF ListingInv, Wanted
<1> HIDE DEF r
<1>7. FetchHolds(j, r)
  BY <1>5, <1>6 DEF FetchHolds
<1> QED
  BY <1>2, <1>4, <1>5, <1>7, JobStepKeeps

\* What is on the page is taken over, and what lies behind a page that ends the loop
\* early is not newer than the threshold.
LEMMA RequestPageKeeps ==
  ASSUME ClientInv, NEW j \in Jobs, RequestPage(j)
  PROVE  ClientInv'
<1> DEFINE s == listing[Rows[j].text]
           page == job[j].page
           items == PageOf(s, page)
           kept == Passing(items, Threshold(j))
           stop == IsPassed(items, Threshold(j))
           last == IsLastPage(page)
           r == [job[j] EXCEPT !.articles = @ \o kept, !.page = @ + 1,
                               !.capped = last /\ ~stop /\ Len(items) = Display,
                               !.phase = IF stop \/ last THEN "done" ELSE "fetching"]
<1> USE DEF ClientInv
<1>1. DOMAIN job = Jobs /\ job[j] \in JobRecords /\ Rows[j].text \in Texts /\ s \in Seq(Items)
  BY JobTypes, RowFacts DEF TypeOK
<1>2. /\ UNCHANGED <<provider, stamps, listing, atStart, shrunk, changes, results>>
      /\ j \in Fetching /\ job[j].phase = "fetching"
  BY DEF RequestPage, Fetching
<1>3. job' = [job EXCEPT ![j] = r]
  BY DEF RequestPage
<1>4. /\ page \in Nat /\ page + 1 \in 0 .. MaxPages /\ job[j].ok /\ ~job[j].capped
      /\ ~last => page + 1 < MaxPages
  <2>1. page < MaxPages /\ job[j].ok /\ ~job[j].capped
    BY <1>2 DEF FetchInv
  <2>2. page \in 0 .. MaxPages
    BY <1>1 DEF JobRecords
  <2>3. MaxPages \in Nat
    BY ClientAssumption
  <2>4. page \in Nat /\ page + 1 \in 0 .. MaxPages
    BY <2>1, <2>2, <2>3
  <2>5. page + 1 # MaxPages => page + 1 < MaxPages
    BY <2>1, <2>2, <2>3
  <2> QED
    BY <2>1, <2>4, <2>5 DEF IsLastPage
<1>5. /\ items \in Seq(Items)
      /\ \A i \in 1 .. Len(s) : page * Display < i /\ i <= (page + 1) * Display
           => s[i] \in ToSet(items)
      /\ items # <<>> => \E n \in 1 .. Len(s) : Last(items) = s[n] /\ n <= (page + 1) * Display
      /\ \A i \in 1 .. Len(s) : i > (page + 1) * Display => Len(items) = Display
  BY <1>1, <1>4, PageHolds
<1> HIDE DEF items
<1>6. kept \in Seq(Items) /\ \A item \in ToSet(items) : DateOf[item] > Threshold(j) => item \in ToSet(kept)
  BY <1>5, PassingKeeps
<1> HIDE DEF kept
<1>7. /\ job[j].articles \o kept \in Seq(Items)
      /\ ToSet(job[j].articles \o kept) = ToSet(job[j].articles) \union ToSet(kept)
  BY <1>1, <1>6, SetOfConcat DEF JobRecords
<1> HIDE DEF stop, last
<1>8. /\ r \in JobRecords /\ r.articles = job[j].articles \o kept /\ r.page = page + 1 /\ r.ok
      /\ r.capped <=> last /\ ~stop /\ Len(items) = Display
      /\ r.phase = IF stop \/ last THEN "done" ELSE "fetching"
  <2>1. (last /\ ~stop /\ Len(items) = Display) \in BOOLEAN
    OBVIOUS
  <2>2. (IF stop \/ last THEN "done" ELSE "fetching") \in Phases
    BY DEF Phases
  <2> QED
    BY <1>1, <1>4, <1>7, <2>1, <2>2 DEF JobRecords
<1>9. Threshold(j) \in Nat /\ Display \in Nat /\ \A item \in Items : DateOf[item] \in Nat
  <2>1. Dates \union {0} \subseteq Nat
    BY ClientAssumption
  <2> QED
    BY <2>1, JobThreshold, ClientAssumption
<1>10. ASSUME Rows[j].text \notin shrunk, NEW i \in 1 .. Len(s), i <= (page + 1) * Display,
              s[i] \in Wanted(j)
       PROVE  s[i] \in ToSet(r.articles)
  <2>1. CASE i <= page * Display
    <3>1. s[i] \in ToSet(job[j].articles)
      BY <1>2, <1>10, <2>1 DEF FetchInv
    <3> QED
      BY <1>7, <1>8, <3>1
  <2>2. CASE page * Display < i
    <3>1. s[i] \in ToSet(items) /\ DateOf[s[i]] > Threshold(j)
      BY <1>5, <1>10, <2>2 DEF Wanted
    <3> QED
      BY <1>6, <1>7, <1>8, <3>1
  <2>3. i <= page * Display \/ page * Display < i
    BY <1>4, <1>9
  <2> QED
    BY <2>1, <2>2, <2>3
<1>11. ASSUME Rows[j].text \notin shrunk, r.phase = "done", ~r.capped,
              NEW i \in 1 .. Len(s), i > (page + 1) * Display, s[i] \in Wanted(j)
       PROVE  FALSE
  <2>1. Len(items) = Display
    BY <1>5, <1>11
  <2>2. stop
    BY <1>8, <1>11, <2>1
  <2>3. items # <<>> /\ DateOf[Last(items)] \in 1 .. Threshold(j)
    BY <2>2 DEF stop, IsPassed
  <2>4. PICK n \in 1 .. Len(s) : Last(items) = s[n] /\ n <= (page + 1) * Display
    BY <1>5, <2>3
  <2>5. n < i /\ DateOf[s[n]] # 0 /\ s[n] \in Items /\ s[i] \in Items /\ n \in 1 .. Len(s)
    <3>1. (page + 1) * Display \in Nat /\ Len(s) \in Nat
      BY <1>1, <1>4, <1>9, LenProperties
    <3>2. n < i
      BY <1>11, <2>4, <3>1
    <3>3. \A k \in 1 .. Len(s) : s[k] \in Items
      BY <1>1, LenProperties
    <3> QED
      BY <2>3, <2>4, <3>2, <3>3
  <2>6. DateOf[s[n]] >= DateOf[s[i]]
    BY <1>1, <2>5 DEF ListingInv, InOrder
  <2>7. DateOf[s[n]] <= Threshold(j) /\ DateOf[s[i]] > Threshold(j)
    BY <1>11, <2>3, <2>4 DEF Wanted
  <2> QED
    BY <1>9, <2>5, <2>6, <2>7
<1>12. ASSUME Rows[j].text \notin shrunk, r.phase = "done", ~r.capped, NEW item \in Wanted(j)
       PROVE  item \in ToSet(r.articles)
  <2>1. item \in ToSet(s)
    BY <1>1, <1>12 DEF ListingInv, Wanted
  <2>2. PICK i \in 1 .. Len(s) : item = s[i]
    <3>1. DOMAIN s = 1 .. Len(s)
      BY <1>1, LenProperties
    <3> QED
      BY <2>1, <3>1 DEF ToSet
  <2>3. i <= (page + 1) * Display \/ i > (page + 1) * Display
    BY <1>4, <1>9
  <2> QED
    BY <1>10, <1>11, <1>12, <2>2, <2>3
<1> HIDE DEF r, s
<1>13. FetchHolds(j, r)
  BY <1>4, <1>8, <1>10, <1>12 DEF FetchHolds, s
<1> QED
  BY <1>2, <1>3, <1>8, <1>13, JobStepKeeps

\* A result holds what its fetch brought, without the duplicates.
LEMMA YieldKeeps ==
  ASSUME ClientInv, NEW j \in Jobs, YieldResult(j)
  PROVE  ClientInv'
<1> DEFINE f == job[j]
           r == [f EXCEPT !.phase = "yielded"]
           e == [text |-> Rows[j].text, key |-> RowByText(Rows[j].text),
                 articles |-> Deduplicated(f.articles), ok |-> f.ok, capped |-> f.capped]
           Results == [text : Texts, key : ToSet(Rows), articles : SUBSET Items,
                       ok : BOOLEAN, capped : BOOLEAN]
<1> USE DEF ClientInv
<1>1. DOMAIN job = Jobs /\ f \in JobRecords /\ Rows[j].text \in Texts /\ f.phase = "done"
  BY JobTypes, RowFacts DEF TypeOK, YieldResult
<1>2. /\ UNCHANGED <<provider, stamps, listing, atStart, shrunk, changes>>
      /\ Jobs' = Jobs /\ Rows' = Rows /\ AllRows' = AllRows /\ Texts' = Texts
  BY DEF YieldResult, Jobs, Rows, AllRows, Texts
<1>3. job' = [job EXCEPT ![j] = r]
  BY <1>1 DEF YieldResult
<1>4. results' = Append(results, e)
  BY DEF YieldResult
<1>5. /\ r \in JobRecords /\ r.phase = "yielded" /\ r.ok = f.ok /\ r.capped = f.capped
      /\ r.articles = f.articles
  BY <1>1 DEF JobRecords, Phases
<1> HIDE DEF r
<1>6. /\ job' \in [Jobs -> JobRecords]
      /\ (Cardinality({i \in Jobs : job[i].phase = "fetching"}) <= Workers)'
  BY <1>2, <1>3, <1>5, JobChanges
<1>7. e \in Results
  <2>1. f.articles \in Seq(Items) /\ f.ok \in BOOLEAN /\ f.capped \in BOOLEAN
    BY <1>1 DEF JobRecords
  <2>2. Deduplicated(f.articles) \in SUBSET Items
    BY <2>1, DeduplicatedItems
  <2>3. RowByText(Rows[j].text) \in ToSet(Rows)
    BY RowByTextKnown DEF TypeOK
  <2> QED
    BY <1>1, <2>1, <2>2, <2>3
<1>8. results \in Seq(Results)
  BY DEF TypeOK
<1>9. ASSUME e.ok, ~e.capped, e.text \notin shrunk, NEW item \in atStart[e.text],
             DateOf[item] > KeyThreshold(e.key), UrlOf[item] # NoUrl
      PROVE  \E article \in e.articles : UrlOf[article] = UrlOf[item]
  <2>1. item \in Wanted(j)
    BY <1>9, JobThreshold DEF Wanted
  <2>2. item \in ToSet(f.articles)
    BY <1>1, <1>9, <2>1 DEF FetchInv
  <2>3. f.articles \in Seq(Items)
    BY <1>1 DEF JobRecords
  <2> QED
    BY <1>9, <2>2, <2>3, FirstOfUrlIsKept
<1>10. ResultHolds(e)
  BY <1>9 DEF ResultHolds
<1> HIDE DEF e, Results
<1>11. /\ results' \in Seq(Results) /\ Len(results') = Len(results) + 1 /\ Len(results) \in Nat
       /\ \A i \in 1 .. Len(results) : results'[i] = results[i]
       /\ results'[Len(results) + 1] = e
  BY <1>4, <1>7, <1>8
<1>12. TypeOK'
  <2>1. (results \in Seq([text : Texts, key : ToSet(Rows), articles : SUBSET Items,
                          ok : BOOLEAN, capped : BOOLEAN]))'
    BY <1>2, <1>11 DEF Results
  <2> QED
    BY <1>2, <1>6, <2>1 DEF TypeOK, JobRecords, Phases
<1>13. FetchInv'
  <2>1. FetchHolds(j, f)
    BY FetchInvByJob
  <2> HIDE DEF f
  <2>2. FetchHolds(j, r)
    BY <1>1, <1>5, <2>1 DEF FetchHolds
  <2> QED
    BY <1>2, <1>3, <2>2, FetchStep
<1>14. OkIsComplete'
  <2>1. ASSUME NEW i \in 1 .. Len(results) + 1 PROVE ResultHolds(results'[i])
    <3>1. CASE i \in 1 .. Len(results)
      <4>1. ResultHolds(results[i])
        BY <3>1 DEF OkIsComplete, ResultHolds
      <4> QED
        BY <1>11, <3>1, <4>1
    <3>2. CASE i = Len(results) + 1
      BY <1>10, <1>11, <3>2
    <3> QED
      BY <1>11, <2>1, <3>1, <3>2
  <2>2. \A row : KeyThreshold(row)' = KeyThreshold(row)
    BY <1>2 DEF KeyThreshold
  <2>3. \A i \in 1 .. Len(results') : ResultHolds(results'[i])
    BY <1>11, <2>1
  <2> QED
    BY <1>2, <2>2, <2>3, Zenon DEF OkIsComplete, ResultHolds
<1> QED
  BY <1>2, <1>12, <1>13, <1>14, ListingsStay

-----------------------------------------------------------------------------
(* The beginning, and the theorems.                                        *)

\* The inductive invariant holds at the start of a run.
LEMMA InitKeeps ==
  ASSUME Init PROVE ClientInv
<1>1. PICK shown \in Listings :
        listing = [text \in Texts |-> IF text = Rows[1].text THEN shown ELSE <<>>]
  BY DEF Init
<1>2. shown \in Seq(Items) /\ InOrder(shown)
  <2>1. PICK n \in 0 .. Cardinality(Items) : shown \in [1 .. n -> Items]
    BY DEF Listings
  <2>2. n \in Nat
    BY FS_CardinalityType, ClientAssumption
  <2>3. shown \in Seq(Items)
    BY <2>1, <2>2, SeqDef
  <2> QED
    BY <2>3 DEF Listings
<1>3. <<>> \in Seq(Items) /\ Len(<<>>) = 0 /\ ToSet(<<>>) \subseteq Items
  BY DEF ToSet
<1>4. InOrder(<<>>)
  BY DEF InOrder
<1>5. listing \in [Texts -> Seq(Items)] /\ \A text \in Texts : InOrder(listing[text])
  BY <1>1, <1>2, <1>3, <1>4
<1>6. \A s \in Seq(Items) : ToSet(s) \subseteq Items
  <2> SUFFICES ASSUME NEW s \in Seq(Items) PROVE ToSet(s) \subseteq Items
    OBVIOUS
  <2> QED
    BY LenProperties DEF ToSet
<1>7. atStart \in [Texts -> SUBSET Items] /\ \A text \in Texts : atStart[text] = ToSet(listing[text])
  BY <1>5, <1>6 DEF Init
<1>8. /\ provider \in Providers /\ stamps \in [AllRows -> Dates \union {0}]
      /\ shrunk = {} /\ changes = 0 /\ results = <<>>
      /\ job = [j \in Jobs |-> NewJob]
  BY DEF Init
<1>9. NewJob \in JobRecords
  <2>1. <<>> \in Seq(Items) /\ 0 \in 0 .. MaxPages
    BY ClientAssumption
  <2> QED
    BY <2>1 DEF JobRecords, Phases, NewJob
<1>10. Cardinality({j \in Jobs : job[j].phase = "fetching"}) <= Workers
  <2>1. {j \in Jobs : job[j].phase = "fetching"} = {}
    BY <1>8 DEF NewJob
  <2>2. Cardinality({}) = 0 /\ 0 <= Workers
    BY FS_EmptySet, ClientAssumption
  <2> QED
    BY <2>1, <2>2
<1>11. TypeOK
  <2>1. changes \in 0 .. MaxChanges
    BY <1>8, ClientAssumption
  <2>2. job \in [Jobs -> JobRecords]
    BY <1>8, <1>9
  <2>3. results \in Seq([text : Texts, key : ToSet(Rows), articles : SUBSET Items,
                         ok : BOOLEAN, capped : BOOLEAN])
    BY <1>8
  <2> QED
    BY <1>5, <1>7, <1>8, <1>10, <2>1, <2>2, <2>3 DEF TypeOK, JobRecords, Phases
<1>12. ListingInv
  BY <1>5, <1>7 DEF ListingInv
<1>13. FetchInv
  BY <1>8 DEF FetchInv, NewJob
<1>14. OkIsComplete
  BY <1>8 DEF OkIsComplete
<1> QED
  BY <1>11, <1>12, <1>13, <1>14 DEF ClientInv

\* Every step keeps it.
LEMMA StepKeeps ==
  ASSUME ClientInv, [Next]_vars PROVE ClientInv'
<1>1. ASSUME UNCHANGED vars PROVE ClientInv'
  <2>1. /\ UNCHANGED <<provider, stamps, listing, atStart, shrunk, changes, job, results>>
        /\ Jobs' = Jobs /\ Rows' = Rows /\ AllRows' = AllRows /\ Texts' = Texts
    BY <1>1 DEF vars, Jobs, Rows, AllRows, Texts
  <2>2. \A j \in Jobs : Wanted(j)' = Wanted(j)
    BY <2>1 DEF Wanted, Threshold, FromTimestamp, RowByText, KeyThreshold
  <2>3. TypeOK'
    BY <2>1 DEF ClientInv, TypeOK
  <2>4. FetchInv'
    BY <2>1, <2>2 DEF ClientInv, FetchInv
  <2> QED
    BY <2>1, <2>3, <2>4, ListingsStay, ResultsStay DEF ClientInv
<1>2. ASSUME WorldNext PROVE ClientInv'
  BY <1>2, UnlistKeeps, IndexKeeps DEF WorldNext
<1>3. ASSUME ClientNext PROVE ClientInv'
  <2>1. PICK j \in Jobs : \/ StartFetch(j) \/ RequestPage(j) \/ RequestFails(j) \/ FetchRaises(j)
                          \/ FetchFeed(j) \/ YieldResult(j)
    BY <1>3 DEF ClientNext
  <2>2. CASE StartFetch(j)
    BY <2>2, StartFetchKeeps
  <2>3. CASE RequestPage(j)
    BY <2>3, RequestPageKeeps
  <2>4. CASE RequestFails(j) \/ FetchRaises(j)
    BY <2>4, FetchFails
  <2>5. CASE FetchFeed(j)
    BY <2>5, FetchFeedKeeps
  <2>6. CASE YieldResult(j)
    BY <2>6, YieldKeeps
  <2> QED
    BY <2>1, <2>2, <2>3, <2>4, <2>5, <2>6
<1> QED
  BY <1>1, <1>2, <1>3 DEF Next

\* It holds throughout.
LEMMA ClientInvariant ==
  FairSpec => []ClientInv
<1>1. Init => ClientInv
  BY InitKeeps
<1>2. ClientInv /\ [Next]_vars => ClientInv'
  BY StepKeeps
<1> QED
  BY <1>1, <1>2, PTL DEF FairSpec

\* Whatever the sites, the pool and the network do, the variables have their types:
\* above all, no more fetches are under way than the pool has threads.
THEOREM TypeCorrect ==
  FairSpec => []TypeOK
<1>1. ClientInv => TypeOK
  BY DEF ClientInv
<1> QED
  BY <1>1, ClientInvariant, PTL

\* An ok result holds every new article its listing showed when the run began, for
\* any number of rows, threads, pages and changes of the listings, with the
\* exceptions OkIsComplete names.
THEOREM OkHoldsAllNew ==
  FairSpec => []OkIsComplete
<1>1. ClientInv => OkIsComplete
  BY DEF ClientInv
<1> QED
  BY <1>1, ClientInvariant, PTL
=============================================================================
