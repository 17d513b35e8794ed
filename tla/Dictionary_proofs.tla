------------------------- MODULE Dictionary_proofs --------------------------
(***************************************************************************)
(* Proofs about the dictionary: its type invariant, what the caches of a   *)
(* worker can hold, what the counts of a candidate say of its verdict, and *)
(* what no step does to a decided candidate.                               *)
(***************************************************************************)
EXTENDS Dictionary, FiniteSetTheorems, TLAPS

-----------------------------------------------------------------------------
(* What the steps do to the tables.                                        *)

\* The version of one table goes up and the other table is left alone.
Bumped ==
  \/ /\ versions.compound < MaxVersion
     /\ versions' = [versions EXCEPT !.compound = @ + 1]
     /\ compoundDict' \subseteq CompoundRows
     /\ UNCHANGED stopwordDict
  \/ /\ versions.stopword < MaxVersion
     /\ versions' = [versions EXCEPT !.stopword = @ + 1]
     /\ stopwordDict' \subseteq StopwordRows
     /\ UNCHANGED compoundDict

LEMMA InsertStep ==
  ASSUME TablesTypeOK, NEW row \in CompoundRows, InsertCompound(row)
  PROVE  UNCHANGED tableVars \/ Bumped
BY DEF TablesTypeOK, InsertCompound, WriteCompound, Bumped

LEMMA CandidatesAreRows == Candidates \subseteq CompoundRows
BY DEF Candidates, CompoundRows, Domains

LEMMA AdminCompoundsStep ==
  ASSUME TablesTypeOK, AdministerCompounds
  PROVE  Bumped
<1>1. ASSUME NEW row \in CompoundRows, CreateCompoundNoun(row) PROVE Bumped
  BY <1>1 DEF TablesTypeOK, CreateCompoundNoun, WriteCompound, Bumped
<1>2. ASSUME NEW row \in CompoundRows, DeleteCompoundNoun(row) PROVE Bumped
  BY <1>2 DEF TablesTypeOK, DeleteCompoundNoun, WriteCompound, Bumped
<1>3. ASSUME NEW row \in CompoundRows, NEW domain \in Domains, UpdateCompoundNounDomain(row, domain)
      PROVE Bumped
  <2>1. <<row[1], domain>> \in CompoundRows
    BY DEF CompoundRows
  <2> QED
    BY <1>3, <2>1 DEF TablesTypeOK, UpdateCompoundNounDomain, WriteCompound, Bumped
<1> QED
  BY <1>1, <1>2, <1>3 DEF AdministerCompounds

LEMMA AdminStopwordsStep ==
  ASSUME TablesTypeOK, AdministerStopwords
  PROVE  Bumped
<1>1. PICK row \in StopwordRows :
        \/ stopwordDict' = stopwordDict \union {row}
        \/ row \in stopwordDict /\ stopwordDict' = stopwordDict \ {row}
        \/ \E domain \in Domains :
             /\ row \in stopwordDict
             /\ <<row[1], domain>> \notin stopwordDict
             /\ stopwordDict' = (stopwordDict \ {row}) \union {<<row[1], domain>>}
  BY DEF AdministerStopwords
<1>2. \A domain \in Domains : <<row[1], domain>> \in StopwordRows
  BY DEF StopwordRows
<1>3. stopwordDict \subseteq StopwordRows
  BY DEF TablesTypeOK
<1>4. stopwordDict' \subseteq StopwordRows
  <2>1. CASE \E domain \in Domains : stopwordDict' = (stopwordDict \ {row}) \union {<<row[1], domain>>}
    BY <2>1, <1>2, <1>3
  <2> QED
    BY <2>1, <1>1, <1>3
<1> QED
  BY <1>4 DEF AdministerStopwords, Bumped

LEMMA BumpedType ==
  ASSUME TablesTypeOK, Bumped
  PROVE  TablesTypeOK'
<1>1. MaxVersion \in Nat
  BY TablesAssumption
<1> QED
  BY <1>1 DEF TablesTypeOK, Bumped

LEMMA InsertStopwordStep ==
  ASSUME TablesTypeOK, NEW row \in StopwordRows, InsertStopword(row)
  PROVE  UNCHANGED tableVars \/ Bumped
BY DEF TablesTypeOK, InsertStopword, Bumped

LEMMA StutterType ==
  ASSUME TablesTypeOK, UNCHANGED tableVars
  PROVE  TablesTypeOK'
BY DEF TablesTypeOK, tableVars

-----------------------------------------------------------------------------
(* The steps of the review on its own variables.                           *)

LEMMA ExtractedTyped ==
  ASSUME NEW articles \in SUBSET Articles
  PROVE  \A n \in ExtractedCounts(articles) :
           n \in Count /\ n.frequency >= n.doc_count /\ n.doc_count > 0
<1> SUFFICES ASSUME NEW c \in Extractable(articles)
             PROVE  LET f == Cardinality(Mentions(articles, c))
                        d == Cardinality(Sightings(articles, c))
                    IN  f \in Nat /\ d \in Nat /\ f >= d /\ d > 0 /\ c \in Candidates
  BY DEF ExtractedCounts, Count
<1> DEFINE S == Sightings(articles, c)
           M == Mentions(articles, c)
<1>1. c \in Candidates /\ S # {}
  BY DEF Extractable
<1>2. c[1] \in CompoundWords
  BY <1>1 DEF Candidates
<1>3. S \subseteq Articles /\ IsFiniteSet(S)
  BY ReviewAssumption, FS_Subset DEF Sightings
<1>4. IsFiniteSet(M)
  <2> DEFINE Part == [a \in S |-> {a} \X Occurrences[a][c[1]]]
             Parts == {{a} \X Occurrences[a][c[1]] : a \in S}
  <2>1. IsFiniteSet(Parts)
    <3>1. Part \in Surjection(S, Parts)
      BY Zenon DEF Surjection
    <3> QED
      BY <1>3, <3>1, FS_Surjection
  <2>2. ASSUME NEW a \in S PROVE IsFiniteSet({a} \X Occurrences[a][c[1]])
    BY <1>2, <1>3, ReviewAssumption, FS_Singleton, FS_Product
  <2> QED
    BY <2>1, <2>2, FS_UNION DEF Mentions
<1>5. S = {m[1] : m \in M}
  <2>1. ASSUME NEW a \in S PROVE a \in {m[1] : m \in M}
    <3>1. PICK p \in Occurrences[a][c[1]] : TRUE
      BY DEF Sightings
    <3>2. <<a, p>> \in M
      BY <3>1 DEF Mentions
    <3> QED
      BY <3>2
  <2>2. ASSUME NEW m \in M PROVE m[1] \in S
    BY DEF Mentions
  <2> QED
    BY <2>1, <2>2
<1>6. Cardinality(S) <= Cardinality(M)
  <2> DEFINE First == [m \in M |-> m[1]]
  <2>1. First \in Surjection(M, S)
    BY <1>5, Zenon DEF Surjection
  <2> QED
    BY <1>4, <2>1, FS_Surjection
<1>7. Cardinality(M) \in Nat /\ Cardinality(S) \in Nat /\ Cardinality(S) # 0
  BY <1>1, <1>3, <1>4, FS_CardinalityType, FS_EmptySet
<1> QED
  BY <1>1, <1>6, <1>7

-----------------------------------------------------------------------------
(* Rows are never removed and their counts never shrink.                   *)

Grown ==
  \A c \in Candidates : Exists(c) =>
    /\ candidates'[c] # NoCandidate
    /\ candidates'[c].frequency >= candidates[c].frequency
    /\ candidates'[c].doc_count >= candidates[c].doc_count

LEMMA JobsKeepTheirCounts ==
  ASSUME ReviewTypeOK, ReviewTypeOK', CountsInv, Grown, CountsSupportVerdict',
         extracted' \subseteq extracted, reviewing' \subseteq reviewing,
         approving' \subseteq approving
  PROVE  CountsInv'
<1>1. \A n \in (extracted \union reviewing)' : n.frequency >= n.doc_count /\ n.doc_count > 0
  BY DEF CountsInv
<1>2. \A c \in approving' : Exists(c)'
  BY DEF CountsInv, Grown, ReviewTypeOK, Exists
<1>3. ASSUME NEW n \in reviewing'
      PROVE  /\ Exists(n.row)'
             /\ candidates'[n.row].frequency >= n.frequency
             /\ candidates'[n.row].doc_count >= n.doc_count
  <2>1. n \in reviewing /\ n \in Count /\ n.row \in Candidates
    BY <1>3 DEF ReviewTypeOK, Count
  <2>2. Exists(n.row) /\ candidates[n.row] \in Candidate /\ candidates'[n.row] \in Candidate
    BY <2>1 DEF CountsInv, Grown, ReviewTypeOK, Exists
  <2>3. /\ candidates[n.row].frequency >= n.frequency
        /\ candidates[n.row].doc_count >= n.doc_count
    BY <2>1 DEF CountsInv
  <2> QED
    BY <2>1, <2>2, <2>3 DEF Grown, Exists, Candidate, Count
<1> QED
  BY <1>1, <1>2, <1>3 DEF CountsInv

\* A step that leaves the candidates alone and gives the jobs no new counts.
LEMMA CandidatesUnchanged ==
  ASSUME ReviewTypeOK, CountsInv, UNCHANGED candidates, ReviewTypeOK',
         extracted' \subseteq extracted, reviewing' \subseteq reviewing,
         approving' \subseteq approving
  PROVE  CountsInv'
<1>1. CountsSupportVerdict'
  BY DEF CountsInv, CountsSupportVerdict, Exists
<1>2. Grown
  BY DEF Grown, Exists, ReviewTypeOK, Candidate
<1> QED
  BY <1>1, <1>2, JobsKeepTheirCounts

-----------------------------------------------------------------------------
(* One lemma for each kind of step of the review.                          *)

ReviewInv == ReviewTypeOK /\ CountsInv

LEMMA TickStep ==
  ASSUME ReviewInv, Tick
  PROVE  ReviewInv' /\ UNCHANGED tableVars
<1>1. ReviewTypeOK'
  BY ReviewAssumption DEF ReviewInv, ReviewTypeOK, Tick
<1> QED
  BY <1>1, CandidatesUnchanged DEF ReviewInv, Tick

LEMMA StoreArticleStep ==
  ASSUME ReviewInv, NEW a \in Articles, StoreArticle(a)
  PROVE  ReviewInv' /\ UNCHANGED tableVars
<1>1. ReviewTypeOK'
  BY DEF ReviewInv, ReviewTypeOK, StoreArticle, jobVars
<1> QED
  BY <1>1, CandidatesUnchanged DEF ReviewInv, StoreArticle, jobVars

LEMMA FailJobStep ==
  ASSUME ReviewInv, FailJob
  PROVE  ReviewInv' /\ UNCHANGED tableVars
<1>1. ReviewTypeOK'
  <2>1. UNCHANGED <<now, ingestedAt, candidates>>
    BY DEF FailJob, newsVars
  <2>2. jobFailures' \in 0 .. MaxJobFailures
    BY ReviewAssumption DEF ReviewInv, ReviewTypeOK, FailJob
  <2>3. extracted' \subseteq Count /\ reviewing' \subseteq Count /\ approving' \subseteq Candidates
    BY DEF ReviewInv, ReviewTypeOK, FailJob
  <2>4. extractionDue' \in BOOLEAN
    BY Zenon DEF ReviewInv, ReviewTypeOK, FailJob
  <2> QED
    BY <2>1, <2>2, <2>3, <2>4 DEF ReviewInv, ReviewTypeOK
<1>2. /\ extracted' \subseteq extracted /\ reviewing' \subseteq reviewing
      /\ approving' \subseteq approving /\ UNCHANGED candidates
  BY DEF FailJob
<1> QED
  BY <1>1, <1>2, CandidatesUnchanged DEF ReviewInv, FailJob

LEMMA ExtractStep ==
  ASSUME ReviewInv, Extract
  PROVE  ReviewInv' /\ UNCHANGED tableVars
<1>1. PICK articles \in SUBSET Articles : extracted' = ExtractedCounts(articles)
  BY Zenon DEF Extract, Window
<1>2. \A n \in extracted' : n \in Count /\ n.frequency >= n.doc_count /\ n.doc_count > 0
  BY <1>1, ExtractedTyped
<1>3. ReviewTypeOK'
  BY <1>2 DEF ReviewInv, ReviewTypeOK, Extract, newsVars
<1>4. CountsInv'
  BY <1>2 DEF ReviewInv, CountsInv, CountsSupportVerdict, Exists, Extract
<1> QED
  BY <1>3, <1>4 DEF ReviewInv, Extract

LEMMA FetchForReviewStep ==
  ASSUME ReviewInv, FetchForReview
  PROVE  ReviewInv' /\ UNCHANGED tableVars
<1>1. PICK fetched \in SUBSET Undecided :
        reviewing' = {[row |-> c, frequency |-> candidates[c].frequency,
                       doc_count |-> candidates[c].doc_count] : c \in fetched}
  <2>1. PICK old \in SUBSET {c \in Undecided : ~MustReview(c) /\ candidates[c].auto_decision # "none"} :
          \E batch \in SUBSET ({c \in Undecided : MustReview(c)} \union old) :
            reviewing' = {[row |-> c, frequency |-> candidates[c].frequency,
                           doc_count |-> candidates[c].doc_count] : c \in batch}
    BY Zenon DEF FetchForReview
  <2>2. PICK batch \in SUBSET ({c \in Undecided : MustReview(c)} \union old) :
          reviewing' = {[row |-> c, frequency |-> candidates[c].frequency,
                         doc_count |-> candidates[c].doc_count] : c \in batch}
    BY <2>1
  <2>3. batch \in SUBSET Undecided
    OBVIOUS
  <2> QED
    BY <2>2, <2>3
<1>2. ASSUME NEW c \in fetched
      PROVE  /\ c \in Candidates /\ Exists(c) /\ candidates[c] \in Candidate
             /\ candidates[c].frequency >= candidates[c].doc_count /\ candidates[c].doc_count > 0
  <2>1. c \in Candidates /\ Exists(c)
    BY <1>2 DEF Undecided
  <2> QED
    BY <2>1 DEF ReviewInv, ReviewTypeOK, CountsInv, CountsSupportVerdict, Exists
<1>3. ASSUME NEW n \in reviewing'
      PROVE  /\ n \in Count /\ n.frequency >= n.doc_count /\ n.doc_count > 0
             /\ Exists(n.row) /\ candidates[n.row].frequency >= n.frequency
             /\ candidates[n.row].doc_count >= n.doc_count
  <2>1. PICK c \in fetched : n = [row |-> c, frequency |-> candidates[c].frequency,
                                  doc_count |-> candidates[c].doc_count]
    BY <1>1, <1>3
  <2> QED
    BY <1>2, <2>1 DEF Count, Candidate
<1>4. ReviewTypeOK'
  BY <1>3 DEF ReviewInv, ReviewTypeOK, FetchForReview, newsVars
<1>5. CountsInv'
  BY <1>3 DEF ReviewInv, CountsInv, CountsSupportVerdict, Exists, FetchForReview
<1> QED
  BY <1>4, <1>5 DEF ReviewInv, FetchForReview

LEMMA FetchForApprovalStep ==
  ASSUME ReviewInv, FetchForApproval
  PROVE  ReviewInv' /\ UNCHANGED tableVars
<1>1. ReviewTypeOK'
  BY DEF ReviewInv, ReviewTypeOK, FetchForApproval, newsVars, Undecided
<1>2. CountsInv'
  BY DEF ReviewInv, CountsInv, CountsSupportVerdict, Exists, FetchForApproval, Undecided
<1> QED
  BY <1>1, <1>2 DEF ReviewInv, FetchForApproval

Recounted(row, frequency, documents, seen) ==
  [row EXCEPT !.frequency = frequency, !.doc_count = documents, !.seen_since = seen]

LEMMA RecountedTyped ==
  ASSUME NEW row \in Candidate, NEW frequency \in Nat, NEW documents \in Nat, NEW seen \in BOOLEAN
  PROVE  Recounted(row, frequency, documents, seen) \in Candidate
BY DEF Candidate, Recounted

LEMMA UpsertStep ==
  ASSUME ReviewInv, NEW domain \in NewsDomains, UpsertDomain(domain)
  PROVE  ReviewInv' /\ UNCHANGED tableVars
<1> DEFINE mine == {n \in extracted : n.row[2] = domain}
           counts(c) == {n \in mine : n.row = c}
<1>a. PICK late \in SUBSET {n.row : n \in mine} :
        candidates' = [c \in Candidates |->
           IF counts(c) = {} THEN candidates[c]
           ELSE Accumulate(candidates[c], CHOOSE n \in counts(c) : TRUE, c \in late)]
  BY Zenon DEF UpsertDomain
<1>1. /\ UNCHANGED <<now, ingestedAt, extractionDue, reviewing, approving, jobFailures, tableVars>>
      /\ extracted' \subseteq extracted
  BY DEF UpsertDomain, newsVars
<1>2. ASSUME NEW c \in Candidates
      PROVE  \/ candidates'[c] = candidates[c]
             \/ \E n \in extracted, after \in BOOLEAN :
                  candidates'[c] = Accumulate(candidates[c], n, after)
  <2>1. CASE counts(c) = {}
    BY <1>a, <2>1
  <2>2. CASE counts(c) # {}
    <3> DEFINE chosen == CHOOSE n \in counts(c) : TRUE
               after == c \in late
    <3>1. chosen \in extracted
      BY <2>2
    <3>2. after \in BOOLEAN
      OBVIOUS
    <3>3. candidates'[c] = Accumulate(candidates[c], chosen, after)
      BY <1>a, <2>2
    <3> HIDE DEF chosen, after
    <3> QED
      BY <3>1, <3>2, <3>3
  <2> QED
    BY <2>1, <2>2
<1>3. ASSUME NEW c \in Candidates
      PROVE  /\ candidates'[c] \in Candidate \union {NoCandidate}
             /\ Exists(c) => /\ candidates'[c] # NoCandidate
                             /\ candidates'[c].frequency >= candidates[c].frequency
                             /\ candidates'[c].doc_count >= candidates[c].doc_count
             /\ candidates'[c] # NoCandidate =>
                  /\ candidates'[c].frequency >= candidates'[c].doc_count
                  /\ candidates'[c].doc_count > 0
                  /\ candidates'[c].auto_decision = "high_confidence" =>
                       candidates'[c].frequency >= 5 /\ candidates'[c].doc_count >= 3
  <2>1. /\ candidates[c] \in Candidate \union {NoCandidate}
        /\ candidates[c] # NoCandidate =>
             /\ candidates[c] \in Candidate
             /\ candidates[c].frequency >= candidates[c].doc_count
             /\ candidates[c].doc_count > 0
             /\ candidates[c].auto_decision = "high_confidence" =>
                  candidates[c].frequency >= 5 /\ candidates[c].doc_count >= 3
    BY DEF ReviewInv, ReviewTypeOK, CountsInv, CountsSupportVerdict, Exists
  <2>2. CASE candidates'[c] = candidates[c]
    BY <2>1, <2>2 DEF Exists, Candidate
  <2>3. ASSUME NEW n \in extracted, NEW after \in BOOLEAN,
               candidates'[c] = Accumulate(candidates[c], n, after)
        PROVE  <1>3!2
    <3>1. n \in Count /\ n.frequency >= n.doc_count /\ n.doc_count > 0
      BY DEF ReviewInv, ReviewTypeOK, CountsInv
    <3>2. CASE candidates[c] = NoCandidate
      <4>1. candidates'[c] = [status |-> "needs_review", frequency |-> n.frequency,
                              doc_count |-> n.doc_count, auto_decision |-> "none",
                              seen_since |-> FALSE, reviewed_by |-> "none"]
        BY <2>3, <3>2 DEF Accumulate
      <4>2. candidates'[c] \in Candidate
        BY <3>1, <4>1 DEF Candidate, Count, AutoDecisions
      <4> QED
        BY <3>1, <3>2, <4>1, <4>2 DEF Exists
    <3>3. CASE candidates[c] # NoCandidate /\ candidates[c].status # "needs_review"
      BY <2>1, <2>2, <2>3, <3>3 DEF Accumulate
    <3>4. CASE candidates[c] # NoCandidate /\ candidates[c].status = "needs_review"
      <4>1. candidates'[c] = [candidates[c] EXCEPT !.frequency = @ + n.frequency,
                                !.doc_count = @ + n.doc_count,
                                !.seen_since = @ \/ (candidates[c].auto_decision # "none" /\ ~after)]
        BY <2>3, <3>4 DEF Accumulate
      <4>2. /\ candidates[c].frequency \in Nat /\ candidates[c].doc_count \in Nat
            /\ n.frequency \in Nat /\ n.doc_count \in Nat
        BY <2>1, <3>1, <3>4 DEF Candidate, Count
      <4>3. candidates'[c] \in Candidate
        <5> DEFINE seen == candidates[c].seen_since \/ (candidates[c].auto_decision # "none" /\ ~after)
        <5>1. seen \in BOOLEAN
          BY Zenon
        <5>2. candidates'[c] = Recounted(candidates[c], candidates[c].frequency + n.frequency,
                                         candidates[c].doc_count + n.doc_count, seen)
          BY <4>1, Zenon DEF Recounted
        <5>3. candidates[c] \in Candidate
          BY <2>1, <3>4
        <5>4. /\ candidates[c].frequency + n.frequency \in Nat
              /\ candidates[c].doc_count + n.doc_count \in Nat
          BY <4>2
        <5> HIDE DEF seen
        <5> QED
          BY <5>1, <5>2, <5>3, <5>4, RecountedTyped
      <4>4. /\ candidates'[c].frequency = candidates[c].frequency + n.frequency
            /\ candidates'[c].doc_count = candidates[c].doc_count + n.doc_count
            /\ candidates'[c].auto_decision = candidates[c].auto_decision
        BY <2>1, <3>4, <4>1 DEF Candidate
      <4> QED
        BY <2>1, <3>1, <3>4, <4>2, <4>3, <4>4, NoCandidateAssumption DEF Exists
    <3> QED
      BY <3>2, <3>3, <3>4
  <2> QED
    BY <1>2, <2>2, <2>3
<1>4. ReviewTypeOK'
  <2>1. candidates' \in [Candidates -> Candidate \union {NoCandidate}]
    BY <1>a, <1>3
  <2> QED
    BY <1>1, <2>1 DEF ReviewInv, ReviewTypeOK
<1>5. Grown /\ CountsSupportVerdict'
  BY <1>3 DEF Grown, CountsSupportVerdict, Exists
<1> QED
  BY <1>1, <1>4, <1>5, JobsKeepTheirCounts DEF ReviewInv

\* A step that decides about one candidate: its counts stay, and a verdict of
\* high confidence is one its counts support.
LEMMA OneRowStep ==
  ASSUME ReviewInv, NEW c \in Candidates, Exists(c), NEW row \in Candidate,
         row.frequency = candidates[c].frequency, row.doc_count = candidates[c].doc_count,
         row.auto_decision = "high_confidence" => row.frequency >= 5 /\ row.doc_count >= 3,
         candidates' = [candidates EXCEPT ![c] = row],
         UNCHANGED <<now, ingestedAt, extractionDue, extracted, jobFailures>>,
         reviewing' \subseteq reviewing, approving' \subseteq approving
  PROVE  ReviewInv'
<1>1. ReviewTypeOK'
  BY DEF ReviewInv, ReviewTypeOK
<1>2. \A d \in Candidates : candidates'[d] = IF d = c THEN row ELSE candidates[d]
  BY DEF ReviewInv, ReviewTypeOK
<1>3. row # NoCandidate
  BY NoCandidateAssumption
<1>4. Grown
  BY <1>2, <1>3 DEF Grown, Exists, ReviewInv, ReviewTypeOK, Candidate
<1>5. CountsSupportVerdict'
  BY <1>2 DEF ReviewInv, CountsInv, CountsSupportVerdict, Exists
<1> QED
  BY <1>1, <1>4, <1>5, JobsKeepTheirCounts DEF ReviewInv

LEMMA JudgeStep ==
  ASSUME ReviewInv, TablesTypeOK, NEW n \in reviewing, NEW answer \in Answers, Judge(n, answer)
  PROVE  ReviewInv' /\ (UNCHANGED tableVars \/ Bumped)
<1> DEFINE decision == Decision(n, answer)
           row == Judged(candidates[n.row], decision)
<1>1. n \in Count /\ n.row \in Candidates /\ Exists(n.row) /\ candidates[n.row] \in Candidate
  BY DEF ReviewInv, ReviewTypeOK, CountsInv, Count, Exists
<1>2. UNCHANGED tableVars \/ Bumped
  <2>1. InsertCompound(n.row) \/ UNCHANGED tableVars
    BY Zenon DEF Judge
  <2>2. n.row \in CompoundRows
    BY <1>1, CandidatesAreRows
  <2> QED
    BY <2>1, <2>2, InsertStep
<1>3. /\ UNCHANGED <<now, ingestedAt, extractionDue, extracted, approving, jobFailures>>
      /\ reviewing' \subseteq reviewing
  BY DEF Judge, newsVars
<1>4. CASE candidates[n.row].status = "needs_review"
  <2>1. candidates' = [candidates EXCEPT ![n.row] = row]
    BY <1>4 DEF Judge
  <2>2. decision \in AutoDecisions
    BY DEF Decision, AutoDecisions, Answers
  <2>3. decision = "high_confidence" => n.doc_count >= 3 /\ n.frequency >= 5
    BY DEF Decision, Answers
  <2> HIDE DEF decision
  <2>4. /\ row \in Candidate
        /\ row.frequency = candidates[n.row].frequency
        /\ row.doc_count = candidates[n.row].doc_count
        /\ row.auto_decision = decision
    BY <1>1, <2>2 DEF Judged, StatusAfter, Candidate
  <2>5. candidates[n.row].frequency >= n.frequency /\ candidates[n.row].doc_count >= n.doc_count
    BY DEF ReviewInv, CountsInv
  <2>6. row.auto_decision = "high_confidence" => row.frequency >= 5 /\ row.doc_count >= 3
    BY <1>1, <2>3, <2>4, <2>5 DEF Count, Candidate
  <2> HIDE DEF row
  <2>7. ReviewInv'
    BY <1>1, <1>3, <2>1, <2>4, <2>6, OneRowStep
  <2> QED
    BY <1>2, <2>7
<1>5. CASE candidates[n.row].status # "needs_review"
  <2>1. UNCHANGED candidates
    BY <1>5 DEF Judge
  <2>2. ReviewTypeOK'
    BY <1>3, <2>1 DEF ReviewInv, ReviewTypeOK
  <2> QED
    BY <1>2, <1>3, <2>1, <2>2, CandidatesUnchanged DEF ReviewInv
<1> QED
  BY <1>4, <1>5

LEMMA ApproveStep ==
  ASSUME ReviewInv, TablesTypeOK, NEW c \in approving, NEW known \in BOOLEAN, Approve(c, known)
  PROVE  ReviewInv' /\ (UNCHANGED tableVars \/ Bumped)
<1> DEFINE row == [candidates[c] EXCEPT !.status = "approved", !.reviewed_by = "auto-approver"]
<1>1. c \in Candidates /\ Exists(c) /\ candidates[c] \in Candidate
  BY DEF ReviewInv, ReviewTypeOK, CountsInv, Exists
<1>2. UNCHANGED tableVars \/ Bumped
  <2>1. InsertCompound(c) \/ UNCHANGED tableVars
    BY Zenon DEF Approve
  <2>2. c \in CompoundRows
    BY <1>1, CandidatesAreRows
  <2> QED
    BY <2>1, <2>2, InsertStep
<1>3. /\ UNCHANGED <<now, ingestedAt, extractionDue, extracted, reviewing, jobFailures>>
      /\ approving' \subseteq approving
  BY DEF Approve, newsVars
<1>4. CASE known
  <2>1. candidates' = [candidates EXCEPT ![c] = row]
    BY <1>1, <1>4 DEF Approve, ReviewInv, ReviewTypeOK
  <2>2. /\ row \in Candidate
        /\ row.frequency = candidates[c].frequency /\ row.doc_count = candidates[c].doc_count
        /\ row.auto_decision = candidates[c].auto_decision
    BY <1>1 DEF Candidate
  <2>3. row.auto_decision = "high_confidence" => row.frequency >= 5 /\ row.doc_count >= 3
    BY <1>1, <2>2 DEF ReviewInv, CountsInv, CountsSupportVerdict
  <2> HIDE DEF row
  <2>4. ReviewInv'
    BY <1>1, <1>3, <2>1, <2>2, <2>3, OneRowStep
  <2> QED
    BY <1>2, <2>4
<1>5. CASE ~known
  <2>1. UNCHANGED candidates
    BY <1>5 DEF Approve
  <2>2. ReviewTypeOK'
    BY <1>3, <2>1 DEF ReviewInv, ReviewTypeOK
  <2> QED
    BY <1>2, <1>3, <2>1, <2>2, CandidatesUnchanged DEF ReviewInv
<1> QED
  BY <1>4, <1>5

LEMMA AdminReviewStep ==
  ASSUME ReviewInv, TablesTypeOK, NEW c \in Candidates, NEW action \in {"approved", "rejected"},
         AdminReview(c, action)
  PROVE  ReviewInv' /\ (UNCHANGED tableVars \/ Bumped)
<1> DEFINE row == [candidates[c] EXCEPT !.status = action, !.reviewed_by = "admin"]
<1>1. Exists(c) /\ candidates[c] \in Candidate
  BY DEF AdminReview, ReviewInv, ReviewTypeOK, Exists
<1>2. UNCHANGED tableVars \/ Bumped
  <2>1. InsertCompound(<<c[1], AllDomains>>) \/ UNCHANGED tableVars
    BY Zenon DEF AdminReview
  <2>2. <<c[1], AllDomains>> \in CompoundRows
    BY DEF Candidates, CompoundRows, Domains
  <2> QED
    BY <2>1, <2>2, InsertStep
<1>3. UNCHANGED <<now, ingestedAt, extractionDue, extracted, reviewing, approving, jobFailures>>
  BY DEF AdminReview, newsVars, jobVars
<1>4. candidates' = [candidates EXCEPT ![c] = row]
  BY <1>1 DEF AdminReview, ReviewInv, ReviewTypeOK
<1>5. /\ row \in Candidate
      /\ row.frequency = candidates[c].frequency /\ row.doc_count = candidates[c].doc_count
      /\ row.auto_decision = candidates[c].auto_decision
  BY <1>1 DEF Candidate
<1>6. row.auto_decision = "high_confidence" => row.frequency >= 5 /\ row.doc_count >= 3
  BY <1>1, <1>5 DEF ReviewInv, CountsInv, CountsSupportVerdict
<1> HIDE DEF row
<1>7. ReviewInv'
  BY <1>1, <1>3, <1>4, <1>5, <1>6, OneRowStep
<1> QED
  BY <1>2, <1>7

LEMMA ReviewStep ==
  ASSUME ReviewInv, TablesTypeOK, ReviewNext
  PROVE  ReviewInv' /\ (UNCHANGED tableVars \/ Bumped)
BY TickStep, ExtractStep, FetchForReviewStep, FetchForApprovalStep, FailJobStep, StoreArticleStep,
   UpsertStep, JudgeStep, ApproveStep, AdminReviewStep DEF ReviewNext

-----------------------------------------------------------------------------
(* The candidates for stop words.                                          *)

\* A run's words keep their scores when some are excluded.
LEMMA WithoutTyped ==
  ASSUME StopwordTypeOK, NEW r \in Recommenders, NEW words
  PROVE  Without(r, words) \in [StopWords -> Scores \union {0}]
BY DEF StopwordTypeOK, Without

\* A step of a run that ends by setting its words keeps the types.
LEMMA RunTyped ==
  ASSUME StopwordTypeOK, NEW r \in Recommenders,
         NEW to \in {"idle", "scored", "unlisted", "upsert"},
         NEW words \in [StopWords -> Scores \union {0}],
         recommending' = [recommending EXCEPT ![r] = to],
         recommended' = [recommended EXCEPT ![r] = words],
         stopwordCandidates' \in [StopWords -> [status : Statuses, score : Scores] \union {NoRow}]
  PROVE  StopwordTypeOK'
BY DEF StopwordTypeOK

LEMMA RecommendStep ==
  ASSUME StopwordTypeOK, NEW r \in Recommenders, Recommend(r)
  PROVE  StopwordTypeOK' /\ UNCHANGED tableVars
<1>1. stopwordCandidates \in [StopWords -> [status : Statuses, score : Scores] \union {NoRow}]
  BY DEF StopwordTypeOK
<1>2. NothingRecommended \in [StopWords -> Scores \union {0}]
  BY DEF NothingRecommended
<1>3. ASSUME NEW scores \in [StopWords -> Scores \union {0}], ScoreWords(r, scores)
      PROVE  StopwordTypeOK' /\ UNCHANGED tableVars
  BY <1>1, <1>3, RunTyped DEF ScoreWords, Advance
<1>4. CASE ExcludeStopwords(r)
  BY <1>1, <1>4, WithoutTyped, RunTyped DEF ExcludeStopwords, Advance
<1>5. CASE ExcludeDecided(r)
  BY <1>1, <1>5, WithoutTyped, RunTyped DEF ExcludeDecided, Advance
<1>6. CASE UpsertCandidates(r)
  <2>1. ASSUME NEW w \in StopWords, recommended[r][w] # 0
        PROVE  Upserted(stopwordCandidates[w], recommended[r][w])
                 \in [status : Statuses, score : Scores] \union {NoRow}
    <3>1. recommended[r][w] \in Scores
      BY <2>1 DEF StopwordTypeOK
    <3> QED
      BY <1>1, <3>1 DEF Upserted, Statuses
  <2>2. stopwordCandidates' \in [StopWords -> [status : Statuses, score : Scores] \union {NoRow}]
    BY <1>1, <1>6, <2>1 DEF UpsertCandidates
  <2> QED
    BY <1>2, <1>6, <2>2, RunTyped DEF UpsertCandidates, Advance
<1>7. CASE FailRecommender(r)
  BY <1>1, <1>2, <1>7, RunTyped DEF FailRecommender
<1> QED
  BY <1>3, <1>4, <1>5, <1>6, <1>7 DEF Recommend

LEMMA ReviewStopwordStep ==
  ASSUME TablesTypeOK, StopwordTypeOK, NEW w \in StopWords,
         NEW action \in {"approved", "rejected"}, ReviewStopword(w, action)
  PROVE  StopwordTypeOK' /\ (UNCHANGED tableVars \/ Bumped)
<1>1. stopwordCandidates[w] \in [status : Statuses, score : Scores]
  BY DEF StopwordTypeOK, ReviewStopword
<1>2. [stopwordCandidates[w] EXCEPT !.status = action] \in [status : Statuses, score : Scores]
  BY <1>1 DEF Statuses
<1>3. StopwordTypeOK'
  BY <1>2 DEF StopwordTypeOK, ReviewStopword
<1>4. <<w, AllDomains>> \in StopwordRows
  BY DEF StopwordRows, Domains
<1> QED
  BY <1>3, <1>4, InsertStopwordStep DEF ReviewStopword

LEMMA StopwordStep ==
  ASSUME TablesTypeOK, StopwordTypeOK, StopwordNext
  PROVE  StopwordTypeOK' /\ (UNCHANGED tableVars \/ Bumped)
BY RecommendStep, ReviewStopwordStep DEF StopwordNext

-----------------------------------------------------------------------------
(* The caches.                                                             *)

\* A version that has just moved is none a worker knows.
LEMMA CacheWhenBumped ==
  ASSUME TablesTypeOK, CacheTypeOK, CacheInv, Bumped, UNCHANGED cacheVars
  PROVE  CacheInv'
<1>1. UNCHANGED <<cachedVersions, compoundCache, stopwordCache, unversioned>>
  BY DEF cacheVars
<1>2. /\ versions' \in [compound : Nat, stopword : Nat]
      /\ versions'.compound >= versions.compound /\ versions'.stopword >= versions.stopword
      /\ versions'.compound > versions.compound \/ versions'.stopword > versions.stopword
  BY TablesAssumption DEF TablesTypeOK, Bumped
<1>3. cachedVersions = NoVersions \/
        /\ cachedVersions \in [compound : Nat, stopword : Nat]
        /\ cachedVersions.compound <= versions.compound /\ cachedVersions.stopword <= versions.stopword
  BY TablesAssumption DEF CacheTypeOK, CacheInv
<1>4. cachedVersions # versions'
  BY <1>2, <1>3, CacheAssumption DEF TablesTypeOK
<1>5. cachedVersions # NoVersions =>
        /\ cachedVersions.compound <= versions'.compound
        /\ cachedVersions.stopword <= versions'.stopword
  BY <1>2, <1>3 DEF TablesTypeOK
<1>6. CurrentVersionMeansCurrentWords'
  BY <1>1, <1>4 DEF CurrentVersionMeansCurrentWords
<1> QED
  BY <1>1, <1>5, <1>6 DEF CacheInv

LEMMA CacheWhenIdle ==
  ASSUME CacheTypeOK, CacheInv, UNCHANGED <<tableVars, cacheVars>>
  PROVE  CacheTypeOK' /\ CacheInv'
<1>1. UNCHANGED <<compoundDict, stopwordDict, versions, cachedVersions, compoundCache,
                  stopwordCache, stage, article, failures, unversioned>>
  BY DEF tableVars, cacheVars
<1>2. CacheTypeOK'
  BY <1>1 DEF CacheTypeOK
<1>3. CurrentVersionMeansCurrentWords'
  BY <1>1 DEF CacheInv, CurrentVersionMeansCurrentWords, CurrentCompounds, CurrentStopwords,
              WordsFor, OrElse
<1> QED
  BY <1>1, <1>2, <1>3 DEF CacheInv

LEMMA WordsTyped ==
  ASSUME TablesTypeOK
  PROVE  \A domain \in Domains :
           /\ CurrentCompounds(domain) \in SUBSET (CompoundWords \union FileWords)
           /\ CurrentStopwords(domain) \in SUBSET (StopWords \union DefaultStopwords)
<1>1. \A row \in compoundDict : row[1] \in CompoundWords
  BY DEF TablesTypeOK, CompoundRows
<1>2. \A row \in stopwordDict : row[1] \in StopWords
  BY DEF TablesTypeOK, StopwordRows
<1>3. \A domain : WordsFor(compoundDict, domain) \subseteq CompoundWords
  BY <1>1 DEF WordsFor
<1>4. \A domain : WordsFor(stopwordDict, domain) \subseteq StopWords
  BY <1>2 DEF WordsFor
<1> QED
  BY <1>3, <1>4 DEF CurrentCompounds, CurrentStopwords, OrElse

LEMMA SameTablesSameWords ==
  ASSUME UNCHANGED tableVars
  PROVE  \A domain \in Domains : /\ CurrentCompounds(domain)' = CurrentCompounds(domain)
                                 /\ CurrentStopwords(domain)' = CurrentStopwords(domain)
BY DEF tableVars, CurrentCompounds, CurrentStopwords, WordsFor, OrElse

LEMMA NothingCached ==
  /\ Empty \in [Domains -> {NotLoaded} \union SUBSET (CompoundWords \union FileWords)]
  /\ Empty \in [Domains -> {NotLoaded} \union SUBSET (StopWords \union DefaultStopwords)]
  /\ \A domain \in Domains : Empty[domain] = NotLoaded
BY DEF Empty

CacheGood == CacheTypeOK /\ CacheInv

LEMMA StartTokenizeStep ==
  ASSUME TablesTypeOK, CacheGood, UNCHANGED tableVars,
         NEW domain \in Domains, StartTokenize(domain)
  PROVE  CacheGood'
<1>1. stage' = "stopwords" /\ article' = domain
  BY DEF StartTokenize
<1>2. failures' \in 0 .. MaxFailures
  BY CacheAssumption DEF StartTokenize, Failing, CacheGood, CacheTypeOK
<1>3. UNCHANGED <<compoundDict, stopwordDict, versions>>
  BY DEF tableVars
<1>4. CASE UNCHANGED <<cachedVersions, compoundCache, stopwordCache, unversioned>>
  <2>1. CacheTypeOK'
    BY <1>1, <1>2, <1>4 DEF CacheGood, CacheTypeOK
  <2>2. CurrentVersionMeansCurrentWords'
    BY <1>3, <1>4 DEF CacheGood, CacheInv, CurrentVersionMeansCurrentWords, CurrentCompounds,
                      CurrentStopwords, WordsFor, OrElse
  <2> QED
    BY <1>3, <1>4, <2>1, <2>2 DEF CacheGood, CacheInv
<1>5. CASE Adopt(versions)
  <2>1. cachedVersions' = versions /\ versions # NoVersions
    BY <1>5, CacheAssumption, TablesAssumption DEF Adopt, TablesTypeOK
  <2>2. /\ cachedVersions'.compound <= versions'.compound
        /\ cachedVersions'.stopword <= versions'.stopword
    BY <1>3, <2>1 DEF TablesTypeOK
  <2>3. CASE cachedVersions \in {NoVersions, versions}
    <3>1. UNCHANGED <<compoundCache, stopwordCache, unversioned>>
      BY <1>5, <2>3 DEF Adopt
    <3>2. CacheTypeOK'
      BY <1>1, <1>2, <2>1, <3>1 DEF CacheGood, CacheTypeOK, TablesTypeOK
    <3>3. CurrentVersionMeansCurrentWords'
      BY <1>3, <2>1, <2>3, <3>1, NothingCached
      DEF CacheGood, CacheInv, CurrentVersionMeansCurrentWords, CurrentCompounds,
          CurrentStopwords, WordsFor, OrElse
    <3> QED
      BY <1>3, <2>1, <2>2, <3>2, <3>3 DEF CacheGood, CacheInv
  <2>4. CASE cachedVersions \notin {NoVersions, versions}
    <3>1. compoundCache' = Empty /\ stopwordCache' = Empty /\ unversioned' = FALSE
      BY <1>5, <2>4 DEF Adopt
    <3>2. CacheTypeOK'
      BY <1>1, <1>2, <2>1, <3>1, NothingCached DEF CacheGood, CacheTypeOK, TablesTypeOK
    <3>3. CurrentVersionMeansCurrentWords'
      BY <3>1, NothingCached DEF CurrentVersionMeansCurrentWords
    <3> QED
      BY <1>3, <2>1, <2>2, <3>2, <3>3 DEF CacheGood, CacheInv
  <2> QED
    BY <2>3, <2>4
<1> QED
  BY <1>4, <1>5 DEF StartTokenize

LEMMA LoadStopwordsStep ==
  ASSUME TablesTypeOK, CacheGood, UNCHANGED tableVars, LoadStopwords
  PROVE  CacheGood'
<1>1. /\ UNCHANGED <<cachedVersions, compoundCache, article, compoundDict, stopwordDict, versions>>
      /\ stage' = "compounds"
  BY DEF LoadStopwords, tableVars
<1>2. failures' \in 0 .. MaxFailures
  BY CacheAssumption DEF LoadStopwords, Failing, CacheGood, CacheTypeOK
<1>3. CASE UNCHANGED <<stopwordCache, unversioned>>
  <2>1. CacheTypeOK'
    BY <1>1, <1>2, <1>3 DEF CacheGood, CacheTypeOK
  <2>2. CurrentVersionMeansCurrentWords'
    BY <1>1, <1>3 DEF CacheGood, CacheInv, CurrentVersionMeansCurrentWords, CurrentCompounds,
                      CurrentStopwords, WordsFor, OrElse
  <2> QED
    BY <1>1, <1>3, <2>1, <2>2 DEF CacheGood, CacheInv
<1>4. ASSUME NEW words \in SUBSET (StopWords \union DefaultStopwords),
             stopwordCache' = Load(stopwordCache, article, words),
             unversioned' \/ (/\ words = CurrentStopwords(article) /\ cachedVersions # NoVersions
                              /\ ~unversioned),
             unversioned' \in BOOLEAN
      PROVE  CacheGood'
  <2>1. article \in Domains
    BY DEF CacheGood, CacheTypeOK
  <2>2. \A domain \in Domains :
          stopwordCache'[domain] = IF domain = article THEN words ELSE stopwordCache[domain]
    BY <1>4 DEF Load, CacheGood, CacheTypeOK
  <2>3. CacheTypeOK'
    BY <1>1, <1>2, <1>4, <2>1 DEF CacheGood, CacheTypeOK, Load
  <2>4. CurrentVersionMeansCurrentWords'
    <3> SUFFICES ASSUME cachedVersions' = versions', ~unversioned', NEW d \in Domains
                 PROVE  /\ compoundCache'[d] \in {NotLoaded, CurrentCompounds(d)'}
                        /\ stopwordCache'[d] \in {NotLoaded, CurrentStopwords(d)'}
      BY DEF CurrentVersionMeansCurrentWords
    <3>1. words = CurrentStopwords(article) /\ ~unversioned
      BY <1>4, Zenon
    <3>4. cachedVersions = versions
      BY <1>1
    <3>2. /\ compoundCache[d] \in {NotLoaded, CurrentCompounds(d)}
          /\ stopwordCache[d] \in {NotLoaded, CurrentStopwords(d)}
      BY <3>1, <3>4 DEF CacheGood, CacheInv, CurrentVersionMeansCurrentWords
    <3>3. CurrentCompounds(d)' = CurrentCompounds(d) /\ CurrentStopwords(d)' = CurrentStopwords(d)
      BY SameTablesSameWords
    <3> QED
      BY <1>1, <2>2, <3>1, <3>2, <3>3
  <2> QED
    BY <1>1, <1>4, <2>3, <2>4 DEF CacheGood, CacheInv
<1>5. CASE /\ stopwordCache' = Load(stopwordCache, article, CurrentStopwords(article))
           /\ unversioned' = (unversioned \/ cachedVersions = NoVersions)
  <2>1. CurrentStopwords(article) \in SUBSET (StopWords \union DefaultStopwords)
    BY WordsTyped DEF CacheGood, CacheTypeOK
  <2>2. unversioned' \in BOOLEAN /\ (unversioned' \/ (cachedVersions # NoVersions /\ ~unversioned))
    BY <1>5, Zenon DEF CacheGood, CacheTypeOK
  <2> QED
    BY <1>4, <1>5, <2>1, <2>2
<1>6. CASE stopwordCache' = Load(stopwordCache, article, DefaultStopwords) /\ unversioned' = TRUE
  BY <1>4, <1>6
<1> QED
  BY <1>3, <1>5, <1>6 DEF LoadStopwords

LEMMA LoadCompoundsStep ==
  ASSUME TablesTypeOK, CacheGood, UNCHANGED tableVars, NEW domain \in Domains,
         NEW next \in {"longest", "idle"}, LoadCompounds(domain, next)
  PROVE  CacheGood'
<1>1. /\ UNCHANGED <<cachedVersions, stopwordCache, article, compoundDict, stopwordDict, versions>>
      /\ stage' \in {"longest", "idle"}
  BY DEF LoadCompounds, tableVars
<1>2. failures' \in 0 .. MaxFailures
  BY CacheAssumption DEF LoadCompounds, Failing, CacheGood, CacheTypeOK
<1>3. CASE UNCHANGED <<compoundCache, unversioned>>
  <2>1. CacheTypeOK'
    BY <1>1, <1>2, <1>3 DEF CacheGood, CacheTypeOK
  <2>2. CurrentVersionMeansCurrentWords'
    BY <1>1, <1>3 DEF CacheGood, CacheInv, CurrentVersionMeansCurrentWords, CurrentCompounds,
                      CurrentStopwords, WordsFor, OrElse
  <2> QED
    BY <1>1, <1>3, <2>1, <2>2 DEF CacheGood, CacheInv
<1>4. ASSUME NEW words \in SUBSET (CompoundWords \union FileWords),
             compoundCache' = Load(compoundCache, domain, words),
             unversioned' \/ (/\ words = CurrentCompounds(domain) /\ cachedVersions # NoVersions
                              /\ ~unversioned),
             unversioned' \in BOOLEAN
      PROVE  CacheGood'
  <2>1. \A other \in Domains :
          compoundCache'[other] = IF other = domain THEN words ELSE compoundCache[other]
    BY <1>4 DEF Load, CacheGood, CacheTypeOK
  <2>2. CacheTypeOK'
    BY <1>1, <1>2, <1>4 DEF CacheGood, CacheTypeOK, Load
  <2>3. CurrentVersionMeansCurrentWords'
    <3> SUFFICES ASSUME cachedVersions' = versions', ~unversioned', NEW d \in Domains
                 PROVE  /\ compoundCache'[d] \in {NotLoaded, CurrentCompounds(d)'}
                        /\ stopwordCache'[d] \in {NotLoaded, CurrentStopwords(d)'}
      BY DEF CurrentVersionMeansCurrentWords
    <3>1. words = CurrentCompounds(domain) /\ ~unversioned
      BY <1>4, Zenon
    <3>4. cachedVersions = versions
      BY <1>1
    <3>2. /\ compoundCache[d] \in {NotLoaded, CurrentCompounds(d)}
          /\ stopwordCache[d] \in {NotLoaded, CurrentStopwords(d)}
      BY <3>1, <3>4 DEF CacheGood, CacheInv, CurrentVersionMeansCurrentWords
    <3>3. CurrentCompounds(d)' = CurrentCompounds(d) /\ CurrentStopwords(d)' = CurrentStopwords(d)
      BY SameTablesSameWords
    <3> QED
      BY <1>1, <2>1, <3>1, <3>2, <3>3
  <2> QED
    BY <1>1, <1>4, <2>2, <2>3 DEF CacheGood, CacheInv
<1>5. CASE /\ compoundCache' = Load(compoundCache, domain, CurrentCompounds(domain))
           /\ unversioned' = (unversioned \/ cachedVersions = NoVersions)
  <2>1. CurrentCompounds(domain) \in SUBSET (CompoundWords \union FileWords)
    BY WordsTyped
  <2>2. unversioned' \in BOOLEAN /\ (unversioned' \/ (cachedVersions # NoVersions /\ ~unversioned))
    BY <1>5, Zenon DEF CacheGood, CacheTypeOK
  <2> QED
    BY <1>4, <1>5, <2>1, <2>2
<1>6. CASE compoundCache' = Load(compoundCache, domain, FileWords) /\ unversioned' = TRUE
  BY <1>4, <1>6
<1> QED
  BY <1>3, <1>5, <1>6 DEF LoadCompounds

LEMMA RestartWorkerStep ==
  ASSUME CacheGood, RestartWorker
  PROVE  CacheGood'
<1>1. CacheTypeOK'
  <2>1. failures' \in 0 .. MaxFailures
    BY CacheAssumption DEF CacheGood, CacheTypeOK, RestartWorker, Failing
  <2>2. article' \in Domains
    BY DEF CacheGood, CacheTypeOK, RestartWorker
  <2>3. cachedVersions' = NoVersions /\ compoundCache' = Empty /\ stopwordCache' = Empty
        /\ stage' = "idle" /\ unversioned' = FALSE
    BY DEF RestartWorker
  <2> QED
    BY <2>1, <2>2, <2>3, NothingCached DEF CacheTypeOK
<1>2. CacheInv'
  BY NothingCached DEF CacheInv, RestartWorker, CurrentVersionMeansCurrentWords
<1> QED
  BY <1>1, <1>2 DEF CacheGood

LEMMA CacheStep ==
  ASSUME TablesTypeOK, CacheGood, UNCHANGED tableVars, CacheNext
  PROVE  CacheGood'
<1>1. article \in Domains /\ AllDomains \in Domains
  BY DEF CacheGood, CacheTypeOK, Domains
<1>2. ASSUME NEW domain \in Domains, StartTokenize(domain) PROVE CacheGood'
  BY <1>2, StartTokenizeStep
<1>3. CASE LoadStopwords
  BY <1>3, LoadStopwordsStep
<1>4. CASE LoadCompounds(article, "longest")
  BY <1>1, <1>4, LoadCompoundsStep
<1>5. CASE LoadCompounds(AllDomains, "idle")
  BY <1>1, <1>5, LoadCompoundsStep
<1>6. CASE SkipLongest
  <2>1. UNCHANGED <<cachedVersions, compoundCache, stopwordCache, article, failures, unversioned>>
        /\ stage' = "idle"
    BY <1>6 DEF SkipLongest
  <2>2. CacheTypeOK'
    BY <2>1 DEF CacheGood, CacheTypeOK
  <2>3. CurrentVersionMeansCurrentWords'
    BY <2>1, SameTablesSameWords DEF tableVars, CacheGood, CacheInv, CurrentVersionMeansCurrentWords
  <2> QED
    BY <2>1, <2>2, <2>3 DEF CacheGood, CacheInv, tableVars
<1>7. CASE RestartWorker
  BY <1>7, RestartWorkerStep
<1> QED
  BY <1>2, <1>3, <1>4, <1>5, <1>6, <1>7 DEF CacheNext, Tokenize

-----------------------------------------------------------------------------
(* The whole.                                                              *)

\* What holds in every reachable state: the types, the strengthening of the
\* counts and that of the caches.
IInv == TablesTypeOK /\ ReviewInv /\ StopwordTypeOK /\ CacheGood

LEMMA InitIInv == Init => IInv
<1> SUFFICES ASSUME Init PROVE IInv
  OBVIOUS
<1>1. TablesTypeOK
  BY TablesAssumption DEF Init, TablesInit, TablesTypeOK
<1>2. ReviewTypeOK
  <2>1. now \in 0 .. MaxTime /\ jobFailures \in 0 .. MaxJobFailures
    BY ReviewAssumption DEF Init, ReviewInit
  <2>2. ingestedAt \in [Articles -> {NotIngested} \union 0 .. MaxTime]
    BY DEF Init, ReviewInit
  <2>3. candidates \in [Candidates -> Candidate \union {NoCandidate}]
    BY DEF Init, ReviewInit
  <2> QED
    BY <2>1, <2>2, <2>3 DEF Init, ReviewInit, ReviewTypeOK
<1>3. CountsInv
  BY DEF Init, ReviewInit, CountsInv, CountsSupportVerdict, Exists
<1>4. CacheTypeOK
  <2>1. failures \in 0 .. MaxFailures /\ article \in Domains
    BY CacheAssumption DEF Init, CacheInit, Domains
  <2>2. cachedVersions = NoVersions /\ compoundCache = Empty /\ stopwordCache = Empty
        /\ stage = "idle" /\ unversioned = FALSE
    BY DEF Init, CacheInit, Started
  <2> QED
    BY <2>1, <2>2, NothingCached DEF CacheTypeOK
<1>5. CacheInv
  BY NothingCached DEF Init, CacheInit, Started, CacheInv, CurrentVersionMeansCurrentWords
<1>6. StopwordTypeOK
  BY DEF Init, StopwordInit, StopwordTypeOK, NothingRecommended
<1> QED
  BY <1>1, <1>2, <1>3, <1>4, <1>5, <1>6 DEF IInv, ReviewInv, CacheGood

\* A step on the review's side leaves the worker alone, and the other way.
LEMMA NextIInv == IInv /\ [Next]_vars => IInv'
<1> SUFFICES ASSUME IInv, [Next]_vars PROVE IInv'
  OBVIOUS
<1>1. ASSUME Bumped, UNCHANGED cacheVars PROVE TablesTypeOK' /\ CacheGood'
  <2>1. CacheTypeOK'
    BY <1>1 DEF IInv, CacheGood, CacheTypeOK, cacheVars
  <2> QED
    BY <1>1, <2>1, BumpedType, CacheWhenBumped DEF IInv, CacheGood
<1>2. ASSUME UNCHANGED tableVars, UNCHANGED cacheVars PROVE TablesTypeOK' /\ CacheGood'
  BY <1>2, StutterType, CacheWhenIdle DEF IInv, CacheGood
<1>3. ASSUME UNCHANGED reviewVars PROVE ReviewInv'
  <2>1. UNCHANGED <<now, ingestedAt, candidates, extractionDue, extracted, reviewing, approving, jobFailures>>
    BY <1>3 DEF reviewVars, newsVars, jobVars
  <2>2. ReviewTypeOK'
    BY <2>1 DEF IInv, ReviewInv, ReviewTypeOK
  <2> QED
    BY <2>1, <2>2, CandidatesUnchanged DEF IInv, ReviewInv
<1>4. ASSUME UNCHANGED stopwordVars PROVE StopwordTypeOK'
  BY <1>4 DEF IInv, stopwordVars, StopwordTypeOK
<1>5. CASE Review
  BY <1>1, <1>2, <1>4, <1>5, ReviewStep DEF IInv, Review
<1>6. CASE AdminCompounds
  BY <1>1, <1>3, <1>4, <1>6, AdminCompoundsStep DEF IInv, AdminCompounds
<1>7. CASE AdminStopwords
  BY <1>1, <1>3, <1>4, <1>7, AdminStopwordsStep DEF IInv, AdminStopwords
<1>8. CASE Work
  BY <1>3, <1>4, <1>8, CacheStep, StutterType DEF IInv, Work
<1>9. CASE StopwordsReviewed
  BY <1>1, <1>2, <1>3, <1>9, StopwordStep DEF IInv, StopwordsReviewed
<1>10. CASE UNCHANGED vars
  BY <1>2, <1>3, <1>4, <1>10 DEF IInv, vars
<1> QED
  BY <1>5, <1>6, <1>7, <1>8, <1>9, <1>10 DEF Next

LEMMA Invariance == Spec => []IInv
BY InitIInv, NextIInv, PTL DEF Spec

\* Every variable keeps its type: in particular no row of the candidates gets
\* a status the CHECK constraint of the table would refuse.
THEOREM TypeCorrect == Spec => []TypeOK
<1>1. IInv => TypeOK
  BY DEF IInv, ReviewInv, CacheGood, TypeOK
<1> QED
  BY <1>1, Invariance, PTL

\* However the runs of the jobs and the administrators overlap, the counts of
\* a candidate fit together and support a verdict of high confidence.
THEOREM CountsSupport == Spec => []CountsSupportVerdict
<1>1. IInv => CountsSupportVerdict
  BY DEF IInv, ReviewInv, CountsInv
<1> QED
  BY <1>1, Invariance, PTL

\* A worker that holds the current versions tokenizes with the current words,
\* whatever reads failed or were skipped, but for caches filled blindly.
THEOREM CacheCurrent == Spec => []CurrentVersionMeansCurrentWords
<1>1. IInv => CurrentVersionMeansCurrentWords
  BY DEF IInv, CacheGood, CacheInv
<1> QED
  BY <1>1, Invariance, PTL

-----------------------------------------------------------------------------
(* Decided candidates.                                                     *)

\* What a step may do to a decided candidate: decide again, as anyone but the
\* reviewer.
StaysDecided(c) ==
  /\ candidates'[c].status # "needs_review"
  /\ candidates'[c].frequency = candidates[c].frequency
  /\ candidates'[c].doc_count = candidates[c].doc_count
  /\ candidates'[c].auto_decision = candidates[c].auto_decision
  /\ candidates'[c].reviewed_by = "auto-reviewer" => candidates'[c] = candidates[c]

LEMMA DecidedStep ==
  ASSUME IInv, [Next]_vars, NEW c \in Candidates, Exists(c), candidates[c].status # "needs_review"
  PROVE  StaysDecided(c)
<1>1. candidates[c] \in Candidate /\ candidates \in [Candidates -> Candidate \union {NoCandidate}]
  BY DEF IInv, ReviewInv, ReviewTypeOK, Exists
<1>2. CASE candidates'[c] = candidates[c]
  BY <1>2 DEF StaysDecided
<1>3. CASE UNCHANGED candidates
  BY <1>2, <1>3
<1>4. ASSUME NEW domain \in NewsDomains, UpsertDomain(domain) PROVE StaysDecided(c)
  BY <1>2, <1>4 DEF UpsertDomain, Accumulate, Exists
<1>5. ASSUME NEW n \in reviewing, NEW answer \in Answers, Judge(n, answer) PROVE StaysDecided(c)
  <2>1. n.row \in Candidates
    BY DEF IInv, ReviewInv, ReviewTypeOK, Count
  <2>2. candidates'[c] = candidates[c]
    BY <1>1, <1>5, <2>1 DEF Judge
  <2> QED
    BY <1>2, <2>2
<1>6. ASSUME NEW d \in approving, NEW known \in BOOLEAN, Approve(d, known) PROVE StaysDecided(c)
  <2>1. \/ candidates'[c] = candidates[c]
        \/ candidates'[c] = [candidates[c] EXCEPT !.status = "approved", !.reviewed_by = "auto-approver"]
    BY <1>1, <1>6 DEF Approve
  <2> QED
    BY <1>1, <1>2, <2>1 DEF StaysDecided, Candidate
<1>7. ASSUME NEW d \in Candidates, NEW action \in {"approved", "rejected"}, AdminReview(d, action)
      PROVE  StaysDecided(c)
  <2>1. \/ candidates'[c] = candidates[c]
        \/ candidates'[c] = [candidates[c] EXCEPT !.status = action, !.reviewed_by = "admin"]
    BY <1>1, <1>7 DEF AdminReview
  <2> QED
    BY <1>1, <1>2, <2>1 DEF StaysDecided, Candidate
<1>8. CASE Tick \/ Extract \/ FetchForReview \/ FetchForApproval \/ FailJob
           \/ \E a \in Articles : StoreArticle(a)
  <2>1. UNCHANGED candidates
    BY <1>8 DEF Tick, Extract, FetchForReview, FetchForApproval, FailJob, StoreArticle
  <2> QED
    BY <1>3, <2>1
<1>9. CASE Review
  BY <1>4, <1>5, <1>6, <1>7, <1>8, <1>9 DEF Review, ReviewNext
<1>10. CASE AdminCompounds \/ AdminStopwords \/ StopwordsReviewed \/ Work \/ UNCHANGED vars
  BY <1>3, <1>10 DEF AdminCompounds, AdminStopwords, StopwordsReviewed, Work, vars, reviewVars
<1> QED
  BY <1>9, <1>10 DEF Next

\* No job reopens a candidate that was decided while the job was working, or
\* adds to its counts.
THEOREM DecidedStays == Spec => DecidedStaysDecided
<1>1. IInv /\ [Next]_vars =>
        [\A c \in Candidates : Exists(c) /\ candidates[c].status # "needs_review" =>
           /\ candidates'[c].status # "needs_review"
           /\ candidates'[c].frequency = candidates[c].frequency
           /\ candidates'[c].doc_count = candidates[c].doc_count]_<<reviewVars, tableVars>>
  BY DecidedStep DEF StaysDecided
<1> QED
  BY <1>1, Invariance, PTL DEF Spec, DecidedStaysDecided

\* The reviewer leaves a decision alone that was made while it was searching.
THEOREM ReviewerRespects == Spec => ReviewerRespectsDecisions
<1>1. IInv /\ [Next]_vars =>
        [\A c \in Candidates : Exists(c) /\ candidates[c].status # "needs_review" =>
           /\ candidates'[c].auto_decision = candidates[c].auto_decision
           /\ candidates'[c].reviewed_by = "auto-reviewer" => candidates'[c] = candidates[c]
         ]_<<reviewVars, tableVars>>
  BY DecidedStep DEF StaysDecided
<1> QED
  BY <1>1, Invariance, PTL DEF Spec, ReviewerRespectsDecisions

-----------------------------------------------------------------------------
(* Decided stop words.                                                     *)

LEMMA DecidedStopwordStep ==
  ASSUME IInv, [Next]_vars, NEW w \in StopWords, Decided(w)
  PROVE  /\ stopwordCandidates'[w].score = stopwordCandidates[w].score
         /\ \/ stopwordCandidates'[w].status = stopwordCandidates[w].status
            \/ \E action \in {"approved", "rejected"} : ReviewStopword(w, action)
<1>1. /\ stopwordCandidates \in [StopWords -> [status : Statuses, score : Scores] \union {NoRow}]
      /\ stopwordCandidates[w].status \in {"approved", "rejected"}
  BY DEF IInv, StopwordTypeOK, Decided
<1>2. CASE stopwordCandidates'[w] = stopwordCandidates[w]
  BY <1>2
<1>3. ASSUME NEW r \in Recommenders, Recommend(r)
      PROVE  stopwordCandidates'[w] = stopwordCandidates[w]
  BY <1>1, <1>3 DEF Recommend, ScoreWords, ExcludeStopwords, ExcludeDecided, UpsertCandidates,
     Upserted, FailRecommender
<1>4. ASSUME NEW v \in StopWords, NEW action \in {"approved", "rejected"}, ReviewStopword(v, action)
      PROVE  \/ stopwordCandidates'[w] = stopwordCandidates[w]
             \/ v = w /\ stopwordCandidates'[w] = [stopwordCandidates[w] EXCEPT !.status = action]
  BY <1>1, <1>4 DEF ReviewStopword
<1>5. CASE StopwordsReviewed
  <2>1. CASE \E r \in Recommenders : Recommend(r)
    BY <1>2, <1>3, <2>1
  <2>2. ASSUME NEW v \in StopWords, NEW action \in {"approved", "rejected"}, ReviewStopword(v, action)
        PROVE  /\ stopwordCandidates'[w].score = stopwordCandidates[w].score
               /\ \/ stopwordCandidates'[w].status = stopwordCandidates[w].status
                  \/ \E act \in {"approved", "rejected"} : ReviewStopword(w, act)
    <3>1. CASE v = w /\ stopwordCandidates'[w] = [stopwordCandidates[w] EXCEPT !.status = action]
      BY <2>2, <3>1
    <3> QED
      BY <1>2, <1>4, <2>2, <3>1
  <2> QED
    BY <1>5, <2>1, <2>2 DEF StopwordsReviewed, StopwordNext
<1>6. CASE Review \/ AdminCompounds \/ AdminStopwords \/ Work \/ UNCHANGED vars
  <2>1. UNCHANGED stopwordCandidates
    BY <1>6 DEF Review, AdminCompounds, AdminStopwords, Work, vars, stopwordVars
  <2> QED
    BY <1>2, <2>1
<1> QED
  BY <1>5, <1>6 DEF Next

\* However many recommenders run, and whatever they had read, a stop word
\* candidate that is decided keeps its score, and its decision but for another
\* one by an administrator.
THEOREM DecidedStopwords == Spec => DecidedStopwordsStay
<1>1. IInv /\ [Next]_vars =>
        [\A w \in StopWords : Decided(w) =>
           /\ stopwordCandidates'[w].score = stopwordCandidates[w].score
           /\ \/ stopwordCandidates'[w].status = stopwordCandidates[w].status
              \/ \E action \in {"approved", "rejected"} : ReviewStopword(w, action)
         ]_<<stopwordVars, tableVars>>
  BY DecidedStopwordStep
<1> QED
  BY <1>1, Invariance, PTL DEF Spec, DecidedStopwordsStay
=============================================================================
