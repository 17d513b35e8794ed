-------------------------- MODULE CandidateReview ---------------------------
(***************************************************************************)
(* The life of a compound noun candidate: found and counted by the job of  *)
(* compound_dictionary_dag (analytics/compound_extractor.py), judged by    *)
(* the job of compound_candidate_auto_review_dag                           *)
(* (compound_auto_reviewer.py), by the approver an administrator starts    *)
(* (compound_auto_approver.py) and by administrators themselves.  Each of  *)
(* the jobs reads, works for a while, and writes what it decided from what *)
(* it read.                                                                *)
(*                                                                         *)
(* A candidate is a (word, domain) row.  Time is counted in intervals of   *)
(* the extraction DAG.  The three jobs and the administrators run at the   *)
(* same time, one run of each (max_active_runs=1; one approver request).   *)
(***************************************************************************)
EXTENDS DictionaryTables

CONSTANTS
  Articles,        \* the articles of news_raw
  DomainOf,        \* the domain of an article
  Occurrences,     \* Occurrences[a][w]: where article a has the compound
  GenericWords,    \* words decide_candidate gives low confidence
  WindowSlots,     \* compound_extraction_window_hours, in intervals
  MinFrequency,    \* compound_extraction_min_frequency
  ReviewLimit,     \* how many candidates a run of the reviewer takes
  NotIngested,     \* the article is not in news_raw yet
  NoCandidate,     \* compound_noun_candidates has no row
  MaxTime,         \* bound: intervals
  MaxJobFailures   \* bound: runs of the jobs that fail

ASSUME ReviewAssumption ==
  /\ IsFiniteSet(Articles)
  /\ DomainOf \in [Articles -> NewsDomains]
  /\ Occurrences \in [Articles -> [CompoundWords -> SUBSET Nat]]
  /\ \A a \in Articles, w \in CompoundWords : IsFiniteSet(Occurrences[a][w])
  /\ GenericWords \subseteq CompoundWords
  /\ WindowSlots \in Nat \ {0} /\ MinFrequency \in Nat /\ ReviewLimit \in Nat \ {0}
  /\ NotIngested \notin Nat
  /\ MaxTime \in Nat /\ MaxJobFailures \in Nat

Candidates == CompoundWords \X NewsDomains

VARIABLES
  now,           \* the clock
  ingestedAt,    \* news_raw: when an article was stored
  candidates,    \* compound_noun_candidates
  extractionDue, \* a run of the extraction DAG is due, or due again
  extracted,     \* what a run of the extraction found and has not written
  reviewing,     \* candidates the reviewer has read and not judged
  approving,     \* candidates the approver has read and not judged
  jobFailures    \* runs of the jobs that have failed

newsVars == <<now, ingestedAt>>
jobVars == <<extractionDue, extracted, reviewing, approving, jobFailures>>
reviewVars == <<newsVars, candidates, jobVars>>

AutoDecisions == {"high_confidence", "needs_manual_review", "low_confidence",
                  "api_error", "no_search_results", "no_exact_match"}

Candidate ==
  [status : {"needs_review", "approved", "rejected"},
   frequency : Nat, doc_count : Nat,
   auto_decision : AutoDecisions \union {"none"},
   seen_since : BOOLEAN,    \* last_seen_at > auto_checked_at
   reviewed_by : {"none", "admin", "auto-reviewer", "auto-approver"}]

ASSUME NoCandidateAssumption == NoCandidate \notin Candidate

\* What upsert_compound_candidates is given of a word, and what the reviewer
\* works with.
Count == [row : Candidates, frequency : Nat, doc_count : Nat]

ReviewTypeOK ==
  /\ now \in 0 .. MaxTime
  /\ ingestedAt \in [Articles -> {NotIngested} \union 0 .. MaxTime]
  /\ candidates \in [Candidates -> Candidate \union {NoCandidate}]
  /\ extractionDue \in BOOLEAN
  /\ extracted \subseteq Count
  /\ reviewing \subseteq Count
  /\ approving \subseteq Candidates
  /\ jobFailures \in 0 .. MaxJobFailures

ReviewInit ==
  /\ now = 0
  /\ ingestedAt = [a \in Articles |-> NotIngested]
  /\ candidates = [c \in Candidates |-> NoCandidate]
  /\ extractionDue = FALSE
  /\ extracted = {} /\ reviewing = {} /\ approving = {}
  /\ jobFailures = 0

Exists(c) == candidates[c] # NoCandidate

\* The rows with status = 'needs_review'.
Undecided == {c \in Candidates : Exists(c) /\ candidates[c].status = "needs_review"}

-----------------------------------------------------------------------------
(* What surrounds the jobs.                                                *)

\* An interval passes and the DAG is scheduled again; a run that is behind
\* keeps it from being scheduled twice (max_active_runs, catchup=False).
Tick ==
  /\ now < MaxTime
  /\ now' = now + 1
  /\ extractionDue' = TRUE
  /\ UNCHANGED <<ingestedAt, candidates, extracted, reviewing, approving, jobFailures, tableVars>>

StoreArticle(a) ==
  /\ ingestedAt[a] = NotIngested
  /\ ingestedAt' = [ingestedAt EXCEPT ![a] = now]
  /\ UNCHANGED <<now, candidates, jobVars, tableVars>>

\* A run of a job dies; the scheduler, or the administrator, starts it again.
FailJob ==
  /\ jobFailures < MaxJobFailures
  /\ jobFailures' = jobFailures + 1
  /\ \/ extracted # {} /\ extracted' = {} /\ extractionDue' = TRUE /\ UNCHANGED <<reviewing, approving>>
     \/ reviewing # {} /\ reviewing' = {} /\ UNCHANGED <<extracted, extractionDue, approving>>
     \/ approving # {} /\ approving' = {} /\ UNCHANGED <<extracted, extractionDue, reviewing>>
  /\ UNCHANGED <<newsVars, candidates, tableVars>>

-----------------------------------------------------------------------------
(* The extraction: run_extraction_job.                                     *)

\* fetch_articles_for_extraction: what was stored within the window.  Of the
\* articles stored one window ago, those older than the run's minute are out.
Window(edge) ==
  {a \in Articles : /\ ingestedAt[a] # NotIngested
                    /\ now - ingestedAt[a] < WindowSlots \/ a \in edge}

Edge == {a \in Articles : ingestedAt[a] # NotIngested /\ now - ingestedAt[a] = WindowSlots}

\* The articles of a domain that have the word.
Sightings(articles, c) == {a \in articles : DomainOf[a] = c[2] /\ Occurrences[a][c[1]] # {}}

Mentions(articles, c) == UNION {{a} \X Occurrences[a][c[1]] : a \in Sightings(articles, c)}

\* _extract_candidates: the words that are in no row of the dictionary and
\* frequent enough, with their counts.
Extractable(articles) ==
  {c \in Candidates : /\ c[1] \notin WordsFor(compoundDict, AllDomains)
                      /\ Sightings(articles, c) # {}
                      /\ Cardinality(Mentions(articles, c)) >= MinFrequency}

ExtractedCounts(articles) ==
  {[row |-> c, frequency |-> Cardinality(Mentions(articles, c)),
    doc_count |-> Cardinality(Sightings(articles, c))] : c \in Extractable(articles)}

\* The articles are read, then the dictionary.
Extract ==
  /\ extractionDue /\ extracted = {}
  /\ \E edge \in SUBSET Edge : extracted' = ExtractedCounts(Window(edge))
  /\ extractionDue' = FALSE
  /\ UNCHANGED <<newsVars, candidates, reviewing, approving, jobFailures, tableVars>>

\* A faulty variant of Accumulate: the update forgets status = 'needs_review'.
AccumulateAlways(row, count, late) ==
  IF row = NoCandidate
  THEN [status |-> "needs_review", frequency |-> count.frequency, doc_count |-> count.doc_count,
        auto_decision |-> "none", seen_since |-> FALSE, reviewed_by |-> "none"]
  ELSE [row EXCEPT !.frequency = @ + count.frequency, !.doc_count = @ + count.doc_count,
                   !.seen_since = @ \/ (row.auto_decision # "none" /\ ~late)]

\* One word of upsert_compound_candidates: a new row, or counts added to an
\* undecided one.  last_seen_at is the time the call began, which is late when
\* the reviewer has checked the row since.
Accumulate(row, count, late) ==
  IF row = NoCandidate
  THEN [status |-> "needs_review", frequency |-> count.frequency, doc_count |-> count.doc_count,
        auto_decision |-> "none", seen_since |-> FALSE, reviewed_by |-> "none"]
  ELSE IF row.status # "needs_review" THEN row
  ELSE [row EXCEPT !.frequency = @ + count.frequency, !.doc_count = @ + count.doc_count,
                   !.seen_since = @ \/ (row.auto_decision # "none" /\ ~late)]

\* upsert_compound_candidates: the words of one domain, in one transaction.
UpsertDomain(domain) ==
  LET mine == {n \in extracted : n.row[2] = domain} IN
    /\ mine # {}
    /\ extracted' = extracted \ mine
    /\ \E late \in SUBSET {n.row : n \in mine} :
         candidates' = [c \in Candidates |->
           LET counts == {n \in mine : n.row = c} IN
             IF counts = {} THEN candidates[c]
             ELSE Accumulate(candidates[c], CHOOSE n \in counts : TRUE, c \in late)]
    /\ UNCHANGED <<newsVars, extractionDue, reviewing, approving, jobFailures, tableVars>>

-----------------------------------------------------------------------------
(* The reviewer: run_auto_review.                                          *)

\* A faulty variant of MustReview: a NULL auto_checked_at is forgotten.
MustReviewAgain(c) == candidates[c].auto_decision = "api_error" \/ candidates[c].seen_since

\* _fetch_compound_candidates_for_auto_review takes what was never checked,
\* was seen since, or met an API error; of the rest, what was checked three
\* days ago, which may be any.
MustReview(c) ==
  \/ candidates[c].auto_decision \in {"none", "api_error"}
  \/ candidates[c].seen_since

\* ORDER BY frequency DESC, doc_count DESC; last_seen_at, which decides
\* between equals, is left open.
Outranks(c, d) ==
  \/ candidates[c].frequency > candidates[d].frequency
  \/ /\ candidates[c].frequency = candidates[d].frequency
     /\ candidates[c].doc_count > candidates[d].doc_count

FetchForReview ==
  /\ reviewing = {}
  /\ \E old \in SUBSET {c \in Undecided : ~MustReview(c) /\ candidates[c].auto_decision # "none"} :
       LET due == {c \in Undecided : MustReview(c)} \union old IN
         \E batch \in SUBSET due :
           /\ Cardinality(batch) <= ReviewLimit
           /\ batch # due => Cardinality(batch) = ReviewLimit
           /\ \A c \in batch, d \in due \ batch : ~Outranks(d, c)
           /\ reviewing' = {[row |-> c, frequency |-> candidates[c].frequency,
                             doc_count |-> candidates[c].doc_count] : c \in batch}
  /\ reviewing' # {}
  /\ UNCHANGED <<newsVars, candidates, extractionDue, extracted, approving, jobFailures, tableVars>>

\* What the web search can say of a word.
Answers == {"error", "nothing", "other", "exact"}

\* A faulty variant of Decision: two documents are enough.
DecisionOnTwo(n, answer) ==
  CASE answer = "error" -> "api_error"
    [] answer = "nothing" -> "no_search_results"
    [] answer = "other" -> "no_exact_match"
    [] answer = "exact" ->
         IF n.doc_count >= 2 /\ n.frequency >= 5 THEN "high_confidence" ELSE "needs_manual_review"

\* decide_candidate; the rate per document is rounded to two digits.
Decision(n, answer) ==
  CASE answer = "error" -> "api_error"
    [] answer = "nothing" -> "no_search_results"
    [] answer = "other" -> "no_exact_match"
    [] answer = "exact" ->
         IF n.row[1] \in GenericWords THEN "low_confidence"
         ELSE IF n.doc_count >= 3 /\ n.frequency >= 5 /\ 200 * n.frequency < 1601 * n.doc_count
         THEN "high_confidence" ELSE "needs_manual_review"

\* A faulty variant of StatusAfter: the status of before V1__init_schema.sql.
StatusAfterPending(decision) ==
  CASE decision = "high_confidence" -> "approved"
    [] decision \in {"no_search_results", "no_exact_match"} -> "rejected"
    [] OTHER -> "pending"

StatusAfter(decision) ==
  CASE decision = "high_confidence" -> "approved"
    [] decision \in {"no_search_results", "no_exact_match"} -> "rejected"
    [] OTHER -> "needs_review"

\* What the three UPDATEs of the reviewer set: a candidate that stays
\* undecided keeps its reviewed_by.
Judged(row, decision) ==
  [row EXCEPT !.status = StatusAfter(decision), !.auto_decision = decision, !.seen_since = FALSE,
              !.reviewed_by = IF StatusAfter(decision) = "needs_review" THEN @ ELSE "auto-reviewer"]

\* A faulty variant of Judge: the updates go by the id alone.
JudgeUnguarded(n, answer) ==
  LET decision == Decision(n, answer) IN
    /\ n \in reviewing
    /\ reviewing' = reviewing \ {n}
    /\ candidates' = [candidates EXCEPT ![n.row] = Judged(@, decision)]
    /\ IF decision = "high_confidence" THEN InsertCompound(n.row) ELSE UNCHANGED tableVars
    /\ UNCHANGED <<newsVars, extractionDue, extracted, approving, jobFailures>>

\* One candidate of the run: the search, then one guarded transaction; an
\* approval whose UPDATE met no row inserts nothing.
Judge(n, answer) ==
  LET decision == Decision(n, answer) IN
    /\ n \in reviewing
    /\ reviewing' = reviewing \ {n}
    /\ IF candidates[n.row].status = "needs_review"
       THEN /\ candidates' = [candidates EXCEPT ![n.row] = Judged(@, decision)]
            /\ IF decision = "high_confidence" THEN InsertCompound(n.row) ELSE UNCHANGED tableVars
       ELSE UNCHANGED <<candidates, tableVars>>
    /\ UNCHANGED <<newsVars, extractionDue, extracted, approving, jobFailures>>

-----------------------------------------------------------------------------
(* The approver: run_compound_auto_approve.                                *)

\* _fetch_pending_candidates
FetchForApproval ==
  /\ approving = {} /\ Undecided # {}
  /\ approving' = Undecided
  /\ UNCHANGED <<newsVars, candidates, extractionDue, extracted, reviewing, jobFailures, tableVars>>

\* One candidate of the run: when the encyclopedia knows the word,
\* _set_auto_approved, an UPDATE by id; otherwise _set_needs_review, which
\* asks for a status no row can have.
Approve(c, known) ==
  /\ c \in approving
  /\ approving' = approving \ {c}
  /\ IF known
     THEN /\ candidates' = [candidates EXCEPT ![c].status = "approved", ![c].reviewed_by = "auto-approver"]
          /\ InsertCompound(c)
     ELSE UNCHANGED <<candidates, tableVars>>
  /\ UNCHANGED <<newsVars, extractionDue, extracted, reviewing, jobFailures>>

-----------------------------------------------------------------------------
(* The administrator: review_compound_candidate.                           *)

\* An UPDATE by id, whatever the status; its RETURNING list has no domain, so
\* an approved word is inserted for every domain.
AdminReview(c, action) ==
  /\ Exists(c)
  /\ candidates' = [candidates EXCEPT ![c].status = action, ![c].reviewed_by = "admin"]
  /\ IF action = "approved" THEN InsertCompound(<<c[1], AllDomains>>) ELSE UNCHANGED tableVars
  /\ UNCHANGED <<newsVars, jobVars>>

ReviewNext ==
  \/ Tick \/ Extract \/ FetchForReview \/ FetchForApproval \/ FailJob
  \/ \E a \in Articles : StoreArticle(a)
  \/ \E domain \in NewsDomains : UpsertDomain(domain)
  \/ \E n \in reviewing, answer \in Answers : Judge(n, answer)
  \/ \E c \in approving, known \in BOOLEAN : Approve(c, known)
  \/ \E c \in Candidates, action \in {"approved", "rejected"} : AdminReview(c, action)

-----------------------------------------------------------------------------
(* Properties.                                                             *)

\* The counts of a candidate and the verdict on it fit together whatever the
\* order the jobs wrote in: each time a document was counted the word was
\* counted in it, and only candidates with the counts the policy asks for were
\* approved by the reviewer.  (What the counts count is DocCountIsOfArticles.)
CountsSupportVerdict ==
  \A c \in Candidates : Exists(c) =>
    /\ candidates[c].frequency >= candidates[c].doc_count
    /\ candidates[c].doc_count > 0
    /\ candidates[c].auto_decision = "high_confidence" =>
         candidates[c].frequency >= 5 /\ candidates[c].doc_count >= 3

\* docs/develop/PREPROCESSING.md:341 and docs/design_final/Q3_AIRFLOW_DAG.md:457:
\* doc_count is the number of articles the word appears in.
DocCountIsOfArticles ==
  \A c \in Candidates : Exists(c) =>
    candidates[c].doc_count <=
      Cardinality(Sightings({a \in Articles : ingestedAt[a] # NotIngested}, c))

\* The strengthening that is inductive: a job holds counts that fit together,
\* of rows that exist, and those a reviewer read have only grown since.
CountsInv ==
  /\ \A n \in extracted \union reviewing : n.frequency >= n.doc_count /\ n.doc_count > 0
  /\ \A c \in approving : Exists(c)
  /\ \A n \in reviewing :
       /\ Exists(n.row)
       /\ candidates[n.row].frequency >= n.frequency
       /\ candidates[n.row].doc_count >= n.doc_count
  /\ CountsSupportVerdict

\* No job reopens a decided candidate or adds to its counts, even if it was
\* undecided when the job read it (docs/design_final/Q3_AIRFLOW_DAG.md 8.6).
DecidedStaysDecided ==
  [][\A c \in Candidates : Exists(c) /\ candidates[c].status # "needs_review" =>
       /\ candidates'[c].status # "needs_review"
       /\ candidates'[c].frequency = candidates[c].frequency
       /\ candidates'[c].doc_count = candidates[c].doc_count]_<<reviewVars, tableVars>>

\* The reviewer judges only undecided candidates: a decision made while it was
\* waiting for the search stays, and is not replaced by its own
\* (compound_auto_reviewer.py:4).
ReviewerRespectsDecisions ==
  [][\A c \in Candidates : Exists(c) /\ candidates[c].status # "needs_review" =>
       /\ candidates'[c].auto_decision = candidates[c].auto_decision
       /\ candidates'[c].reviewed_by = "auto-reviewer" => candidates'[c] = candidates[c]
    ]_<<reviewVars, tableVars>>

\* Rejecting a candidate keeps its word out of the dictionary: a row of a
\* rejected candidate is added by an administrator only
\* (api/routers/dictionary.py, dictionary_reject_candidate).
RejectionBlocksDictionary ==
  [][\A c \in Candidates :
       Exists(c) /\ candidates[c].status = "rejected" /\ c \in compoundDict' \ compoundDict =>
         candidates' = candidates]_<<reviewVars, tableVars>>

\* Enough other candidates to fill a run come before this one, or tie with it.
CrowdedOut(c) ==
  Cardinality({d \in Undecided \ {c} : ~Outranks(c, d)}) >= ReviewLimit

\* Without a verdict, or with a search that failed.
Waiting(c) == c \in Undecided /\ candidates[c].auto_decision \in {"none", "api_error"}

\* However often the runs fail, a candidate that was never looked at gets a
\* verdict or a decision, and one whose search failed is taken by another run:
\* only a run's worth of candidates with counts as high can keep it waiting.
EveryCandidateIsJudged ==
  \A c \in Candidates :
    /\ (c \in Undecided /\ candidates[c].auto_decision = "none") ~>
         (c \notin Undecided \/ candidates[c].auto_decision # "none" \/ CrowdedOut(c))
    /\ Waiting(c) ~> (~Waiting(c) \/ (\E n \in reviewing : n.row = c) \/ CrowdedOut(c))
=============================================================================
