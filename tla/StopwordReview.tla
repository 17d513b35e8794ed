--------------------------- MODULE StopwordReview ---------------------------
(***************************************************************************)
(* The candidates for stop words: analytics/stopword_recommender.py, which *)
(* a DAG runs every night and administrators run from the dashboard, at    *)
(* the same time if need be, and the review of a candidate.                *)
(*                                                                         *)
(* The recommender scores the words of the last seven days from three      *)
(* tables of statistics; which words come out, and with which score, is    *)
(* left open.  Its candidates are of the domain 'all'.                     *)
(***************************************************************************)
EXTENDS DictionaryTables

CONSTANTS
  Recommenders,  \* who runs the recommender
  Scores         \* scores above the threshold

ASSUME RecommenderAssumption == Scores \subseteq Nat \ {0}

VARIABLES
  stopwordCandidates,  \* stopword_candidates: the row of each word
  recommending,        \* what each run of the recommender does next
  recommended          \* the words it still has, with their scores; 0 for no score

stopwordVars == <<stopwordCandidates, recommending, recommended>>

Statuses == {"needs_review", "approved", "rejected"}
NoRow == [status |-> "none", score |-> 0]
NothingRecommended == [w \in StopWords |-> 0]

StopwordTypeOK ==
  /\ stopwordCandidates \in [StopWords -> [status : Statuses, score : Scores] \union {NoRow}]
  /\ recommending \in [Recommenders -> {"idle", "scored", "unlisted", "upsert"}]
  /\ recommended \in [Recommenders -> [StopWords -> Scores \union {0}]]

StopwordInit ==
  /\ stopwordCandidates = [w \in StopWords |-> NoRow]
  /\ recommending = [r \in Recommenders |-> "idle"]
  /\ recommended = [r \in Recommenders |-> NothingRecommended]

-----------------------------------------------------------------------------
(* A run of the recommender.                                               *)

Advance(r, from, to) ==
  /\ recommending[r] = from
  /\ recommending' = [recommending EXCEPT ![r] = to]

\* What is left of the run's words when some are excluded.
Without(r, words) == [w \in StopWords |-> IF w \in words THEN 0 ELSE recommended[r][w]]

\* _compute_scores
ScoreWords(r, scores) ==
  /\ Advance(r, "idle", "scored")
  /\ recommended' = [recommended EXCEPT ![r] = scores]
  /\ UNCHANGED <<tableVars, stopwordCandidates>>

\* The two statements of _excluded_words: a stop word of any domain, then a
\* candidate that is decided.
ExcludeStopwords(r) ==
  /\ Advance(r, "scored", "unlisted")
  /\ recommended' = [recommended EXCEPT ![r] = Without(r, WordsFor(stopwordDict, AllDomains))]
  /\ UNCHANGED <<tableVars, stopwordCandidates>>

Decided(w) == stopwordCandidates[w].status \in {"approved", "rejected"}

ExcludeDecided(r) ==
  /\ Advance(r, "unlisted", "upsert")
  /\ recommended' = [recommended EXCEPT ![r] = Without(r, {w \in StopWords : Decided(w)})]
  /\ UNCHANGED <<tableVars, stopwordCandidates>>

\* A faulty variant of Upserted: the update does not ask for the status.
UpsertedAnyway(row, score) ==
  [status |-> IF row = NoRow THEN "needs_review" ELSE row.status, score |-> score]

\* INSERT ... ON CONFLICT DO NOTHING, else UPDATE ... WHERE status = 'needs_review'
Upserted(row, score) ==
  IF row.status \in {"none", "needs_review"} THEN [status |-> "needs_review", score |-> score]
  ELSE row

\* One transaction.
UpsertCandidates(r) ==
  /\ Advance(r, "upsert", "idle")
  /\ stopwordCandidates' =
       [w \in StopWords |-> IF recommended[r][w] = 0 THEN stopwordCandidates[w]
                            ELSE Upserted(stopwordCandidates[w], recommended[r][w])]
  /\ recommended' = [recommended EXCEPT ![r] = NothingRecommended]
  /\ UNCHANGED tableVars

\* The run dies, or its transaction is refused.
FailRecommender(r) ==
  /\ recommending[r] # "idle"
  /\ recommending' = [recommending EXCEPT ![r] = "idle"]
  /\ recommended' = [recommended EXCEPT ![r] = NothingRecommended]
  /\ UNCHANGED <<tableVars, stopwordCandidates>>

-----------------------------------------------------------------------------
(* review_stopword_candidate: by id, whatever the status.                  *)

\* INSERT ... ON CONFLICT (word, domain, language) DO NOTHING
InsertStopword(row) ==
  IF row \in stopwordDict THEN UNCHANGED tableVars
  ELSE /\ versions.stopword < MaxVersion
       /\ stopwordDict' = stopwordDict \union {row}
       /\ versions' = [versions EXCEPT !.stopword = @ + 1]
       /\ UNCHANGED compoundDict

ReviewStopword(w, action) ==
  /\ stopwordCandidates[w] # NoRow
  /\ stopwordCandidates' = [stopwordCandidates EXCEPT ![w].status = action]
  /\ IF action = "approved" THEN InsertStopword(<<w, AllDomains>>) ELSE UNCHANGED tableVars
  /\ UNCHANGED <<recommending, recommended>>

-----------------------------------------------------------------------------
Recommend(r) ==
  \/ \E scores \in [StopWords -> Scores \union {0}] : ScoreWords(r, scores)
  \/ ExcludeStopwords(r) \/ ExcludeDecided(r) \/ UpsertCandidates(r)
  \/ FailRecommender(r)

StopwordNext ==
  \/ \E r \in Recommenders : Recommend(r)
  \/ \E w \in StopWords, action \in {"approved", "rejected"} : ReviewStopword(w, action)

-----------------------------------------------------------------------------
(* Properties.                                                             *)

\* A candidate that was decided after a run of the recommender had looked for
\* decided words keeps the score it was decided on, and its decision, until an
\* administrator decides again.
DecidedStopwordsStay ==
  [][\A w \in StopWords :
       Decided(w) =>
         /\ stopwordCandidates'[w].score = stopwordCandidates[w].score
         /\ \/ stopwordCandidates'[w].status = stopwordCandidates[w].status
            \/ \E action \in {"approved", "rejected"} : ReviewStopword(w, action)
    ]_<<stopwordVars, tableVars>>
=============================================================================
