----------------------------- MODULE Dictionary -----------------------------
(***************************************************************************)
(* The dictionary as a whole: the jobs and administrators that write it    *)
(* (CandidateReview, StopwordReview, DictionaryTables) and a worker of the *)
(* streaming job that reads it through its caches (DictionaryCache).       *)
(***************************************************************************)
EXTENDS CandidateReview, StopwordReview, DictionaryCache

vars == <<tableVars, reviewVars, stopwordVars, cacheVars>>

TypeOK == TablesTypeOK /\ ReviewTypeOK /\ StopwordTypeOK /\ CacheTypeOK

Init == TablesInit /\ ReviewInit /\ StopwordInit /\ CacheInit

Review == ReviewNext /\ UNCHANGED <<stopwordVars, cacheVars>>
StopwordsReviewed == StopwordNext /\ UNCHANGED <<reviewVars, cacheVars>>
AdminCompounds == AdministerCompounds /\ UNCHANGED <<reviewVars, stopwordVars, cacheVars>>
AdminStopwords == AdministerStopwords /\ UNCHANGED <<reviewVars, stopwordVars, cacheVars>>
Work == CacheNext /\ UNCHANGED <<tableVars, reviewVars, stopwordVars>>

Next == Review \/ StopwordsReviewed \/ AdminCompounds \/ AdminStopwords \/ Work

ReviewerReads == FetchForReview /\ UNCHANGED <<stopwordVars, cacheVars>>
ReviewerJudges ==
  /\ \E n \in reviewing, answer \in Answers : Judge(n, answer)
  /\ UNCHANGED <<stopwordVars, cacheVars>>
WorkerGoesOn == Tokenize /\ UNCHANGED <<tableVars, reviewVars, stopwordVars>>
WorkerChecks ==
  /\ \E domain \in Domains : StartTokenize(domain) /\ Adopt(versions)
  /\ UNCHANGED <<tableVars, reviewVars, stopwordVars>>

\* The DAG of the reviewer is scheduled every quarter of an hour, and a run
\* goes through its list; articles go on coming, and tokenize with them: it
\* looks at the versions once the interval has passed.
Fairness ==
  /\ WF_vars(ReviewerReads) /\ WF_vars(ReviewerJudges)
  /\ WF_vars(WorkerGoesOn) /\ SF_vars(WorkerChecks)

Spec == Init /\ [][Next]_vars /\ Fairness

\* Every change of a table reaches a worker that articles go on coming to: once
\* the tables no longer change, the versions it holds are the tables' own.
WorkerLearnsOfChanges == []<>(stage # "idle") => <>[](cachedVersions = versions)
=============================================================================
