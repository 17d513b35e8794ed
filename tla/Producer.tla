------------------------------ MODULE Producer ------------------------------
(***************************************************************************)
(* ingestion/producer.py: one run_for_provider per provider at a time (the *)
(* FileLock and max_active_runs=1), with the Kafka client thread that      *)
(* delivers or fails what the run has handed to send(), and the outside    *)
(* world that publishes articles and edits the query list.                 *)
(*                                                                         *)
(* A process may die at any step (Crash): a kill, or an exception that     *)
(* leaves run_once, such as a failed insert_collection_metric.             *)
(***************************************************************************)
EXTENDS IngestCommon

CONSTANTS MaxRuns,       \* bound: runs of all providers together
          MaxToggles,    \* bound: edits of the query list
          FlushTimesOut  \* whether flush() may give up with messages undelivered

ASSUME ProducerBounds ==
  /\ MaxRuns \in Nat /\ MaxToggles \in Nat
  /\ FlushTimesOut \in BOOLEAN

VARIABLES
  published,          \* articles the outside world has published
  active,             \* queries that are active in the database
  toggles             \* edits of the query list so far

VARIABLES             \* producer_state_{provider}.json
  stamped,            \* queries that have a keyword_timestamps entry
  keywordTimestamps,  \* the entry: what was published by that instant
  publishedUrls       \* published_urls of each provider

VARIABLES             \* the run of each provider
  pc,                 \* where run_once is
  runs,               \* runs started
  startedAt,          \* run_started_at
  seen,               \* seen_urls
  outcome,            \* how far each query's fetch and publish loop has come
  fetchOk,            \* the ok flag of the query being published
  pending,            \* its articles still to go through the loop
  inFlight,           \* sent, neither delivered nor failed
  sendErrors,         \* _send_errors
  kafkaUnavailable    \* _kafka_unavailable

worldVars == <<published, active, toggles>>
stateFile == <<stamped, keywordTimestamps, publishedUrls>>
runVars == <<pc, runs, startedAt, seen, outcome, fetchOk, pending, inFlight,
             sendErrors, kafkaUnavailable>>
producerVars == <<worldVars, stateFile, runVars>>

Outcome == {"none", "waiting", "publishing", "ok", "failed"}

ProducerTypeOK ==
  /\ published \subseteq Articles
  /\ active \subseteq Queries
  /\ toggles \in 0 .. MaxToggles
  /\ stamped \subseteq Queries
  /\ keywordTimestamps \in [Queries -> SUBSET Articles]
  /\ publishedUrls \in [Providers -> SUBSET Articles]
  /\ pc \in [Providers -> {"idle", "collect", "flush", "drain"}]
  /\ runs \in 0 .. MaxRuns
  /\ startedAt \in [Providers -> SUBSET Articles]
  /\ seen \in [Providers -> SUBSET Articles]
  /\ outcome \in [Queries -> Outcome]
  /\ fetchOk \in [Providers -> BOOLEAN]
  /\ pending \in [Providers -> SUBSET Articles]
  /\ inFlight \in [Providers -> SUBSET Articles]
  /\ sendErrors \in [Providers -> SUBSET Articles]
  /\ kafkaUnavailable \in [Providers -> BOOLEAN]

ProducerInit ==
  /\ published = {}
  /\ active = Queries
  /\ toggles = 0
  /\ stamped = {}
  /\ keywordTimestamps = [q \in Queries |-> {}]
  /\ publishedUrls = [p \in Providers |-> {}]
  /\ pc = [p \in Providers |-> "idle"]
  /\ runs = 0
  /\ startedAt = [p \in Providers |-> {}]
  /\ seen = [p \in Providers |-> {}]
  /\ outcome = [q \in Queries |-> "none"]
  /\ fetchOk = [p \in Providers |-> FALSE]
  /\ pending = [p \in Providers |-> {}]
  /\ inFlight = [p \in Providers |-> {}]
  /\ sendErrors = [p \in Providers |-> {}]
  /\ kafkaUnavailable = [p \in Providers |-> FALSE]

-----------------------------------------------------------------------------
(* The outside world.                                                      *)

PublishNews(a) ==
  /\ a \notin published
  /\ published' = published \union {a}
  /\ UNCHANGED <<sharedVars, active, toggles, stateFile, runVars>>

\* An operator deactivates or reactivates a query.  The last active query of a
\* provider stays: without one the client falls back to a built-in list.
ToggleQuery(q) ==
  /\ toggles < MaxToggles
  /\ q \in active => \E r \in active \ {q} : ProviderOf[r] = ProviderOf[q]
  /\ active' = IF q \in active THEN active \ {q} ELSE active \union {q}
  /\ toggles' = toggles + 1
  /\ UNCHANGED <<sharedVars, published, stateFile, runVars>>

-----------------------------------------------------------------------------
(* run_once.                                                               *)

\* The constructor either connects or finds no broker, and the run reads the
\* clock, its state file and the active queries.
StartRun(p) ==
  /\ pc[p] = "idle"
  /\ runs < MaxRuns
  /\ pc' = [pc EXCEPT ![p] = "collect"]
  /\ runs' = runs + 1
  /\ startedAt' = [startedAt EXCEPT ![p] = published]
  /\ seen' = [seen EXCEPT ![p] = publishedUrls[p]]
  /\ outcome' = [q \in Queries |-> IF ProviderOf[q] # p THEN outcome[q]
                                   ELSE IF q \in active THEN "waiting" ELSE "none"]
  /\ \E noBroker \in BOOLEAN :
       kafkaUnavailable' = [kafkaUnavailable EXCEPT ![p] = noBroker]
  /\ UNCHANGED <<sharedVars, worldVars, stateFile, fetchOk, pending, inFlight, sendErrors>>

\* _derive_from_timestamps: the query's own timestamp, or else the newest of its
\* provider.  rss passes its timestamps on and has no such fallback.
Threshold(q) ==
  IF q \in stamped THEN keywordTimestamps[q]
  ELSE IF ProviderOf[q] \in FallbackProviders
       THEN UNION {keywordTimestamps[r] : r \in stamped \intersect QueriesOf(ProviderOf[q])}
       ELSE {}

Candidates(q) == (published \intersect Found[q]) \ Threshold(q)

\* The next query whose fetch completes.  An ok fetch returns every candidate
\* published before the run, but for the gaps; a failed one any part of them.
Fetch(p, q) ==
  /\ pc[p] = "collect"
  /\ outcome[q] = "waiting" /\ ProviderOf[q] = p
  /\ \A r \in QueriesOf(p) : outcome[r] # "publishing"
  /\ \E ok \in BOOLEAN, articles \in SUBSET Candidates(q) :
       /\ ok => (Candidates(q) \intersect startedAt[p]) \ FetchGaps \subseteq articles
       /\ fetchOk' = [fetchOk EXCEPT ![p] = ok]
       /\ pending' = [pending EXCEPT ![p] = articles]
       /\ drops' = IF ok
                   THEN drops \union Because(
                          (startedAt[p] \intersect Found[q])
                             \ (articles \union keywordTimestamps[q] \union seen[p]),
                          "missed")
                   ELSE drops
  /\ outcome' = [outcome EXCEPT ![q] = "publishing"]
  /\ UNCHANGED <<topic, deadLetter, crashes, worldVars, stateFile, pc, runs, startedAt,
                 seen, inFlight, sendErrors, kafkaUnavailable>>

AppendDeadLetter(a) == deadLetter' = deadLetter \union {[article |-> a, attempt |-> 1]}

SkipSeen(p, a) ==
  /\ pc[p] = "collect"
  /\ a \in pending[p] \intersect seen[p]
  /\ pending' = [pending EXCEPT ![p] = @ \ {a}]
  /\ UNCHANGED <<sharedVars, worldVars, stateFile, pc, runs, startedAt, seen, outcome,
                 fetchOk, inFlight, sendErrors, kafkaUnavailable>>

\* _publish returns True: send() took the message, its fate is still open.
Send(p, a) ==
  /\ pc[p] = "collect"
  /\ a \in pending[p] \ seen[p]
  /\ ~kafkaUnavailable[p] /\ a \notin Invalid
  /\ pending' = [pending EXCEPT ![p] = @ \ {a}]
  /\ inFlight' = [inFlight EXCEPT ![p] = @ \union {a}]
  /\ seen' = [seen EXCEPT ![p] = @ \union {a}]
  /\ UNCHANGED <<sharedVars, worldVars, stateFile, pc, runs, startedAt, outcome, fetchOk,
                 sendErrors, kafkaUnavailable>>

\* _publish returns False: Kafka is known to be away, the payload is invalid, or
\* send() raises a KafkaError.  The article is not remembered in seen_urls.
PublishToDeadLetter(p, a) ==
  /\ pc[p] = "collect"
  /\ a \in pending[p] \ seen[p]
  /\ pending' = [pending EXCEPT ![p] = @ \ {a}]
  /\ AppendDeadLetter(a)
  /\ kafkaUnavailable' =
       [kafkaUnavailable EXCEPT ![p] = @ \/ a \notin Invalid]
  /\ UNCHANGED <<topic, drops, crashes, worldVars, stateFile, pc, runs, startedAt, seen,
                 outcome, fetchOk, inFlight, sendErrors>>

\* A faulty variant of LoopResult: the checkpoint advances whatever the fetch said.
LoopResultIgnoringOk(ok) == "ok"

LoopResult(ok) == IF ok THEN "ok" ELSE "failed"

\* The end of a query's loop body: an ok query moves its timestamp on, a failed
\* one keeps it.  The timestamps are in memory until SaveState.
FinishQuery(p, q) ==
  /\ pc[p] = "collect"
  /\ outcome[q] = "publishing" /\ ProviderOf[q] = p
  /\ pending[p] = {}
  /\ outcome' = [outcome EXCEPT ![q] = LoopResult(fetchOk[p])]
  /\ fetchOk' = [fetchOk EXCEPT ![p] = FALSE]
  /\ UNCHANGED <<sharedVars, worldVars, stateFile, pc, runs, startedAt, seen, pending,
                  inFlight, sendErrors, kafkaUnavailable>>

\* The variables of the collection loop, which nothing reads after it.
ForgetLoop(p) ==
  /\ startedAt' = [startedAt EXCEPT ![p] = {}]
  /\ seen' = [seen EXCEPT ![p] = {}]
  /\ outcome' = [q \in Queries |-> IF ProviderOf[q] = p THEN "none" ELSE outcome[q]]
  /\ fetchOk' = [fetchOk EXCEPT ![p] = FALSE]
  /\ pending' = [pending EXCEPT ![p] = {}]

\* A faulty variant of NewTimestamp: a failed query starts over.
NewTimestampResettingFailed(q) ==
  IF outcome[q] = "ok" THEN startedAt[ProviderOf[q]] ELSE {}

NewTimestamp(q) ==
  CASE outcome[q] = "ok"     -> startedAt[ProviderOf[q]]
    [] outcome[q] = "failed" -> keywordTimestamps[q]
    [] OTHER                 -> {}

\* Timestamps of queries this run did not poll are dropped, and of seen_urls, a
\* set in no order, SeenCap elements are kept.  save_state comes before flush.
SaveState(p) ==
  /\ pc[p] = "collect"
  /\ \A q \in QueriesOf(p) : outcome[q] \in {"none", "ok", "failed"}
  /\ stamped' = {q \in Queries : IF ProviderOf[q] # p \/ outcome[q] = "failed"
                                 THEN q \in stamped ELSE outcome[q] = "ok"}
  /\ keywordTimestamps' =
       [q \in Queries |-> IF ProviderOf[q] = p THEN NewTimestamp(q)
                          ELSE keywordTimestamps[q]]
  /\ \E kept \in SUBSET seen[p] :
       /\ kept = seen[p] \/ Cardinality(kept) = SeenCap
       /\ Cardinality(kept) <= SeenCap
       /\ publishedUrls' = [publishedUrls EXCEPT ![p] = kept]
  /\ pc' = [pc EXCEPT ![p] = "flush"]
  /\ ForgetLoop(p)
  /\ UNCHANGED <<sharedVars, worldVars, runs, inFlight, sendErrors, kafkaUnavailable>>

FlushReturns(p) ==
  /\ pc[p] = "flush"
  /\ inFlight[p] = {} \/ FlushTimesOut
  /\ pc' = [pc EXCEPT ![p] = "drain"]
  /\ UNCHANGED <<sharedVars, worldVars, stateFile, runs, startedAt, seen, outcome, fetchOk,
                 pending, inFlight, sendErrors, kafkaUnavailable>>

DrainSendError(p, a) ==
  /\ pc[p] = "drain"
  /\ a \in sendErrors[p]
  /\ sendErrors' = [sendErrors EXCEPT ![p] = @ \ {a}]
  /\ AppendDeadLetter(a)
  /\ UNCHANGED <<topic, drops, crashes, worldVars, stateFile, pc, runs, startedAt, seen,
                 outcome, fetchOk, pending, inFlight, kafkaUnavailable>>

\* What a process that is gone forgets.
ForgetRun(p) ==
  /\ pc' = [pc EXCEPT ![p] = "idle"]
  /\ ForgetLoop(p)
  /\ inFlight' = [inFlight EXCEPT ![p] = {}]
  /\ sendErrors' = [sendErrors EXCEPT ![p] = {}]
  /\ kafkaUnavailable' = [kafkaUnavailable EXCEPT ![p] = FALSE]
  /\ drops' = IF pc[p] = "collect" THEN drops
              ELSE drops \union Because(inFlight[p] \union sendErrors[p], "abandoned")
  /\ UNCHANGED <<topic, deadLetter, worldVars, stateFile, runs>>

\* run_once returns.  A message still in flight after a flush timeout dies with
\* the process.
EndRun(p) ==
  /\ pc[p] = "drain"
  /\ sendErrors[p] = {}
  /\ ForgetRun(p)
  /\ UNCHANGED crashes

Crash(p) ==
  /\ pc[p] # "idle"
  /\ crashes < MaxCrashes
  /\ crashes' = crashes + 1
  /\ ForgetRun(p)

-----------------------------------------------------------------------------
(* The Kafka client thread.                                                *)

DeliverOk(p, a) ==
  /\ a \in inFlight[p]
  /\ inFlight' = [inFlight EXCEPT ![p] = @ \ {a}]
  /\ topic' = topic \union {a}
  /\ UNCHANGED <<deadLetter, drops, crashes, worldVars, stateFile, pc, runs, startedAt,
                 seen, outcome, fetchOk, pending, sendErrors, kafkaUnavailable>>

\* A faulty variant of Remember: the error is logged only.
RememberNothing(errors, a) == errors

Remember(errors, a) == errors \union {a}

\* on_error.  A request that timed out may have reached the broker all the same.
DeliverError(p, a) ==
  /\ a \in inFlight[p]
  /\ inFlight' = [inFlight EXCEPT ![p] = @ \ {a}]
  /\ sendErrors' = [sendErrors EXCEPT ![p] = Remember(@, a)]
  /\ kafkaUnavailable' = [kafkaUnavailable EXCEPT ![p] = TRUE]
  /\ \E arrived \in BOOLEAN : topic' = IF arrived THEN topic \union {a} ELSE topic
  /\ UNCHANGED <<deadLetter, drops, crashes, worldVars, stateFile, pc, runs, startedAt,
                 seen, outcome, fetchOk, pending>>

-----------------------------------------------------------------------------
WorldNext ==
  \/ \E a \in Articles : PublishNews(a)
  \/ \E q \in Queries : ToggleQuery(q)

RunNext(p) ==
  \/ StartRun(p)
  \/ \E q \in Queries : Fetch(p, q) \/ FinishQuery(p, q)
  \/ \E a \in Articles : SkipSeen(p, a) \/ Send(p, a) \/ PublishToDeadLetter(p, a)
  \/ SaveState(p)
  \/ FlushReturns(p)
  \/ \E a \in Articles : DrainSendError(p, a)
  \/ EndRun(p)

CallbackNext(p) == \E a \in Articles : DeliverOk(p, a) \/ DeliverError(p, a)

ProducerNext ==
  \/ WorldNext
  \/ \E p \in Providers : RunNext(p) \/ CallbackNext(p) \/ Crash(p)
=============================================================================
