--------------------------- MODULE IngestPipeline ---------------------------
(***************************************************************************)
(* The collection half of the system: the ingest DAGs' producers and the   *)
(* replay DAG, which runs in parallel with them, around the Kafka topic    *)
(* and the dead letter file they share.                                    *)
(***************************************************************************)
EXTENDS Producer, Replay

vars == <<sharedVars, producerVars, replayVars>>

TypeOK == SharedTypeOK /\ ProducerTypeOK /\ ReplayTypeOK

Init == SharedInit /\ ProducerInit /\ ReplayInit

Next ==
  \/ ProducerNext /\ UNCHANGED replayVars
  \/ ReplayNext /\ UNCHANGED producerVars

Spec == Init /\ [][Next]_vars

-----------------------------------------------------------------------------
(* Where an article can be, once the checkpoint has passed it.             *)

\* In memory of a run that has saved its state: flush and the drain of
\* _send_errors are still to come.
Unsettled(a) == \E p \in Providers : /\ pc[p] \in {"flush", "drain"}
                                     /\ a \in inFlight[p] \union sendErrors[p]

Parked(a) == a \in ArticlesIn(permanent) \/ (rpc = "park" /\ a \in ArticlesIn(hopeless))

Kept(a) == a \in topic \/ a \in ArticlesIn(deadLetter) \/ Parked(a) \/ Unsettled(a)

Dropped(a) == \E cause \in DropCause : <<a, cause>> \in drops

\* A checkpoint in the state file has passed the article: no later fetch of that
\* query returns it.
Passed(a) == \E q \in stamped : a \in Found[q] /\ a \in keywordTimestamps[q]

-----------------------------------------------------------------------------
(* Safety.                                                                 *)

\* An article a saved checkpoint has passed is in the topic, in the dead letter
\* file, in the permanent file, or in the hands of a run that has yet to flush;
\* or it was let go of in one of the five ways DropCause lists.  No crash of a
\* run before its save, no failed fetch, no send or delivery error loses one.
\* Two of the five are not what the documents say of the program, which is stated
\* on its own: DeadLetterIsNotThrownAway and NoneAbandoned.
PassedIsAccountedFor == \A a \in Articles : Passed(a) => Kept(a) \/ Dropped(a)

\* published_urls makes every later run skip the article, so it too may only hold
\* articles that are kept or known to be dropped, in one of the same five ways.
SkippedIsAccountedFor ==
  \A p \in Providers : \A a \in publishedUrls[p] : Kept(a) \/ Dropped(a)

\* A timestamp in the state file never moves back while the query stays active,
\* whatever crashes and however runs, fetch failures and query edits interleave.
CheckpointNeverMovesBack ==
  [][\A q \in stamped \intersect stamped' :
        keywordTimestamps[q] \subseteq keywordTimestamps'[q]]_vars

\* A record is parked for good only when its payload is invalid or its attempts
\* are used up: never one attempt early.
ParkedOnlyWhenSpent ==
  \A rec \in permanent \union hopeless :
    rec.article \in Invalid \/ rec.attempt = MaxRetryAttempts

\* README.md: a failed message is not thrown away, auto_replay_dag publishes it
\* again.  So an article leaves the dead letter file only for the topic or for
\* the permanent file.
DeadLetterIsNotThrownAway ==
  [][\A a \in ArticlesIn(deadLetter) :
        a \in ArticlesIn(deadLetter') \/ a \in topic' \/ a \in ArticlesIn(hopeless)]_vars

\* docs/design_final/Q2_KAFKA_INGESTION.md draws publish, flush, save, in that
\* order.  So no death of a run makes away with an article that a saved checkpoint
\* has passed: what it loses was not saved yet, and is fetched again.
NoneAbandoned == \A a \in Articles : Passed(a) => Kept(a) \/ <<a, "abandoned">> \notin drops

-----------------------------------------------------------------------------
(* The inductive invariants behind the safety properties.                  *)

Accounted(a) == Kept(a) \/ Dropped(a)

\* Accounted for as far as the collecting run of p goes: what it holds in flight
\* is lost with the run, and then fetched again.
InHand(p, a) == Accounted(a) \/ a \in inFlight[p] \union sendErrors[p]

\* Every query's loop accounts for the articles its new checkpoint will pass.
LoopInv ==
  /\ \A p \in Providers : pc[p] = "collect" => \A a \in seen[p] : InHand(p, a)
  /\ \A q \in Queries :
       /\ outcome[q] # "none" => pc[ProviderOf[q]] = "collect"
       /\ outcome[q] = "ok" =>
            \A a \in startedAt[ProviderOf[q]] \intersect Found[q] : InHand(ProviderOf[q], a)
       /\ outcome[q] = "publishing" /\ fetchOk[ProviderOf[q]] =>
            \A a \in (startedAt[ProviderOf[q]] \intersect Found[q]) \ pending[ProviderOf[q]] :
              InHand(ProviderOf[q], a)
  /\ \A q, r \in Queries :
       outcome[q] = "publishing" /\ outcome[r] = "publishing" /\ ProviderOf[q] = ProviderOf[r]
         => q = r

\* Every record the replay has taken from its batch went somewhere.
BatchInv ==
  rpc = "publish" =>
    \A rec \in records \ todo :
      rec.article \in topic \union ArticlesIn(remaining) \union ArticlesIn(hopeless)
                       \union ArticlesIn(skipped)

AccountInv ==
  /\ TypeOK
  /\ \A q \in Queries \ stamped : keywordTimestamps[q] = {}
  /\ PassedIsAccountedFor
  /\ SkippedIsAccountedFor
  /\ LoopInv
  /\ BatchInv
  /\ ParkedOnlyWhenSpent

\* No timestamp is newer than the run that may replace it.
ClockInv ==
  /\ TypeOK
  /\ \A q \in Queries : keywordTimestamps[q] \subseteq published
  /\ \A p \in Providers : pc[p] = "collect" =>
       /\ startedAt[p] \subseteq published
       /\ \A q \in QueriesOf(p) : keywordTimestamps[q] \subseteq startedAt[p]

-----------------------------------------------------------------------------
(* Liveness.  The scheduler starts the DAGs every 15 minutes and a started *)
(* process goes on until it ends or dies; the Kafka client settles every   *)
(* message it holds within its delivery timeout; a replay finds the broker *)
(* at last.                                                                *)

Fairness ==
  /\ \A p \in Providers :
       /\ WF_vars(RunNext(p) /\ UNCHANGED replayVars)
       /\ WF_vars(CallbackNext(p) /\ UNCHANGED replayVars)
  /\ WF_vars(ReplayStep /\ UNCHANGED producerVars)

FairSpec == Spec /\ Fairness

\* When the runs are over, every article a checkpoint has passed ends up in the
\* topic or the permanent file, or was dropped: retries do not go on for ever,
\* and no record stays behind in the dead letter file.
EventuallySettled ==
  <>[](/\ deadLetter = {}
       /\ \A a \in Articles : Passed(a) => a \in topic \/ Parked(a) \/ Dropped(a))
=============================================================================
