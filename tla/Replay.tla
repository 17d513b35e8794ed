------------------------------- MODULE Replay -------------------------------
(***************************************************************************)
(* ingestion/replay.py, run by auto_replay_dag (max_active_runs=1): read   *)
(* the whole of dead_letter.jsonl, publish its records one by one, write   *)
(* back the ones to retry, and append the hopeless ones to                 *)
(* dead_letter_permanent.jsonl.  The subprocess may die at any step, its   *)
(* 300 s timeout included.                                                 *)
(*                                                                         *)
(* Records are taken in any order: the file's order decides nothing but    *)
(* which of two records with one key goes first.  A producer that cannot   *)
(* be created returns before it has changed anything.                      *)
(***************************************************************************)
EXTENDS IngestCommon

VARIABLES
  replayed,    \* articles in dead_letter_replayed.jsonl
  permanent,   \* dead_letter_permanent.jsonl
  rpc,         \* where run_replay is
  records,     \* what _read_dead_letters returned
  todo,        \* the records still to be processed
  seenKeys,    \* seen_urls
  skipped,     \* records counted in skip_count
  remaining,   \* remaining, the records to write back
  hopeless     \* permanent_failed

batchVars == <<records, todo, seenKeys, skipped, remaining, hopeless>>
replayVars == <<replayed, permanent, rpc, batchVars>>

ReplayTypeOK ==
  /\ replayed \subseteq Articles
  /\ permanent \subseteq DeadLetterRecord
  /\ rpc \in {"idle", "publish", "park"}
  /\ records \subseteq DeadLetterRecord
  /\ todo \subseteq DeadLetterRecord
  /\ seenKeys \subseteq ReplayKeys
  /\ skipped \subseteq DeadLetterRecord
  /\ remaining \subseteq DeadLetterRecord
  /\ hopeless \subseteq DeadLetterRecord

ReplayInit ==
  /\ replayed = {}
  /\ permanent = {}
  /\ rpc = "idle"
  /\ records = {} /\ todo = {} /\ seenKeys = {}
  /\ skipped = {} /\ remaining = {} /\ hopeless = {}

StartReplay ==
  /\ rpc = "idle"
  /\ deadLetter # {}
  /\ rpc' = "publish"
  /\ records' = deadLetter
  /\ todo' = deadLetter
  /\ seenKeys' = LegacySeen
  /\ UNCHANGED <<sharedVars, replayed, permanent, skipped, remaining, hopeless>>

\* The next record of the loop.
Take(rec) ==
  /\ rpc = "publish"
  /\ rec \in todo
  /\ todo' = todo \ {rec}
  /\ UNCHANGED <<deadLetter, drops, crashes, permanent, rpc, records>>

\* Faulty variants of IsSpent: the limit checked one attempt late, and one early.
IsSpentLate(rec) == rec.article \in Invalid \/ rec.attempt > MaxRetryAttempts
IsSpentEarly(rec) == rec.article \in Invalid \/ rec.attempt + 1 >= MaxRetryAttempts

IsSpent(rec) == rec.article \in Invalid \/ rec.attempt + 1 > MaxRetryAttempts

\* An invalid payload, or one attempt too many.
GiveUp(rec) ==
  /\ Take(rec)
  /\ IsSpent(rec)
  /\ hopeless' = hopeless \union {rec}
  /\ UNCHANGED <<topic, replayed, seenKeys, skipped, remaining>>

IsRepeat(rec) == ReplayKeyOf[rec.article] \in seenKeys

Skip(rec) ==
  /\ Take(rec)
  /\ ~IsSpent(rec) /\ IsRepeat(rec)
  /\ skipped' = skipped \union {rec}
  /\ UNCHANGED <<topic, replayed, seenKeys, remaining, hopeless>>

\* send() and future.get() succeed, and the replayed log takes the record.
Republish(rec) ==
  /\ Take(rec)
  /\ ~IsSpent(rec) /\ ~IsRepeat(rec)
  /\ topic' = topic \union {rec.article}
  /\ seenKeys' = seenKeys \union {ReplayKeyOf[rec.article]}
  /\ replayed' = replayed \union {rec.article}
  /\ UNCHANGED <<skipped, remaining, hopeless>>

\* A faulty variant of NextAttempt: the failed record goes back as it was.
SameAttempt(rec) == rec

NextAttempt(rec) == [rec EXCEPT !.attempt = @ + 1]

\* Anything in the try block fails.  The message may have arrived although
\* future.get() timed out; or it did arrive, was noted in seen_urls, and the
\* append to the replayed log failed.
RetryLater(rec) ==
  /\ Take(rec)
  /\ ~IsSpent(rec) /\ ~IsRepeat(rec)
  /\ \E arrived \in BOOLEAN, noted \in BOOLEAN :
       /\ noted => arrived
       /\ topic' = IF arrived THEN topic \union {rec.article} ELSE topic
       /\ seenKeys' = IF noted THEN seenKeys \union {ReplayKeyOf[rec.article]} ELSE seenKeys
  /\ remaining' = remaining \union {NextAttempt(rec)}
  /\ UNCHANGED <<replayed, skipped, hopeless>>

\* _rewrite_dead_letter puts `remaining` in the place of whatever the file holds
\* by now, the lines appended since the read included.
RewriteDeadLetter ==
  /\ rpc = "publish"
  /\ todo = {}
  /\ deadLetter' = remaining
  /\ drops' = drops
       \union Because(ArticlesIn(deadLetter \ records), "overwritten")
       \union Because(ArticlesIn(skipped) \ topic, "collapsed")
  /\ rpc' = "park"
  /\ UNCHANGED <<topic, crashes, replayed, permanent, batchVars>>

EndReplay ==
  /\ rpc' = "idle"
  /\ records' = {} /\ todo' = {} /\ seenKeys' = {}
  /\ skipped' = {} /\ remaining' = {} /\ hopeless' = {}
  /\ UNCHANGED <<topic, deadLetter, replayed>>

\* _append_permanent_failed.
Park ==
  /\ rpc = "park"
  /\ permanent' = permanent \union hopeless
  /\ EndReplay
  /\ UNCHANGED <<drops, crashes>>

CrashReplay ==
  /\ rpc # "idle"
  /\ crashes < MaxCrashes
  /\ crashes' = crashes + 1
  /\ drops' = IF rpc = "park"
              THEN drops \union Because(ArticlesIn(hopeless), "unparked") ELSE drops
  /\ EndReplay
  /\ UNCHANGED permanent

ReplayStep ==
  \/ StartReplay
  \/ \E rec \in DeadLetterRecord :
       GiveUp(rec) \/ Skip(rec) \/ Republish(rec) \/ RetryLater(rec)
  \/ RewriteDeadLetter
  \/ Park

ReplayNext == ReplayStep \/ CrashReplay
=============================================================================
