------------------------ MODULE IngestPipeline_proofs ------------------------
(***************************************************************************)
(* Proofs about IngestPipeline for every set of providers, queries and     *)
(* articles and every bound.                                               *)
(***************************************************************************)
EXTENDS IngestPipeline, TLAPS

USE IngestDataAssumption, ProducerBounds

LEMMA TypeInit == Init => TypeOK
  BY DEF Init, SharedInit, ProducerInit, ReplayInit,
         TypeOK, SharedTypeOK, ProducerTypeOK, ReplayTypeOK, Outcome

\* Every step of a producer, of the Kafka client or of the outside world keeps
\* the variables in their types.
LEMMA TypeProducer ==
  ASSUME TypeOK, ProducerNext, UNCHANGED replayVars
  PROVE  TypeOK'
<1> USE DEF TypeOK, SharedTypeOK, ProducerTypeOK, ReplayTypeOK, Outcome,
            sharedVars, worldVars, stateFile, runVars, replayVars, batchVars
<1>1. ASSUME NEW a \in Articles, PublishNews(a)
      PROVE  TypeOK'
  BY <1>1 DEF PublishNews
<1>2. ASSUME NEW q \in Queries, ToggleQuery(q)
      PROVE  TypeOK'
  BY <1>2 DEF ToggleQuery
<1>3. ASSUME NEW p \in Providers, StartRun(p)
      PROVE  TypeOK'
  BY <1>3 DEF StartRun
<1>4. ASSUME NEW p \in Providers, NEW q \in Queries, Fetch(p, q)
      PROVE  TypeOK'
  BY <1>4 DEF Fetch, Candidates, Because, DropCause
<1>5. ASSUME NEW p \in Providers, NEW q \in Queries, FinishQuery(p, q)
      PROVE  TypeOK'
  BY <1>5 DEF FinishQuery, LoopResult
<1>6. ASSUME NEW p \in Providers, NEW a \in Articles, SkipSeen(p, a)
      PROVE  TypeOK'
  BY <1>6 DEF SkipSeen
<1>7. ASSUME NEW p \in Providers, NEW a \in Articles, Send(p, a)
      PROVE  TypeOK'
  BY <1>7 DEF Send
<1>8. ASSUME NEW p \in Providers, NEW a \in Articles, PublishToDeadLetter(p, a)
      PROVE  TypeOK'
  BY <1>8 DEF PublishToDeadLetter, AppendDeadLetter, DeadLetterRecord
<1>9. ASSUME NEW p \in Providers, SaveState(p)
      PROVE  TypeOK'
  BY <1>9 DEF SaveState, NewTimestamp, ForgetLoop
<1>10. ASSUME NEW p \in Providers, FlushReturns(p)
       PROVE  TypeOK'
  BY <1>10 DEF FlushReturns
<1>11. ASSUME NEW p \in Providers, NEW a \in Articles, DrainSendError(p, a)
       PROVE  TypeOK'
  BY <1>11 DEF DrainSendError, AppendDeadLetter, DeadLetterRecord
<1>12. ASSUME NEW p \in Providers, EndRun(p)
       PROVE  TypeOK'
  BY <1>12 DEF EndRun, ForgetRun, ForgetLoop, Because, DropCause
<1>13. ASSUME NEW p \in Providers, Crash(p)
       PROVE  TypeOK'
  BY <1>13 DEF Crash, ForgetRun, ForgetLoop, Because, DropCause
<1>14. ASSUME NEW p \in Providers, NEW a \in Articles, DeliverOk(p, a)
       PROVE  TypeOK'
  BY <1>14 DEF DeliverOk
<1>15. ASSUME NEW p \in Providers, NEW a \in Articles, DeliverError(p, a)
       PROVE  TypeOK'
  BY <1>15 DEF DeliverError, Remember
<1> QED
  BY <1>1, <1>2, <1>3, <1>4, <1>5, <1>6, <1>7, <1>8, <1>9, <1>10, <1>11, <1>12, <1>13,
     <1>14, <1>15
     DEF ProducerNext, WorldNext, RunNext, CallbackNext

\* So does every step of the replay: a record it writes back still has an attempt
\* within the limit.
LEMMA TypeReplay ==
  ASSUME TypeOK, ReplayNext, UNCHANGED producerVars
  PROVE  TypeOK'
<1> USE DEF TypeOK, SharedTypeOK, ProducerTypeOK, ReplayTypeOK, Outcome,
            sharedVars, worldVars, stateFile, runVars, producerVars, batchVars
<1>1. CASE StartReplay
  BY <1>1 DEF StartReplay
<1>2. ASSUME NEW rec \in DeadLetterRecord, GiveUp(rec)
      PROVE  TypeOK'
  BY <1>2 DEF GiveUp, Take
<1>3. ASSUME NEW rec \in DeadLetterRecord, Skip(rec)
      PROVE  TypeOK'
  BY <1>3 DEF Skip, Take
<1>4. ASSUME NEW rec \in DeadLetterRecord, Republish(rec)
      PROVE  TypeOK'
  BY <1>4 DEF Republish, Take, DeadLetterRecord
<1>5. ASSUME NEW rec \in DeadLetterRecord, RetryLater(rec)
      PROVE  TypeOK'
  <2>1. [rec EXCEPT !.attempt = @ + 1] \in DeadLetterRecord
    BY <1>5 DEF RetryLater, IsSpent, DeadLetterRecord
  <2> QED
    BY <1>5, <2>1 DEF RetryLater, NextAttempt, Take, DeadLetterRecord
<1>6. CASE RewriteDeadLetter
  BY <1>6 DEF RewriteDeadLetter, Because, DropCause, ArticlesIn, DeadLetterRecord
<1>7. CASE Park
  BY <1>7 DEF Park, EndReplay
<1>8. CASE CrashReplay
  BY <1>8 DEF CrashReplay, EndReplay, Because, DropCause, ArticlesIn, DeadLetterRecord
<1> QED
  BY <1>1, <1>2, <1>3, <1>4, <1>5, <1>6, <1>7, <1>8 DEF ReplayNext, ReplayStep

LEMMA TypeStep == TypeOK /\ [Next]_vars => TypeOK'
<1>1. ASSUME TypeOK, UNCHANGED vars
      PROVE  TypeOK'
  BY <1>1 DEF vars, sharedVars, producerVars, replayVars, worldVars, stateFile, runVars,
              batchVars, TypeOK, SharedTypeOK, ProducerTypeOK, ReplayTypeOK
<1> QED
  BY <1>1, TypeProducer, TypeReplay DEF Next

\* Every variable stays in its type, in every behaviour of the pipeline.
THEOREM TypeCorrect == Spec => []TypeOK
  BY TypeInit, TypeStep, PTL DEF Spec

-----------------------------------------------------------------------------
(* Nothing an article's accounting rests on is given up without a trace.   *)

LEMMA AccountedProducer ==
  ASSUME TypeOK, ProducerNext, UNCHANGED replayVars,
         NEW a \in Articles, Accounted(a)
  PROVE  Accounted(a)'
<1> USE DEF Accounted, Kept, Dropped, Parked, Unsettled, ArticlesIn,
            TypeOK, SharedTypeOK, ProducerTypeOK,
            sharedVars, worldVars, stateFile, runVars, replayVars, batchVars
<1>1. ASSUME NEW b \in Articles, PublishNews(b)
      PROVE  Accounted(a)'
  BY <1>1 DEF PublishNews
<1>2. ASSUME NEW q \in Queries, ToggleQuery(q)
      PROVE  Accounted(a)'
  BY <1>2 DEF ToggleQuery
<1>3. ASSUME NEW p \in Providers, StartRun(p)
      PROVE  Accounted(a)'
  BY <1>3 DEF StartRun
<1>4. ASSUME NEW p \in Providers, NEW q \in Queries, Fetch(p, q)
      PROVE  Accounted(a)'
  BY <1>4 DEF Fetch
<1>5. ASSUME NEW p \in Providers, NEW q \in Queries, FinishQuery(p, q)
      PROVE  Accounted(a)'
  BY <1>5 DEF FinishQuery, LoopResult
<1>6. ASSUME NEW p \in Providers, NEW b \in Articles, SkipSeen(p, b)
      PROVE  Accounted(a)'
  BY <1>6 DEF SkipSeen
<1>7. ASSUME NEW p \in Providers, NEW b \in Articles, Send(p, b)
      PROVE  Accounted(a)'
  BY <1>7 DEF Send
<1>8. ASSUME NEW p \in Providers, NEW b \in Articles, PublishToDeadLetter(p, b)
      PROVE  Accounted(a)'
  BY <1>8 DEF PublishToDeadLetter, AppendDeadLetter
<1>9. ASSUME NEW p \in Providers, SaveState(p)
      PROVE  Accounted(a)'
  <2>1. Unsettled(a) => Unsettled(a)'
    BY <1>9 DEF SaveState
  <2> QED
    BY <1>9, <2>1 DEF SaveState
<1>10. ASSUME NEW p \in Providers, FlushReturns(p)
       PROVE  Accounted(a)'
  BY <1>10 DEF FlushReturns
<1>11. ASSUME NEW p \in Providers, NEW b \in Articles, DrainSendError(p, b)
       PROVE  Accounted(a)'
  <2>1. CASE a = b
    <3>1. [article |-> b, attempt |-> 1] \in deadLetter'
      BY <1>11 DEF DrainSendError, AppendDeadLetter
    <3> QED
      BY <2>1, <3>1
  <2>2. CASE a # b
    <3>1. Unsettled(a) => Unsettled(a)'
      BY <1>11, <2>2 DEF DrainSendError
    <3>2. a \in ArticlesIn(deadLetter) => a \in ArticlesIn(deadLetter')
      BY <1>11 DEF DrainSendError, AppendDeadLetter
    <3> QED
      BY <1>11, <3>1, <3>2 DEF DrainSendError
  <2> QED
    BY <2>1, <2>2
<1>12. ASSUME NEW p \in Providers, ForgetRun(p)
       PROVE  Accounted(a)'
  BY <1>12 DEF ForgetRun, ForgetLoop, Because, DropCause
<1>13. ASSUME NEW p \in Providers, NEW b \in Articles, DeliverOk(p, b)
       PROVE  Accounted(a)'
  BY <1>13 DEF DeliverOk
<1>14. ASSUME NEW p \in Providers, NEW b \in Articles, DeliverError(p, b)
       PROVE  Accounted(a)'
  BY <1>14 DEF DeliverError, Remember
<1> QED
  BY <1>1, <1>2, <1>3, <1>4, <1>5, <1>6, <1>7, <1>8, <1>9, <1>10, <1>11, <1>12, <1>13,
     <1>14
     DEF ProducerNext, WorldNext, RunNext, CallbackNext, EndRun, Crash

\* The rewrite is where a replay could lose a record: BatchInv says where each one
\* of the batch went, and the others are recorded as overwritten.
LEMMA AccountedReplay ==
  ASSUME TypeOK, BatchInv, ReplayNext, UNCHANGED producerVars,
         NEW a \in Articles, Accounted(a)
  PROVE  Accounted(a)'
<1> USE DEF Accounted, Kept, Dropped, Parked, Unsettled, ArticlesIn,
            sharedVars, runVars, producerVars, batchVars
<1>1. CASE StartReplay
  BY <1>1 DEF StartReplay
<1>2. ASSUME NEW rec \in DeadLetterRecord, GiveUp(rec)
      PROVE  Accounted(a)'
  BY <1>2 DEF GiveUp, Take
<1>3. ASSUME NEW rec \in DeadLetterRecord, Skip(rec)
      PROVE  Accounted(a)'
  BY <1>3 DEF Skip, Take
<1>4. ASSUME NEW rec \in DeadLetterRecord, Republish(rec)
      PROVE  Accounted(a)'
  BY <1>4 DEF Republish, Take
<1>5. ASSUME NEW rec \in DeadLetterRecord, RetryLater(rec)
      PROVE  Accounted(a)'
  BY <1>5 DEF RetryLater, Take
<1>6. CASE RewriteDeadLetter
  <2>1. CASE a \in ArticlesIn(deadLetter)
    <3>1. PICK rec \in deadLetter : rec.article = a
      BY <2>1
    <3>2. CASE rec \in records
      BY <1>6, <3>1, <3>2 DEF RewriteDeadLetter, BatchInv, Because, DropCause
    <3>3. CASE rec \notin records
      BY <1>6, <3>1, <3>3 DEF RewriteDeadLetter, Because, DropCause
    <3> QED
      BY <3>2, <3>3
  <2>2. CASE a \notin ArticlesIn(deadLetter)
    BY <1>6, <2>2 DEF RewriteDeadLetter
  <2> QED
    BY <2>1, <2>2
<1>7. CASE Park
  BY <1>7 DEF Park, EndReplay
<1>8. CASE CrashReplay
  BY <1>8 DEF CrashReplay, EndReplay, Because, DropCause
<1> QED
  BY <1>1, <1>2, <1>3, <1>4, <1>5, <1>6, <1>7, <1>8 DEF ReplayNext, ReplayStep

LEMMA AccountedStays ==
  ASSUME TypeOK, BatchInv, [Next]_vars, NEW a \in Articles, Accounted(a)
  PROVE  Accounted(a)'
<1>1. CASE UNCHANGED vars
  BY <1>1 DEF vars, sharedVars, producerVars, replayVars, runVars, batchVars,
              Accounted, Kept, Dropped, Parked, Unsettled, ArticlesIn
<1> QED
  BY <1>1, AccountedProducer, AccountedReplay DEF Next

\* What a collecting run holds it keeps in hand as long as it collects.
LEMMA InHandStays ==
  ASSUME TypeOK, BatchInv, [Next]_vars,
         NEW p \in Providers, pc[p] = "collect", pc'[p] = "collect",
         NEW a \in Articles, InHand(p, a)
  PROVE  InHand(p, a)'
<1>1. CASE Accounted(a)
  BY <1>1, AccountedStays DEF InHand
<1>2. CASE a \in inFlight[p] \union sendErrors[p]
  <2> USE DEF InHand, TypeOK, ProducerTypeOK, runVars
  <2>1. CASE UNCHANGED <<inFlight, sendErrors>>
    BY <1>2, <2>1
  <2>2. ASSUME NEW r \in Providers, NEW b \in Articles, DeliverOk(r, b)
        PROVE  InHand(p, a)'
    BY <1>2, <2>2 DEF DeliverOk, Accounted, Kept
  <2>3. ASSUME NEW r \in Providers, NEW b \in Articles, DeliverError(r, b)
        PROVE  InHand(p, a)'
    BY <1>2, <2>3 DEF DeliverError, Remember
  <2>4. ASSUME NEW r \in Providers, NEW b \in Articles, Send(r, b)
        PROVE  InHand(p, a)'
    BY <1>2, <2>4 DEF Send
  <2>5. ASSUME NEW r \in Providers, NEW b \in Articles, DrainSendError(r, b)
        PROVE  InHand(p, a)'
    BY <1>2, <2>5 DEF DrainSendError
  <2>6. ASSUME NEW r \in Providers, ForgetRun(r)
        PROVE  InHand(p, a)'
    BY <1>2, <2>6 DEF ForgetRun
  <2> QED
    BY <2>1, <2>2, <2>3, <2>4, <2>5, <2>6
       DEF Next, ProducerNext, WorldNext, RunNext, CallbackNext, EndRun, Crash,
           PublishNews, ToggleQuery, StartRun, Fetch, FinishQuery, SkipSeen,
           PublishToDeadLetter, SaveState, FlushReturns, producerVars, vars
<1> QED
  BY <1>1, <1>2 DEF InHand

-----------------------------------------------------------------------------
(* The accounting invariant.                                               *)

LEMMA AccountInit == Init => AccountInv
  BY TypeInit DEF Init, SharedInit, ProducerInit, ReplayInit, AccountInv, LoopInv, BatchInv,
                  PassedIsAccountedFor, Passed, SkippedIsAccountedFor, ParkedOnlyWhenSpent

\* A save is the only step that lets a checkpoint or published_urls pass an article,
\* and the loop has accounted for all of those.
LEMMA SaveStep ==
  ASSUME AccountInv, NEW p \in Providers, SaveState(p), UNCHANGED replayVars
  PROVE  /\ \A q \in Queries \ stamped' : keywordTimestamps'[q] = {}
         /\ PassedIsAccountedFor'
         /\ SkippedIsAccountedFor'
<1> USE DEF TypeOK, ProducerTypeOK
<1>1. ASSUME NEW a \in Articles, InHand(p, a)
      PROVE  Accounted(a)'
  <2>1. pc'[p] = "flush" /\ inFlight' = inFlight /\ sendErrors' = sendErrors
    BY DEF SaveState, AccountInv
  <2>2. CASE a \in inFlight[p] \union sendErrors[p]
    BY <2>1, <2>2 DEF Accounted, Kept, Unsettled
  <2>3. CASE Accounted(a)
    BY <2>3, AccountedStays DEF AccountInv, Next, ProducerNext, RunNext
  <2> QED
    BY <1>1, <2>2, <2>3 DEF InHand
<1>2. \A a \in Articles : Accounted(a) => Accounted(a)'
  BY <1>1 DEF InHand
<1>3. \A q \in Queries \ stamped' : keywordTimestamps'[q] = {}
  BY DEF SaveState, NewTimestamp, AccountInv, QueriesOf
<1>4. ASSUME NEW a \in Articles, NEW q \in stamped', a \in Found[q], a \in keywordTimestamps'[q]
      PROVE  Accounted(a)'
  <2>1. CASE ProviderOf[q] # p \/ outcome[q] = "failed"
    <3>1. q \in stamped /\ a \in keywordTimestamps[q]
      BY <1>4, <2>1 DEF SaveState, NewTimestamp, AccountInv
    <3> QED
      BY <1>2, <1>4, <3>1 DEF AccountInv, PassedIsAccountedFor, Passed, Accounted
  <2>2. CASE ~(ProviderOf[q] # p \/ outcome[q] = "failed")
    <3>1. q \in Queries /\ outcome[q] = "ok" /\ a \in startedAt[p]
      BY <1>4, <2>2 DEF SaveState, NewTimestamp, AccountInv
    <3>2. InHand(p, a)
      BY <1>4, <2>2, <3>1 DEF AccountInv, LoopInv
    <3> QED
      BY <1>1, <3>2
  <2> QED
    BY <2>1, <2>2
<1>5. PassedIsAccountedFor'
  BY <1>4 DEF PassedIsAccountedFor, Passed, Accounted
<1>6. ASSUME NEW r \in Providers, NEW a \in publishedUrls'[r]
      PROVE  Accounted(a)'
  <2>1. CASE r = p
    <3>1. a \in seen[p] /\ a \in Articles /\ pc[p] = "collect"
      BY <1>6, <2>1 DEF SaveState, AccountInv
    <3> QED
      BY <1>1, <3>1 DEF AccountInv, LoopInv
  <2>2. CASE r # p
    <3>1. a \in publishedUrls[r] /\ a \in Articles
      BY <1>6, <2>2 DEF SaveState, AccountInv
    <3> QED
      BY <1>2, <3>1 DEF AccountInv, SkippedIsAccountedFor, Accounted
  <2> QED
    BY <2>1, <2>2
<1> QED
  BY <1>3, <1>5, <1>6 DEF SkippedIsAccountedFor, Accounted

\* Only the save of a run writes the state file.
LEMMA StateFileWriter ==
  ASSUME [Next]_vars
  PROVE  \/ UNCHANGED stateFile
         \/ \E p \in Providers : SaveState(p) /\ UNCHANGED replayVars
<1>1. ASSUME NEW p \in Providers, RunNext(p), ~SaveState(p)
      PROVE  UNCHANGED stateFile
  <2>1. ASSUME NEW q \in Queries, Fetch(p, q) \/ FinishQuery(p, q)
        PROVE  UNCHANGED stateFile
    BY <2>1 DEF Fetch, FinishQuery
  <2>2. ASSUME NEW a \in Articles, SkipSeen(p, a) \/ Send(p, a) \/ PublishToDeadLetter(p, a)
        PROVE  UNCHANGED stateFile
    BY <2>2 DEF SkipSeen, Send, PublishToDeadLetter
  <2>3. ASSUME NEW a \in Articles, DrainSendError(p, a)
        PROVE  UNCHANGED stateFile
    BY <2>3 DEF DrainSendError
  <2>4. StartRun(p) \/ FlushReturns(p) \/ EndRun(p) => UNCHANGED stateFile
    BY DEF StartRun, FlushReturns, EndRun, ForgetRun
  <2> QED
    BY <1>1, <2>1, <2>2, <2>3, <2>4 DEF RunNext
<1>2. ASSUME NEW p \in Providers, CallbackNext(p) \/ Crash(p)
      PROVE  UNCHANGED stateFile
  BY <1>2 DEF CallbackNext, DeliverOk, DeliverError, Crash, ForgetRun
<1>3. WorldNext => UNCHANGED stateFile
  BY DEF WorldNext, PublishNews, ToggleQuery
<1>4. UNCHANGED producerVars \/ UNCHANGED vars => UNCHANGED stateFile
  BY DEF producerVars, vars
<1> QED
  BY <1>1, <1>2, <1>3, <1>4 DEF Next, ProducerNext

LEMMA StateFileStep ==
  ASSUME AccountInv, [Next]_vars
  PROVE  /\ \A q \in Queries \ stamped' : keywordTimestamps'[q] = {}
         /\ PassedIsAccountedFor'
         /\ SkippedIsAccountedFor'
<1>1. CASE UNCHANGED stateFile
  <2>1. \A a \in Articles : Accounted(a) => Accounted(a)'
    BY AccountedStays DEF AccountInv
  <2>2. \A p \in Providers : publishedUrls[p] \subseteq Articles
    BY DEF AccountInv, TypeOK, ProducerTypeOK
  <2> QED
    BY <1>1, <2>1, <2>2
       DEF AccountInv, stateFile, PassedIsAccountedFor, Passed, SkippedIsAccountedFor,
           Accounted
<1>2. ASSUME NEW p \in Providers, SaveState(p), UNCHANGED replayVars
      PROVE  /\ \A q \in Queries \ stamped' : keywordTimestamps'[q] = {}
             /\ PassedIsAccountedFor'
             /\ SkippedIsAccountedFor'
  BY <1>2, SaveStep
<1> QED
  BY <1>1, <1>2, StateFileWriter

\* No step of a producer takes a message out of the topic.
LEMMA TopicGrows == ProducerNext => topic \subseteq topic'
<1>1. ASSUME NEW p \in Providers, CallbackNext(p)
      PROVE  topic \subseteq topic'
  <2>1. ASSUME NEW b \in Articles, DeliverOk(p, b) \/ DeliverError(p, b)
        PROVE  topic \subseteq topic'
    BY <2>1 DEF DeliverOk, DeliverError
  <2> QED
    BY <1>1, <2>1 DEF CallbackNext
<1>2. ASSUME NEW p \in Providers, RunNext(p) \/ Crash(p)
      PROVE  topic' = topic
  <2>1. ASSUME NEW q \in Queries, Fetch(p, q) \/ FinishQuery(p, q)
        PROVE  topic' = topic
    BY <2>1 DEF Fetch, FinishQuery, sharedVars
  <2>2. ASSUME NEW a \in Articles, SkipSeen(p, a) \/ Send(p, a) \/ PublishToDeadLetter(p, a)
        PROVE  topic' = topic
    BY <2>2 DEF SkipSeen, Send, PublishToDeadLetter, sharedVars
  <2>3. ASSUME NEW a \in Articles, DrainSendError(p, a)
        PROVE  topic' = topic
    BY <2>3 DEF DrainSendError
  <2>4. StartRun(p) \/ SaveState(p) \/ FlushReturns(p) => topic' = topic
    BY DEF StartRun, SaveState, FlushReturns, sharedVars
  <2>5. EndRun(p) \/ Crash(p) => topic' = topic
    BY DEF EndRun, Crash, ForgetRun
  <2> QED
    BY <1>2, <2>1, <2>2, <2>3, <2>4, <2>5 DEF RunNext
<1>3. WorldNext => topic' = topic
  BY DEF WorldNext, PublishNews, ToggleQuery, sharedVars
<1> QED
  BY <1>1, <1>2, <1>3 DEF ProducerNext

LEMMA BatchStep ==
  ASSUME AccountInv, [Next]_vars
  PROVE  BatchInv' /\ ParkedOnlyWhenSpent'
<1> USE DEF AccountInv, BatchInv, ParkedOnlyWhenSpent, ArticlesIn, replayVars, batchVars
<1>1. CASE UNCHANGED replayVars /\ topic \subseteq topic'
  BY <1>1
<1>2. CASE StartReplay
  BY <1>2 DEF StartReplay
<1>3. ASSUME NEW rec \in DeadLetterRecord, GiveUp(rec)
      PROVE  BatchInv' /\ ParkedOnlyWhenSpent'
  <2>1. rec.article \in Invalid \/ rec.attempt = MaxRetryAttempts
    BY <1>3 DEF GiveUp, IsSpent, DeadLetterRecord
  <2> QED
    BY <1>3, <2>1 DEF GiveUp, Take
<1>4. ASSUME NEW rec \in DeadLetterRecord, Skip(rec)
      PROVE  BatchInv' /\ ParkedOnlyWhenSpent'
  BY <1>4 DEF Skip, Take
<1>5. ASSUME NEW rec \in DeadLetterRecord, Republish(rec)
      PROVE  BatchInv' /\ ParkedOnlyWhenSpent'
  BY <1>5 DEF Republish, Take
<1>6. ASSUME NEW rec \in DeadLetterRecord, RetryLater(rec)
      PROVE  BatchInv' /\ ParkedOnlyWhenSpent'
  <2>1. [rec EXCEPT !.attempt = @ + 1].article = rec.article
    BY DEF DeadLetterRecord
  <2>2. rec.article \in ArticlesIn(remaining')
    BY <1>6, <2>1 DEF RetryLater, NextAttempt
  <2> QED
    BY <1>6, <2>2 DEF RetryLater, Take
<1>7. CASE RewriteDeadLetter
  BY <1>7 DEF RewriteDeadLetter
<1>8. CASE Park
  BY <1>8 DEF Park, EndReplay
<1>9. CASE CrashReplay
  BY <1>9 DEF CrashReplay, EndReplay
<1>10. ProducerNext => topic \subseteq topic'
  BY TopicGrows
<1>11. UNCHANGED vars => topic \subseteq topic' /\ UNCHANGED replayVars
  BY DEF vars, sharedVars
<1> QED
  BY <1>1, <1>2, <1>3, <1>4, <1>5, <1>6, <1>7, <1>8, <1>9, <1>10, <1>11
     DEF Next, ReplayNext, ReplayStep

\* The steps of the collection loop of p: what a query's checkpoint will pass is in
\* hand when the query is finished.
LEMMA LoopStep ==
  ASSUME AccountInv, [Next]_vars
  PROVE  LoopInv'
<1> USE DEF AccountInv, TypeOK, ProducerTypeOK
<1> DEFINE Collecting(p) == pc[p] = "collect" /\ pc'[p] = "collect"
<1>1. \A p \in Providers : Collecting(p) =>
        \A a \in Articles : InHand(p, a) => InHand(p, a)'
  BY InHandStays
<1>2. CASE UNCHANGED <<pc, startedAt, seen, outcome, fetchOk, pending>>
  BY <1>1, <1>2 DEF LoopInv
<1>3. ASSUME NEW p \in Providers, StartRun(p)
      PROVE  LoopInv'
  <2>1. \A a \in Articles : Accounted(a) => Accounted(a)'
    BY AccountedStays
  <2>2. \A a \in seen'[p] : InHand(p, a)'
    BY <1>3, <2>1 DEF StartRun, SkippedIsAccountedFor, InHand, Accounted
  <2> QED
    BY <1>1, <1>3, <2>2 DEF LoopInv, StartRun
<1>4. ASSUME NEW p \in Providers, NEW q \in Queries, Fetch(p, q)
      PROVE  LoopInv'
  <2>1. ASSUME fetchOk'[p],
               NEW a \in (startedAt[p] \intersect Found[q]) \ pending'[p]
        PROVE  InHand(p, a)'
    <3>0. a \in Articles /\ pc[p] = "collect" /\ pc' = pc
      BY <1>4, <2>1 DEF Fetch
    <3>1. CASE a \in keywordTimestamps[q]
      <4>1. Accounted(a)
        BY <2>1, <3>0, <3>1 DEF PassedIsAccountedFor, Passed, Accounted
      <4> QED
        BY <3>0, <4>1, <1>1 DEF InHand
    <3>2. CASE a \in seen[p]
      BY <3>0, <3>2, <1>1 DEF LoopInv
    <3>3. CASE a \notin keywordTimestamps[q] \union seen[p]
      <4>1. <<a, "missed">> \in drops'
        BY <1>4, <2>1, <3>3 DEF Fetch, Because
      <4> QED
        BY <4>1 DEF InHand, Accounted, Dropped, DropCause
    <3> QED
      BY <3>1, <3>2, <3>3
  <2> QED
    BY <1>1, <1>4, <2>1 DEF LoopInv, Fetch, QueriesOf
<1>5. ASSUME NEW p \in Providers, NEW q \in Queries, FinishQuery(p, q)
      PROVE  LoopInv'
  BY <1>1, <1>5 DEF LoopInv, FinishQuery, LoopResult
<1>6. ASSUME NEW p \in Providers, NEW b \in Articles,
             SkipSeen(p, b) \/ Send(p, b) \/ PublishToDeadLetter(p, b)
      PROVE  LoopInv'
  <2>1. InHand(p, b)'
    <3>1. CASE SkipSeen(p, b)
      BY <1>1, <3>1 DEF SkipSeen, LoopInv
    <3>2. CASE Send(p, b)
      BY <3>2 DEF Send, InHand
    <3>3. CASE PublishToDeadLetter(p, b)
      <4>1. [article |-> b, attempt |-> 1] \in deadLetter'
        BY <3>3 DEF PublishToDeadLetter, AppendDeadLetter
      <4> QED
        BY <4>1 DEF InHand, Accounted, Kept, ArticlesIn
    <3> QED
      BY <1>6, <3>1, <3>2, <3>3
  <2>2. /\ pc' = pc /\ startedAt' = startedAt /\ outcome' = outcome /\ fetchOk' = fetchOk
        /\ pending' = [pending EXCEPT ![p] = @ \ {b}]
        /\ seen' = seen \/ seen' = [seen EXCEPT ![p] = @ \union {b}]
        /\ pc[p] = "collect"
    BY <1>6 DEF SkipSeen, Send, PublishToDeadLetter
  <2> QED
    BY <1>1, <2>1, <2>2 DEF LoopInv
<1>7. ASSUME NEW p \in Providers, SaveState(p) \/ ForgetRun(p)
      PROVE  LoopInv'
  <2>1. /\ pc'[p] # "collect"
        /\ \A r \in Providers \ {p} : /\ pc'[r] = pc[r] /\ startedAt'[r] = startedAt[r]
                                      /\ seen'[r] = seen[r] /\ fetchOk'[r] = fetchOk[r]
                                      /\ pending'[r] = pending[r]
        /\ \A q \in Queries : outcome'[q] = IF ProviderOf[q] = p THEN "none" ELSE outcome[q]
    BY <1>7 DEF SaveState, ForgetRun, ForgetLoop
  <2> QED
    BY <1>1, <2>1 DEF LoopInv
<1>8. ASSUME NEW p \in Providers, FlushReturns(p)
      PROVE  LoopInv'
  <2>1. /\ pc'[p] # "collect" /\ pc[p] # "collect"
        /\ \A r \in Providers \ {p} : pc'[r] = pc[r]
        /\ UNCHANGED <<startedAt, seen, outcome, fetchOk, pending>>
    BY <1>8 DEF FlushReturns
  <2> QED
    BY <1>1, <2>1 DEF LoopInv
<1> QED
  BY <1>2, <1>3, <1>4, <1>5, <1>6, <1>7, <1>8
     DEF Next, ProducerNext, WorldNext, RunNext, CallbackNext, EndRun, Crash,
         PublishNews, ToggleQuery, DrainSendError, DeliverOk, DeliverError,
         producerVars, runVars, vars

LEMMA AccountStep == AccountInv /\ [Next]_vars => AccountInv'
  BY TypeStep, StateFileStep, LoopStep, BatchStep DEF AccountInv

\* In every behaviour, an article that a saved checkpoint has passed is in the topic,
\* the dead letter file, the permanent file or a run yet to settle it, or it was let
\* go of in one of the five recorded ways.
THEOREM PassedAccounted == Spec => []PassedIsAccountedFor
<1>1. AccountInv => PassedIsAccountedFor
  BY DEF AccountInv
<1> QED
  BY <1>1, AccountInit, AccountStep, PTL DEF Spec

\* The same of every article published_urls makes the later runs skip.
THEOREM SkippedAccounted == Spec => []SkippedIsAccountedFor
<1>1. AccountInv => SkippedIsAccountedFor
  BY DEF AccountInv
<1> QED
  BY <1>1, AccountInit, AccountStep, PTL DEF Spec

\* No record is parked before its attempts are used up, unless its payload is invalid.
THEOREM ParkedSpent == Spec => []ParkedOnlyWhenSpent
<1>1. AccountInv => ParkedOnlyWhenSpent
  BY DEF AccountInv
<1> QED
  BY <1>1, AccountInit, AccountStep, PTL DEF Spec

-----------------------------------------------------------------------------
(* Checkpoints only move forward.                                          *)

LEMMA ClockInit == Init => ClockInv
  BY TypeInit DEF Init, ProducerInit, ClockInv

LEMMA ClockStep == ClockInv /\ [Next]_vars => ClockInv'
<1> SUFFICES ASSUME ClockInv, [Next]_vars
             PROVE  ClockInv'
  OBVIOUS
<1> USE DEF ClockInv, TypeOK, ProducerTypeOK, QueriesOf
<1>1. TypeOK'
  BY TypeStep
<1>2. CASE UNCHANGED <<published, keywordTimestamps, pc, startedAt>>
  BY <1>1, <1>2
<1>3. ASSUME NEW a \in Articles, PublishNews(a)
      PROVE  ClockInv'
  BY <1>1, <1>3 DEF PublishNews, stateFile, runVars
<1>4. ASSUME NEW p \in Providers, StartRun(p)
      PROVE  ClockInv'
  BY <1>1, <1>4 DEF StartRun, worldVars, stateFile
<1>5. ASSUME NEW p \in Providers, SaveState(p)
      PROVE  ClockInv'
  <2>1. /\ pc'[p] = "flush" /\ published' = published /\ pc[p] = "collect"
        /\ \A r \in Providers \ {p} : pc'[r] = pc[r] /\ startedAt'[r] = startedAt[r]
    BY <1>5 DEF SaveState, ForgetLoop, worldVars
  <2>2. \A q \in Queries :
          IF ProviderOf[q] = p THEN keywordTimestamps'[q] \subseteq published
                               ELSE keywordTimestamps'[q] = keywordTimestamps[q]
    BY <1>5, <2>1 DEF SaveState, NewTimestamp
  <2> QED
    BY <1>1, <2>1, <2>2
<1>6. ASSUME NEW p \in Providers, ForgetRun(p) \/ FlushReturns(p)
      PROVE  ClockInv'
  <2>1. /\ pc'[p] # "collect" /\ published' = published
        /\ keywordTimestamps' = keywordTimestamps
        /\ \A r \in Providers \ {p} : pc'[r] = pc[r] /\ startedAt'[r] = startedAt[r]
    BY <1>6 DEF ForgetRun, ForgetLoop, FlushReturns, worldVars, stateFile
  <2> QED
    BY <1>1, <2>1
<1> QED
  BY <1>2, <1>3, <1>4, <1>5, <1>6
     DEF Next, ProducerNext, WorldNext, RunNext, CallbackNext, EndRun, Crash,
         ToggleQuery, Fetch, FinishQuery, SkipSeen, Send, PublishToDeadLetter,
         DrainSendError, DeliverOk, DeliverError, worldVars, stateFile, runVars,
         producerVars, vars

\* In every behaviour, the timestamp of a query that keeps its entry in the state file
\* never moves back: a run started after the last save of its provider.
THEOREM CheckpointForward == Spec => CheckpointNeverMovesBack
<1>1. ASSUME ClockInv, [Next]_vars, NEW q \in stamped \intersect stamped'
      PROVE  keywordTimestamps[q] \subseteq keywordTimestamps'[q]
  <2> USE DEF ClockInv, TypeOK, ProducerTypeOK, QueriesOf
  <2>1. CASE UNCHANGED stateFile
    BY <2>1 DEF stateFile
  <2>2. ASSUME NEW p \in Providers, SaveState(p)
        PROVE  keywordTimestamps[q] \subseteq keywordTimestamps'[q]
    BY <1>1, <2>2 DEF SaveState, NewTimestamp
  <2> QED
    BY <1>1, <2>1, <2>2, StateFileWriter
<1>2. ClockInv /\ [Next]_vars =>
        [\A q \in stamped \intersect stamped' :
           keywordTimestamps[q] \subseteq keywordTimestamps'[q]]_vars
  BY <1>1
<1> QED
  BY <1>2, ClockInit, ClockStep, PTL DEF Spec, CheckpointNeverMovesBack
=============================================================================
