--------------------------- MODULE EventDetector ----------------------------
(***************************************************************************)
(* analytics/event_detector.py, run by the DAG keyword_event_detection     *)
(* (max_active_runs=1, one retry), and replace_keyword_events of           *)
(* storage/news_db.py.  The trends it reads keep changing under it: the    *)
(* streaming job upserts them and a backfill rewrites or removes them.     *)
(*                                                                         *)
(* Time is counted in units that divide both the window length and the     *)
(* DAG's interval: five minutes for the windows of ten and the interval of *)
(* fifteen that the program is configured with.  A window is named by its  *)
(* start, a keyword stands for a (provider, domain, keyword) group, and of *)
(* an event the model keeps the fields the others are computed from.       *)
(***************************************************************************)
EXTENDS Integers, FiniteSets, FiniteSetsExt

CONSTANTS
  Keywords,      \* (provider, domain, keyword) groups
  Counts,        \* keyword_count values; 0 stands for no row
  WindowLength,  \* keyword_window_duration
  Interval,      \* the schedule of the DAG
  Lookback,      \* lookback_hours
  NoEvent,       \* keyword_events has no row of the window
  MaxTime,       \* bound: the end of the modelled time
  MaxWrites      \* bound: changes of keyword_trends

ASSUME DetectorAssumption ==
  /\ IsFiniteSet(Counts) /\ Counts \subseteq Nat /\ 0 \in Counts
  /\ WindowLength \in Nat \ {0} /\ Interval \in Nat \ {0}
  /\ Lookback \in Nat \ {0}
  /\ MaxTime \in Nat /\ MaxWrites \in Nat
  /\ NoEvent \notin [current : Nat, prev : Nat, spike : BOOLEAN]

VARIABLES
  now,       \* the clock
  trends,    \* keyword_trends: keyword_count of a keyword and window
  writes,    \* changes of keyword_trends so far
  events,    \* keyword_events
  until,     \* data_interval_end of the last run that was triggered
  pc,        \* where that run is
  attempts,  \* attempts the run has used
  rows,      \* the trend rows it has read
  covered,   \* history: until of the last run that replaced the events
  changed,   \* history: trend rows changed since that run read them
  changing   \* history: trend rows changed since the run in progress read them

worldVars == <<now, trends, writes>>
runVars == <<until, pc, attempts, rows>>
history == <<covered, changed, changing>>
vars == <<worldVars, events, runVars, history>>

WindowStarts == {s \in 0 .. MaxTime : s % WindowLength = 0}
Group == Keywords \X WindowStarts

Event == [current : Counts \ {0}, prev : Counts, spike : BOOLEAN]

TypeOK ==
  /\ now \in 0 .. MaxTime
  /\ trends \in [Group -> Counts]
  /\ writes \in 0 .. MaxWrites
  /\ events \in [Group -> Event \union {NoEvent}]
  /\ until \in 0 .. now
  /\ pc \in {"idle", "triggered", "read"}
  /\ attempts \in 0 .. 2
  /\ rows \in [Group -> Counts]
  /\ covered \in 0 .. until
  /\ changed \subseteq Group
  /\ changing \subseteq Group

NoRows == [g \in Group |-> 0]

Init ==
  /\ now = 0
  /\ trends = NoRows
  /\ writes = 0
  /\ events = [g \in Group |-> NoEvent]
  /\ until = 0 /\ pc = "idle" /\ attempts = 0 /\ rows = NoRows
  /\ covered = 0 /\ changed = {} /\ changing = {}

-----------------------------------------------------------------------------
(* What surrounds the job.                                                 *)

Tick ==
  /\ now < MaxTime
  /\ now' = now + 1
  /\ UNCHANGED <<trends, writes, events, runVars, history>>

\* The streaming job or a backfill changes the row of a window that has begun.
WriteTrend(g, n) ==
  /\ writes < MaxWrites
  /\ g[2] < now
  /\ n # trends[g]
  /\ trends' = [trends EXCEPT ![g] = n]
  /\ writes' = writes + 1
  /\ changed' = changed \union {g}
  /\ changing' = changing \union {g}
  /\ UNCHANGED <<now, events, runVars, covered>>

-----------------------------------------------------------------------------
(* The computation.                                                        *)

\* The windows of a run: since <= window_start < until.
Window(end) == {s \in WindowStarts : end - Lookback <= s /\ s < end}

\* A faulty variant of Previous: the first of the rows, not the last before.
PreviousFirst(table, k, s, starts) ==
  LET earlier == {t \in starts : t < s /\ table[<<k, t>>] > 0} IN
    IF earlier = {} THEN 0 ELSE table[<<k, Min(earlier)>>]

\* previous_mentions: the count of the row before, of those the run has read.
Previous(table, k, s, starts) ==
  LET earlier == {t \in starts : t < s /\ table[<<k, t>>] > 0} IN
    IF earlier = {} THEN 0 ELSE table[<<k, Max(earlier)>>]

\* _safe_growth(current, previous) >= percent / 100
GrowthAtLeast(current, previous, percent) ==
  IF previous = 0 THEN current > 0
  ELSE 100 * (current - previous) >= percent * previous

Spike(current, previous) == current >= 5 /\ GrowthAtLeast(current, previous, 40)

\* A faulty variant of IsEvent: the count has to exceed the threshold.
IsEventAbove(current, previous) ==
  /\ current > 0
  /\ Spike(current, previous) \/ current > 5 \/ GrowthAtLeast(current, previous, 15)

IsEvent(current, previous) ==
  /\ current > 0
  /\ Spike(current, previous) \/ current >= 5 \/ GrowthAtLeast(current, previous, 15)

\* What a run that reads `table` detects in the window s of the keyword k.
Detected(table, k, s, starts) ==
  LET current == table[<<k, s>>]
      previous == Previous(table, k, s, starts) IN
    IF IsEvent(current, previous)
    THEN [current |-> current, prev |-> previous, spike |-> Spike(current, previous)]
    ELSE NoEvent

-----------------------------------------------------------------------------
(* The run.                                                                *)

\* The scheduler triggers the latest interval that has ended: catchup is off.
Trigger ==
  /\ pc = "idle"
  /\ until < (now \div Interval) * Interval
  /\ until' = (now \div Interval) * Interval
  /\ pc' = "triggered"
  /\ attempts' = 1
  /\ UNCHANGED <<worldVars, events, rows, history>>

ReadTrends ==
  /\ pc = "triggered"
  /\ pc' = "read"
  /\ rows' = [g \in Group |-> IF g[2] \in Window(until) THEN trends[g] ELSE 0]
  /\ changing' = {}
  /\ UNCHANGED <<worldVars, events, until, attempts, covered, changed>>

\* A faulty variant of IsDeleted: nothing is deleted, the insert upserts.
IsDeletedNever(s, end) == FALSE

\* The rows DELETE removes: those with event_time, the window's end, in the range.
IsDeleted(s, end) == end - Lookback <= s + WindowLength /\ s + WindowLength < end

\* A faulty variant of Inserted: the conflicting row is added to.
InsertedByAdding(old, event) ==
  IF old = NoEvent THEN event ELSE [event EXCEPT !.current = @ + old.current]

Inserted(old, event) == event

\* A faulty variant of AfterFailure: the task is retried for ever.
AfterFailureRetry(n) == "triggered"

AfterFailure(n) == IF n < 2 THEN "triggered" ELSE "idle"

\* The attempt ends without having reported success.  It is repeated once, with
\* the same until.
EndUnreported ==
  /\ pc' = AfterFailure(attempts)
  /\ attempts' = IF AfterFailure(attempts) = "idle" THEN 0 ELSE attempts + 1

EndReported == pc' = "idle" /\ attempts' = 0

\* One transaction: delete the range, then insert, a row that is there updated.
\* The task may die after the commit, before the scheduler hears of it.
ReplaceEvents ==
  /\ pc = "read"
  /\ events' =
       [g \in Group |->
          LET event == IF g[2] \in Window(until)
                       THEN Detected(rows, g[1], g[2], Window(until)) ELSE NoEvent
              old == IF IsDeleted(g[2], until) THEN NoEvent ELSE events[g] IN
            IF event = NoEvent THEN old ELSE Inserted(old, event)]
  /\ EndReported \/ EndUnreported
  /\ rows' = NoRows
  /\ covered' = until
  /\ changed' = changing
  /\ changing' = {}
  /\ UNCHANGED <<worldVars, until>>

\* The task fails and nothing is committed.
FailRun ==
  /\ pc # "idle"
  /\ EndUnreported
  /\ rows' = NoRows
  /\ changing' = {}
  /\ UNCHANGED <<worldVars, events, until, covered, changed>>

-----------------------------------------------------------------------------
Next ==
  \/ Tick
  \/ \E g \in Group, n \in Counts : WriteTrend(g, n)
  \/ Trigger \/ ReadTrends \/ ReplaceEvents
  \/ FailRun

Spec == Init /\ [][Next]_vars

-----------------------------------------------------------------------------
(* Properties.                                                             *)

\* The windows of the last run whose events it has both deleted and recomputed.
Settled(end) == {s \in Window(end) : s + WindowLength < end}

Unchanged(k, s) == \A t \in Window(covered) : t <= s => <<k, t>> \notin changed

\* Between runs, the events of the last run's windows are what its trends call for:
\* no event of an earlier run outlives a trend row that a backfill lowered or
\* removed, whatever was written while the run was between its read and its
\* replacement.
EventsMatchTrends ==
  \A k \in Keywords, s \in Settled(covered) :
    Unchanged(k, s) => events[<<k, s>>] = Detected(trends, k, s, Window(covered))

\* A row of keyword_trends that qualifies for an event, late ones included, has it
\* by the end of the first run that reads it.
QualifyingRowsHaveEvents ==
  \A k \in Keywords, s \in Window(covered) :
    Unchanged(k, s) /\ trends[<<k, s>>] >= 5 =>
      events[<<k, s>>] # NoEvent /\ events[<<k, s>>].current = trends[<<k, s>>]

\* STEP4_ANALYTICS.md: running the job again for the same until recreates the same
\* events.  So the retry of a task that had committed changes nothing, unless the
\* trends did.
RerunChangesNothing ==
  [][ReplaceEvents /\ until = covered /\ changed = {} /\ changing = {} => events' = events]_vars

\* While the trends stay the same, a later run gives an event other prev_mentions
\* only when every earlier row of the keyword has left the lookback.  (It does so
\* then: the oldest event of a run compares with nothing.)
PreviousLostOnlyAtTheEdge ==
  [][\A k \in Keywords, s \in WindowStarts :
       /\ changed \union changing = {}
       /\ events[<<k, s>>] # NoEvent /\ events'[<<k, s>>] # NoEvent
       /\ events'[<<k, s>>].prev # events[<<k, s>>].prev
       => \A t \in Window(until) : t < s => trends[<<k, t>>] = 0]_vars

-----------------------------------------------------------------------------
(* The inductive invariant behind these properties.                        *)

\* What a run has read is still there, but for the rows that changed since.
RowsInv ==
  pc = "read" =>
    \A k \in Keywords, s \in Window(until) :
      <<k, s>> \notin changing => rows[<<k, s>>] = trends[<<k, s>>]

\* The last run has left its detections in its windows, and nothing in windows
\* it deleted; windows it neither deleted nor found an event in keep theirs.
EventsInv ==
  \A k \in Keywords, s \in WindowStarts :
    LET detected == Detected(trends, k, s, Window(covered)) IN
      /\ s \in Window(covered) /\ Unchanged(k, s) =>
           /\ detected # NoEvent => events[<<k, s>>] = detected
           /\ detected = NoEvent /\ IsDeleted(s, covered) => events[<<k, s>>] = NoEvent
      /\ s \notin Window(covered) /\ IsDeleted(s, covered) => events[<<k, s>>] = NoEvent

\* No run has found an event in a window that begins after the last one ended.
NoneAhead ==
  \A k \in Keywords, s \in WindowStarts : covered <= s => events[<<k, s>>] = NoEvent

DetectorInv == TypeOK /\ RowsInv /\ EventsInv /\ NoneAhead
=============================================================================
