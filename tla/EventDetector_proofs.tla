------------------------ MODULE EventDetector_proofs ------------------------
(***************************************************************************)
(* Proofs about the event detection: its type invariant, that the events   *)
(* of the windows the last run settled are those the trends call for, that *)
(* a qualifying row has its event, that a rerun changes nothing, and that  *)
(* an event loses its predecessor only at the edge of the lookback.        *)
(***************************************************************************)
EXTENDS EventDetector, WellFoundedInduction, TLAPS

-----------------------------------------------------------------------------
(* Windows and the largest of them.                                        *)

LEMMA StartsAreTimes ==
  /\ WindowStarts \subseteq 0 .. MaxTime
  /\ \A s \in WindowStarts : s \in Nat
BY DetectorAssumption DEF WindowStarts

LEMMA WindowsAreStarts ==
  ASSUME NEW end
  PROVE  Window(end) \subseteq WindowStarts
BY DEF Window

\* Max returns the largest element: there is one, as its distance to MaxTime is the
\* least of a set of natural numbers.
LEMMA MaxOf ==
  ASSUME NEW S, S \subseteq 0 .. MaxTime, S # {}
  PROVE  /\ Max(S) \in S
         /\ \A y \in S : Max(S) >= y
<1> DEFINE T == {t \in Nat : \E y \in S : t = MaxTime - y}
<1>1. MaxTime \in Nat
  BY DetectorAssumption
<1>2. T \subseteq Nat /\ T # {}
  <2>1. PICK y \in S : TRUE
    OBVIOUS
  <2>2. MaxTime - y \in T
    BY <1>1
  <2> QED BY <2>2
<1>3. PICK t \in T : \A u \in T : <<u, t>> \notin OpToRel(<, Nat)
  <2> HIDE DEF T
  <2> QED BY <1>2, NatLessThanWellFounded, WFMin
<1>4. PICK x \in S : t = MaxTime - x
  OBVIOUS
<1>5. \A y \in S : x >= y
  <2> TAKE y \in S
  <2>1. MaxTime - y \in T /\ t \in Nat
    BY <1>1
  <2>2. ~(MaxTime - y < t)
    BY <2>1, <1>3 DEF OpToRel
  <2> QED BY <2>2, <1>4, <1>1
<1>6. QED
  BY <1>5 DEF Max

-----------------------------------------------------------------------------
(* What a run detects.                                                     *)

LEMMA PreviousTyped ==
  ASSUME NEW table \in [Group -> Counts], NEW k \in Keywords, NEW s,
         NEW starts, starts \subseteq WindowStarts
  PROVE  Previous(table, k, s, starts) \in Counts
<1> DEFINE earlier == {t \in starts : t < s /\ table[<<k, t>>] > 0}
<1>1. CASE earlier = {}
  BY <1>1, DetectorAssumption DEF Previous
<1>2. CASE earlier # {}
  <2>1. Max(earlier) \in starts
    BY <1>2, MaxOf, StartsAreTimes
  <2>2. <<k, Max(earlier)>> \in Group
    BY <2>1 DEF Group
  <2>3. table[<<k, Max(earlier)>>] \in Counts
    BY <2>2
  <2> QED BY <2>3, <1>2 DEF Previous
<1> QED BY <1>1, <1>2

LEMMA EventRecord ==
  ASSUME NEW current, NEW previous, NEW spike \in BOOLEAN,
         current \in Counts, current > 0, previous \in Counts
  PROVE  LET event == [current |-> current, prev |-> previous, spike |-> spike]
         IN  event \in Event /\ event # NoEvent
<1>1. current \in Counts \ {0} /\ current \in Nat /\ previous \in Nat
  BY DetectorAssumption
<1>2. [current |-> current, prev |-> previous, spike |-> spike] \in Event
  BY <1>1 DEF Event
<1>3. [current |-> current, prev |-> previous, spike |-> spike]
        \in [current : Nat, prev : Nat, spike : BOOLEAN]
  BY <1>1
<1> QED BY <1>2, <1>3, DetectorAssumption

\* A detection is an event, with the count of its row, or none.
LEMMA DetectedTyped ==
  ASSUME NEW table \in [Group -> Counts], NEW k \in Keywords, NEW s \in WindowStarts,
         NEW starts, starts \subseteq WindowStarts
  PROVE  LET detected == Detected(table, k, s, starts) IN
           /\ detected \in Event \union {NoEvent}
           /\ table[<<k, s>>] >= 5 => detected # NoEvent /\ detected.current = table[<<k, s>>]
<1> DEFINE current == table[<<k, s>>]
           previous == Previous(table, k, s, starts)
           spike == Spike(current, previous)
           event == [current |-> current, prev |-> previous, spike |-> spike]
<1>1. current \in Counts /\ previous \in Counts
  BY PreviousTyped DEF Group
<1>2. current \in Nat
  BY <1>1, DetectorAssumption
<1>3. spike \in BOOLEAN
  BY DEF Spike
<1>4. CASE IsEvent(current, previous)
  <2>1. current > 0
    BY <1>4 DEF IsEvent
  <2>2. event \in Event /\ event # NoEvent
    <3> HIDE DEF current, previous, spike
    <3> QED BY <1>1, <1>3, <2>1, EventRecord
  <2>3. Detected(table, k, s, starts) = event
    BY <1>4 DEF Detected
  <2>4. event.current = table[<<k, s>>]
    OBVIOUS
  <2> HIDE DEF event
  <2> QED BY <2>2, <2>3, <2>4
<1>5. CASE ~IsEvent(current, previous)
  <2>1. ~(current >= 5)
    <3> HIDE DEF current, previous
    <3> QED BY <1>5, <1>2, <1>3 DEF IsEvent, Spike, GrowthAtLeast
  <2>2. Detected(table, k, s, starts) = NoEvent
    BY <1>5 DEF Detected
  <2> QED BY <2>1, <2>2
<1> QED BY <1>4, <1>5

\* A detection depends on the rows of its keyword up to its window only.
LEMMA DetectedSame ==
  ASSUME NEW table, NEW other, NEW k, NEW starts, starts \subseteq WindowStarts,
         NEW s \in starts,
         \A t \in starts : t <= s => table[<<k, t>>] = other[<<k, t>>]
  PROVE  Detected(table, k, s, starts) = Detected(other, k, s, starts)
<1>1. s \in Nat /\ \A t \in starts : t \in Nat
  BY StartsAreTimes
<1>2. table[<<k, s>>] = other[<<k, s>>]
  BY <1>1
<1> DEFINE earlier == {t \in starts : t < s /\ table[<<k, t>>] > 0}
<1>3. earlier = {t \in starts : t < s /\ other[<<k, t>>] > 0}
  <2>1. \A t \in starts : t < s => table[<<k, t>>] = other[<<k, t>>]
    BY <1>1
  <2> QED BY <2>1, Zenon
<1>4. Previous(table, k, s, starts) = Previous(other, k, s, starts)
  <2>1. CASE earlier = {}
    BY <2>1, <1>3 DEF Previous
  <2>2. CASE earlier # {}
    <3>1. earlier \subseteq 0 .. MaxTime
      BY StartsAreTimes
    <3>2. Max(earlier) \in earlier
      <4> HIDE DEF earlier
      <4> QED BY <3>1, <2>2, MaxOf
    <3>3. \A t \in earlier : table[<<k, t>>] = other[<<k, t>>]
      BY <1>1
    <3>4. table[<<k, Max(earlier)>>] = other[<<k, Max(earlier)>>]
      <4> HIDE DEF earlier
      <4> QED BY <3>2, <3>3
    <3> QED BY <3>4, <2>2, <1>3 DEF Previous
  <2> QED BY <2>1, <2>2
<1> QED BY <1>2, <1>4 DEF Detected

-----------------------------------------------------------------------------
(* The type invariant.                                                     *)

LEMMA LastInterval ==
  ASSUME NEW n \in Nat
  PROVE  (n \div Interval) * Interval \in 0 .. n
<1>1. Interval \in Nat /\ Interval > 0
  BY DetectorAssumption
<1> QED BY <1>1, Z3

LEMMA NothingDetected == NoRows \in [Group -> Counts]
BY DetectorAssumption DEF NoRows

LEMMA AttemptsTyped ==
  ASSUME attempts \in 0 .. 2, EndReported \/ EndUnreported
  PROVE  pc' \in {"idle", "triggered"} /\ attempts' \in 0 .. 2
BY DEF EndReported, EndUnreported, AfterFailure

LEMMA EventsTyped ==
  ASSUME TypeOK, ReplaceEvents
  PROVE  events' \in [Group -> Event \union {NoEvent}]
<1> SUFFICES ASSUME NEW g \in Group
             PROVE  events'[g] \in Event \union {NoEvent}
  BY DEF ReplaceEvents
<1>1. g[1] \in Keywords /\ g[2] \in WindowStarts /\ Window(until) \subseteq WindowStarts
  BY WindowsAreStarts DEF Group
<1>2. Detected(rows, g[1], g[2], Window(until)) \in Event \union {NoEvent}
  BY <1>1, DetectedTyped DEF TypeOK
<1>3. events[g] \in Event \union {NoEvent}
  BY DEF TypeOK
<1> QED BY <1>2, <1>3 DEF ReplaceEvents, Inserted

LEMMA TypeStep ==
  ASSUME TypeOK, [Next]_vars
  PROVE  TypeOK'
<1>1. CASE Tick
  BY <1>1, DetectorAssumption DEF TypeOK, Tick, runVars, history
<1>2. ASSUME NEW g \in Group, NEW n \in Counts, WriteTrend(g, n)
      PROVE  TypeOK'
  BY <1>2, DetectorAssumption DEF TypeOK, WriteTrend, runVars
<1>3. CASE Trigger
  <2>1. until' \in 0 .. now
    BY <1>3, LastInterval, DetectorAssumption DEF TypeOK, Trigger
  <2>2. covered' \in 0 .. until'
    BY <1>3, <2>1, DetectorAssumption DEF TypeOK, Trigger, history
  <2> QED BY <1>3, <2>1, <2>2 DEF TypeOK, Trigger, worldVars, history
<1>4. CASE ReadTrends
  <2>1. rows' \in [Group -> Counts]
    BY <1>4, DetectorAssumption DEF TypeOK, ReadTrends
  <2> QED BY <1>4, <2>1 DEF TypeOK, ReadTrends, worldVars
<1>5. CASE ReplaceEvents
  <2>1. pc' \in {"idle", "triggered"} /\ attempts' \in 0 .. 2
    BY <1>5, AttemptsTyped DEF TypeOK, ReplaceEvents
  <2>2. covered' \in 0 .. until'
    BY <1>5, DetectorAssumption DEF TypeOK, ReplaceEvents
  <2>3. /\ rows' \in [Group -> Counts]
        /\ changed' \subseteq Group /\ changing' \subseteq Group
        /\ UNCHANGED <<now, trends, writes, until>>
    BY <1>5, NothingDetected DEF TypeOK, ReplaceEvents, worldVars
  <2>4. events' \in [Group -> Event \union {NoEvent}]
    BY <1>5, EventsTyped
  <2> QED BY <2>1, <2>2, <2>3, <2>4 DEF TypeOK
<1>6. CASE FailRun
  <2>1. pc' \in {"idle", "triggered"} /\ attempts' \in 0 .. 2
    BY <1>6, AttemptsTyped DEF TypeOK, FailRun
  <2> QED BY <1>6, <2>1, NothingDetected DEF TypeOK, FailRun, worldVars
<1>7. CASE UNCHANGED vars
  BY <1>7 DEF TypeOK, vars, worldVars, runVars, history
<1> QED BY <1>1, <1>2, <1>3, <1>4, <1>5, <1>6, <1>7 DEF Next

-----------------------------------------------------------------------------
(* What a run has read, and what the last run has left.                    *)

LEMMA RowsStep ==
  ASSUME TypeOK, RowsInv, [Next]_vars
  PROVE  RowsInv'
<1>1. CASE Tick
  BY <1>1 DEF RowsInv, Tick, runVars, history
<1>2. ASSUME NEW g \in Group, NEW n \in Counts, WriteTrend(g, n)
      PROVE  RowsInv'
  BY <1>2 DEF TypeOK, RowsInv, WriteTrend, runVars
<1>3. CASE Trigger
  BY <1>3 DEF RowsInv, Trigger
<1>4. CASE ReadTrends
  <2> SUFFICES ASSUME NEW k \in Keywords, NEW s \in Window(until)
               PROVE  rows'[<<k, s>>] = trends[<<k, s>>]
    BY <1>4 DEF RowsInv, ReadTrends, worldVars
  <2>1. <<k, s>> \in Group
    BY WindowsAreStarts DEF Group
  <2> QED BY <1>4, <2>1 DEF ReadTrends
<1>5. CASE ReplaceEvents
  <2>1. pc' \in {"idle", "triggered"}
    BY <1>5, AttemptsTyped DEF TypeOK, ReplaceEvents
  <2> QED BY <2>1 DEF RowsInv
<1>6. CASE FailRun
  <2>1. pc' \in {"idle", "triggered"}
    BY <1>6, AttemptsTyped DEF TypeOK, FailRun
  <2> QED BY <2>1 DEF RowsInv
<1>7. CASE UNCHANGED vars
  BY <1>7 DEF RowsInv, vars, worldVars, runVars, history
<1> QED BY <1>1, <1>2, <1>3, <1>4, <1>5, <1>6, <1>7 DEF Next

\* The events ReplaceEvents leaves, of one keyword and window.
LEMMA ReplacedEvent ==
  ASSUME ReplaceEvents, NEW k \in Keywords, NEW s \in WindowStarts
  PROVE  LET event == Detected(rows, k, s, Window(until)) IN
           events'[<<k, s>>] = IF s \in Window(until) /\ event # NoEvent THEN event
                           ELSE IF IsDeleted(s, until) THEN NoEvent ELSE events[<<k, s>>]
<1>1. <<k, s>> \in Group /\ <<k, s>>[1] = k /\ <<k, s>>[2] = s
  BY DEF Group
<1> QED BY <1>1 DEF ReplaceEvents, Inserted

\* Where no row changed since the run read it, it detects what the trends call for.
LEMMA ReadIsCurrent ==
  ASSUME RowsInv, pc = "read", NEW k \in Keywords, NEW s \in Window(until),
         \A t \in Window(until) : t <= s => <<k, t>> \notin changing
  PROVE  Detected(rows, k, s, Window(until)) = Detected(trends, k, s, Window(until))
<1>1. \A t \in Window(until) : t <= s => rows[<<k, t>>] = trends[<<k, t>>]
  BY DEF RowsInv
<1>2. Window(until) \subseteq WindowStarts
  BY WindowsAreStarts
<1> QED BY <1>1, <1>2, DetectedSame

LEMMA EventsWriteStep ==
  ASSUME TypeOK, EventsInv, NEW g \in Group, NEW n \in Counts, WriteTrend(g, n)
  PROVE  EventsInv'
<1>1. UNCHANGED <<events, covered>> /\ changed' = changed \union {g}
  BY DEF WriteTrend
<1> SUFFICES ASSUME NEW k \in Keywords, NEW s \in Window(covered), Unchanged(k, s)'
             PROVE  /\ Unchanged(k, s)
                    /\ Detected(trends', k, s, Window(covered))
                         = Detected(trends, k, s, Window(covered))
  BY <1>1 DEF EventsInv
<1>2. Unchanged(k, s) /\ \A t \in Window(covered) : t <= s => <<k, t>> # g
  BY <1>1 DEF Unchanged
<1>3. \A t \in Window(covered) : t <= s => trends'[<<k, t>>] = trends[<<k, t>>]
  <2> TAKE t \in Window(covered)
  <2>1. <<k, t>> \in Group
    BY WindowsAreStarts DEF Group
  <2> QED BY <1>2, <2>1 DEF WriteTrend, TypeOK
<1>4. Window(covered) \subseteq WindowStarts
  BY WindowsAreStarts
<1>5. Detected(trends', k, s, Window(covered)) = Detected(trends, k, s, Window(covered))
  BY <1>3, <1>4, DetectedSame
<1> QED BY <1>2, <1>5

LEMMA EventsReplaceStep ==
  ASSUME TypeOK, RowsInv, ReplaceEvents
  PROVE  EventsInv'
<1>1. covered' = until /\ changed' = changing /\ trends' = trends /\ pc = "read"
  BY DEF ReplaceEvents, worldVars
<1> SUFFICES ASSUME NEW k \in Keywords, NEW s \in WindowStarts
             PROVE  LET detected == Detected(trends, k, s, Window(until)) IN
                      /\ s \in Window(until) /\ Unchanged(k, s)' =>
                           /\ detected # NoEvent => events'[<<k, s>>] = detected
                           /\ detected = NoEvent /\ IsDeleted(s, until)
                                => events'[<<k, s>>] = NoEvent
                      /\ s \notin Window(until) /\ IsDeleted(s, until)
                           => events'[<<k, s>>] = NoEvent
  BY <1>1 DEF EventsInv
<1>2. ASSUME s \in Window(until), Unchanged(k, s)'
      PROVE  Detected(rows, k, s, Window(until)) = Detected(trends, k, s, Window(until))
  <2>1. \A t \in Window(until) : t <= s => <<k, t>> \notin changing
    BY <1>1, <1>2 DEF Unchanged
  <2> QED BY <1>1, <1>2, <2>1, ReadIsCurrent
<1> QED BY <1>2, ReplacedEvent

LEMMA EventsStep ==
  ASSUME TypeOK, RowsInv, EventsInv, [Next]_vars
  PROVE  EventsInv'
<1>1. CASE UNCHANGED <<trends, events, covered, changed>>
  BY <1>1 DEF EventsInv, Unchanged
<1>2. CASE Tick \/ Trigger \/ ReadTrends \/ FailRun \/ UNCHANGED vars
  BY <1>1, <1>2 DEF Tick, Trigger, ReadTrends, FailRun, vars, worldVars, runVars, history
<1>3. ASSUME NEW g \in Group, NEW n \in Counts, WriteTrend(g, n)
      PROVE  EventsInv'
  BY <1>3, EventsWriteStep
<1>4. CASE ReplaceEvents
  BY <1>4, EventsReplaceStep
<1> QED BY <1>2, <1>3, <1>4 DEF Next

LEMMA AheadStep ==
  ASSUME TypeOK, NoneAhead, [Next]_vars
  PROVE  NoneAhead'
<1>1. CASE UNCHANGED <<events, covered>>
  BY <1>1 DEF NoneAhead
<1>2. CASE Tick \/ Trigger \/ ReadTrends \/ FailRun \/ UNCHANGED vars
  BY <1>1, <1>2 DEF Tick, Trigger, ReadTrends, FailRun, vars, worldVars, runVars, history
<1>3. ASSUME NEW g \in Group, NEW n \in Counts, WriteTrend(g, n)
      PROVE  NoneAhead'
  BY <1>1, <1>3 DEF WriteTrend
<1>4. CASE ReplaceEvents
  <2> SUFFICES ASSUME NEW k \in Keywords, NEW s \in WindowStarts, until <= s
               PROVE  events'[<<k, s>>] = NoEvent
    BY <1>4 DEF NoneAhead, ReplaceEvents
  <2>1. covered <= until /\ covered \in Int /\ until \in Int /\ s \in Int
    BY StartsAreTimes, DetectorAssumption DEF TypeOK
  <2>2. events[<<k, s>>] = NoEvent /\ s \notin Window(until)
    BY <2>1 DEF NoneAhead, Window
  <2> QED BY <1>4, <2>2, ReplacedEvent
<1> QED BY <1>2, <1>3, <1>4 DEF Next

LEMMA InitInv == Init => DetectorInv
<1> SUFFICES ASSUME Init PROVE DetectorInv
  OBVIOUS
<1>1. TypeOK
  BY NothingDetected, DetectorAssumption DEF Init, TypeOK
<1>2. RowsInv
  BY DEF Init, RowsInv
<1>3. Window(0) = {}
  <2> SUFFICES ASSUME NEW s \in Window(0) PROVE FALSE
    OBVIOUS
  <2> QED BY StartsAreTimes DEF Window
<1>4. EventsInv
  <2>1. \A k \in Keywords, s \in WindowStarts : events[<<k, s>>] = NoEvent
    BY DEF Init, Group
  <2> QED BY <1>3, <2>1 DEF Init, EventsInv
<1>5. NoneAhead
  BY DEF Init, NoneAhead, Group
<1> QED BY <1>1, <1>2, <1>4, <1>5 DEF DetectorInv

LEMMA Invariance == Spec => []DetectorInv
<1>1. DetectorInv /\ [Next]_vars => DetectorInv'
  BY TypeStep, RowsStep, EventsStep, AheadStep DEF DetectorInv
<1> QED BY InitInv, <1>1, PTL DEF Spec

-----------------------------------------------------------------------------
(* The theorems.                                                           *)

\* Clock, tables, run and histories stay in their types: in particular a run is never
\* tried a third time, nor recorded for an interval that has not ended.
THEOREM TypeCorrect == Spec => []TypeOK
BY Invariance, PTL DEF DetectorInv

\* run_event_detection_job leaves, in the windows it both deletes and recomputes, the
\* events the trends call for and no others, whatever was written beside it.
THEOREM EventsMatch == Spec => []EventsMatchTrends
<1>1. DetectorInv => EventsMatchTrends
  <2> SUFFICES ASSUME DetectorInv, NEW k \in Keywords, NEW s \in Settled(covered),
                      Unchanged(k, s)
               PROVE  events[<<k, s>>] = Detected(trends, k, s, Window(covered))
    BY DEF EventsMatchTrends
  <2>1. s \in Window(covered) /\ s \in WindowStarts /\ s + WindowLength < covered
    BY WindowsAreStarts DEF Settled
  <2>2. IsDeleted(s, covered)
    <3>1. covered \in Int /\ s \in Int /\ covered - Lookback <= s
      BY <2>1, StartsAreTimes, DetectorAssumption DEF DetectorInv, TypeOK, Window
    <3> QED BY <2>1, <3>1, DetectorAssumption DEF IsDeleted
  <2> QED BY <2>1, <2>2 DEF DetectorInv, EventsInv
<1> QED BY <1>1, Invariance, PTL

\* A trend row of five mentions or more in the windows of the last run has its event,
\* with the row's count, unless it or an earlier one changed since.
THEOREM QualifyingHaveEvents == Spec => []QualifyingRowsHaveEvents
<1>1. DetectorInv => QualifyingRowsHaveEvents
  <2> SUFFICES ASSUME DetectorInv, NEW k \in Keywords, NEW s \in Window(covered),
                      Unchanged(k, s), trends[<<k, s>>] >= 5
               PROVE  events[<<k, s>>] # NoEvent /\ events[<<k, s>>].current = trends[<<k, s>>]
    BY DEF QualifyingRowsHaveEvents
  <2>1. s \in WindowStarts /\ Window(covered) \subseteq WindowStarts
    BY WindowsAreStarts
  <2> DEFINE detected == Detected(trends, k, s, Window(covered))
  <2>2. detected # NoEvent /\ detected.current = trends[<<k, s>>]
    BY <2>1, DetectedTyped DEF DetectorInv, TypeOK
  <2>3. events[<<k, s>>] = detected
    BY <2>1, <2>2 DEF DetectorInv, EventsInv
  <2> QED BY <2>2, <2>3
<1> QED BY <1>1, Invariance, PTL

\* Running the job again for the same interval, as the DAG's retry does after a commit
\* that was not reported, leaves keyword_events as it is.
THEOREM RerunIsIdempotent == Spec => RerunChangesNothing
<1>1. DetectorInv /\ ReplaceEvents /\ until = covered /\ changed = {} /\ changing = {}
        => events' = events
  <2> SUFFICES ASSUME DetectorInv, ReplaceEvents, until = covered,
                      changed = {}, changing = {}
               PROVE  events' = events
    OBVIOUS
  <2>1. \A k \in Keywords, s \in WindowStarts : events'[<<k, s>>] = events[<<k, s>>]
    <3> TAKE k \in Keywords, s \in WindowStarts
    <3>1. s \in Window(until) =>
            Detected(rows, k, s, Window(until)) = Detected(trends, k, s, Window(covered))
      BY ReadIsCurrent DEF DetectorInv, ReplaceEvents
    <3>2. Unchanged(k, s)
      BY DEF Unchanged
    <3> QED BY <3>1, <3>2, ReplacedEvent DEF DetectorInv, EventsInv
  <2>2. \A g \in Group : events'[g] = events[g]
    BY <2>1 DEF Group
  <2>3. /\ events \in [Group -> Event \union {NoEvent}]
        /\ events' \in [Group -> Event \union {NoEvent}]
    BY EventsTyped DEF DetectorInv, TypeOK
  <2> QED BY <2>2, <2>3
<1>2. DetectorInv /\ [Next]_vars
        => [ReplaceEvents /\ until = covered /\ changed = {} /\ changing = {}
            => events' = events]_vars
  BY <1>1
<1> QED BY <1>2, Invariance, PTL DEF Spec, RerunChangesNothing

\* A later lookback sees of the rows before a window the last ones: as long as it sees
\* any, the predecessor is the same.
LEMMA PreviousStays ==
  ASSUME NEW table, NEW k, NEW from \in Int, NEW end \in Int, from <= end,
         NEW s \in Window(from), NEW t \in Window(end), t < s, table[<<k, t>>] > 0
  PROVE  Previous(table, k, s, Window(end)) = Previous(table, k, s, Window(from))
<1> DEFINE seen(w) == {u \in Window(w) : u < s /\ table[<<k, u>>] > 0}
           last == Max(seen(end))
<1>1. /\ Lookback \in Nat /\ s \in Int /\ s < from
      /\ \A w \in Int : seen(w) \subseteq 0 .. MaxTime
      /\ \A w \in Int : seen(w) \subseteq {u \in WindowStarts : w - Lookback <= u}
  <2>1. Lookback \in Nat /\ s \in Int /\ s < from
    BY StartsAreTimes, DetectorAssumption DEF Window
  <2>2. \A w \in Int : seen(w) \subseteq {u \in WindowStarts : w - Lookback <= u}
    BY DEF Window
  <2>3. \A w \in Int : seen(w) \subseteq 0 .. MaxTime
    BY <2>2, StartsAreTimes
  <2> QED BY <2>1, <2>2, <2>3
<1>2. seen(end) \subseteq seen(from) /\ seen(end) # {}
  <2>1. \A u \in seen(end) : u \in Window(from)
    BY <1>1, StartsAreTimes DEF Window
  <2>2. t \in seen(end)
    OBVIOUS
  <2> QED BY <2>1, <2>2
<1>3. \A u \in seen(from) \ seen(end) : u < end - Lookback
  BY <1>1, StartsAreTimes DEF Window
<1>4. Max(seen(end)) \in seen(end) /\ \A u \in seen(end) : Max(seen(end)) >= u
  <2> HIDE DEF seen
  <2> QED BY <1>1, <1>2, MaxOf
<1>5. Max(seen(from)) \in seen(from) /\ \A u \in seen(from) : Max(seen(from)) >= u
  <2> HIDE DEF seen
  <2> QED BY <1>1, <1>2, MaxOf
<1>6. Max(seen(from)) = Max(seen(end))
  <2>1. end - Lookback <= Max(seen(end)) /\ Max(seen(end)) \in Int /\ Max(seen(from)) \in Int
    <3> HIDE DEF seen
    <3> QED BY <1>1, <1>4, <1>5
  <2>2. Max(seen(from)) \in seen(end)
    <3> HIDE DEF seen
    <3>1. Max(seen(from)) >= Max(seen(end))
      BY <1>2, <1>4, <1>5
    <3>2. ~(Max(seen(from)) < end - Lookback)
      BY <1>1, <2>1, <3>1
    <3> QED BY <1>3, <1>5, <3>2
  <2> HIDE DEF seen
  <2> QED BY <2>1, <2>2, <1>2, <1>4, <1>5
<1>7. \A w \in {from, end} : Previous(table, k, s, Window(w)) = table[<<k, Max(seen(w))>>]
  <2>1. seen(from) # {} /\ seen(end) # {}
    BY <1>2
  <2> QED BY <2>1 DEF Previous
<1> QED BY <1>6, <1>7

\* As long as the trends rest, a run that gives an event another predecessor sees no
\* earlier row of its keyword any more.
THEOREM PreviousLost == Spec => PreviousLostOnlyAtTheEdge
<1>1. ASSUME DetectorInv, ReplaceEvents, changed \union changing = {},
             NEW k \in Keywords, NEW s \in WindowStarts, NEW t \in Window(until), t < s,
             events[<<k, s>>] # NoEvent, events'[<<k, s>>] # NoEvent,
             events'[<<k, s>>].prev # events[<<k, s>>].prev
      PROVE  trends[<<k, t>>] = 0
  <2> DEFINE after == Detected(trends, k, s, Window(until))
             before == Detected(trends, k, s, Window(covered))
  <2>1. covered \in Int /\ until \in Int /\ covered <= until /\ s \in Int
    BY <1>1, StartsAreTimes, DetectorAssumption DEF DetectorInv, TypeOK
  <2>2. s \in Window(until) /\ after # NoEvent /\ events'[<<k, s>>] = after
    <3>1. /\ s \in Window(until) /\ Detected(rows, k, s, Window(until)) # NoEvent
          /\ events'[<<k, s>>] = Detected(rows, k, s, Window(until))
      BY <1>1, ReplacedEvent
    <3>2. Detected(rows, k, s, Window(until)) = after
      BY <1>1, <3>1, ReadIsCurrent DEF DetectorInv, ReplaceEvents
    <3> QED BY <3>1, <3>2
  <2>3. s \in Window(covered)
    <3>1. s < covered
      BY <1>1, <2>1 DEF DetectorInv, NoneAhead
    <3> QED BY <2>1, <2>2, <3>1, DetectorAssumption DEF Window
  <2>4. Unchanged(k, s)
    BY <1>1 DEF Unchanged
  <2>5. before # NoEvent => events[<<k, s>>] = before
    BY <1>1, <2>3, <2>4 DEF DetectorInv, EventsInv
  <2>6. after # before
    <3> HIDE DEF after, before
    <3> QED BY <1>1, <2>2, <2>5
  <2>7. Previous(trends, k, s, Window(until)) # Previous(trends, k, s, Window(covered))
    BY <2>6, Zenon DEF Detected
  <2>8. ~(trends[<<k, t>>] > 0)
    BY <2>1, <2>3, <2>7, <1>1, PreviousStays
  <2>9. trends[<<k, t>>] \in Nat
    BY <1>1, WindowsAreStarts, DetectorAssumption DEF DetectorInv, TypeOK, Group
  <2> QED BY <2>8, <2>9
<1>2. DetectorInv /\ [Next]_vars
        => [\A k \in Keywords, s \in WindowStarts :
              /\ changed \union changing = {}
              /\ events[<<k, s>>] # NoEvent /\ events'[<<k, s>>] # NoEvent
              /\ events'[<<k, s>>].prev # events[<<k, s>>].prev
              => \A t \in Window(until) : t < s => trends[<<k, t>>] = 0]_vars
  <2>1. ASSUME Next, ~ReplaceEvents PROVE events' = events
    BY <2>1 DEF Next, Tick, WriteTrend, Trigger, ReadTrends, FailRun
  <2> QED BY <1>1, <2>1
<1> QED BY <1>2, Invariance, PTL DEF Spec, PreviousLostOnlyAtTheEdge
=============================================================================
