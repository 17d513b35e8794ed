---------------------------- MODULE MCMaintenance ----------------------------
(***************************************************************************)
(* A small instance of the analysis tables and their writers for TLC.      *)
(*                                                                         *)
(* The articles a and b share the window w of the domain x; the domain y   *)
(* has none.  m1 is a payload of a, m3 of b.  The dictionary d1 splits m1  *)
(* into ka and kb; in d2, which has the compound kb, it yields kb twice;   *)
(* in ds kb is a stop word of the domain x, and none of the default ones.  *)
(*                                                                         *)
(* Two messages, a failure, a backfill and a request: a behaviour takes    *)
(* one of four courses, each without one of them.                          *)
(***************************************************************************)
EXTENDS Maintenance

CONSTANTS a, b, w, m1, m3, d1, d2, ds, ka, kb, x, y

MCArticleOf == [m \in Messages |-> IF m = m1 THEN a ELSE b]
MCWindowOf == [article \in Articles |-> w]
MCIngestedAt == [m \in Messages |-> 1]
MCKeywordOrder == [k \in Keywords |-> IF k = ka THEN 1 ELSE 2]
MCDomainOf == [window \in Windows |-> x]
MCWithDefaults == [d \in Dictionaries |-> IF d = ds THEN d1 ELSE d]
MCStopped == [d \in Dictionaries |-> IF d = ds THEN {<<x, kb>>} ELSE {}]

Counts(na, nb) == [k \in Keywords |-> IF k = ka THEN na ELSE nb]

MCMentions ==
  [m \in Messages |-> [d \in Dictionaries |->
     CASE m = m1 -> (CASE d = d1 -> Counts(1, 1) [] d = d2 -> Counts(0, 2) [] d = ds -> Counts(1, 0))
       [] m = m3 -> Counts(1, 0)]]

VARIABLE course

Courses ==
  {[messages |-> 1, failures |-> 1, backfills |-> 1, requests |-> 1],
   [messages |-> 2, failures |-> 0, backfills |-> 1, requests |-> 1],
   [messages |-> 2, failures |-> 1, backfills |-> 0, requests |-> 1],
   [messages |-> 2, failures |-> 1, backfills |-> 1, requests |-> 0]}

OnCourse ==
  /\ Len(log') <= course.messages
  /\ failures' <= course.failures
  /\ backfills' <= course.backfills
  /\ requests' <= course.requests
  /\ UNCHANGED course

CourseInit == InitAll /\ course \in Courses

CourseNext == NextAll /\ OnCourse

CourseSpec == CourseInit /\ [][CourseNext]_<<allVars, course>>
=============================================================================
