------------------------------ MODULE MCIngest ------------------------------
(***************************************************************************)
(* Small instances of the ingest pipeline for TLC.                         *)
(*                                                                         *)
(* naver polls n1 and n2.  One url is found by both in two domains, as the *)
(* articles x1 and x2 with one replay key; y is found by both in one       *)
(* domain, and an ok fetch may leave it out.  The payload of w is invalid. *)
(*                                                                         *)
(* The run of all properties gives each behaviour one of three courses,    *)
(* with articles and bounds of its own.                                    *)
(***************************************************************************)
EXTENDS IngestPipeline

CONSTANTS naver, n1, n2, x1, x2, y, w, keyX, keyY

MCProviderOf == [q \in Queries |-> naver]

MCFound == [q \in Queries |-> (IF q = n1 THEN {x1, y, w} ELSE {x2, y}) \intersect Articles]

MCReplayKeyOf == [a \in Articles |-> IF a \in {x1, x2} THEN keyX ELSE keyY]

VARIABLE course

\* Two articles that share a replay key, an invalid payload beside a valid one, each
\* with the death of a process; or two runs, with an edit of the queries between them.
Courses ==
  {[news |-> {x1, x2}, runs |-> 1, toggles |-> 0, crashes |-> 1],
   [news |-> {x1, w}, runs |-> 1, toggles |-> 0, crashes |-> 1],
   [news |-> {y}, runs |-> 2, toggles |-> 1, crashes |-> 0]}

OnCourse ==
  /\ published' \subseteq course.news
  /\ runs' <= course.runs
  /\ toggles' <= course.toggles
  /\ crashes' <= course.crashes
  /\ UNCHANGED course

CourseInit == Init /\ course \in Courses

CourseNext == Next /\ OnCourse

\* Fairness, as far as the course goes.
CourseFairness ==
  /\ \A p \in Providers :
       /\ WF_vars(RunNext(p) /\ UNCHANGED replayVars /\ OnCourse)
       /\ WF_vars(CallbackNext(p) /\ UNCHANGED replayVars /\ OnCourse)
  /\ WF_vars(ReplayStep /\ UNCHANGED producerVars /\ OnCourse)

CourseSpec == CourseInit /\ [][CourseNext]_<<vars, course>> /\ CourseFairness
=============================================================================
