---------------------------- MODULE MCDictionary ----------------------------
(***************************************************************************)
(* Small instances of the dictionary for TLC.                              *)
(*                                                                         *)
(* The writers never read the worker's caches, and whatever they do to the *)
(* tables the administrators can do as well.  A behaviour here therefore   *)
(* takes the steps of one side only: of the compound jobs, of the stop     *)
(* word recommenders, or of the worker, while administrators change the    *)
(* tables.  The compound jobs have one compound in two articles of one     *)
(* domain; or, where the candidates queue up for the reviewer, two in one  *)
(* article, of which the first is found more often.                        *)
(***************************************************************************)
EXTENDS Dictionary

CONSTANTS
  w1, w2, a1, a2, a3, ai,
  Sides  \* the sides of a behaviour

VARIABLE side

MCDomainOf == [a \in Articles |-> ai]
MCOccurrences ==
  [a \in Articles |-> [w \in CompoundWords |-> CASE w = w1 /\ a # a3 -> 1 .. 3
                                                 [] w = w1 /\ a = a3 -> 1 .. 4
                                                 [] w = w2 /\ a # a3 -> {}
                                                 [] w = w2 /\ a = a3 -> 1 .. 3]]

JobSides == {"compounds", "queue"}

\* What there is on each side.
OnSide ==
  /\ UNCHANGED side
  /\ IF side = "queue"
     THEN /\ \A a \in Articles \ {a3} : ingestedAt'[a] = NotIngested
          /\ now' <= 1
          /\ versions'.compound <= 2
     ELSE /\ a3 \in Articles => ingestedAt'[a3] = NotIngested
          /\ \A row \in compoundDict' : row[1] = w1

SideInit == Init /\ side \in Sides

SideNext ==
  /\ \/ side # "stopwords" /\ AdminCompounds
     \/ side \notin JobSides /\ AdminStopwords
     \/ side \in JobSides /\ Review
     \/ side = "stopwords" /\ StopwordsReviewed
     \/ side = "worker" /\ Work
  /\ OnSide

\* Fairness, of the side that takes steps.
SideFairness ==
  /\ WF_vars(side \in JobSides /\ ReviewerReads /\ OnSide)
  /\ WF_vars(side \in JobSides /\ ReviewerJudges /\ OnSide)
  /\ WF_vars(side = "worker" /\ WorkerGoesOn /\ OnSide)
  /\ SF_vars(side = "worker" /\ WorkerChecks /\ OnSide)

SideSpec == SideInit /\ [][SideNext]_<<vars, side>> /\ SideFairness
=============================================================================
