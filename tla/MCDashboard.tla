----------------------------- MODULE MCDashboard -----------------------------
(***************************************************************************)
(* Three articles around the bounds of a fetch window 4 .. 8, one without  *)
(* a publication date, which a redelivery moves from 5 to 7 (b2); periods  *)
(* that start or end inside a bucket.                                      *)
(***************************************************************************)
EXTENDS Dashboard, TLC

CONSTANTS a1, a2, a3, b2, k1, k2

MCEventTime == (a1 :> 3) @@ (a2 :> 5) @@ (a3 :> 7) @@ (b2 :> 7)
MCKeyOf == [a \in Articles |-> IF a = b2 THEN a2 ELSE a]
MCWindowStarts == {4, 6}
Periods == {<<4, 8>>, <<5, 7>>, <<6, 8>>, <<3, 6>>, <<7, 7>>}
MCRequest(kind, period, bucket) ==
  [kind |-> kind, start |-> period[1], end |-> period[2], fetchStart |-> 4, fetchEnd |-> 8,
   bucket |-> bucket, names |-> Keywords]
MCBuckets == [overview |-> {2, 3}, trend |-> {1, 2}, window |-> {1, 3}]
MCRequests ==
  UNION {{MCRequest(kind, period, bucket) : period \in Periods, bucket \in MCBuckets[kind]} :
           kind \in {"overview", "trend", "window"}}
  \union {MCRequest("kpis", period, 1) : period \in Periods}
KeywordSymmetry == Permutations({k1, k2})
=============================================================================
