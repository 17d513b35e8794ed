---------------------------- MODULE MCNewsClient ----------------------------
(***************************************************************************)
(* A small run for TLC: the query q is active in the domains x and y, or   *)
(* there is one feed f.  old and n1 are dated, und has the url of n1 and   *)
(* no date, and bad, dated like n1, cannot be normalised.                  *)
(***************************************************************************)
EXTENDS NewsClient

CONSTANTS x, y, q, f, old, n1, und, bad, u0, u1

Row(domain, text) == [domain |-> domain, text |-> text]

MCRowsOf == [p \in Providers |-> IF p = "naver" THEN <<Row(x, q), Row(y, q)>>
                                 ELSE <<Row(x, f)>>]

MCDateOf == [item \in Items |-> CASE item = old -> 1 [] item = und -> 0 [] OTHER -> 2]
MCUrlOf == [item \in Items |-> CASE item = old -> u0 [] item = bad -> NoUrl [] OTHER -> u1]
=============================================================================
