------------------------------- MODULE MCSink -------------------------------
(***************************************************************************)
(* Small instances of the streaming job for TLC.                           *)
(*                                                                         *)
(* Articles a and b share the window w, c is in the window v.  m1 and m2   *)
(* are two payloads of a, m2 the later one, m3 is one of b, m4 one of c,   *)
(* and junk does not parse.  The dictionary d1 splits a text of a into     *)
(* other keywords than d2 does.                                            *)
(***************************************************************************)
EXTENDS StreamSink

CONSTANTS a, b, c, w, v, m1, m2, m3, m4, junk, d1, d2, ka, kb

MCArticleOf == [m \in Messages |-> CASE m = m3 -> b [] m = m4 -> c [] OTHER -> a]
MCWindowOf == [article \in Articles |-> IF article = c THEN v ELSE w]
MCIngestedAt == [m \in Messages |-> IF m = m2 THEN 2 ELSE 1]
MCKeywordOrder == [k \in Keywords |-> IF k = ka THEN 1 ELSE 2]

Counts(na, nb) == [k \in Keywords |-> IF k = ka THEN na ELSE nb]

MCMentions ==
  [m \in Messages |-> [d \in Dictionaries |->
     CASE m = m1 -> IF d = d1 THEN Counts(1, 1) ELSE Counts(0, 1)
       [] m = m2 -> IF d = d1 THEN Counts(1, 0) ELSE Counts(0, 2)
       [] m \in {m3, m4} -> Counts(1, 0)
       [] m = junk -> Counts(0, 0)]]
=============================================================================
