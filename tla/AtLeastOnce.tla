----------------------------- MODULE AtLeastOnce -----------------------------
(***************************************************************************)
(* What the streaming job promises about the topic and news_raw, without   *)
(* its batches, staging tables, failures and restarts: messages are taken  *)
(* in from the last acknowledged offset on, a run of them at a time and    *)
(* as often as it takes; an offset is acknowledged behind them only.       *)
(***************************************************************************)
EXTENDS Naturals, Sequences

CONSTANTS Articles, Messages, NoMessage, Unusable, ArticleOf

VARIABLES
  log,     \* the messages of the topic
  done,    \* the acknowledged offset
  stored   \* the message of each article that is stored

vars == <<log, done, stored>>

Init ==
  /\ log = <<>>
  /\ done = 0
  /\ stored = [a \in Articles |-> NoMessage]

Deliver(m) ==
  /\ log' = Append(log, m)
  /\ UNCHANGED <<done, stored>>

\* The usable messages of an article beyond the acknowledged offset, up to n.
Waiting(a, n) ==
  {m \in Messages \ Unusable : ArticleOf[m] = a /\ \E i \in done + 1 .. n : log[i] = m}

\* Every article with a message up to n gets one of them; the others keep theirs.
Store(n) ==
  /\ n \in done .. Len(log)
  /\ stored' \in [Articles -> Messages \union {NoMessage}]
  /\ \A a \in Articles :
       stored'[a] \in IF Waiting(a, n) = {} THEN {stored[a]} ELSE Waiting(a, n)
  /\ UNCHANGED <<log, done>>

Acknowledge(n) ==
  /\ n \in done .. Len(log)
  /\ \A a \in Articles : Waiting(a, n) # {} => stored[a] # NoMessage
  /\ done' = n
  /\ UNCHANGED <<log, stored>>

Next ==
  \/ \E m \in Messages : Deliver(m)
  \/ \E n \in done .. Len(log) : Store(n) \/ Acknowledge(n)

Spec == Init /\ [][Next]_vars
=============================================================================
