------------------------------ MODULE MCEvents ------------------------------
(***************************************************************************)
(* Small instances of the event detection for TLC: one keyword, windows of *)
(* two units, a run every three, and a lookback of eight, so that the      *)
(* far end of the lookback crosses windows as the configured one does.     *)
(***************************************************************************)
EXTENDS EventDetector

CONSTANT k1
=============================================================================
