------------------------------ MODULE MCAlerts ------------------------------
(***************************************************************************)
(* Small instances of Alerts for TLC.                                      *)
(***************************************************************************)
EXTENDS Alerts, TLC

\* Threads are interchangeable.
SessionSymmetry == Permutations(Sessions)
=============================================================================
