----------------------------- MODULE MCSyncRun -----------------------------
(***************************************************************************)
(* Small instances of SyncRun for TLC.                                     *)
(***************************************************************************)
EXTENDS SyncRun, TLC

\* Runs, other requests and connections are interchangeable.
PoolSymmetry == Permutations(Runs) \cup Permutations(Others) \cup Permutations(Conns)

=============================================================================
