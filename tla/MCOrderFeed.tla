---------------------------- MODULE MCOrderFeed ----------------------------
(***************************************************************************)
(* Small instances of OrderFeed for TLC.                                   *)
(***************************************************************************)
EXTENDS OrderFeed, TLC

\* Runs are interchangeable; orders are not, as the listing sorts them.
RunSymmetry == Permutations(Runs)
=============================================================================
