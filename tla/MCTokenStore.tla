---------------------------- MODULE MCTokenStore ----------------------------
(***************************************************************************)
(* Small instances of TokenStore for TLC.                                  *)
(***************************************************************************)
EXTENDS TokenStore, TLC

\* Requests are interchangeable.
SessionSymmetry == Permutations(Sessions)
=============================================================================
