---------------------------- MODULE MCProcessor ----------------------------
(***************************************************************************)
(* Small instances of Processor for TLC.                                   *)
(***************************************************************************)
EXTENDS ProcessorRefinement, TLC

\* Orders and workers are interchangeable; only safety is checked under it.
OrderWorkerSymmetry == Permutations(Orders) \cup Permutations(Workers)
=============================================================================
