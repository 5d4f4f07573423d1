-------------------------- MODULE MCGeocodeCache --------------------------
(***************************************************************************)
(* Small instances of GeocodeCache for TLC.                                *)
(***************************************************************************)
EXTENDS GeocodeCache, TLC

\* One result above the threshold and one below, of each backend.
TwoGoogleReplies == {[type |-> "ROOFTOP", partial |-> TRUE],
                     [type |-> "RANGE_INTERPOLATED", partial |-> TRUE]}
=============================================================================
