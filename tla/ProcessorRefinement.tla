------------------------ MODULE ProcessorRefinement ------------------------
(***************************************************************************)
(* The order processor implements Delivery: a claim, a lookup, a failed    *)
(* attempt or a review is a stuttering step; a POST that SimpliRoute       *)
(* executes is Create; the completion of a row is Bind; what loses an      *)
(* answer or grants a second claim is Excuse.                              *)
(***************************************************************************)
EXTENDS Processor

D == INSTANCE Delivery WITH
        Orders <- Orders,
        visits <- visits,
        nextVisit <- nextVisit,
        bound <- [o \in Orders |-> rows[o].visit],
        excuses <- [o \in Orders |-> Excuses(o)]

\* Every behaviour of the processor, with every race, lost answer and crash,
\* is a behaviour of Delivery: no visit without an excuse for the ones that
\* exist, and no order bound to a visit of another order.
ImplementsDelivery == D!Spec
=============================================================================
