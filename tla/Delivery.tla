------------------------------ MODULE Delivery ------------------------------
(***************************************************************************)
(* What the service promises of an order, without workers, attempts, rows  *)
(* in progress or lookups: SimpliRoute gains a visit of an order only      *)
(* while the visits it has are excused, and the order is bound only to a   *)
(* visit of its own.  An excuse is an event after which the service cannot *)
(* know whether an earlier request was executed, or a second claim of an   *)
(* order that is being delivered.                                          *)
(***************************************************************************)
EXTENDS Naturals, FiniteSets

CONSTANT Orders   \* ML order ids

VARIABLES
    visits,      \* per order, the visits SimpliRoute holds
    nextVisit,   \* the id of the next visit
    bound,       \* per order, the visit id the service has recorded, 0 for none
    excuses      \* per order, the number of excuses so far

vars == <<visits, nextVisit, bound, excuses>>

Init ==
    /\ visits = [o \in Orders |-> {}]
    /\ nextVisit = 1
    /\ bound = [o \in Orders |-> 0]
    /\ excuses = [o \in Orders |-> 0]

\* A visit more, if the visits the order has are excused.
Create(o) ==
    /\ Cardinality(visits[o]) <= excuses[o]
    /\ visits' = [visits EXCEPT ![o] = @ \cup {nextVisit}]
    /\ nextVisit' = nextVisit + 1
    /\ UNCHANGED <<bound, excuses>>

\* The service records the visit of the order.
Bind(o) ==
    /\ \E v \in visits[o] : bound' = [bound EXCEPT ![o] = v]
    /\ UNCHANGED <<visits, nextVisit, excuses>>

\* Excuses are counted, never forgotten.
Excuse ==
    /\ excuses' \in [Orders -> Nat]
    /\ \A o \in Orders : excuses'[o] >= excuses[o]
    /\ UNCHANGED <<visits, nextVisit, bound>>

Next ==
    \/ \E o \in Orders : Create(o) \/ Bind(o)
    \/ Excuse

Spec == Init /\ [][Next]_vars
=============================================================================
