\* Two workers and two orders: every race and every fault.
CONSTANTS
    Orders = {o1, o2}
    Workers = {w1, w2}
    DataReasons = {geocode_failed}
    MaxAttempts = 2
    MaxBegins = 3
    NoOrder = NoOrder
SPECIFICATION Spec
SYMMETRY OrderWorkerSymmetry
INVARIANTS TypeOK DuplicatesExplained ClaimBeforeVisit AccountedFor BoundVisitIsOwn IInv
PROPERTIES FirstReasonKept CompletedIsFinal ImplementsDelivery
