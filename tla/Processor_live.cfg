\* Liveness under the fairness of the threads: no symmetry.
CONSTANTS
    Orders = {o1}
    Workers = {w1, w2}
    DataReasons = {geocode_failed}
    MaxAttempts = 3
    MaxBegins = 2
    NoOrder = NoOrder
SPECIFICATION FairSpec
PROPERTIES EveryCallReturns
