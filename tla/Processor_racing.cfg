\* Two calls for one order, as when a notification meets the cron.
CONSTANTS
    Orders = {o1}
    Workers = {w1, w2}
    DataReasons = {geocode_failed}
    MaxAttempts = 1
    MaxBegins = 2
    NoOrder = NoOrder
SPECIFICATION Spec
INVARIANTS RacingWorkersShareOneVisit
