\* One order, no failure.
CONSTANTS
    Orders = {1}
    Runs = {r1}
    PageSize = 1
    Overlap = 1
    Lookback = 3
    Skew = 0
    MaxTime = 3
    MaxFaults = 0
SPECIFICATION Spec
INVARIANTS UnlocatedIsRetried
