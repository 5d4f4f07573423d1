\* Two runs at once, one order, two failures; no overlap to lean on.
CONSTANTS
    Orders = {1}
    Runs = {r1, r2}
    PageSize = 1
    Overlap = 0
    Lookback = 1
    Skew = 0
    MaxTime = 1
    MaxFaults = 2
SPECIFICATION FairSpec
INVARIANTS NothingPassedUnseen
PROPERTIES EverySaleTraced
