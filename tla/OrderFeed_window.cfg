\* Two orders on two pages, stamps that lag a tick, no failure.
CONSTANTS
    Orders = {1, 2}
    Runs = {r1}
    PageSize = 1
    Overlap = 1
    Lookback = 1
    Skew = 1
    MaxTime = 2
    MaxFaults = 0
SPECIFICATION Spec
INVARIANTS TypeOK NothingPassedUnseen
