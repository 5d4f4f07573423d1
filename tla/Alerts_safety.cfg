\* Two threads, the watchdog and another key, time for two outages.
CONSTANTS
    Sessions = {s1, s2}
    Keys = {watchdog, incident}
    WatchKey = watchdog
    Window = 2
    Limit = 2
    MaxTime = 6
SPECIFICATION Spec
SYMMETRY SessionSymmetry
INVARIANTS TypeOK SilenceIsBounded RepeatsExplained RaisesExplained OutageHasOwnAlert
