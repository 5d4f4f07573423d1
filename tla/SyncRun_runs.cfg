\* Two runs and another request share a pool that overflows.
CONSTANTS
    Runs = {r1, r2}
    Others = {o1}
    Conns = {c1, c2}
    PoolSize = 1
    MaxCommits = 1
    MaxOthers = 2
    NoConn = NoConn
SPECIFICATION FairSpec
INVARIANTS TypeOK ExclusionExplained
PROPERTIES SkipExplained EveryRunEnds
