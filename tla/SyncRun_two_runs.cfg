\* Two runs alone in the process.
CONSTANTS
    Runs = {r1, r2}
    Others = {}
    Conns = {c1, c2}
    PoolSize = 2
    MaxCommits = 1
    MaxOthers = 0
    NoConn = NoConn
SPECIFICATION Spec
INVARIANTS OneRunAtATime
