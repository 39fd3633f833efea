CONSTANTS
    Workers = {w0, w1}
    First = w0
    Monitor = mon
    Conns = {k1, k2}
    Spare = spare
    Null = Null
    AcLimit = 1
    MaxKills = 1
SPECIFICATION FairSpec
INVARIANTS SemAccounted OwnEvents
PROPERTIES ClientServed WorkerRestarted
