SPECIFICATION Spec
CONSTANTS
    k1 = k1
    k2 = k2
    k3 = k3
    k4 = k4
    t1 = t1
    t2 = t2
    Keys = {k1, k2, k3}
    Threads = {t1}
    ThreadOf <- MCThreadOfTriple
    Runners = {"missing"}
    TurnRetention = 1
    MaxCompletedTurns = 1
    TombstoneRetention = 2
    MaxTombstones = 2
    MaxHandles = 4
    MaxTime = 5
INVARIANTS
    LiveTurnRetained
PROPERTIES
    ReplayOnlyAfterRetention
SYMMETRY TurnSymmetry
