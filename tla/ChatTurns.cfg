SPECIFICATION FairSpec
CONSTANTS
    k1 = k1
    k2 = k2
    k3 = k3
    k4 = k4
    t1 = t1
    t2 = t2
    Keys = {k1, k2, k3, k4}
    Threads = {t1, t2}
    ThreadOf <- MCThreadOf
    Runners = {"tool_backed", "synthetic", "missing"}
    TurnRetention = 1
    MaxCompletedTurns = 4
    TombstoneRetention = 1
    MaxTombstones = 4
    MaxHandles = 3
    MaxTime = 0
INVARIANTS
    SerialPerThread
    LogsFaithful
PROPERTIES
    EveryTurnSettles
CONSTRAINT
    CreatedInOrder
