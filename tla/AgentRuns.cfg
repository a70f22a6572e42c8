SPECIFICATION FairSpec
CONSTANTS
    w1 = w1
    w2 = w2
    r1 = r1
    r2 = r2
    r3 = r3
    a1 = a1
    a2 = a2
    c1 = c1
    c2 = c2
    c3 = c3
    k1 = k1
    k2 = k2
    NoOne = NoOne
    Workers = {w1, w2}
    Runs = {r1, r2, r3}
    Agents = {a1, a2}
    AgentOf <- MCAgentOf
    Claims = {c1, c2, c3}
    Clusters = {k1, k2}
    ClusterOf <- MCThreeClaims
    Recency <- MCThreeTimes
    Limit = 2
    LeaseTime = 1
    MaxTime = 1
INVARIANTS
    OneFindingPerCluster
    AppliedAtMostOnce
    NoOverlapWithinLease
PROPERTIES
    EndedRunsStay
    WorkersFinish
CONSTRAINT
    Bounded
