SPECIFICATION Spec
CONSTANTS
    None = None
    Ingests = {"i1", "i2", "i3", "i4"}
    Users = {"u1", "u2"}
    Collectors = {"g1", "g2"}
    Blobs = {"b1", "b2"}
    Sources = {"s1", "s2", "s3"}
    BlobOf <- MCBlobOf
    PutSource <- MCPutSource
    SourceUser <- MCSourceUser
    Limit = 2
    MaxFailures = 2
    NoCandidate = NoCandidate
    Reviewers = {"p1", "p2"}
    Reviews = {"r1", "r2"}
    Calls = {"k1", "k2", "k3"}
    Kinds = {"created", "approved", "rejected", "edited", "supersede"}
    Candidates = {"a1", "a2", "b1"}
    IdentityOf <- MCIdentityOf
    KeyOf <- MCKeyOf
    Indexed = {"filing", "amendment"}
    MaxActions = 1
    Window = 1
    MaxTime = 3
INVARIANTS
    BlobsKept
    ErasureComplete
    ThroughputRespected
PROPERTIES
    QueuedCollected
    ImplementsLedger
CHECK_DEADLOCK FALSE
CONSTRAINT
    Bounded
