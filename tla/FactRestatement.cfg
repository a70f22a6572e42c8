SPECIFICATION ReviewSpec
CONSTANTS
    None = None
    Ingests = {"i1", "i2", "i3", "i4"}
    Users = {"u1", "u2"}
    Collectors = {"g1"}
    Blobs = {"b1", "b2"}
    Sources = {"s1", "s2", "s3"}
    BlobOf <- MCBlobOf
    PutSource <- MCPutSource
    SourceUser <- MCSourceUser
    Late = {}
    Limit = 1
    MaxFailures = 0
    NoCandidate = NoCandidate
    Reviewers = {"p1"}
    Reviews = {"r1"}
    Calls = {"k1"}
    Kinds = {"created", "supersede"}
    Candidates = {"a1", "a2"}
    IdentityOf <- MCIdentityOf
    KeyOf <- MCKeyOf
    Indexed = {"filing", "amendment"}
    MaxActions = 1
    Window = 0
    MaxTime = 0
INVARIANTS
    SupersessionSucceeds
CHECK_DEADLOCK FALSE
