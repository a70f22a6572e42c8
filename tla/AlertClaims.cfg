SPECIFICATION FairSpec
CONSTANTS
    w1 = w1
    w2 = w2
    a1 = a1
    a2 = a2
    a3 = a3
    u1 = u1
    u2 = u2
    email = email
    sms = sms
    digest = digest
    Workers = {w1, w2}
    Alerts = {a1, a2, a3}
    Channels <- MCChannels
    Digest = digest
    Egresses = {"push"}
    ChannelsOf <- MCDigests
    Unsupported = {a3}
    GroupOf <- MCOneGroup
    EgressOf <- MCEgress
    Limit = 2
    Timeout = 0
    MaxFailures = 1
    MaxRevoked = 1
INVARIANTS
    ExclusiveWithinClaim
PROPERTIES
    BlockedFactsStay
    SupportedAlertsDecided
CONSTRAINT
    Bounded
