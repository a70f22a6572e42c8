SPECIFICATION FairSpec
CONSTANTS
    w1 = w1
    w2 = w2
    a1 = a1
    a2 = a2
    a3 = a3
    u1 = u1
    u2 = u2
    email = email
    sms = sms
    digest = digest
    Workers = {w1}
    Alerts = {a1, a2}
    Channels <- MCChannels
    Digest = digest
    Egresses = {"email", "push"}
    ChannelsOf <- MCPlain
    Unsupported = {a1}
    GroupOf <- MCTwoGroups
    EgressOf <- MCEgress
    Limit = 2
    Timeout = 1
    MaxFailures = 0
    MaxRevoked = 0
PROPERTIES
    EveryAlertDecided
