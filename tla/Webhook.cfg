SPECIFICATION WebhookFairSpec
CONSTANTS
    old = old
    new = new
    r1 = r1
    r2 = r2
    msteams = msteams
    Requests = {r1, r2}
    Kids = {old, new}
    Initial = {old}
    CacheTTL = 2
    FetchTimeout = 1
    MaxRotations = 2
    MaxFaults = 1
    MaxLookups = 2
    MaxClock = 4
    NoKid = NoKid
    Never = Never
    Posts <- SomePosts
    Channels = {msteams}
    Endorsed <- EndorsedForTeams
    MaxBody = 1
    ClockSkew = 1
    Absent = Absent
INVARIANTS KeyInv WebhookInv
PROPERTIES TrustExpires HonestServed HandledInTime EveryPostAnswered
CHECK_DEADLOCK FALSE
