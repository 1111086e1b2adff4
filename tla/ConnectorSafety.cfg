SPECIFICATION ConnectorSpec
CONSTANTS
    Absent = Absent
    acct1 = acct1
    acct2 = acct2
    m1 = m1
    m2 = m2
    m3 = m3
    chat1 = chat1
    chat2 = chat2
    url1 = url1
    url2 = url2
    Ids = {m1, m2}
    Chats = {chat1, chat2}
    Urls = {url1, url2}
    AllowedUrls = {url1}
    Workers = {w1}
    Accounts = {acct1, acct2}
    Activities <- TwoBots
    MaxTrackedStateKeys = 1
    TrackedStateTTL = 0
    MaxFaults = 1
    MaxRepeats = 1
    MaxClock = 1
    MaxStarts = 1
    MaxSends = 1
INVARIANTS
    SeenImpliesCreated
    AckedImpliesCreated
    PostedWhereGiven
    ConnectorInv
CHECK_DEADLOCK FALSE
