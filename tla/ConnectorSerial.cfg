SPECIFICATION SerialSpec
CONSTANTS
    Absent = Absent
    acct1 = acct1
    acct2 = acct2
    m1 = m1
    m2 = m2
    m3 = m3
    chat1 = chat1
    chat2 = chat2
    url1 = url1
    url2 = url2
    Ids = {m1, m2, m3}
    Chats = {chat1, chat2}
    Urls = {url1, url2}
    AllowedUrls = {url1}
    Workers = {w1}
    Accounts = {acct1}
    Activities <- TextsAndUpdate
    MaxTrackedStateKeys = 2
    TrackedStateTTL = 1
    MaxFaults = 2
    MaxRepeats = 1
    MaxClock = 2
    MaxStarts = 2
    MaxSends = 1
INVARIANTS
    LinkStored
    ReferenceStored
PROPERTIES
    NoCreateWhileRemembered
    ForgetsOnlyOldest
CHECK_DEADLOCK FALSE
