SPECIFICATION FairSpec
CONSTANTS
    Absent = Absent
    acct1 = acct1
    m1 = m1
    m2 = m2
    m3 = m3
    chat1 = chat1
    chat2 = chat2
    url1 = url1
    Ids = {m1, m2, m3}
    Chats = {chat1, chat2}
    Urls = {url1}
    Workers = {w1, w2}
    Accounts = {acct1}
    Activities <- TwoTexts
    MaxTrackedStateKeys = 1
    TrackedStateTTL = 1
    MaxFaults = 1
    MaxRepeats = 1
    MaxClock = 1
PROPERTIES
    EventuallyAcked
    RefinesInboxFairly
CHECK_DEADLOCK FALSE
