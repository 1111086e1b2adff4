SPECIFICATION Spec
CONSTANTS
    Absent = Absent
    Everyone = Everyone
    app1 = app1
    app2 = app2
    uuid1 = uuid1
    ann = ann
    bob = bob
    word = word
    rnd = rnd
    rndEscaped = rndEscaped
    beak = beak
    annName = annName
    t1 = t1
    Apps = {app1, app2}
    UUIDs = {uuid1}
    People = {ann, bob}
    Names = {rnd, rndEscaped, beak, annName, Everyone}
    Escaped <- EscapedNames
    AllowedUrls = {url1}
    Words = {word}
    Registrations <- TwoBots
    Sayings <- Spoken
    NameOf <- Display
    AnswerTexts <- Answers
    Threads = {t1}
    MaxAnswers = 1
    MaxTextDepth = 8
INVARIANTS
    NoReplyLoop
    UsersHeard
    MentionsArrive
    CardsRead
    TagsMatch
    AnswersFromReceiver
CHECK_DEADLOCK FALSE
