SPECIFICATION TokenFairSpec
CONSTANTS
    good = good
    bad = bad
    blank = blank
    a = a
    b = b
    Callers = {a, b}
    Creds = {good, bad, blank}
    Incomplete = {blank}
    Registered = {good}
    Grants <- Ordinary
    Refusals <- Refused
    Faults <- Unavailable
    MaxFaults = 1
    MaxCancels = 1
    Times <- Moments
    LongSkew = 60
    ShortLifetime = 120
    SkewDivisor = 10
    DefaultLifetime = 3600
    RequestTimeout = 15
    Nobody = Nobody
    NoToken = NoToken
    NoAnswer = NoAnswer
    NoCred = NoCred
INVARIANTS NoNeedlessRequest OwnToken TokenInv LifetimeInv
PROPERTIES ReturnedValid EventuallyReturns
