SPECIFICATION FairSpec
CONSTANTS
    r1 = r1
    Ann = Ann
    Bob = Bob
    T1 = T1
    T2 = T2
    Request = {r1}
    Fact = {Ann, Bob}
    Lookup <- MCOneUser
    CacheNegatives = TRUE
    Closable = TRUE
    TTL = 1
    Timeout = 1
    Max = 1
    MaxFacts = 2
    MaxTime = 3
    None = None
CHECK_DEADLOCK FALSE
PROPERTIES Answered ExpiredIsSwept
