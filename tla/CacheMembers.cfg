SPECIFICATION Spec
CONSTANTS
    r1 = r1
    r2 = r2
    Ann = Ann
    Bob = Bob
    T1 = T1
    T2 = T2
    Request = {r1, r2}
    Fact = {Ann, Bob}
    Lookup <- MCLookups
    CacheNegatives = TRUE
    Closable = FALSE
    TTL = 1
    Timeout = 1
    Max = 1
    MaxFacts = 2
    MaxTime = 3
    None = None
SYMMETRY MCSymmetry
CHECK_DEADLOCK FALSE
INVARIANTS Bounded
PROPERTIES YesIsFresh NoIsFounded
