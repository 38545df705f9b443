SPECIFICATION FairSpec
CONSTANTS
    Call = {c1, c2, c3}
    Key = {k1}
    Cooldown = 2
    Grace = 2
    Interval = 2
    MaxDelay = 2
    LastStart = 5
    MaxTime = 12
    None = None

INVARIANTS Spacing EntryIsLatest
PROPERTIES KeysAreSwept
