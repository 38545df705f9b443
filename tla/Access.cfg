SPECIFICATION Spec
CONSTANTS
    r1 = r1
    r2 = r2
    Ann = Ann
    Rob = Rob
    Cy = Cy
    TA = TA
    TR = TR
    TB = TB
    S = S
    C = C
    Request = {r1, r2}
    Token = {TA, TB, TR}
    Uid = {Ann, Rob, Cy}
    Space = {S}
    Channel = {C}
    Bots = {TR}
    Self <- MCSelf
    Prefix <- MCPrefix
    Creator = Rob
    Place = S
    Query <- MCQuery
    Start <- MCStart
    Mutable <- MCMutable
    TTL = 1
    Timeout = 1
    Max = 1
    Overlap <- MCOverlap
    MaxTime = 3
    MaxChanges = 1
    None = None
SYMMETRY MCSymmetry
CHECK_DEADLOCK FALSE
PROPERTIES ShownWasPermitted WrittenWasPermitted ChannelsOfMembers RefusedWasBarred
