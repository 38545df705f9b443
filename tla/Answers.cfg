SPECIFICATION AnswersSpec
CONSTANTS
    m1 = m1
    m2 = m2
    m9 = m9
    Ann = Ann
    AnnPadded = AnnPadded
    Bob = Bob
    Carl = Carl
    Empty = Empty
    Spaces = Spaces
    F = F
    FPadded = FPadded
    G = G
    H = H
    Str <- MCStr
    Trim <- MCTrim
    Blank = Empty
    Creator = Bob
    Today = {20, 29}
    YearLength = 10
    Lookback = 1
    Lookahead = 2
    Message <- MCMessages
    Answer <- MCAnswers
    MaxMessages = 2
    MaxFiles = 2
    None = None

CHECK_DEADLOCK FALSE
INVARIANTS PeopleAreReal SourcesAreReal FilesAreCited DeadlinesAreNear
