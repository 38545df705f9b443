SPECIFICATION Spec
CONSTANTS
    ann = ann
    Create = {m1, m2, m3}
    AssigneeList <- MCLists
    MaxTries = 2

SYMMETRY Symmetry
INVARIANTS SeqNosAreDense RefusalsAreContention CreatedWhole
