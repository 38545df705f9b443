SPECIFICATION FairSpec
CONSTANTS
    Request = {r1, r2, r3, r4}
    Worker = {w1, w2}
    Buffer = 1
    Kind = {"assignee_added"}
    None = None

CHECK_DEADLOCK FALSE
INVARIANTS HandlersFinishFirst ExitDrains
PROPERTIES ImplementsPool ShutdownEnds
