SPECIFICATION FairSpec
CONSTANTS
    creator = creator
    ann = ann
    bob = bob
    Request = {r1, r2}
    User <- MCUser
    Creator = creator
    Caller <- MCEvery
    BotCaller <- MCBot
    Channel = {c1}
    Value = {v1, v2}
    Initial = v1
    Field = {"title", "deadline"}
    InitialAssignee <- MCAssignee
    Kind = {"edit", "status", "delete", "add", "remove", "link", "unlink"}
    None = None

INVARIANTS LockedRowIsStable StatusTrail ReplyIsExplained NoPhantomActivity AssigneeAccounting
PROPERTIES ImplementsLifecycle DeletedIsFrozen Answered
