SPECIFICATION Spec
CONSTANTS
    ann = ann
    bob = bob
    bot = bot
    f1 = f1
    f2 = f2
    None = None
    Request = {1, 2}
    Caller <- MCEvery
    User <- MCUser
    Creator = ann
    Assignee <- MCAssigned
    Channel = {c1}
    LinkedAtStart = {c1}
    Time = {1, 2}
    Start = 1
    File = {f1, f2}
    Sent <- MCSent
    Cited <- MCCited
    MaxAttachments = 2
    MaxLinks = 2
    Kind = {"llm", "direct", "delete"}

INVARIANTS TypeOK NoOrphanLink BotsNeverLink AuthorsParticipate OneRowPerFile
PROPERTIES OnlyAuthorsDelete
