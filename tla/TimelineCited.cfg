SPECIFICATION Spec
CONSTANTS
    ann = ann
    bob = bob
    bot = bot
    f1 = f1
    f2 = f2
    None = None
    Request = {1, 2, 3}
    Caller <- MCAnn
    User <- MCUser
    Creator = ann
    Assignee <- MCAssigned
    Channel = {c1}
    LinkedAtStart = {c1}
    Time = {1, 2}
    Start = 1
    File = {f1}
    Sent <- MCNoFiles
    Cited <- MCOneFile
    MaxAttachments = 2
    MaxLinks = 1
    Kind = {"llm", "delete"}
INVARIANTS CitedFilesAreShown
