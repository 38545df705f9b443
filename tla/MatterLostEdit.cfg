SPECIFICATION Spec
CONSTANTS
    creator = creator
    ann = ann
    bob = bob
    Request = {r1, r2}
    User <- MCUser
    Creator = creator
    Caller <- MCPair
    BotCaller <- MCBot
    Channel = {c1}
    Value = {v1, v2}
    Initial = v1
    Field = {"title", "deadline"}
    InitialAssignee <- MCAssignee
    Kind = {"edit"}
    None = None
PROPERTIES KeepsUntouchedFields
