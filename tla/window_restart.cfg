\* One restart, nothing that fails, no titles.
SPECIFICATION Spec
CONSTANTS
    c1 = c1
    c2 = c2
    Chats = {c1, c2}
    NoChat = NoChat
    MaxLooks = 1
    MaxActs = 2
    MaxTitlings = 0
    MaxFaults = 0
    MaxStarts = 2
PROPERTIES ReopensWhereItWas
CHECK_DEADLOCK FALSE
