CONSTANTS
    c1 = c1
    c2 = c2
    i1 = i1
    i2 = i2
    i3 = i3
    Client = {c1, c2}
    Item = {i1, i2, i3}
    NSlots = 2
    NoItem = NoItem
    NoClient = NoClient
    Deleted = Deleted
    NoSession = NoSession
    InitInv <- MCInitInv
    Discardable = {i1, i3}
    MaxTrades = 1
    MaxQueue = 1
    DbMayFail = FALSE
    Serial = TRUE
SPECIFICATION Spec
INVARIANT DbRowsAgree
CHECK_DEADLOCK FALSE
