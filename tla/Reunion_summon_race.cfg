CONSTANTS
    da = da
    m1 = m1
    m2 = m2
    pd = pd
    Demon = {da, m1, m2, pd}
    Kind <- MCKind
    NoDemon = NoDemon
    NSlots = 2
    InitBox <- MCInitBox
    IdxInput <- MCIdxInput
    MaxRank = 1
    MaxTasks = 1
    MaxQueue = 1
    Serial = FALSE
SPECIFICATION Spec
INVARIANT SummonedNotConsumed
CHECK_DEADLOCK FALSE
