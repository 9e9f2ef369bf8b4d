CONSTANTS
    c1 = c1
    c2 = c2
    pl = pl
    n1 = n1
    o1 = o1
    ox = ox
    Client = {c1, c2}
    Privileged = {c2}
    Plasma = {pl}
    NPoints = 2
    PointInput <- MCPointInput
    NpcIds = {n1}
    ObjIds = {o1}
    HasActions = {n1}
    OtherId = ox
    NoClient = NoClient
    NoEvent = NoEvent
    NoPoint = NoPoint
    MaxWork = 2
SPECIFICATION Spec
INVARIANT TypeOK EventIffPick ListsOwnedByTasks
