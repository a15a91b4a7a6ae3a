SPECIFICATION Spec
CONSTANTS
    i1 = i1
    i2 = i2
    c2 = c2
    Conns = {c1, c2}
    Instances = {i1, i2}
    InstanceOf <- Placement
    Values <- RoomIds
    NoValue = NoValue
    Poller = i1
    None = None
    MaxSelects = 1
    MaxPicks <- NoneChanges
    MayLose = FALSE
INVARIANTS
    ReconnectingRecovers
