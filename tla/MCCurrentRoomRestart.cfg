SPECIFICATION Spec
CONSTANTS
    i1 = i1
    i2 = i2
    c2 = c2
    Conns = {}
    Instances = {i1}
    InstanceOf <- Placement
    Values <- RoomIds
    NoValue = NoValue
    Poller = i1
    None = None
    MaxSelects = 1
    MaxPicks <- NoneChanges
    MayLose = FALSE
INVARIANTS
    SyncedIsCurrent
