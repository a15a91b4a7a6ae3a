SPECIFICATION FairSpec
CONSTANTS
    i1 = i1
    i2 = i2
    c2 = c2
    Conns = {c1}
    Instances = {i1}
    InstanceOf <- Placement
    Values <- RoomIds
    NoValue = NoValue
    Poller = i1
    None = None
    MaxSelects = 2
    MaxPicks <- FirstChanges
    MayLose = TRUE
INVARIANTS
    QuietMeansCurrent
    SyncedIsCurrentUnlessForgotten
    CurrentRoomExists
PROPERTIES
    EventuallyShown
