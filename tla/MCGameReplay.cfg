SPECIFICATION FairSpec
CONSTANTS
    start = start
    again = again
    stop = stop
    early = early
    bad = bad
    g1 = g1
    room1 = room1
    room2 = room2
    Events = {start}
    Games = {g1}
    Rooms = {room1, room2}
    Started = {start}
    Poison = {}
    GameOf <- MCGameOf
    RoomOf <- MCRoomOf
    At <- MCAt
    NoRoom = NoRoom
    NoMessage = NoMessage
    Workers = {w1, w2}
    Operators = {o1, o2}
    MaxDeliver = 2
    MarkersExpire = FALSE
    MaxCopies <- StartTwice
    MaxRecords <- OneRecord
INVARIANTS
    NothingStranded
    ExactlyOnce
PROPERTIES
    EventuallySettled
    DeliversOrBuries
    ReplaysBeforeDeleting
CHECK_DEADLOCK FALSE
