SPECIFICATION Spec
CONSTANTS
    start = start
    again = again
    stop = stop
    early = early
    bad = bad
    g1 = g1
    room1 = room1
    room2 = room2
    Events = {stop}
    Games = {g1}
    Rooms = {room1, room2}
    Started = {}
    Poison = {}
    GameOf <- MCGameOf
    RoomOf <- MCRoomOf
    At <- MCAt
    NoRoom = NoRoom
    NoMessage = NoMessage
    Workers = {w1}
    Operators = {}
    MaxDeliver = 2
    MarkersExpire = FALSE
    MaxCopies <- OneCopy
    MaxRecords <- TwoRecords
INVARIANTS
    DeadLettersUnique
CHECK_DEADLOCK FALSE
