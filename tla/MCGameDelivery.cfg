SPECIFICATION Spec
CONSTANTS
    start = start
    again = again
    stop = stop
    early = early
    bad = bad
    g1 = g1
    room1 = room1
    room2 = room2
    Events = {start, again, stop, early, bad}
    Games = {g1}
    Rooms = {room1, room2}
    Started = {start, again, bad}
    Poison = {bad}
    GameOf <- MCGameOf
    RoomOf <- MCRoomOf
    At <- MCAt
    NoRoom = NoRoom
    NoMessage = NoMessage
    Workers = {w1}
    Operators = {}
    MaxDeliver = 1
    MarkersExpire = TRUE
    MaxCopies <- StartTwice
    MaxRecords <- BadTwice
INVARIANTS
    SessionsReflectEvents
CHECK_DEADLOCK FALSE
