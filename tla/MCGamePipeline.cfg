SPECIFICATION PipelineSpec
CONSTANTS
    MaxGames = 1
    OccurredAt <- MCOccurredAt
    NoMessage = NoMessage
    Workers = {w1}
    Operators = {o1}
    MaxDeliver = 1
    MarkersExpire = FALSE
    MaxCopies <- StartTwice
    MaxRecords <- OneEach
INVARIANTS
    EventsAccounted
    SessionsAreHistory
    SessionsArePlayed
CHECK_DEADLOCK FALSE
