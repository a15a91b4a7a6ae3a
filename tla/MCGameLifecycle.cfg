SPECIFICATION Spec
CONSTANT MaxGames = 3
INVARIANTS
    OneEventPerTransition
    StartsArePlayed
    StartBeforeEnd
    HistoryComplete
    NoEventForgotten
CHECK_DEADLOCK FALSE
