SPECIFICATION Spec
CONSTANT MaxGames = 2
INVARIANTS
    OutageLosesNothing
CHECK_DEADLOCK FALSE
