CONSTANTS
    Requests = {r1, r2}
    Sockets = {s1}
    Tickers = {t1, t2}
    MaxBacklog = 2
SPECIFICATION FairSpec
INVARIANTS
    ConnectionsOutliveTheirUsers
    NormalExitIsClean
PROPERTIES
    StopsWhenAsked
CHECK_DEADLOCK FALSE
