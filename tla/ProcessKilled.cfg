CONSTANTS
    Requests = {r1}
    Sockets = {s1}
    Tickers = {t1}
    MaxBacklog = 1
SPECIFICATION Spec
INVARIANTS
    ShutdownIsClean
CHECK_DEADLOCK FALSE
