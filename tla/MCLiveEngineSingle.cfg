\* One goroutine places up to three orders: what its checks guarantee, and that
\* each of its calls returns.
SPECIFICATION FairSpec
CONSTANTS
    c1 = c1
    Callers = {c1}
    Requests <- MCSingleRequests
    MaxOrders = 3
    InitJpy = 20
    InitBtc = 1
    MaxDrawdownPct = 10
    MaxPositionPct = 60
INVARIANTS
    LongPositionWithinRatio
PROPERTIES
    NoOrderBeyondDrawdown
    CallsReturn
\* MaxOrders bounds the orders, so a behaviour can come to its end.
CHECK_DEADLOCK FALSE
