\* Two goroutines place up to three orders, with every fill, lost reply,
\* cancellation and exit of the process.
SPECIFICATION Spec
CONSTANTS
    c1 = c1
    c2 = c2
    Callers = {c1, c2}
    Requests <- MCRequests
    MaxOrders = 3
    InitJpy = 20
    InitBtc = 2
    MaxDrawdownPct = 5
    MaxPositionPct = 60
SYMMETRY CallerSymmetry
INVARIANTS
    TypeOK
    OneOutcomePerOrder
    BooksBalance
PROPERTIES
    ImplementsOrderOutcome
\* MaxOrders bounds the orders, so a behaviour can come to its end.
CHECK_DEADLOCK FALSE
