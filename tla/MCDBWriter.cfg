\* Two goroutines save up to three rows of three kinds, in batches of two.
SPECIFICATION FairSpec
CONSTANTS
    s1 = s1
    s2 = s2
    Savers = {s1, s2}
    BatchSize = 2
    MaxRows = 3
    Times = {1, 2}
    Profits <- MCProfits
INVARIANTS
    EachRowOnce
    RowsInOrder
    BufferBounded
    ClosedIsFlushed
    TotalsAddUp
PROPERTIES
    RowsLeaveBuffer
\* The bound on the rows ends the savers, and the process may exit.
CHECK_DEADLOCK FALSE
