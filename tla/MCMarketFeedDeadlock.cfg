\* The calculator, the monitor and the WebSocket reader share the lock.
SPECIFICATION FairSpec
CONSTANTS
    Prices = {1, 2, 3}
    Amounts = {1}
    Markets <- MCMarkets
    Depth = 2
    Capacity = 1
    MaxUpdates = 3
PROPERTIES
    UpdatesApplied
\* MaxUpdates bounds the updates, and the lock may block for good.
CHECK_DEADLOCK FALSE
