SPECIFICATION BotSpec
CONSTANTS
    MaxRetries = 2
    MaxConnections = 2
    Wanted <- MCWanted
    MaxOrders = 3
INVARIANTS
    OneReader
    OrderedOnceButForDrift
PROPERTIES
    OnlyUnreadyIgnoresSignals
    LossIsNoticed
CHECK_DEADLOCK FALSE
