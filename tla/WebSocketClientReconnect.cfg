\* The first unexpected close: what becomes of the second connection.
SPECIFICATION Spec
CONSTANTS
    MaxRetries = 2
    MaxConnections = 2
INVARIANTS
    ReconnectionSucceeds
CHECK_DEADLOCK FALSE
