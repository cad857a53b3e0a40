SPECIFICATION Spec
CONSTANTS
    Mids = {0, 1}
    Step = 1
    MaxIdle = 2
    MaxConns = 2
    MaxTicks = 3
    MaxBeats = 1
INVARIANTS NoGhostOrders ExecutedOnce OrdersAccounted FirstTickNeverTrades
PROPERTY DeadPeerReclaimed
CHECK_DEADLOCK FALSE
