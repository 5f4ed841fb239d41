\* Two TWAP goroutines, orders of three lots in chunks of two: entries and exits
\* overlap, and every order has a remainder to place.
SPECIFICATION FairSpec
CONSTANTS
    t1 = t1
    t2 = t2
    Twaps = {t1, t2}
    MaxOrderSize = 2
    OrderAmount = 3
    ExitPct = 50
    MaxSize = 1
INVARIANTS
    FlagHasOwner
    AtMostOneExitWithoutEntryTwap
PROPERTIES
    WholeAmountPlaced
    ExitEnds
\* Once the context is done every goroutine comes to its end.
CHECK_DEADLOCK FALSE
