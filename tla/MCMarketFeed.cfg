\* Three updates of a book of up to three levels, while the calculator and a
\* monitor read it.
SPECIFICATION FairSpec
CONSTANTS
    Prices = {1, 2, 3}
    Amounts = {1}
    Markets <- MCMarkets
    Depth = 2
    Capacity = 1
    MaxUpdates = 3
INVARIANTS
    BookIsCurrent
    ResultIsOneBook
PROPERTIES
    OnlyNestedLockBlocks
\* MaxUpdates bounds the updates, and the lock may block for good.
CHECK_DEADLOCK FALSE
