SPECIFICATION BacktestSpec
CONSTANTS
    Files <- MCFiles
    MaxRows = 4
    OrderAmount = 2
    LongTP = 1
    LongSL = 4
    ShortTP = 1
    ShortSL = 4
    EntryPriceOffset = 1
    UserSignals = TRUE
    NumTrials = 3
    NumCPU = 2
    PipeSize = 4
    LogLines = 1
INVARIANTS
    StreamMatchesLoad
    TradesExplainProfit
    EachTrialAnswered
PROPERTIES
    ClosingsRealizeLevels
    SimulateModeEnds
    ServeModeEnds
\* the processes end, or hang
CHECK_DEADLOCK FALSE
