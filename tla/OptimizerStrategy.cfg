SPECIFICATION TuningSpec
CONSTANTS
    NumFolds = 1
    MinPercent = 50
    MaxJobs = 1
    MaxCrashes = 0
PROPERTY
    StrategyFollowsConfig
CHECK_DEADLOCK FALSE
