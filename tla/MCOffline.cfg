SPECIFICATION OfflineSpec
CONSTANTS
    Histories <- MCHistories
    MaxReports = 3
    NumFolds = 2
    MinPercent = 50
    MaxJobs = 2
    MaxCrashes = 1
INVARIANTS
    EachTradeReportedOnce
    ReportsAddUp
    JobsAreRun
    ConfigFollowsFile
PROPERTY
    LastParamsLoaded
\* the optimizer may hang or have no job
CHECK_DEADLOCK FALSE
