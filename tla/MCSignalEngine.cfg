\* Six evaluations of scores on, well beyond and below the threshold; five with
\* the slope filter and dynamic thresholds.
SPECIFICATION Spec
CONSTANT Configs <- MCConfigs
INVARIANTS
    ConfirmedIsHeld
    ConfirmedOnce
    HeldIsConfirmed
    FollowsObi
    WithinClamps
\* The bounds end the behaviour.
CHECK_DEADLOCK FALSE
