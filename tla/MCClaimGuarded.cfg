CONSTANTS
    Cohort <- MCCohort
    Arm <- MCArm
    Silent <- MCSilent
    MAX_DECISIONS = 3
    NudgeCost = 1
    Amount = 5
    LedgerAttached = TRUE
    TriggersMayFail = TRUE
    MaxRuns = 2
    MaxRepeats = 1
SPECIFICATION Spec
PROPERTIES
    RewriteRefused
CHECK_DEADLOCK FALSE
