CONSTANTS
    Cohort <- MCCohort
    Arm <- MCArm
    Silent <- MCSilent
    MAX_DECISIONS = 3
    NudgeCost = 1
    Amount = 5
    LedgerAttached = TRUE
    TriggersMayFail = FALSE
    MaxRuns = 2
    MaxRepeats = 1
SPECIFICATION Spec
INVARIANTS
    NoGaps
    RowsOfOneRun
    AtMostOneUnlogged
    LoggedMeansExecuted
    ReportMatchesLedger
PROPERTIES
    AppendOnlySpec
CHECK_DEADLOCK FALSE
