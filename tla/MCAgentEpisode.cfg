SPECIFICATION Spec
CONSTANTS
    DayTicks = 24
    QuietStart = 19
    QuietEnd = 9
    MaxContactsPer7d = 3
    MinTicksBetween = 24
    MaxAttempts = 3
    MaxMandateAttempts = 2
    PreDebitTicks = 24
    MaxDays = 21
    DailyActionBudget = 2500
    DailySpendCap = 2500
    ToHumanAbove = 50
    MaxEscalationsPerDay = 80
    Customers = {c1}
    Merchants = {m1}
    EventProfiles <- EpisodeProfiles
    StartTimes = {200}
    MaxEpisodes = 1
    MAX_DECISIONS = 5
    CoolOffTicks = 30
    FollowUpTicks = 6
    PromiseTicks = 48
    WeekTicks = 168
    HoldoutDays = 21
    RETRY_OFFSETS <- RetryOffsets
    NUDGE_OFFSETS = {0, 24}
    DowntimeOffset = 3
    MonthTicks = 720
    SalaryTick = 10
    HorizonTicks = 504
    NudgeCost <- Costs
    RetryCost = 2
    EscalateCost = 40
    AttentionCost <- Attention
    MAX_CUSTOMERS_TRACKED = 1
    MAX_MERCHANT_DAYS = 100
    LedgerAttached = TRUE
INVARIANTS
    TypeOK
    OutcomeTruthful
    FairTrial
    LedgerFaithful
PROPERTIES
    NothingAfterStop
    MandateDebits
    OnlyAHumanActs
