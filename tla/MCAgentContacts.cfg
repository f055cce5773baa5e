SPECIFICATION Spec
SYMMETRY Symmetry
CONSTANTS
    DayTicks = 24
    QuietStart = 19
    QuietEnd = 9
    MaxContactsPer7d = 3
    MinTicksBetween = 24
    MaxAttempts = 3
    MaxMandateAttempts = 2
    PreDebitTicks = 24
    MaxDays = 21
    DailyActionBudget = 2
    DailySpendCap = 50
    ToHumanAbove = 50
    MaxEscalationsPerDay = 1
    Customers = {c1, c2}
    Merchants = {m1}
    EventProfiles <- LimitProfiles
    StartTimes = {0, 20}
    MaxEpisodes = 2
    MAX_DECISIONS = 5
    CoolOffTicks = 30
    FollowUpTicks = 6
    PromiseTicks = 48
    WeekTicks = 168
    HoldoutDays = 21
    RETRY_OFFSETS <- DayOffset
    NUDGE_OFFSETS = {0, 24}
    DowntimeOffset = 3
    MonthTicks = 720
    SalaryTick = 10
    HorizonTicks = 504
    NudgeCost <- DayCosts
    RetryCost = 2
    EscalateCost = 40
    AttentionCost <- DayAttention
    MAX_CUSTOMERS_TRACKED = 1
    MAX_MERCHANT_DAYS = 2
    LedgerAttached = FALSE
INVARIANTS
    ContactSpacing
    ContactCap
    DailyLimits
    SpendOvershootBounded
PROPERTIES
    ContractSpec
