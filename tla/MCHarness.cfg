SPECIFICATION HarnessSpec
CONSTANTS
    Intents = {900}
    LiquidityDays = {10}
    Thresholds = {1}
    Hours = {10}
    Draws <- DrawTuples
    Clears = {0, 5}
    Offsets = {0, 10, 480}
    MAX_DECISIONS = 3
    MaxDays = 21
    CoolOff = 30
    FollowUp = 6
    Surfaces = {"payment", "invoice"}
    StopReasons = {"recovered", "exhausted"}
    Results <- MCResults
    MaxEpisodes = 3
INVARIANTS
    PlaceboNeverFavoursTreatment
    UntouchedMatchesTwin
    TriageMatchesTruth
    HeadlinesAgree
    SurfacesAddUp
CHECK_DEADLOCK FALSE
