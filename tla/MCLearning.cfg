SPECIFICATION Spec
CONSTANTS
    Classes = {"FUNDS", "INFRA"}
    Slate <- MCSlate
    ContactCounts = {0, 1}
    AttentionCost <- Attention
    MAX_DECISIONS = 2
    EventProfiles <- MCProfiles
    Starts = {10}
    MaxEpisodes = 2
    Draws = {100, 800}
    CoolOff = 30
    FollowUp = 6
    Shifts = {0}
INVARIANTS
    CellsAccountForWorld
    TrustAccountsForDecisions
    ActsOnlyForUplift
    PricedIsCharged
CHECK_DEADLOCK FALSE
