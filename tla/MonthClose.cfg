SPECIFICATION FairSpec
CONSTANTS
    MaxRequests = 2
    MaxFaults = 1
    Periods = {0, 1, 2}
    Categories = {food}
    Amounts = {2}
    Thresholds = {50}
    DaysPerPeriod = 2
    CloseDay = 1
    Failing = {0}
    BudgetIds = {1, 2, 3}
    StartDays = {1, 2}
    MaxSpend = 1
    SpendOn <- MCSpendOn
    Stored <- MCStored
    FirstDay = 5
    MaxDay = 6
    Goals = {g1, g2}
    GoalAmounts = {2}
    StoredGoals <- MCStoredGoals
    GoalWorkers = {1}
    food = food
    g1 = g1
    g2 = g2
INVARIANTS ClosedIffAnnounced SurplusPlacedOnce CreditsAddUp
PROPERTIES SurplusWasLeft DueMonthsClose
CHECK_DEADLOCK FALSE
