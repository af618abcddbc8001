CONSTANTS
    MaxCard = 3
    Sizes = {3}
    Limits = {1, 2}
    MaxTime = 1
    MaxDelay = 2
    MaxLogs = 1
SPECIFICATION Spec
INVARIANTS TypeOK NewBudgetKept CurrentCardAsked
PROPERTIES NoEarlyReview KeepsSchedule
CHECK_DEADLOCK FALSE
