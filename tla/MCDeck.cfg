CONSTANTS
    Forms <- MCForms
    Lower <- MCLower
    SqlLower <- MCSqlLower
    MaxCard = 4
    BatchMax = 2
    DailyCap = 1
    MaxTime = 1
    NoText = NoText
SPECIFICATION Spec
INVARIANTS TypeOK OneCardPerWord
PROPERTY CapKept
CHECK_DEADLOCK FALSE
