CONSTANTS
    MaxPack = 2
    MaxSession = 2
    Questions = 2
    MaxAnswers = 3
SPECIFICATION Spec
INVARIANTS TypeOK TextGoesToAsker NoDeadFlow AnswersCounted OldPacksInert
PROPERTY DeleteOnlyConfirmed
CHECK_DEADLOCK FALSE
