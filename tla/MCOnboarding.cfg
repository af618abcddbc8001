CONSTANTS
    MaxPack = 1
    MaxSession = 2
    Questions = 2
    MaxAnswers = 3
SPECIFICATION Spec
PROPERTY OnboardingCompletes
CHECK_DEADLOCK FALSE
