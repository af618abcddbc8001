CONSTANTS
    ana = ana
    bob = bob
    mot = mot
    Users <- MCUsers
    Phrases <- MCPhrases
    Chunks <- MCChunks
    MaxPress = 3
    Attempts = 2
    DailyLimit = 1
    MaxRestarts = 1
SPECIFICATION Spec
INVARIANTS TypeOK ReadsAreSound PaidForSynthesis
PROPERTY PressEnds
CHECK_DEADLOCK FALSE
