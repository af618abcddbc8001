CONSTANTS
    ana = ana
    bob = bob
    Users <- MCUsers
    Tracks <- MCTracks
    General = "general"
    SeedTopics <- MCSeedTopics
    DrillPriority <- MCDrillPriority
    FirstWeek = 52
    LastWeek = 52
    MaxDay = 13
    MaxChoices = 2
SPECIFICATION CourseSpec
INVARIANTS CourseTypeOK AnnouncedIsDrilled
PROPERTY SummaryReachesAll
CHECK_DEADLOCK FALSE
