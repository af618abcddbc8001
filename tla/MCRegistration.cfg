CONSTANTS
    owner = owner
    ana = ana
    bob = bob
    c1 = c1
    Admin <- owner
    People <- MCPeople
    Codes <- MCCodes
    MaxUpdate = 3
    MaxUsers = 1
    MaxUses = 2
    MaxCleanups = 1
    MaxCrashes = 1
SPECIFICATION Spec
INVARIANTS TypeOK NoPhantomUse RosterBounded
PROPERTY UpdatesFinish
CHECK_DEADLOCK FALSE
