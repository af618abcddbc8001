CONSTANTS
    owner = owner
    ana = ana
    bob = bob
    c1 = c1
    Admin <- owner
    People <- MCPeople
    Codes <- MCCodes
    MaxUpdate = 3
    MaxUsers = 3
    MaxUses = 1
    MaxCleanups = 0
    MaxCrashes = 0
SPECIFICATION Spec
INVARIANT InviteUsesBounded
CHECK_DEADLOCK FALSE
