CONSTANTS
    Keep = 1
    MaxDay = 3
    MaxTrouble = 3
SPECIFICATION Spec
INVARIANTS TypeOK VersionHonest UpgradesWork NewestCopyKept CopiesBounded
CHECK_DEADLOCK FALSE
