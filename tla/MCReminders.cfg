CONSTANTS
    ana = ana
    bob = bob
    west = west
    east = east
    Users <- MCUsers
    Zones <- MCZones
    Offset <- MCOffset
    Times <- MCTimes
    Kinds = {"writing"}
    Jump = 1
    Day = 4
    MaxGap = 2
    MaxTime = 7
    MaxChanges = 2
    MaxLate = 1
    MaxRestarts = 1
SPECIFICATION Spec
INVARIANTS TypeOK OncePerDay EveryDayServed ErasedUnlessRacing
SYMMETRY Sym
CHECK_DEADLOCK FALSE
