SPECIFICATION FairSpec
INVARIANTS
    TypeOK
    InputsFollowLight
PROPERTIES
    Settles
    Wakes
    DarkAtLast
CONSTANTS
    Levels <- MCLevels
    Garbage <- MCGarbage
    Timeouts <- MCTimeouts
    FirstTimeout = 1
    HoldMax = 2
    ClockMax = 4
