SPECIFICATION Spec
PROPERTY LitForTimeout
CONSTANTS
    Levels <- MCLevels
    Garbage <- MCGarbage
    Timeouts <- MCTimeouts
    FirstTimeout = 1
    HoldMax = 2
    ClockMax = 4
