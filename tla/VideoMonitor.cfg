SPECIFICATION FairSpec
CONSTANT EventMax = 3
CHECK_DEADLOCK FALSE
INVARIANTS
    TypeOK
    ClosedPageQuiet
PROPERTIES
    OnePlayThread
    StopEnds
