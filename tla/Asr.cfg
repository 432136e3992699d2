SPECIFICATION FairSpec
CONSTANT PipeMax = 2
INVARIANTS
    TypeOK
    ThreadsContained
PROPERTIES
    LeaveEnds
    SleepHides
