SPECIFICATION FairSpec
PROPERTY ProfileAfterInit
CONSTANTS
    Flags <- MCFlags
    QueueMax = 1
