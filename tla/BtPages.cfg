SPECIFICATION FairPages
INVARIANTS
    PagesTypeOK
    MusicPipeShort
PROPERTIES
    LostOnlyBehind
    QueryReplyImplemented
    HandlersEnd
CONSTANTS
    Flags <- MCFlags
    QueueMax = 5
    ClickMax = 1
CHECK_DEADLOCK FALSE
