SPECIFICATION WifiSpec
CONSTANT PipeMax = 2
INVARIANTS
    WifiTypeOK
    PointersLive
