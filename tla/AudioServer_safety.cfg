SPECIFICATION Spec
CONSTANTS
    Clients = {c1, c2}
    NoClient = NoClient
SYMMETRY ClientSymmetry
INVARIANTS
    TypeOK
    ThreadsUseLive
    CancelledBetweenCalls
    CloseOnce
    ClosedPageLeavesLine
PROPERTY CallLineImplemented
