SPECIFICATION FairSpec
CONSTANTS
    Clients = {c1}
    NoClient = NoClient
PROPERTIES
    HangUpEndsCall
    LeavingEnds
    CalledBackDeleted
