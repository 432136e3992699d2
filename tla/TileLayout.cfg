SPECIFICATION FairSpec
CONSTANTS
    Cols = 3
    Rows = 2
    Apps = 5
    Sizes <- SmallSizes
INVARIANTS
    TypeOK
    WellLaid
PROPERTY AllPlaced
