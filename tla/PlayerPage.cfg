SPECIFICATION Spec
CONSTANT EventMax = 3
INVARIANTS
    TypeOK
    FlagsFollowPlayer
    PageOwns
