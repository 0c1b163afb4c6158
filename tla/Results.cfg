SPECIFICATION Spec
CONSTANTS
    Files = 2
    MaxResults = 2
    MaxEdits = 2
    MaxSaves = 1
INVARIANTS
    FinalIsFinal
PROPERTIES
    NothingLost
    UserKept
CHECK_DEADLOCK FALSE
