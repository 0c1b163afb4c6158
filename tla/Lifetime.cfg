SPECIFICATION FairSpec
CONSTANTS
    None = None
    Owner = {o1, o2}
    Closer = {c1, c2}
    Worktree = TRUE
INVARIANTS
    TypeOK
    VerdictHolds
    OneLaunch
PROPERTIES
    RecordForward
    GroupEnds
CHECK_DEADLOCK FALSE
