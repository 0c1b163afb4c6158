SPECIFICATION FairSpec
CONSTANTS
    None = None
    Self = owner
    Dismisser = dismisser
INVARIANTS
    OutcomeIsStopped
    RecordAgrees
PROPERTIES
    AssignmentEnds
CHECK_DEADLOCK FALSE
