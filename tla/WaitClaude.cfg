SPECIFICATION Spec
CONSTANTS
    Claude = TRUE
    MaxEvents = 4
    MaxPlain = 1
    MaxApprovals = 2
    MaxMessages = 2
    MaxQuestions = 0
    MaxReports = 0
    MaxJobs = 1
INVARIANTS
    TurnBanked
    ApprovalOnce
    ApprovalTold
    IdlePerMessage
CHECK_DEADLOCK FALSE
