SPECIFICATION Spec
CONSTANTS
    Claude = FALSE
    MaxEvents = 2
    MaxPlain = 1
    MaxApprovals = 2
    MaxMessages = 1
    MaxQuestions = 0
    MaxReports = 1
    MaxJobs = 2
INVARIANTS
    PendingInOrder
    ApprovalOnce
CHECK_DEADLOCK FALSE
