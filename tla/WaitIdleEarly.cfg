SPECIFICATION Spec
CONSTANTS
    Claude = TRUE
    MaxEvents = 2
    MaxPlain = 1
    MaxApprovals = 0
    MaxMessages = 1
    MaxQuestions = 0
    MaxReports = 0
    MaxJobs = 2
INVARIANTS
    IdlePerMessage
CHECK_DEADLOCK FALSE
