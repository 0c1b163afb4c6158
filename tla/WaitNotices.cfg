SPECIFICATION FairSpec
CONSTANTS
    Claude = TRUE
    MaxEvents = 3
    MaxPlain = 0
    MaxApprovals = 2
    MaxMessages = 1
    MaxQuestions = 1
    MaxReports = 1
    MaxJobs = 1
INVARIANTS
    AckedWasTold
PROPERTIES
    ServesQueue
    ReportReachesCaptain
    PromptReachesCaptain
CHECK_DEADLOCK FALSE
