SPECIFICATION Spec
CONSTANTS
    m1 = m1
    m2 = m2
    q1 = q1
    None = None
    Msg <- OneMessage
    Question <- OneQuestion
    AnswerTo <- FirstAnswers
    Captain = {c1, c2}
    Early = {}
    Reader = {r1, r2}
    HookDelivered = TRUE
    Dismissible = TRUE
SYMMETRY Symmetry
INVARIANTS
    TypeOK
    AskedMeansOpen
    FilesAgree
PROPERTIES
    ReportSurvives
CHECK_DEADLOCK FALSE
