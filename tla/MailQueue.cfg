SPECIFICATION BoundedSpec
CONSTANTS
    m1 = m1
    m2 = m2
    q1 = q1
    None = None
    Msg <- TwoMessages
    Question <- OneQuestion
    AnswerTo <- SecondAnswers
    Captain = {c1, c2}
    Early = {c2}
    Reader = {r1}
    HookDelivered = FALSE
    Dismissible = FALSE
INVARIANTS
    ReportSettled
    LandedWasTyped
    OnlyRefusalLoses
PROPERTIES
    DeliveryForward
    OnlyAnswerCloses
CHECK_DEADLOCK FALSE
