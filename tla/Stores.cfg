SPECIFICATION Spec
CONSTANTS
    Own = {o1, o2}
    First = o1
    Foreign = {f1}
    Providers = {"claude", "codex", "grok", "pi", "quiet"}
    MaxPane = 4
    MaxTab = 2
    MaxStray = 1
    captain_tab <- CaptainShape
    crew_tab <- CrewShape
    Captains = {c1, c2}
    Labels = {a, b}
    Reasons = {r1, r2}
    UserLimit = 2
    MaxFacts = 2
INVARIANTS
    DeletedIsOwn
    
    ShapeHolds
    OneFact
PROPERTIES
    PruneKeeps
CHECK_DEADLOCK FALSE
