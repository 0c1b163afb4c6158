SPECIFICATION Spec
CONSTANTS
    src = src
    None = None
    Session = {s1, s2}
    Name = {n1}
    Proc = {p1, p2}
    Inc = {i1, i2}
    Asg = {a1, a2, a3}
    Path <- OnePath
    Outside = {}
    Within <- Below
    Grant <- OneGrant
    Answerable = TRUE
SYMMETRY Symmetry
INVARIANTS
    TypeOK
    PathsDisjoint
    FreedIsStopped
    LivingIsListed
PROPERTIES
    NameKept
CHECK_DEADLOCK FALSE
