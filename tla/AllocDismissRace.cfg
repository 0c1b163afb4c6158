SPECIFICATION Spec
CONSTANTS
    src = src
    None = None
    Session = {s1}
    Name = {n1}
    Proc = {p1, p2}
    Inc = {i1}
    Asg = {a1, a2}
    Path <- OnePath
    Outside = {}
    Within <- Below
    Grant <- OneGrant
    Answerable = FALSE
SYMMETRY Symmetry
INVARIANTS
    DismissedReported
CHECK_DEADLOCK FALSE
