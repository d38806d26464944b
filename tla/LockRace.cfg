SPECIFICATION Spec
CONSTANTS
    p1 = p1
    p2 = p2
    p3 = p3
    Pids = {p1, p2, p3}
    None = None
    Alone = FALSE
SYMMETRY PidSymmetry
INVARIANTS
    Exclusive
