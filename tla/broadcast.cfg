SPECIFICATION Spec
CONSTANTS
    c1 = c1
    c2 = c2
    Conns = {c1, c2}
    MaxCasts = 2
SYMMETRY Symmetry
INVARIANTS
    OncePerBroadcast
    SameOrder
    ExactlyTheAudience
CHECK_DEADLOCK FALSE
