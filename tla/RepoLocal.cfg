SPECIFICATION Spec
CONSTANTS
    Hashes = {h1, h2}
    Paths = {p1}
    Ops = {g1, g2}
    None = None
    Free = Free
    GcProc = GcProc
    PushProc = PushProc
    LocalMode = TRUE
    Commands = {"commit", "stash", "pop", "push"}
    MaxStash = 1
    Env = {"unlinkFails"}
SYMMETRY OpSymmetry
INVARIANTS NoDanglingPointer FullCleanStaysBacked
CHECK_DEADLOCK FALSE
