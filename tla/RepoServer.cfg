SPECIFICATION Spec
CONSTANTS
    Hashes = {h1, h2}
    Paths = {p1}
    Ops = {g1}
    None = None
    Free = Free
    GcProc = GcProc
    PushProc = PushProc
    LocalMode = FALSE
    Commands = {"commit", "checkout", "push"}
    MaxStash = 1
    Env = {"unlinkFails"}
SYMMETRY HashSymmetry
INVARIANTS NoDanglingPointer MarkersHaveObjects CleanCacheBacked
CHECK_DEADLOCK FALSE
