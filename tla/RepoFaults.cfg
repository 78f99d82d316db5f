SPECIFICATION Spec
CONSTANTS
    Hashes = {h1}
    Paths = {p1}
    Ops = {g1}
    None = None
    Free = Free
    GcProc = GcProc
    PushProc = PushProc
    LocalMode = FALSE
    Commands = {"commit", "stash", "status", "checkout", "recover", "push"}
    MaxStash = 1
    Env = {"writeDuringGc", "slowStash", "reflog", "markFails", "walkFails", "listFails", "forgetFails", "gcCrash", "unlinkFails"}
SYMMETRY HashSymmetry
INVARIANTS RemoteOnServer  OneStagingWriter
CHECK_DEADLOCK FALSE
