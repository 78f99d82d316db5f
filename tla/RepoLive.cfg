SPECIFICATION FairSpec
CONSTANTS
    Hashes = {h1}
    Paths = {p1}
    Ops = {g1, g2}
    None = None
    Free = Free
    GcProc = GcProc
    PushProc = PushProc
    LocalMode = FALSE
    Commands = {"add", "push", "fetch"}
    MaxStash = 1
    Env = {}
PROPERTIES RequestAnswered PushDrains AbandonedReclaimed
CHECK_DEADLOCK FALSE
