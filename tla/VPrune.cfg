SPECIFICATION Spec
CONSTANTS
    Hashes = {h1, h2}
    Repos = {r1, r2}
    Free = Free
    Prune = Prune
    None = None
    MaxPrunes = 1
    Env = {"checkout"}
SYMMETRY SharedSymmetry
INVARIANTS NothingReachableLost
CHECK_DEADLOCK FALSE
