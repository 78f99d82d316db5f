SPECIFICATION Spec
CONSTANTS
    Hashes = {h1, h2}
    Repos = {r1, r2}
    Free = Free
    Prune = Prune
    None = None
    MaxPrunes = 2
    Env = {"force", "crash", "renameFails", "checkout", "reAdd", "initDuring"}
SYMMETRY SharedSymmetry
INVARIANTS TypeOK BytesSurvive StoreComplete RegistryKept
CHECK_DEADLOCK FALSE
