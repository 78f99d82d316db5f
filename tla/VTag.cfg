SPECIFICATION Spec
CONSTANTS
    Files = {h1, h2}
    Remotes = {origin, fork}
    origin = origin
    fork = fork
    Order <- MCOrder
    Ssh = {fork}
    MaxExpired = 1
    Pushes = {"branches", "tags"}
    None = None
SYMMETRY FileSymmetry
INVARIANT RefsBacked
