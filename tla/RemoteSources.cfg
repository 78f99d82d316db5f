SPECIFICATION Spec
CONSTANTS
    Files = {h1, h2}
    Remotes = {origin, fork}
    origin = origin
    fork = fork
    Order <- MCOrder
    Ssh = {fork}
    MaxExpired = 1
    Pushes = {"branches"}
    None = None
SYMMETRY FileSymmetry
INVARIANTS RefsBacked BytesSomewhere SkewMeansSkew PublicNeverPrompts
