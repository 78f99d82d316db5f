SPECIFICATION Spec
CONSTANTS
    Requests = {r1, r2}
    Xorbs = {"x1", "x2"}
    Encodings = {"e1", "e2"}
    EncodingsOf <- MCEncodings
    SizeOf <- MCSizes
    Files <- MCFiles
    Segs <- MCSegs
    Repos = {"p1"}
    Owners = {"o1"}
    OwnerOf <- MCOneOwner
    Limits = {3}
    NoLimit = NoLimit
    None = None
SYMMETRY RequestSymmetry
INVARIANTS FilesReconstructible BlobsHaveLayout RowsArchived RowsCharged
PROPERTIES ImplementsRegistry QuotaNeverOvershot
