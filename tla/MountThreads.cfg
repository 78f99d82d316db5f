SPECIFICATION Spec
CONSTANTS
    Threads = {t1, t2}
    Files = {small, large, huge, text}
    Plain = {text}
    small = small
    large = large
    huge = huge
    text = text
    Size <- MCSize
    Tree <- MCTree
    Pathspec <- MCPathspec
    Budget = 2
    MaxOpens = 3
    None = None
SYMMETRY ThreadSymmetry
INVARIANTS ReadsOwn LruBounded DirWhole
PROPERTY InodesStable
