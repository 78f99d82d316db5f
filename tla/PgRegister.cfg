SPECIFICATION FairSpec
CONSTANTS
    Tasks = {t1, t2}
    Files = {f1, f2}
    Repos = {ra, rb, rc}
    Xorbs = {x1, x2}
    Encodings = {e1, e2}
    Frames = 2
    MaxTerms = 2
    Segs <- MCSegs
    LockKey <- MCLockKey
    OwnerOf <- MCOwnerOf
    SizeOf <- MCSizeOf
    Calls <- MCCalls
    None = None
    f1 = f1
    f2 = f2
    x1 = x1
    x2 = x2
    ra = ra
    rb = rb
    rc = rc
    o1 = o1
    o2 = o2
INVARIANTS TermsWhole LookupAsOneRead LayoutOneEncoding AccountingExact
PROPERTIES ImplementsRegistry CallsEnd
