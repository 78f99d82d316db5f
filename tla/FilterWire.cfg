SPECIFICATION FairSpec
CONSTANTS
    N = 2
    MaxPay = 3
    PayloadCap = 1
    PipeCap = 2
    ReplyCap = 6
    FileLen = 2
    Surplus = 1
    Stall = 2
INVARIANTS AcceptedOwn InSync StallMeansSilence
PROPERTY CommandEnds
