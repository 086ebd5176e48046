SPECIFICATION FairSpec
CONSTANTS
    Streams <- PipeAndStdio
    Bad = Bad
    Writers = {w1, w2}
    Closers = {k1, k2}
    Nobody = Nobody
    w1 = w1
    w2 = w2
    k1 = k1
    k2 = k2
INVARIANTS
    TypeOK
    DeliversInOrder
    LinesAreWhole
PROPERTIES
    ReadReturns
    PumpExits
    CloseReturns
    WritesReturn
