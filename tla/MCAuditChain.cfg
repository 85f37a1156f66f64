CONSTANTS
    Writers = {w1, w2, w3}
    Actors = {u1}
    EventData = {d1, r1}
    Receipts = {r1}
    Keys = {k1}
    NoKey = NoKey
    NoCall = NoCall
    MaxEvents = 3
SPECIFICATION Spec
SYMMETRY WriterSymmetry
INVARIANTS TypeOK ChainIntact NoGapNoDuplicate HashCommitsToHistory ReceiptVerifies
PROPERTY ImplementsRace
CHECK_DEADLOCK FALSE
