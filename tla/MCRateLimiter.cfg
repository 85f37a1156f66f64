CONSTANTS
    Addresses = {a1, a2}
    Slots = {s1, s2}
    Limiters = {l1, l2, l3}
    None = None
    Burst = 2
    Cost = 1
    Cleanup = 3
    MaxPause = 1
SPECIFICATION FairSpec
INVARIANTS
    TypeOK
    HeldIsCurrent
PROPERTIES
    ImplementsBucket
    Forgotten
