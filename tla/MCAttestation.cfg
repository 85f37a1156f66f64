CONSTANTS
    Slots = {s1, s2}
    Uploaders = {o1}
    Auditors = {a1}
    KeyProvider = "memory"
    Certificate = FALSE
    None = None
    MaxEvidence = 2
    MaxKeys = 2
SPECIFICATION Spec
SYMMETRY SlotSymmetry
INVARIANTS
    TypeOK
    DecisionIsStored
    OneVerdict
    TrailTellsOfStored
    StateAgrees
    
    
PROPERTY OnlyOvertakenStray
CHECK_DEADLOCK FALSE
