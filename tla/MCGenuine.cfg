CONSTANTS
    Slots = {s1}
    Uploaders = {o1}
    Auditors = {a1}
    KeyProvider = "memory"
    Certificate = TRUE
    None = None
    MaxEvidence = 1
    MaxKeys = 1
SPECIFICATION Spec
INVARIANTS GenuineIsVerified
CHECK_DEADLOCK FALSE
