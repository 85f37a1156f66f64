CONSTANTS
    Slots = {s1}
    Users = {u1}
    Uploads = {c1}
    Ops = {"patch", "cancel", "attestation", "finalize", "contract", "section", "environment", "SIGNING_KEY_REGISTERED", "ATTESTATION_KEY_REGISTERED", "acknowledge"}
    KeyProvider = "memory"
    InitialRoles <- Everything
    InitialAssignment <- Staffed
    InitialStage = 0
    None = None
    Grantable = {"SOLUTION_PROVIDER"}
    MaxEvents = 11
    MaxKeys = 1
SPECIFICATION Spec
INVARIANTS ReceiptForStoredContract
PROPERTY ImplementsLifecycle
CHECK_DEADLOCK FALSE
