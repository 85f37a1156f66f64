CONSTANTS
    Slots = {s1, s2}
    Users = {u1}
    Uploads = {c1}
    Ops = {"SIGNING_KEY_REGISTERED", "cancel", "contract", "finalize", "acknowledge"}
    KeyProvider = "memory"
    InitialRoles <- Everything
    InitialAssignment <- Staffed
    InitialStage = 4
    None = None
    Grantable = {"SOLUTION_PROVIDER"}
    MaxEvents = 12
    MaxKeys = 2
SPECIFICATION Spec
SYMMETRY SlotSymmetry
INVARIANTS ContractWhole DownloadedHasReceipt TrailTellsTheTruth
CHECK_DEADLOCK FALSE
