CONSTANTS
    Slots = {s1, s2}
    Users = {u1}
    Uploads = {c1}
    Ops = {"cancel", "finalize"}
    KeyProvider = "database"
    InitialRoles <- Everything
    InitialAssignment <- Staffed
    InitialStage = 4
    None = None
    Grantable = {"SOLUTION_PROVIDER"}
    MaxEvents = 11
    MaxKeys = 1
SPECIFICATION Spec
SYMMETRY SlotSymmetry
PROPERTY TerminalIsFinal
CHECK_DEADLOCK FALSE
