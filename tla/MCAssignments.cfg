CONSTANTS
    Slots = {s1, s2}
    Users = {u1, u2}
    Uploads = {c1}
    Ops = {"assign", "unassign", "section", "roles"}
    KeyProvider = "database"
    InitialRoles <- Crew
    InitialAssignment <- Staffed
    InitialStage = 1
    None = None
    Grantable = {"SOLUTION_PROVIDER"}
    MaxEvents = 7
    MaxKeys = 1
SPECIFICATION Spec
SYMMETRY SlotSymmetry
INVARIANTS WorkAuthorised
CHECK_DEADLOCK FALSE
