CONSTANTS
    Slots = {s1, s2}
    Users = {u1}
    Uploads = {c1}
    Ops = {"patch", "environment", "section"}
    KeyProvider = "memory"
    InitialRoles <- Everything
    InitialAssignment <- Staffed
    InitialStage = 2
    None = None
    Grantable = {"SOLUTION_PROVIDER"}
    MaxEvents = 9
    MaxKeys = 1
SPECIFICATION Spec
SYMMETRY SlotSymmetry
INVARIANTS TypeOK NoStageSkipped SectionsFollowStages SuccessIsRecorded
PROPERTY SectionOnce
CHECK_DEADLOCK FALSE
