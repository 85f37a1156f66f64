CONSTANTS
    u1 = u1
    u2 = u2
    t1 = t1
    t2 = t2
    p1 = p1
    Slots = {s1, s2}
    Users = {u1, u2, u3}
    Tokens = {t1, t2, t3}
    Passwords = {p1, p2}
    Ops = {"login", "logout", "createUser", "updateRoles", "deactivate", "reactivate", "resetPassword", "forcePasswordChange", "revokeKey", "registerKey", "changePassword", "createToken", "revokeToken"}
    None = None
    Databases <- EmptyOrStaffed
    Assignable = {"ADMIN", "AUDITOR"}
    MaxInputs = 2
SPECIFICATION Spec
SYMMETRY SlotSymmetry
INVARIANTS TypeOK ActsWithin FirstLoginEnforced
PROPERTY GrantsComeFromAdmins
