CONSTANTS
    Slots = {s1, s2}
    Keys = {k1, k2}
    Submissions = {h1}
    Finalizations = {f1}
    Pem = Pem
    Contracts = {c1, c2}
    None = None
    MaxEvents = 2
    MaxDamage = 2
SPECIFICATION Spec
SYMMETRY Symmetry
INVARIANTS
    TypeOK
    IntactMeansRecorded
    
    ContractVouched
    
PROPERTY VerdictStands
