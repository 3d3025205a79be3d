CONSTANTS
    o1 = o1
    o2 = o2
    Orgs = {o1}
    n1 = n1
    n2 = n2
    Names = {n1}
    u1 = u1
    u2 = u2
    Users = {u1}
    Provisions <- Tenant
    Sessions = {s1, s2}
    Workers = {w1, w2}
    MaxCodes = 2
    None = None
SPECIFICATION Spec
PROPERTY RecoveryCodesConsumedOnce
SYMMETRY Symmetry
CHECK_DEADLOCK FALSE
