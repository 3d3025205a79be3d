CONSTANTS
    o1 = o1
    o2 = o2
    Orgs = {o1, o2}
    n1 = n1
    n2 = n2
    Names = {n1, n2}
    u1 = u1
    u2 = u2
    Users = {u1, u2}
    Provisions <- Tenants
    Sessions = {s1, s2}
    Workers = {w1, w2}
    MaxCodes = 1
    None = None
SPECIFICATION Spec
INVARIANT TypeOK
INVARIANT SessionIsEarned
INVARIANT DeactivationRevokes
INVARIANT CodesShownOnce
PROPERTY DeactivationDrains
PROPERTY CredentialsSetOnce
SYMMETRY Symmetry
CHECK_DEADLOCK FALSE
