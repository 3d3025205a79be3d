CONSTANTS
    a1 = a1
    a2 = a2
    o1 = o1
    Accounts = {a1, a2}
    o2 = o2
    Orgs = {o1, o2}
    OrgOf <- TwoTenants
    Global = Global
    Proxies = {1, 2}
    Workers = {w1, w2}
    PutRows <- Puts
    Overriding = {a1}
    MaxRevision = 2
    MaxIds = 2
    None = None
SPECIFICATION Spec
INVARIANT TypeOK
INVARIANT CapacityHolds
INVARIANT TenantIsolation
INVARIANT OneDefault
PROPERTY OverrideSurvives
SYMMETRY Symmetry
