CONSTANTS
    a = a
    b = b
    oa = oa
    ob = ob
    Owners = {a, b}
    Orgs = {oa, ob}
    OrgOf <- Organizations
    Identities = {i1, i2}
    Phones = {p1, p2}
    Qrs = {q1, q2}
    Tickets = {t1, t2}
    Jobs = {j1, j2}
    Keys = {k1, k2}
    Capacity = 1
    Ttl = 1
    MaxStarts = 2
    MaxTime = 2
    None = None
SPECIFICATION Spec
INVARIANT TypeOK
INVARIANT ClientIsExclusive
INVARIANT SessionLeavesOnce
INVARIANT StoredSessionsAreEarned
PROPERTY LateAnswerIsRefused
SYMMETRY Symmetry
CHECK_DEADLOCK FALSE
