CONSTANTS
    o1 = o1
    o2 = o2
    Orgs = {o1, o2}
    Accounts = {x1}
    Channels = {"mtproto_user", "bot_api"}
    Categories = {"message_text"}
    Operations = {"draft"}
    t1 = t1
    t2 = t2
    Terms = {t1, t2}
    Grants <- OwnerGrants
    Approvals = {a1, a2}
    Callers = {c1}
    Writers = {w1, w2}
    MaxTime = 2
    None = None
SPECIFICATION Spec
INVARIANT TypeOK
INVARIANT LoadIsCovered
INVARIANT RevocationIsPrompt
INVARIANT AuditTellsHistory
SYMMETRY Symmetry
CHECK_DEADLOCK FALSE
