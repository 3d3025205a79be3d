SPECIFICATION FairSpec
CONSTANTS
    s1 = s1
    s2 = s2
    o1 = o1
    None = None
    Supervisors <- TwoSupervisors
    Stops <- OneStop
    Environment = {"crash"}
    MaxRetries = 2
    MaxFence = 3
    MaxVersion = 4
    MaxClients = 2
    MaxSlots = 1
    MaxSessions = 1
INVARIANTS OpenClientIsReachable RetryBudgetIsDurable
PROPERTIES LostClaimClosesClient
\* A connected or stopped account may stay as it is.
CHECK_DEADLOCK FALSE
