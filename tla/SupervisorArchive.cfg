SPECIFICATION Spec
CONSTANTS
    s1 = s1
    s2 = s2
    o1 = o1
    None = None
    Supervisors <- OneSupervisor
    Stops <- OneStop
    Environment = {"resume"}
    MaxRetries = 2
    MaxFence = 2
    MaxVersion = 4
    MaxClients = 2
    MaxSlots = 1
    MaxSessions = 1
PROPERTIES ArchivedIsFinal
\* A connected or stopped account may stay as it is.
CHECK_DEADLOCK FALSE
