SPECIFICATION Spec
CONSTANTS
    s1 = s1
    s2 = s2
    o1 = o1
    None = None
    Supervisors <- OneSupervisor
    Stops <- OneStop
    Environment = {"fault", "late", "resume", "reimport"}
    MaxRetries = 1
    MaxFence = 3
    MaxVersion = 4
    MaxClients = 2
    MaxSlots = 1
    MaxSessions = 2
INVARIANTS TypeOK TerminalIsUnclaimed
PROPERTIES TerminalLeftByOperator 
\* A connected or stopped account may stay as it is.
CHECK_DEADLOCK FALSE
