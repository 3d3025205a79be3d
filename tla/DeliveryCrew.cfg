SPECIFICATION Spec
CONSTANTS
    c1 = c1
    c2 = c2
    c3 = c3
    p1 = p1
    p2 = p2
    None = None
    Callers <- MCCallers
    Processes <- MCProcesses
    Peers <- MCPeers
    ProcessOf <- CrewProcessOf
    PeerOf <- CrewPeerOf
    HandleOf <- CrewHandleOf
INVARIANTS TypeOK AtMostOneEffect OneHolder
PROPERTIES CompletedIsFinal LiveReservationIsExclusive KeepsPromise
\* Every call ends, and then nothing is left to do.
CHECK_DEADLOCK FALSE
