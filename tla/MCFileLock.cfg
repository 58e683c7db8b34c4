CONSTANTS
    h1 = h1
    h2 = h2
    h3 = h3
    p1 = p1
    p2 = p2
    NoHandle = NoHandle
    NoPid = NoPid
    Handles = {h1, h2, h3}
    Processes = {p1, p2}
    ProcOf <- MCProcOf
    CannotSignal <- MCStrangers
    Disturbances = {"crash", "reuse", "age", "unlock", "writeFails"}
SPECIFICATION FairSpec
INVARIANTS NoLeakedLock
PROPERTIES SettledLockIsKept DeadLockIsReclaimed
CHECK_DEADLOCK FALSE
