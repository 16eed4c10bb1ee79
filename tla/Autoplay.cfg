SPECIFICATION Spec
CONSTANTS
    w1 = w1
    w2 = w2
    a = a
    b = b
    s1 = s1
    s2 = s2
    Callers = {w1, w2}
    Sessions = {s1, s2}
    Hashes = {a, b}
    Session <- MCSession
    Message <- MCMessage
    MaxSwitches = 1
    MaxRetries = 1
    RawAttempts = 2
    MaxFaults = 2
    Apart = TRUE
    None = None
CHECK_DEADLOCK FALSE
INVARIANTS OneClaimPerBurst  
