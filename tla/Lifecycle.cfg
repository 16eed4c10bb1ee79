SPECIFICATION Spec
CONSTANTS
    n1 = n1
    n2 = n2
    n3 = n3
    s1 = s1
    s2 = s2
    t1 = t1
    r1 = r1
    Narrators = {n1, n2, n3}
    Starts = {s1, s2}
    Stops = {t1}
    Restarts = {r1}
    FaultKinds = {"kill", "unlocked", "expiry", "orphan"}
    MaxFaults = 2
    None = None
SYMMETRY MCSymmetry
CHECK_DEADLOCK FALSE
INVARIANTS OneNarrator
  
