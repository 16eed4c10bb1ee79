SPECIFICATION Spec
CONSTANTS
    r1 = r1
    Runs = {r1}
    Lines = 2
    Installed = TRUE
    TabOffered = TRUE
    MaxInputs = 2
    MaxFaults = 0
    None = None
CHECK_DEADLOCK FALSE
INVARIANTS StopDropsWhatWaits
