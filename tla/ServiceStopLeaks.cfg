SPECIFICATION Spec
CONSTANTS
    explicit = explicit
    narrated = narrated
    Lines = {explicit}
    PrioOf <- MCPrio
    Handlers = {h1}
    None = None
    MaxSends = 1
    MaxRetries = 0
    MaxAdds = 0
    MaxBarges = 1
    MaxDeaths = 0
CHECK_DEADLOCK FALSE
INVARIANTS NothingPlaysWhileStopped
