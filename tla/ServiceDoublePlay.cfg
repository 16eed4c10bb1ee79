SPECIFICATION Spec
CONSTANTS
    explicit = explicit
    narrated = narrated
    Lines = {narrated}
    PrioOf <- MCPrio
    Handlers = {h1}
    None = None
    MaxSends = 2
    MaxRetries = 0
    MaxAdds = 0
    MaxBarges = 1
    MaxDeaths = 0
CHECK_DEADLOCK FALSE
INVARIANTS SoundsOnce
