SPECIFICATION Spec
CONSTANTS
    explicit = explicit
    narrated = narrated
    Lines = {narrated}
    PrioOf <- MCPrio
    Handlers = {h1}
    None = None
    MaxSends = 2
    MaxRetries = 1
    MaxAdds = 1
    MaxBarges = 1
    MaxDeaths = 0
VIEW MCView
CHECK_DEADLOCK FALSE
INVARIANTS InOnePlace OneIdOnePlay LedgerTellsTheTruth HeardLeavesList
