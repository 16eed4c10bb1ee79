SPECIFICATION Spec
CONSTANTS
    explicit = explicit
    narrated = narrated
    Lines = {explicit, narrated}
    PrioOf <- MCPrio
    Handlers = {h1}
    None = None
    MaxSends = 2
    MaxRetries = 0
    MaxAdds = 0
    MaxBarges = 1
    MaxDeaths = 1
VIEW MCView
CHECK_DEADLOCK FALSE
INVARIANTS TypeOK InOnePlace  LedgerTellsTheTruth  HeardLeavesList
