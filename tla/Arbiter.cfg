SPECIFICATION FairSpec
CONSTANTS
    l2 = l2
    l3 = l3
    l4 = l4
    Lines = {l1, l2, l3, l4}
    Phases = {f1}
    Worker = Worker
    Controllers = {ctl}
    NoItem = NoItem
    PrioOf <- MCPrio
    MaxSize = 1
    Slow = {l3}
    MaxRetries = 1
    MaxPutBacks = 1
    MaxPurges = 1
CHECK_DEADLOCK FALSE
INVARIANTS TypeOK UnfinishedAccounted NarrationCapped NoLostWakeup
PROPERTIES   PlaysInOrder MovesAsAsked
