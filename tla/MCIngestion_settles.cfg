\* Every accepted job comes to rest and is never forgotten on its way.
SPECIFICATION FairSpec
CONSTANTS
    Jobs = {j1}
    Relays = {r1}
    Workers = {w1}
    Slots = {s1}
    NoMsg = NoMsg
    MaxAttempts = 2
    BatchSize = 1
    MaxFaults = 1
    MaxLosses = 0
    SourceRows = 1
    MaxChannelLosses = 1
    Faults = {"pg_error"}
INVARIANTS
    TypeOK
    NeverForgotten
    OnlyStoredJobsRun
PROPERTIES
    AcceptedSettles
CHECK_DEADLOCK FALSE
