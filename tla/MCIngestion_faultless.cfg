\* Two API instances and retries, but no relay fault and no lost channel.
SPECIFICATION Spec
CONSTANTS
    Jobs = {j1, j2}
    Relays = {r1, r2}
    Workers = {w1}
    Slots = {s1, s2}
    NoMsg = NoMsg
    MaxAttempts = 2
    BatchSize = 1
    MaxFaults = 0
    MaxLosses = 0
    SourceRows = 1
    MaxChannelLosses = 0
    Faults = {}
SYMMETRY Symmetry
INVARIANTS
    OverlapNeedsFault
    ReadyIsExact
    DeadLetterIsRecorded
    AttemptsAreLimited
PROPERTIES
    LifecycleOrRetry
CHECK_DEADLOCK FALSE
