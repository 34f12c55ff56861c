\* The relay crashes after a publish: two copies of one message overlap in the worker.
SPECIFICATION Spec
CONSTANTS
    Jobs = {j1}
    Relays = {r1}
    Workers = {w1}
    Slots = {s1, s2}
    NoMsg = NoMsg
    MaxAttempts = 1
    BatchSize = 1
    MaxFaults = 1
    MaxLosses = 0
    SourceRows = 1
    MaxChannelLosses = 0
    Faults = {}
INVARIANTS
    NoDuplicateRows
CHECK_DEADLOCK FALSE
