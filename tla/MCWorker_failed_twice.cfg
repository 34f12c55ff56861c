\* A second copy of a failed job's message.
SPECIFICATION Spec
CONSTANTS
    Jobs = {j1}
    Workers = {w1}
    Slots = {s1}
    NoMsg = NoMsg
    MaxAttempts = 1
    SourceRows = 1
    MaxCopies = 2
    MaxChannelLosses = 0
    Faults = {}
PROPERTIES
    FinishedStaysFinished
CHECK_DEADLOCK FALSE
