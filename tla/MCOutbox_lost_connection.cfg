\* One lost connection is enough to stamp a row whose message was never delivered.
SPECIFICATION Spec
CONSTANTS
    Jobs = {j1}
    Relays = {r1}
    MaxAttempts = 1
    BatchSize = 1
    MaxFaults = 0
    MaxLosses = 1
INVARIANTS
    AtLeastOnceDelivery
CHECK_DEADLOCK FALSE
