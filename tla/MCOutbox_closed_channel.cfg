\* The relay publishes over a channel nobody reopens: its retries fail for ever.
SPECIFICATION FairSpec
CONSTANTS
    Jobs = {j1}
    Relays = {r1}
    MaxAttempts = 1
    BatchSize = 1
    MaxFaults = 0
    MaxLosses = 1
PROPERTIES
    PendingIsPublished
CHECK_DEADLOCK FALSE
