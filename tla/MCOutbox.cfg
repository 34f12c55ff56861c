\* Two API instances over two jobs, with crashes, timeouts and a lost connection.
SPECIFICATION FairSpec
CONSTANTS
    Jobs = {j1, j2}
    Relays = {r1, r2}
    MaxAttempts = 1
    BatchSize = 2
    MaxFaults = 2
    MaxLosses = 1
INVARIANTS
    TypeOK
    StampedMeansDelivered
    DuplicatesNeedFaults
PROPERTIES
    PublishedIsFinal
    ImplementsSafely
    ImplementsEnqueue
CHECK_DEADLOCK FALSE
