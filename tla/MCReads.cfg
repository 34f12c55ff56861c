\* A page beside a worker that retries, restarts and is delivered duplicates.
SPECIFICATION FairReadsSpec
CONSTANTS
    Jobs = {j1}
    Workers = {w1}
    Slots = {s1}
    NoMsg = NoMsg
    MaxAttempts = 2
    SourceRows = 2
    MaxCopies = 2
    MaxChannelLosses = 1
    Faults = {}
    Viewers = {"owner", "stranger"}
    Sample = 1
INVARIANTS
    ReadsTypeOK
    ReadyIsExact
    ServedIsExact
    ReadyCanRender
    NothingMoreChanges
PROPERTIES
    FollowsUntilSettled
CHECK_DEADLOCK FALSE
