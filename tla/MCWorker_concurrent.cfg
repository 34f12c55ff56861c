\* Two overlapping deliveries of one job, every fault the stores can show.
SPECIFICATION Spec
CONSTANTS
    Jobs = {j1}
    Workers = {w1}
    Slots = {s1, s2}
    NoMsg = NoMsg
    MaxAttempts = 2
    SourceRows = 0
    MaxCopies = 2
    MaxChannelLosses = 1
    Faults = {"pg_error", "pg_reply_lost", "body_lost"}
SYMMETRY Symmetry
INVARIANTS
    TypeOK
    ReadyHasDashboard
    NeverForgotten
CHECK_DEADLOCK FALSE
