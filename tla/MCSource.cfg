SPECIFICATION Spec
CONSTANTS
    ColumnTypes <- MCColumnTypes
    MaxColumns = 3
INVARIANTS SourceTypeOK RefusedForCause AcceptedFits ConfigDescribesTable ChartsFollowKinds FailureIsUnderstood
\* A refused URL, a finished or a failed attempt is the end.
CHECK_DEADLOCK FALSE
