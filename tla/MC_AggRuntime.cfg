\* Nullable, plain and offset-indexed aggregates over int8 values.
CONSTANTS
    Aggs <- MCAggs
    NumGroups = 2
    Values <- MCValues
    MaxCalls = 3
SPECIFICATION Spec
INVARIANTS
    NullFlagMeansNeverUpdated
    SumMatchesReference
    OrderAggsMatchReference
\* The batch has MaxCalls rows' worth of calls; then the query function returns.
CHECK_DEADLOCK FALSE
