\* Filters, pauses, refreshes, failures and late inserts.
SPECIFICATION FairSpec
CONSTANTS
    MaxAlerts = 3
    MaxTime = 2
    Stamp <- MCStamp
    Kind <- MCKind
    Selected <- MCSelected
    PageSize = 1
    MaxActs = 2
    MaxFaults = 1
    MaxOffset = 3
INVARIANTS
    TypeOK
    SpinnerHonest
    RowsReachable
PROPERTY SettlesOnFilters
\* A paused page at rest waits for the user.
CHECK_DEADLOCK FALSE
