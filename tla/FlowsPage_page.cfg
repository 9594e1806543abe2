\* Loads that overlap, directions, failures and late inserts.
SPECIFICATION Spec
CONSTANTS
    MaxFlows = 3
    NSeries = 2
    SeriesOf <- MCSeriesOf
    Kind <- MCKind
    Selected <- MCSelected
    Directed <- MCDirected
    PageSize = 1
    MaxActs = 2
    MaxFaults = 1
INVARIANTS
    TypeOK
    RowsReachable
    RestsOnFilters
    ButtonsReturn
\* A page at rest waits for the user.
CHECK_DEADLOCK FALSE
