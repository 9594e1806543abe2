\* The alerts page against what the documentation says of a live page.
SPECIFICATION FairSpec
CONSTANTS
    MaxAlerts = 2
    MaxTime = 2
    Stamp <- MCStampLive
    Kind <- MCKindLive
    Selected <- MCSelectedLive
    PageSize = 1
    MaxActs = 1
    MaxFaults = 0
    MaxOffset = 1
PROPERTY NewRowsAppear
\* A paused page at rest waits for the user.
CHECK_DEADLOCK FALSE
