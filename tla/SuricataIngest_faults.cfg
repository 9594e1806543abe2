\* Torn lines, restarts, lost connections and refused inserts.
SPECIFICATION SuricataFairSpec
CONSTANTS
    MaxLines = 5
    FailureKind = {"connection", "dberror", "crash"}
    MaxFailures = 2
INVARIANTS
    SuricataTypeOK
    TableInOrder
PROPERTY WholeLinesArrive
\* Suricata stops after MaxLines lines.
CHECK_DEADLOCK FALSE
