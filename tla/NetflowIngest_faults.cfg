\* Failures, lost answers and restarts.
SPECIFICATION FairSpec
CONSTANTS
    MaxFlows = 5
    Record <- MCRecord
    Limit = 4
    MaxTime = 1
    FaultKind = {"nfdump", "write", "answer", "crash"}
    MaxFaults = 2
INVARIANTS
    TypeOK
    RollupsBacked
PROPERTIES
    RollupsGrow
    FirstFlowsArrive
