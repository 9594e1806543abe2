\* Loads that overlap, a report and a failure.
SPECIFICATION Spec
CHECK_DEADLOCK FALSE
CONSTANTS
    NoIP = "none"
    IP <- MCIP
    Trusted = {"lan"}
    Sample <- MCSample
    Minute <- MCMinute
    Filter <- MCFilter
    Start <- MCStart
    Stop <- MCStop
    Selected <- MCSelected
    Panel <- MCPanel
    MaxProtocols = 14
    MaxRows = 10
    MaxLoads = 2
    MaxExports = 1
    MaxFaults = 1
INVARIANTS
    TypeOK
    PanelsHonest
    ReportTrue
    ChartHonest
    ReportsLaidOut
