\* Two polls that overlap, the trusted addresses, a window opened twice, a failure.
SPECIFICATION FairSpec
CONSTANTS
    NoIP = "none"
    IP <- MCIP
    Trusted = {"lan"}
    Source <- MCSource
    Poll <- MCPoll
    MaxAlerts = 2
    Stamp <- MCStamp
    Day = 1
    MaxTime = 2
    MaxOpens = 2
    MaxFaults = 1
INVARIANTS
    TypeOK
    ModalTrue
PROPERTIES
    TopAttackerExternal
    CatchesUp
