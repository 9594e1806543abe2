\* An ordinary address, one the backend protects and one only the agent does; one
\* fault of any kind but a silently failing -D.
SPECIFICATION Spec
CONSTANTS
    t1 = t1
    w1 = w1
    s1 = s1
    s2 = s2
    kali = kali
    host = host
    lan = lan
    None = None
    IP = {kali, host, lan}
    AgentTrusted = {lan}
    Trusted = {host}
    AgentThread = {s1, s2}
    RuleId <- Rules2
    Thread <- OneThread
    Worker <- OneProcess
    Client <- OneThreadClient
    ServerOf <- SameServer
    FaultKind = {"unreachable", "timeout", "insertfails", "agentcrash", "reboot", "crash", "dberror"}
    MaxFaults = 1
SYMMETRY AgentThreads
INVARIANTS
    TypeOK
    ClosedHoldsNothing
    AuditSound
    TrustedNeverBlocked
    EveryDropRecorded
PROPERTY KeepsLedger
