\* Violated: one ACTIVE rule for an address.
SPECIFICATION Spec
CONSTANTS
    t1 = t1
    w1 = w1
    s1 = s1
    s2 = s2
    kali = kali
    host = host
    lan = lan
    None = None
    IP = {kali}
    AgentTrusted = {}
    Trusted = {}
    AgentThread = {s1, s2}
    RuleId <- Rules2
    Thread <- OneThread
    Worker <- OneProcess
    Client <- OneThreadClient
    ServerOf <- SameServer
    FaultKind = {}
    MaxFaults = 0
SYMMETRY AgentThreads
INVARIANTS
    AtMostOneActive
