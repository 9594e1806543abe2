\* Two due rules in one sweep, a request and one fault of the gateway: what is
\* logged and what must happen in the end.
SPECIFICATION FairSpec
CONSTANTS
    t1 = t1
    w1 = w1
    s1 = s1
    s2 = s2
    kali = kali
    host = host
    lan = lan
    None = None
    IP = {kali}
    AgentTrusted = {}
    Trusted = {}
    AgentThread = {s1}
    RuleId <- Rules2
    Thread <- OneThread
    Worker <- OneProcess
    Client <- OneThreadClient
    ServerOf <- SameServer
    FaultKind = {"unreachable", "timeout", "insertfails", "deletefails", "agentcrash", "reboot"}
    MaxFaults = 1
INVARIANT AuditComplete
PROPERTY RulesSettle
