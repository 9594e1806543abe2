\* Two tabs of one browser, a failed request.
SPECIFICATION FairSpec
CONSTANTS
    ann = ann
    bob = bob
    a = a
    b = b
    c = c
    None = None
    Tab = {t1, t2}
    Name = {ann, bob}
    Form <- MCForm
    Earlier <- MCEarlier
    MaxActs = 2
    MaxFaults = 1
INVARIANTS
    TypeOK
    RegistrationHonest
    TabsKnown
PROPERTY SessionEnds
\* Signed out, the tabs wait for the user.
CHECK_DEADLOCK FALSE
