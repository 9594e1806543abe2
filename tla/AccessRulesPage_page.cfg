\* A rule, two loads and two calls that overlap, other actors and a failure.
SPECIFICATION FairSpec
CONSTANTS
    Rule <- MCRule
    Load <- MCLoad
    Call <- MCCall
    MaxActs = 2
    MaxFaults = 1
INVARIANTS
    TypeOK
    BannerTrue
PROPERTIES
    UnblockSeen
    
