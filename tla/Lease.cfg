\* Crashes anywhere; heartbeats punctual, late, failing or interrupted.
SPECIFICATION FairSpec
CONSTANTS
    Workers = {w1, w2}
    Period = 1
    RenewTTL = 2
    FirstTTL = 3
    Stations = 1
    MaxGen = 2
INVARIANTS
    TypeOK
    OneExecutor
PROPERTIES
    FencedWhilePunctual
    LeaseEventuallyFree
