\* A worker whose heartbeats have stopped.
SPECIFICATION Spec
CONSTANTS
    Workers = {w1, w2}
    Period = 1
    RenewTTL = 2
    FirstTTL = 3
    Stations = 1
    MaxGen = 2
PROPERTY FencedResults
