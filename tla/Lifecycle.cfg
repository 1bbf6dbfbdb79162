\* Two commands at once, two runtimes, crashes and failed binds anywhere.
SPECIFICATION Spec
CONSTANTS
    Runtimes = {r1, r2}
    Shims = {s1, s2}
    None = None
    MaxAttempts = 2
INVARIANTS
    TypeOK
    ServerOwnsRoot
    ServerIsReachable
PROPERTY StopFreesRoot
SYMMETRY Symmetry
