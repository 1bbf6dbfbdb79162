\* Two starts find the same stale descriptor.
SPECIFICATION Spec
CONSTANTS
    Runtimes = {r1, r2}
    Shims = {s1, s2}
    None = None
    MaxAttempts = 2
PROPERTY LiveDescriptorKept
