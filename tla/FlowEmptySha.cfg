\* A retry after INFRA verifies an empty sha.
SPECIFICATION Spec
CONSTANTS
    Installs <- OnlyInline
    MaxDev = 3
    MaxVerify = 3
    MaxApprovals = 1
INVARIANTS
    ReadyNamesCandidate
