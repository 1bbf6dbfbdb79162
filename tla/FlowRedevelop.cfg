\* A retry after REWORK verifies the same candidate again.
SPECIFICATION Spec
CONSTANTS
    Installs <- OnlyInline
    MaxDev = 3
    MaxVerify = 3
    MaxApprovals = 1
INVARIANTS
    RetryRedevelops
