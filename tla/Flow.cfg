\* Workers or inline, new or legacy files, crashes anywhere.
SPECIFICATION FairSpec
CONSTANTS
    Installs <- AllInstalls
    MaxDev = 2
    MaxVerify = 3
    MaxApprovals = 2
INVARIANTS
    TypeOK
    StationsInOrder
    ReadyStands
    CalmRunIsExact
PROPERTIES
    ReadyIsPublished
    LeaseIsReleased
