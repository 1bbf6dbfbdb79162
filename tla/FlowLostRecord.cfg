\* A crash between the file and the event.
SPECIFICATION Spec
CONSTANTS
    Installs <- OnlyWorker
    MaxDev = 1
    MaxVerify = 2
    MaxApprovals = 2
INVARIANTS
    EveryStationAppends
