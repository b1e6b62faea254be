SPECIFICATION FairSpec
CONSTANTS
    Contents <- Everything
    MaxCopies = 3
    MaxUserCopies = 2
INVARIANTS
    TypeOK
    ClipboardsAgree
PROPERTIES
    DataArrivesInOrder
    LastCopyArrives
CHECK_DEADLOCK FALSE
