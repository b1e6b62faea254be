SPECIFICATION FairSpec
CONSTANTS
    Announcements <- Servers
    MayOmit = TRUE
    Kinds <- AllKinds
    MaxCopies = 2
    MaxRequests = 2
    Unencodable = {2}
INVARIANTS
    TypeOK
    NamesAgreed
    LastCopyAnnounced
PROPERTIES
    RefusedOnlyIfGone
    RequestsAnswered
CHECK_DEADLOCK FALSE
