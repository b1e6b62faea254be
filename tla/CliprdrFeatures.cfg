SPECIFICATION Spec
CONSTANTS
    Announcements <- Servers
    MayOmit = TRUE
    Kinds <- AllKinds
    MaxCopies = 2
    MaxRequests = 1
    Unencodable = {}
INVARIANTS
    NoUnsupportedFeature
CHECK_DEADLOCK FALSE
