SPECIFICATION FairSpec
CONSTANTS
    Listings <- DirOvertakes
    ChunkSize = 4
    PosMax = 8
    IdMod = 12
    MaxCopies = 2
PROPERTIES
    DestroyReturns
    AcceptedIsApplied
