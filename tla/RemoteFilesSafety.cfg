SPECIFICATION Spec
CONSTANTS
    Listings <- TwoCopies
    ChunkSize = 4
    PosMax = 8
    IdMod = 7
    MaxCopies = 2
INVARIANTS
    TypeOK
    NoForeignResponse
    RemainingCounts
    PublishedOnceComplete
    SavedFileFaithful
    NoLostWakeup
PROPERTIES
    ImplementsBatches
