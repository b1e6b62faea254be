SPECIFICATION FairSpec
CONSTANTS
    Failures <- AnyCall
INVARIANTS
    TypeOK
    UsesWhatIsThere
    OwnersOutliveThreads
    ReleasedOnce
PROPERTIES
    OnlySilenceBlocksStop
    LostSessionEnds
CHECK_DEADLOCK FALSE
