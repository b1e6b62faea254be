SPECIFICATION FairSpec
CONSTANTS
    Files <- MCFiles
    Dirs <- MCDirs
    Inside <- MCInside
    Lengths <- MCLengths
    Clips <- MCClips
    MaxCopies = 2
    MaxLength = 3
    MaxEdits = 1
    Indices = {0, 1}
    Offsets = {0, 1, 2}
    Counts = {2, 3}
    Word = 16
    PduMax = 7
INVARIANTS
    TypeOK
    SessionKept
    ListComplete
PROPERTIES
    AnswersMatchList
    AnsweredOrEnded
CHECK_DEADLOCK FALSE
