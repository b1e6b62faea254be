SPECIFICATION Spec
CONSTANTS
    Contents <- TextsAndImages
    MaxCopies = 2
    MaxUserCopies = 0
INVARIANTS
    NeverGarbled
CHECK_DEADLOCK FALSE
