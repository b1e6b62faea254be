SPECIFICATION Spec
CONSTANTS
    Keys <- SomeKeys
    Keypad <- KeypadKeys
    Modifiers <- ShiftsAndAltGr
    Settings <- SomeSettings
    Symbols <- SymbolTable
    Changing <- TwoKeys
    View = 4
    Desktop = 6
    Word = 64
    Half = 8
    Rotations <- Turns
    MaxHeld = 3
INVARIANTS
    TypeOK
    ServerHoldsTheSame
    DragFollows
    WheelKeepsDirection
