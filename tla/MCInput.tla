------------------------------ MODULE MCInput ------------------------------
(* A keyboard with one key of each kind, and turns of the wheel on both sides *)
(* of the rotation's limits, for Input.                                       *)
EXTENDS Input

SomeKeys == {"letter", "tab", "leftShift", "rightShift", "keypad", "altGr"}
KeypadKeys == {"keypad"}
BothShifts == {"leftShift", "rightShift"}
ShiftsAndAltGr == BothShifts \cup {"altGr"}

\* NumLock, and another layout without it.
SomeSettings == {"numLock", "otherLayout"}

\* What a key is with Shift or without, with AltGr or without, in a setting.
SymbolOf(key, shift, altGr, set) ==
    CASE key = "letter" /\ altGr -> "At"
      [] key = "letter" /\ ~altGr -> IF set = "otherLayout" THEN "A" ELSE "Q"
      [] key = "keypad" -> IF set # "numLock" \/ shift THEN "End" ELSE "1"
      [] key = "tab" -> IF shift THEN "Backtab" ELSE "Tab"
      [] key \in BothShifts -> "Shift"
      [] key = "altGr" -> "AltGr"

SymbolTable ==
    [key \in SomeKeys |-> [state \in (SUBSET ShiftsAndAltGr) \X SomeSettings |->
        SymbolOf(key, state[1] \cap BothShifts # {}, "altGr" \in state[1], state[2])]]

TwoKeys == {"letter", "keypad"}

Turns == {-720, -512, -360, -256, -120, -8, 0, 8, 120, 255, 360}
=============================================================================
