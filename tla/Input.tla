------------------------------- MODULE Input -------------------------------
(***************************************************************************)
(* Keyboard, mouse and wheel.  Qt gives the view an event for what the     *)
(* user does while it has the focus or the mouse is on it; the view turns  *)
(* it into an RDP input event (rdp-view-item.h, qf_util.h).  The server    *)
(* holds a key or a button from its down event to its release event, so    *)
(* whether it holds what the user holds depends on the view sending, for   *)
(* every key, a release of what it had sent as pressed.                    *)
(*                                                                         *)
(* Positions are along one axis; the other is treated alike.               *)
(***************************************************************************)
EXTENDS Integers, FiniteSets

CONSTANTS
    Keys,        \* the keys of the keyboard
    Keypad,      \* those for which Qt sets KeypadModifier
    Modifiers,   \* the keys that select what others are while held: Shift, AltGr
    Settings,    \* what else selects it: the locks and the layout
    Symbols,     \* [Keys -> [States -> what event->key() is]]
    Changing,    \* the keys whose code is not the same in every state
    View,        \* width() of the view
    Desktop,     \* FreeRDP_DesktopWidth
    Word,        \* a uint32_t is counted modulo this (2^32)
    Half,        \* a UINT16 is counted modulo this (2^16)
    Rotations,   \* what angleDelta().y() may be
    MaxHeld      \* bound: keys and buttons held at once

Buttons == {"left", "right", "middle"}

\* What a key is depends on the modifiers held and on the settings.
States == (SUBSET Modifiers) \X Settings

ASSUME InputAssumption ==
    /\ Keys \cap Buttons = {}
    /\ Keypad \subseteq Keys /\ Modifiers \subseteq Keys /\ Changing \subseteq Keys
    /\ Symbols \in [Keys -> [States -> STRING]]
    /\ View \in Nat \ {0} /\ Desktop \in Nat \ {0}
    /\ Half \in Nat /\ Desktop <= Half
    /\ Word \in Nat /\ View * Desktop <= Word
    /\ Rotations \subseteq Int
    /\ MaxHeld \in Nat

VARIABLES
    connected,      \* m_rdpContext has been set (my_post_connect)
    focus,          \* the view gets the keyboard's events
    setting,        \* the locks and the layout
    held,           \* the keys and buttons the user holds
    repeating,      \* the key, if any, between the two events of its auto-repeat
    pointer,        \* the user's pointer: outside the view from -1 down, View up
    serverHeld,     \* what the server takes to be held
    serverPointer,  \* where it takes the pointer to be
    wheel,          \* how far the last event turned the wheel, and what came of it
    device,         \* bound: which of keyboard and mouse is used; they share nothing
    excused         \* history: keys and buttons of which the server has not
                    \* been told all (Seen), or has been told the release of a twin

keyVars == <<focus, setting, repeating>>

vars == <<connected, keyVars, held, pointer, serverHeld, serverPointer, wheel,
          device, excused>>

Still == [turned |-> 0, received |-> 0]

Init ==
    /\ connected = FALSE /\ focus = TRUE
    /\ setting \in Settings /\ repeating = {}
    /\ held = {} /\ pointer = 0
    /\ serverHeld = {} /\ serverPointer = 0
    /\ wheel = Still
    /\ device \in {"keyboard", "mouse"}
    /\ excused = {}

-----------------------------------------------------------------------------
(* The key table.                                                           *)

Digits == {"0", "1", "2", "3", "4", "5", "6", "7", "8", "9"}

NumpadKeys == Digits \cup {"Plus", "Minus", "Asterisk", "Slash", "Period", "Enter"}

Letters == {"A", "B", "C", "D", "E", "F", "G", "H", "I", "J", "K", "L", "M", "N",
            "O", "P", "Q", "R", "S", "T", "U", "V", "W", "X", "Y", "Z"}

\* The keys that have a scan code of their own; no symbol above a digit has one.
MainKeys ==
    Digits \cup Letters \cup
    {"Escape", "Tab", "Backspace", "Return", "Enter", "Space", "Minus", "Equal",
     "BracketLeft", "BracketRight", "Backslash", "Semicolon", "Apostrophe",
     "QuoteLeft", "Comma", "Period", "Slash", "Shift", "Control", "Alt", "Meta",
     "CapsLock", "NumLock", "ScrollLock", "Left", "Right", "Up", "Down",
     "Insert", "Delete", "Home", "End", "PageUp", "PageDown",
     "F1", "F2", "F3", "F4", "F5", "F6", "F7", "F8", "F9", "F10", "F11", "F12"}

\* Mutant: Tab with Shift has no scan code.
ScanCodeNoBacktab(symbol, keypad) ==
    CASE keypad /\ symbol \in NumpadKeys -> {<<"numpad", symbol>>}
      [] ~(keypad /\ symbol \in NumpadKeys) /\ symbol \in MainKeys ->
            {<<"main", symbol>>}
      [] OTHER -> {}

\* to_freerdp_key_code: {} is RDP_SCANCODE_UNKNOWN.
ScanCode(symbol, keypad) ==
    CASE keypad /\ symbol = "Enter" -> {<<"main", "Enter">>}
      [] keypad /\ symbol \in NumpadKeys \ {"Enter"} -> {<<"numpad", symbol>>}
      [] symbol = "Backtab" -> {<<"main", "Tab">>}
      [] ~(keypad /\ symbol \in NumpadKeys) /\ symbol \in MainKeys ->
            {<<"main", symbol>>}
      [] OTHER -> {}

\* Keys that type nothing: event->text() is empty.
Silent == {"AltGr", "Menu"}

\* What is sent for a symbol: its scan code, or else the character it types.
Code(symbol, keypad) ==
    IF ScanCode(symbol, keypad) # {} THEN ScanCode(symbol, keypad)
    ELSE IF symbol \in Silent THEN {} ELSE {<<"unicode", symbol>>}

\* What is sent for each key, in each state.
Sent ==
    [key \in Keys |-> [state \in States |-> Code(Symbols[key][state], key \in Keypad)]]

\* What is sent for a key while these are held.
CodeNow(key, down) == Sent[key][<<down \cap Modifiers, setting>>]

-----------------------------------------------------------------------------
(* Keys.  The view gets a key's events while it has the focus, and sends     *)
(* nothing without a context.                                               *)

Seen == connected /\ focus

\* The flag of a button; there is one for all but the left.
ButtonCode(b) == {<<"button", IF b = "left" THEN 1 ELSE 2>>}

\* The keys or buttons that the server takes for one with this.
Twins ==
    [input \in Keys \cup Buttons |->
        IF input \in Keys
        THEN {k \in Keys \ {input} : \E state \in States :
                 Sent[k][state] \cap Sent[input][state] # {}}
        ELSE {b \in Buttons \ {input} : ButtonCode(b) = ButtonCode(input)}]

\* What the server has been told: of a press all, of a release all but that
\* a twin is still held.
Told(input) == (excused \ {input}) \cup (Twins[input] \cap held)

\* The two events of an auto-repeat come one right after the other.
KeyboardReady == device = "keyboard" /\ repeating = {}

\* keyPressEvent.  Qt finds the symbol of a modifier with the others.
KeyPress(k) ==
    /\ KeyboardReady
    /\ k \notin held /\ Cardinality(held) < MaxHeld
    /\ held' = held \cup {k}
    /\ IF Seen
       THEN /\ serverHeld' = serverHeld \cup CodeNow(k, held)
            /\ excused' = excused \ {k}
       ELSE /\ excused' = excused \cup {k}
            /\ UNCHANGED serverHeld
    /\ wheel' = Still
    /\ UNCHANGED <<connected, keyVars, pointer, serverPointer, device>>

\* A key that is held repeats.  Qt sends a release of it, and keyReleaseEvent
\* does not ask isAutoRepeat: the server lets go of the key ...
RepeatRelease(k) ==
    /\ KeyboardReady /\ k \in held /\ Seen
    /\ repeating' = {k}
    /\ serverHeld' = serverHeld \ CodeNow(k, held)
    /\ wheel' = Still
    /\ UNCHANGED <<connected, focus, setting, held, pointer, serverPointer,
                   device, excused>>

\* ... until the press that follows, of what the key is now.  It may come
\* alone: the platform sends no release, or the context came after that.
KeyRepeat(k) ==
    /\ device = "keyboard" /\ k \in held /\ Seen /\ repeating \subseteq {k}
    /\ repeating' = {}
    /\ serverHeld' = serverHeld \cup CodeNow(k, held)
    /\ wheel' = Still
    /\ UNCHANGED <<connected, focus, setting, held, pointer, serverPointer,
                   device, excused>>

\* keyReleaseEvent: the release is of what the key is now.
KeyRelease(k) ==
    /\ KeyboardReady
    /\ k \in held
    /\ held' = held \ {k}
    /\ IF Seen
       THEN /\ serverHeld' = serverHeld \ CodeNow(k, held \ {k})
            /\ excused' = Told(k)
       ELSE /\ excused' = excused \cup {k}
            /\ UNCHANGED serverHeld
    /\ wheel' = Still
    /\ UNCHANGED <<connected, keyVars, pointer, serverPointer, device>>

-----------------------------------------------------------------------------
(* The mouse.                                                               *)

\* A position that is converted to uint32_t; for a negative one the result is
\* undefined: it wraps or becomes 0.
Unsigned(p) == IF p >= 0 THEN {p} ELSE {0, p % Word}

\* Mutant: the position is not truncated.
MapWide(p) == {((u * Desktop) % Word) \div View : u \in Unsigned(p)}

\* mouseEventScaleSend: a 32-bit product, divided by the width, and truncated
\* to the UINT16 of freerdp_input_send_mouse_event.
Map(p) == {(((u * Desktop) % Word) \div View) % Half : u \in Unsigned(p)}

SendPointer(p) ==
    IF connected THEN serverPointer' \in Map(p) ELSE UNCHANGED serverPointer

InView(p) == p \in 0..(View - 1)

\* The buttons held; the view grabs the mouse while there are any.
Grab == held \cap Buttons

\* mousePressEvent
MousePress(b) ==
    /\ b \notin held /\ Cardinality(held) < MaxHeld
    /\ device = "mouse" /\ (InView(pointer) \/ Grab # {})
    /\ held' = held \cup {b}
    /\ IF connected
       THEN /\ serverHeld' = serverHeld \cup ButtonCode(b)
            /\ excused' = excused \ {b}
       ELSE /\ excused' = excused \cup {b}
            /\ UNCHANGED serverHeld
    /\ SendPointer(pointer)
    /\ wheel' = Still
    /\ UNCHANGED <<connected, keyVars, pointer, device>>

\* mouseReleaseEvent
MouseRelease(b) ==
    /\ b \in held
    /\ held' = held \ {b}
    /\ IF connected
       THEN /\ serverHeld' = serverHeld \ ButtonCode(b)
            /\ excused' = Told(b)
       ELSE /\ excused' = excused \cup {b}
            /\ UNCHANGED serverHeld
    /\ SendPointer(pointer)
    /\ wheel' = Still
    /\ UNCHANGED <<connected, keyVars, pointer, device>>

\* Mutant: a move that starts outside the view is not sent.
MouseMoveInside(p) ==
    /\ device = "mouse" /\ p # pointer
    /\ pointer' = p
    /\ IF Grab # {} /\ InView(pointer) THEN SendPointer(p)
       ELSE UNCHANGED serverPointer
    /\ wheel' = Still
    /\ UNCHANGED <<connected, keyVars, held, serverHeld, device, excused>>

\* mouseMoveEvent, which Qt calls while a button is held, outside the view too.
\* Without one the move is a hover event, and the view handles none of those.
MouseMove(p) ==
    /\ device = "mouse" /\ p # pointer
    /\ pointer' = p
    /\ IF Grab # {} THEN SendPointer(p) ELSE UNCHANGED serverPointer
    /\ wheel' = Still
    /\ UNCHANGED <<connected, keyVars, held, serverHeld, device, excused>>

Magnitude(n) == IF n < 0 THEN -n ELSE n

\* The rotation of PTR_FLAGS_WHEEL: nine bits, WheelRotationMask, of which
\* PTR_FLAGS_WHEEL_NEGATIVE is the highest.
Negative == 256

\* Mutant: the bit of the sign is not set.
RotationUnsigned(delta) == Magnitude(delta) % Negative

\* wheelEvent: the sign's bit, or'ed with the low bits of the magnitude.
RotationBits(delta) ==
    LET low == Magnitude(delta) % (2 * Negative)
    IN  IF delta < 0 /\ low < Negative THEN low + Negative ELSE low

\* What the server reads: a number in two's complement.
RotationOf(bits) == IF bits >= Negative THEN bits - 2 * Negative ELSE bits

WheelTurn(delta) ==
    /\ device = "mouse" /\ InView(pointer) /\ connected
    /\ wheel' = [turned |-> delta, received |-> RotationOf(RotationBits(delta))]
    /\ SendPointer(pointer)
    /\ UNCHANGED <<connected, keyVars, held, pointer, serverHeld, device,
                   excused>>

-----------------------------------------------------------------------------
\* my_post_connect gives the view its context; it is never taken away.
Connect ==
    /\ ~connected
    /\ connected' = TRUE
    /\ wheel' = Still
    /\ UNCHANGED <<keyVars, held, pointer, serverHeld, serverPointer, device,
                   excused>>

\* The window loses the focus or gets it back.  The view does nothing then:
\* what is held stays pressed on the server.
FocusChanges ==
    /\ KeyboardReady
    /\ focus' = ~focus
    /\ wheel' = Still
    /\ UNCHANGED <<connected, setting, repeating, held, pointer, serverHeld,
                   serverPointer, device, excused>>

\* A lock is switched, or the layout, with keys held or none.
SettingChanges ==
    /\ KeyboardReady
    /\ setting' \in Settings \ {setting}
    /\ wheel' = Still
    /\ UNCHANGED <<connected, focus, repeating, held, pointer, serverHeld,
                   serverPointer, device, excused>>

Next ==
    \/ \E k \in Keys :
          KeyPress(k) \/ RepeatRelease(k) \/ KeyRepeat(k) \/ KeyRelease(k)
    \/ \E b \in Buttons : MousePress(b) \/ MouseRelease(b)
    \/ \E p \in -1..View : MouseMove(p)
    \/ \E delta \in Rotations : WheelTurn(delta)
    \/ Connect \/ FocusChanges \/ SettingChanges

Spec == Init /\ [][Next]_vars

-----------------------------------------------------------------------------
\* All that may be sent for a key or a button.
Codes ==
    [input \in Keys \cup Buttons |->
        IF input \in Buttons THEN ButtonCode(input)
        ELSE UNION {Sent[input][state] : state \in States}]

\* What an auto-repeat has released and is about to press again.
Owed == UNION {CodeNow(k, held) : k \in repeating}

\* The types of the variables.
TypeOK ==
    /\ connected \in BOOLEAN /\ focus \in BOOLEAN
    /\ setting \in Settings /\ repeating \subseteq Keys
    /\ held \subseteq Keys \cup Buttons /\ excused \subseteq Keys \cup Buttons
    /\ Cardinality(held) <= MaxHeld
    /\ pointer \in -1..View /\ device \in {"keyboard", "mouse"}
    /\ serverHeld \subseteq UNION {Codes[input] : input \in Keys \cup Buttons}
    /\ serverPointer \in 0..(Half - 1)
    /\ wheel.turned \in Rotations \cup {0} /\ wheel.received \in -256..255

\* The server holds what the user holds, and nothing else.  A key may stick, or
\* be missing, only if the view did not see its press or its release, if the
\* release of another key of the same code was taken for its own (both Shift
\* keys, the right and the middle button), or if it is one whose code changes
\* with Shift, AltGr, a lock or the layout (keyReleaseEvent asks for the key as
\* it is at the release).  And the server is without the code of a key that
\* repeats from the release to the press of the repeat.
ServerHoldsTheSame ==
    /\ \A code \in serverHeld : \E input \in held \cup excused \cup Changing :
          code \in Codes[input]
    /\ \A input \in held \ (excused \cup Changing) :
          Codes[input] \subseteq serverHeld \cup Owed

\* While a button that the server knows of is held and the pointer is in the
\* view, the server's pointer is where the user's is, and so on the desktop,
\* even after it has been outside, where the position may be anything
\* (mouseEventScaleSend).
DragFollows ==
    Grab # {} /\ Grab \cap excused = {} /\ InView(pointer) =>
        /\ serverPointer * View <= pointer * Desktop
        /\ pointer * Desktop < (serverPointer + 1) * View

\* The wheel turns on the server as it does for the user: by as much upwards,
\* up to 255, and downwards in the same direction at least (a notch of 120 down
\* arrives as 136, since the magnitude is not complemented).  Beyond 255 upwards
\* the magnitude runs into the bit of the sign (wheelEvent, WheelRotationMask).
WheelKeepsDirection ==
    /\ wheel.turned \in 0..255 => wheel.received = wheel.turned
    /\ wheel.turned < 0 => wheel.received < 0
=============================================================================
