----------------------------- MODULE InputProofs -----------------------------
(* Theorems about Input, for every keyboard and key table, every size of the *)
(* view and of the desktop, and every turn of the wheel.                     *)
EXTENDS Input, FiniteSetTheorems, TLAPS

\* The premise about Changing: the code of another key is the same whatever the
\* modifiers, the locks and the layout are.
OthersKeepTheirCode ==
    \A k \in Keys \ Changing : \A s, t \in States :
        Code(Symbols[k][s], k \in Keypad) = Code(Symbols[k][t], k \in Keypad)

-----------------------------------------------------------------------------
(* The inductive invariant, in parts.                                       *)

HeldTypes ==
    /\ held \subseteq Keys \cup Buttons /\ excused \subseteq Keys \cup Buttons
    /\ IsFiniteSet(held) /\ Cardinality(held) <= MaxHeld
    /\ serverHeld \subseteq UNION {Codes[input] : input \in Keys \cup Buttons}
    /\ repeating \subseteq Keys /\ setting \in Settings

PointerTypes ==
    /\ pointer \in -1..View
    /\ serverPointer \in 0..(Half - 1)
    /\ wheel.turned \in Rotations \cup {0} /\ wheel.received \in -256..255

FlagTypes == connected \in BOOLEAN /\ focus \in BOOLEAN /\ device \in {"keyboard", "mouse"}

\* Until there is a context the server is told of no button, and once there is
\* one it knows where the pointer is while a button that it knows of is held.
PointerInv == /\ Grab \subseteq excused \/ connected
              /\ DragFollows

InputInv == HeldTypes /\ PointerTypes /\ FlagTypes /\ PointerInv /\ WheelKeepsDirection

-----------------------------------------------------------------------------
(* Arithmetic.                                                              *)

\* A quotient is the largest number whose product with the divisor fits.
LEMMA QuotientRange ==
    ASSUME NEW a \in Nat, NEW m \in Nat, m > 0
    PROVE  /\ a \div m \in Nat
           /\ (a \div m) * m <= a /\ a < (a \div m + 1) * m
<1> DEFINE q == a \div m
<1>1. q \in Int
  BY Z3
<1>2. a = m * q + (a % m) /\ a % m \in 0..(m - 1)
  BY Z3
<1>3. m * q <= a /\ a < m * q + m
  BY <1>1, <1>2, Z3
<1>4. m * q = q * m /\ (q + 1) * m = q * m + m
  BY <1>1, Z3
<1>5. q >= 0
  <2> SUFFICES ASSUME q + 1 <= 0 PROVE FALSE
    BY <1>1
  <2>1. (q + 1) * m <= 0
    BY <1>1, Z3
  <2> QED  BY <1>1, <1>3, <1>4, <2>1, Z3
<1> QED  BY <1>1, <1>3, <1>4, <1>5

\* A remainder is less than the divisor, and a number that is is its own.
LEMMA RemainderFacts ==
    ASSUME NEW a \in Int, NEW m \in Nat, m > 0
    PROVE  /\ a % m \in 0..(m - 1)
           /\ a \in 0..(m - 1) => a % m = a
<1>1. a % m \in 0..(m - 1)
  BY Z3
<1>2. a \in 0..(m - 1) => a % m = a
  BY Z3
<1> QED  BY <1>1, <1>2

\* The position that mouseEventScaleSend sends fits a UINT16, and is the
\* pointer's own scaled position when that is in the view.
LEMMA MapFacts ==
    ASSUME NEW p \in -1..View, NEW s \in Map(p)
    PROVE  /\ s \in 0..(Half - 1)
           /\ InView(p) => /\ s * View <= p * Desktop
                           /\ p * Desktop < (s + 1) * View
<1>0. /\ View \in Nat /\ View > 0 /\ Desktop \in Nat /\ Desktop > 0
      /\ Half \in Nat /\ Half > 0 /\ Desktop <= Half
      /\ Word \in Nat /\ View * Desktop <= Word
  BY InputAssumption
<1>1. View * Desktop \in Nat /\ View * Desktop > 0 /\ Word > 0
  <2>1. View * Desktop > 0
    BY <1>0, Z3
  <2> QED  BY <1>0, <2>1
<1>2. PICK u \in Unsigned(p) : s = (((u * Desktop) % Word) \div View) % Half
  BY DEF Map
<1>3. u \in Int /\ p \in Int
  <2>1. p % Word \in Int
    BY <1>0, <1>1, RemainderFacts
  <2> QED  BY <1>0, <1>2, <2>1 DEF Unsigned
<1>4. u * Desktop \in Int
  BY <1>0, <1>3
<1>5. (u * Desktop) % Word \in Nat
  BY <1>0, <1>1, <1>4, RemainderFacts
<1>6. ((u * Desktop) % Word) \div View \in Nat
  BY <1>0, <1>5, QuotientRange
<1>7. s \in 0..(Half - 1)
  BY <1>0, <1>2, <1>6, RemainderFacts
<1>8. ASSUME InView(p)
      PROVE  s * View <= p * Desktop /\ p * Desktop < (s + 1) * View
  <2>1. p \in Nat /\ p < View /\ u = p
    BY <1>0, <1>2, <1>8 DEF InView, Unsigned
  <2>2. p * Desktop \in Nat /\ p * Desktop < View * Desktop
    <3>1. p * Desktop >= 0
      BY <1>0, <2>1, Z3
    <3>2. p * Desktop < View * Desktop
      BY <1>0, <2>1, Z3
    <3> QED  BY <1>0, <2>1, <3>1, <3>2
  <2>3. (p * Desktop) % Word = p * Desktop
    BY <1>0, <1>1, <2>2, RemainderFacts
  <2> DEFINE q == (p * Desktop) \div View
  <2>4. q \in Nat /\ q * View <= p * Desktop /\ p * Desktop < (q + 1) * View
    BY <1>0, <2>2, QuotientRange
  <2> HIDE DEF q
  <2>5. q < Desktop
    <3> SUFFICES ASSUME q >= Desktop PROVE FALSE
      BY <1>0, <2>4
    <3>1. q * View >= Desktop * View
      BY <1>0, <2>4, Z3
    <3>2. Desktop * View = View * Desktop
      BY <1>0, Z3
    <3>3. q * View \in Int /\ Desktop * View \in Int /\ p * Desktop \in Int
      BY <1>0, <2>2, <2>4
    <3> QED  BY <2>2, <2>4, <3>1, <3>2, <3>3
  <2>6. q % Half = q
    BY <1>0, <2>4, <2>5, RemainderFacts
  <2>7. s = q
    BY <1>2, <2>1, <2>3, <2>6 DEF q
  <2> QED  BY <2>4, <2>7
<1> QED  BY <1>7, <1>8

\* The rotation that the server reads: nine bits, the direction kept, and the
\* amount of up to 255 upwards.
LEMMA RotationFacts ==
    ASSUME NEW delta \in Int
    PROVE  LET received == RotationOf(RotationBits(delta))
           IN  /\ received \in -256..255
               /\ delta \in 0..255 => received = delta
               /\ delta < 0 => received < 0
<1> DEFINE low == Magnitude(delta) % 512
<1>1. Magnitude(delta) \in Nat
  BY DEF Magnitude
<1>2. low \in 0..511 /\ (Magnitude(delta) \in 0..511 => low = Magnitude(delta))
  BY <1>1, RemainderFacts
<1>3. RotationBits(delta) = IF delta < 0 /\ low < 256 THEN low + 256 ELSE low
  BY DEF RotationBits, Negative
<1> HIDE DEF low
<1>4. delta \in 0..255 => low = delta
  BY <1>2 DEF Magnitude
<1> QED  BY <1>2, <1>3, <1>4 DEF RotationOf, Negative

-----------------------------------------------------------------------------
(* Codes of keys and buttons.                                               *)

\* What is sent for a key is one of its codes, and the only one unless these
\* change; buttons are not taken for keys.
LEMMA CodeFacts ==
    ASSUME NEW k \in Keys
    PROVE  /\ \A state \in States : /\ Sent[k][state] = Code(Symbols[k][state], k \in Keypad)
                                   /\ Sent[k][state] \subseteq Codes[k]
           /\ OthersKeepTheirCode /\ k \notin Changing =>
                 \A state \in States : Sent[k][state] = Codes[k]
           /\ \A b \in Buttons : /\ Codes[b] = ButtonCode(b)
                                 /\ Codes[b] \cap Codes[k] = {}
           /\ k \notin Buttons
<1>1. k \notin Buttons
  BY InputAssumption
<1>2. \A state \in States : Sent[k][state] = Code(Symbols[k][state], k \in Keypad)
  BY DEF Sent
<1>3. Codes[k] = UNION {Sent[k][state] : state \in States}
  BY <1>1 DEF Codes
<1>4. \A symbol, keypad : \A c \in Code(symbol, keypad) :
         c[1] \in {"main", "numpad", "unicode"}
  <2> SUFFICES ASSUME NEW symbol, NEW keypad, NEW c \in Code(symbol, keypad)
               PROVE  c[1] \in {"main", "numpad", "unicode"}
    OBVIOUS
  <2>1. \/ c \in ScanCode(symbol, keypad) \/ c = <<"unicode", symbol>>
    BY DEF Code
  <2>2. c \in ScanCode(symbol, keypad) =>
           c \in {<<"main", "Enter">>, <<"numpad", symbol>>, <<"main", "Tab">>,
                  <<"main", symbol>>}
    BY DEF ScanCode
  <2> QED  BY <2>1, <2>2
<1>5. \A c \in Codes[k] : c[1] # "button"
  BY <1>2, <1>3, <1>4
<1>6. \A b \in Buttons : Codes[b] = ButtonCode(b) /\ \A c \in Codes[b] : c[1] = "button"
  BY DEF Codes, ButtonCode
<1>7. ASSUME OthersKeepTheirCode, k \notin Changing
      PROVE  \A state \in States : Sent[k][state] = Codes[k]
  <2>1. \A s, t \in States : Sent[k][s] = Sent[k][t]
    BY <1>2, <1>7 DEF OthersKeepTheirCode
  <2> QED  BY <1>3, <2>1
<1>8. \A state \in States : Sent[k][state] \subseteq Codes[k]
  BY <1>3
<1> QED  BY <1>1, <1>2, <1>5, <1>6, <1>7, <1>8

\* So it is with what is sent now.
LEMMA NowFacts ==
    ASSUME NEW k \in Keys, NEW down, setting \in Settings
    PROVE  /\ \E state \in States : CodeNow(k, down) = Sent[k][state]
                                  /\ state = <<down \cap Modifiers, setting>>
           /\ CodeNow(k, down) \subseteq Codes[k]
           /\ OthersKeepTheirCode /\ k \notin Changing => CodeNow(k, down) = Codes[k]
<1>1. <<down \cap Modifiers, setting>> \in States
  BY DEF States
<1> QED  BY <1>1, CodeFacts DEF CodeNow

\* A key that has not the code of a released one, whatever that is now, is
\* none of its twins.
LEMMA TwinFacts ==
    ASSUME OthersKeepTheirCode, setting \in Settings, NEW k \in Keys, NEW down,
           NEW input \in (Keys \cup Buttons) \ Changing,
           input # k, input \notin Twins[k]
    PROVE  Codes[input] \cap CodeNow(k, down) = {}
<1>1. CASE input \in Buttons
  <2>1. Codes[input] \cap Codes[k] = {}
    BY <1>1, CodeFacts
  <2> QED  BY <2>1, NowFacts
<1>2. CASE input \in Keys
  <2>1. PICK state \in States : CodeNow(k, down) = Sent[k][state]
    BY NowFacts
  <2>2. Sent[input][state] \cap Sent[k][state] = {}
    BY <1>2 DEF Twins
  <2>3. Sent[input][state] = Codes[input]
    BY <1>2, CodeFacts
  <2> QED  BY <2>1, <2>2, <2>3
<1> QED  BY <1>1, <1>2

-----------------------------------------------------------------------------
(* Each part of the invariant is kept by every step.                        *)

\* What may come of a key.
KeyEvent(k) == KeyPress(k) \/ RepeatRelease(k) \/ KeyRepeat(k) \/ KeyRelease(k)

\* What a step may do to what is held, by the user and on the server.
Presses(input, codes) ==
    /\ input \notin held /\ Cardinality(held) < MaxHeld /\ held' = held \cup {input}
    /\ \/ serverHeld' = serverHeld \cup codes /\ excused' = excused \ {input}
       \/ UNCHANGED serverHeld /\ excused' = excused \cup {input}

Releases(input, codes) ==
    /\ input \in held /\ held' = held \ {input}
    /\ \/ serverHeld' = serverHeld \ codes /\ excused' = Told(input)
       \/ UNCHANGED serverHeld /\ excused' = excused \cup {input}

\* A step presses, repeats or releases one key or button, or none.  What a
\* repeat owes stays owed until it is pressed.
LEMMA HeldSteps ==
    ASSUME [Next]_vars
    PROVE  \/ \E k \in Keys : /\ Presses(k, CodeNow(k, held))
                              /\ repeating = {} /\ UNCHANGED <<repeating, setting>>
           \/ \E k \in Keys : /\ Releases(k, CodeNow(k, held \ {k}))
                              /\ repeating = {} /\ UNCHANGED <<repeating, setting>>
           \/ \E b \in Buttons : /\ Presses(b, ButtonCode(b))
                                 /\ UNCHANGED <<repeating, setting>>
           \/ \E b \in Buttons : /\ Releases(b, ButtonCode(b))
                                 /\ UNCHANGED <<repeating, setting>>
           \/ \E k \in Keys \cap held :
                 /\ UNCHANGED <<held, excused, setting>>
                 /\ repeating = {} /\ repeating' = {k}
                 /\ serverHeld' = serverHeld \ CodeNow(k, held)
           \/ \E k \in Keys \cap held :
                 /\ UNCHANGED <<held, excused, setting>>
                 /\ repeating \subseteq {k} /\ repeating' = {}
                 /\ serverHeld' = serverHeld \cup CodeNow(k, held)
           \/ /\ UNCHANGED <<held, serverHeld, excused, repeating>>
              /\ \/ UNCHANGED setting
                 \/ repeating = {} /\ setting' \in Settings
<1>1. ASSUME NEW k \in Keys, KeyPress(k)
      PROVE  /\ Presses(k, CodeNow(k, held))
             /\ repeating = {} /\ UNCHANGED <<repeating, setting>>
  BY <1>1 DEF KeyPress, KeyboardReady, keyVars, Presses
<1>2. ASSUME NEW k \in Keys, KeyRelease(k)
      PROVE  /\ Releases(k, CodeNow(k, held \ {k}))
             /\ repeating = {} /\ UNCHANGED <<repeating, setting>>
  BY <1>2 DEF KeyRelease, KeyboardReady, keyVars, Releases
<1>3. ASSUME NEW b \in Buttons, MousePress(b)
      PROVE  Presses(b, ButtonCode(b)) /\ UNCHANGED <<repeating, setting>>
  BY <1>3 DEF MousePress, keyVars, Presses
<1>4. ASSUME NEW b \in Buttons, MouseRelease(b)
      PROVE  Releases(b, ButtonCode(b)) /\ UNCHANGED <<repeating, setting>>
  BY <1>4 DEF MouseRelease, keyVars, Releases
<1>5. ASSUME NEW k \in Keys, RepeatRelease(k)
      PROVE  /\ k \in held /\ UNCHANGED <<held, excused, setting>>
             /\ repeating = {} /\ repeating' = {k}
             /\ serverHeld' = serverHeld \ CodeNow(k, held)
  BY <1>5 DEF RepeatRelease, KeyboardReady
<1>6. ASSUME NEW k \in Keys, KeyRepeat(k)
      PROVE  /\ k \in held /\ UNCHANGED <<held, excused, setting>>
             /\ repeating \subseteq {k} /\ repeating' = {}
             /\ serverHeld' = serverHeld \cup CodeNow(k, held)
  BY <1>6 DEF KeyRepeat
<1>7. CASE SettingChanges
  BY <1>7 DEF SettingChanges, KeyboardReady
<1>8. CASE \/ \E p \in -1..View : MouseMove(p)
           \/ \E delta \in Rotations : WheelTurn(delta)
           \/ Connect \/ FocusChanges \/ UNCHANGED vars
  BY <1>8 DEF MouseMove, WheelTurn, Connect, FocusChanges, keyVars, vars
<1> QED  BY <1>1, <1>2, <1>3, <1>4, <1>5, <1>6, <1>7, <1>8 DEF Next

\* The codes of a press are known ones, and the held inputs are counted.
LEMMA HeldTypesStep == HeldTypes /\ [Next]_vars => HeldTypes'
<1> SUFFICES ASSUME HeldTypes, [Next]_vars PROVE HeldTypes'
  OBVIOUS
<1> DEFINE Inputs == Keys \cup Buttons
           Known == UNION {Codes[input] : input \in Inputs}
<1>0. setting \in Settings /\ repeating \subseteq Keys
  BY DEF HeldTypes
<1>a. setting' \in Settings /\ repeating' \subseteq Keys
  BY <1>0, HeldSteps
<1>1. \A k \in Keys : \A down : CodeNow(k, down) \subseteq Known
  BY <1>0, NowFacts
<1>2. \A b \in Buttons : ButtonCode(b) \subseteq Known
  BY DEF Codes
<1>3. held \subseteq Inputs /\ excused \subseteq Inputs /\ serverHeld \subseteq Known
  BY DEF HeldTypes
<1>4. IsFiniteSet(held) /\ Cardinality(held) \in Nat /\ Cardinality(held) <= MaxHeld
      /\ MaxHeld \in Nat
  BY FS_CardinalityType, InputAssumption DEF HeldTypes
<1> HIDE DEF Known, Inputs
<1> SUFFICES /\ held' \subseteq Inputs /\ excused' \subseteq Inputs
             /\ serverHeld' \subseteq Known
             /\ IsFiniteSet(held') /\ Cardinality(held') <= MaxHeld
  BY <1>a DEF HeldTypes, Known, Inputs
<1>5. ASSUME NEW input \in Inputs, NEW codes \in SUBSET Known, Presses(input, codes)
      PROVE  /\ held' \subseteq Inputs /\ excused' \subseteq Inputs
             /\ serverHeld' \subseteq Known
             /\ IsFiniteSet(held') /\ Cardinality(held') <= MaxHeld
  <2>1. held' = held \cup {input} /\ input \notin held /\ Cardinality(held) < MaxHeld
    BY <1>5 DEF Presses
  <2>2. IsFiniteSet(held') /\ Cardinality(held') <= MaxHeld
    BY <1>4, <2>1, FS_AddElement
  <2> QED  BY <1>3, <1>5, <2>2 DEF Presses
<1>6. ASSUME NEW input \in Inputs, NEW codes, Releases(input, codes)
      PROVE  /\ held' \subseteq Inputs /\ excused' \subseteq Inputs
             /\ serverHeld' \subseteq Known
             /\ IsFiniteSet(held') /\ Cardinality(held') <= MaxHeld
  <2>1. held' = held \ {input} /\ input \in held
    BY <1>6 DEF Releases
  <2>2. IsFiniteSet(held') /\ Cardinality(held') = Cardinality(held) - 1
    BY <1>4, <2>1, FS_RemoveElement
  <2>3. Cardinality(held') <= MaxHeld
    BY <1>4, <2>2
  <2> QED  BY <1>3, <1>6, <2>2, <2>3 DEF Releases, Told
<1>7. \A k \in Keys : k \in Inputs
  BY DEF Inputs
<1>8. \A b \in Buttons : b \in Inputs
  BY DEF Inputs
<1> QED  BY <1>1, <1>2, <1>3, <1>4, <1>5, <1>6, <1>7, <1>8, HeldSteps

\* What a step sends of the pointer, and how it turns the wheel.
LEMMA PointerSteps ==
    ASSUME PointerTypes, [Next]_vars
    PROVE  /\ pointer' \in -1..View
           /\ \/ UNCHANGED <<pointer, serverPointer>>
              \/ Grab = {} /\ UNCHANGED serverPointer
              \/ serverPointer' \in Map(pointer')
              \/ ~connected /\ UNCHANGED serverPointer
           /\ \/ UNCHANGED wheel \/ wheel' = Still
              \/ \E delta \in Rotations :
                    wheel' = [turned |-> delta,
                              received |-> RotationOf(RotationBits(delta))]
<1>0. pointer \in -1..View
  BY DEF PointerTypes
<1>1. CASE \E k \in Keys : KeyEvent(k)
  BY <1>0, <1>1 DEF KeyEvent, KeyPress, RepeatRelease, KeyRepeat, KeyRelease
<1>2. CASE \E b \in Buttons : MousePress(b) \/ MouseRelease(b)
  BY <1>0, <1>2 DEF MousePress, MouseRelease, SendPointer
<1>3. CASE \E p \in -1..View : MouseMove(p)
  BY <1>3 DEF MouseMove, SendPointer
<1>4. CASE \E delta \in Rotations : WheelTurn(delta)
  BY <1>0, <1>4 DEF WheelTurn, SendPointer
<1>5. CASE Connect \/ FocusChanges \/ SettingChanges \/ UNCHANGED vars
  BY <1>0, <1>5 DEF Connect, FocusChanges, SettingChanges, vars
<1> QED  BY <1>1, <1>2, <1>3, <1>4, <1>5 DEF Next, KeyEvent

\* The position and the rotation that are sent keep to their widths, ...
LEMMA PointerTypesStep == PointerTypes /\ [Next]_vars => PointerTypes'
<1> SUFFICES ASSUME PointerTypes, [Next]_vars PROVE PointerTypes'
  OBVIOUS
<1>1. pointer' \in -1..View /\ serverPointer' \in 0..(Half - 1)
  BY PointerSteps, MapFacts DEF PointerTypes
<1>2. wheel'.turned \in Rotations \cup {0} /\ wheel'.received \in -256..255
  <2>1. Rotations \subseteq Int
    BY InputAssumption
  <2> QED  BY <2>1, PointerSteps, RotationFacts DEF PointerTypes, Still
<1> QED  BY <1>1, <1>2 DEF PointerTypes

\* ... the direction of the wheel among them.
LEMMA WheelStep ==
    PointerTypes /\ WheelKeepsDirection /\ [Next]_vars => WheelKeepsDirection'
<1> SUFFICES ASSUME PointerTypes, WheelKeepsDirection, [Next]_vars
             PROVE  WheelKeepsDirection'
  OBVIOUS
<1>1. Rotations \subseteq Int
  BY InputAssumption
<1>2. CASE UNCHANGED wheel
  BY <1>2 DEF WheelKeepsDirection
<1>3. CASE wheel' = Still
  BY <1>3 DEF WheelKeepsDirection, Still
<1>4. ASSUME NEW delta \in Rotations,
             wheel' = [turned |-> delta,
                       received |-> RotationOf(RotationBits(delta))]
      PROVE  WheelKeepsDirection'
  <2>1. wheel'.turned = delta /\ wheel'.received = RotationOf(RotationBits(delta))
    BY <1>4
  <2> QED  BY <1>1, <2>1, RotationFacts DEF WheelKeepsDirection
<1> QED  BY <1>2, <1>3, <1>4, PointerSteps

\* Flags stay flags.
LEMMA FlagTypesStep == FlagTypes /\ [Next]_vars => FlagTypes'
<1>1. FlagTypes /\ (\E k \in Keys : KeyEvent(k))
         => FlagTypes'
  BY DEF FlagTypes, KeyEvent, KeyPress, RepeatRelease, KeyRepeat,
         KeyRelease, keyVars
<1>2. FlagTypes /\ (\E b \in Buttons : MousePress(b) \/ MouseRelease(b)) => FlagTypes'
  BY DEF FlagTypes, MousePress, MouseRelease, keyVars
<1>3. FlagTypes /\ (\/ \E p \in -1..View : MouseMove(p)
                   \/ \E delta \in Rotations : WheelTurn(delta)) => FlagTypes'
  BY DEF FlagTypes, MouseMove, WheelTurn, keyVars
<1>4. FlagTypes /\ (Connect \/ FocusChanges \/ SettingChanges \/ UNCHANGED vars) => FlagTypes'
  BY DEF FlagTypes, Connect, FocusChanges, SettingChanges, keyVars, vars
<1> QED  BY <1>1, <1>2, <1>3, <1>4 DEF Next, KeyEvent

\* A drag that the server knows of takes its pointer along.
LEMMA PointerInvStep == PointerTypes /\ PointerInv /\ [Next]_vars => PointerInv'
<1> SUFFICES ASSUME PointerTypes, PointerInv, [Next]_vars PROVE PointerInv'
  OBVIOUS
<1> DEFINE Follows(p, s) == InView(p) => /\ s * View <= p * Desktop
                                         /\ p * Desktop < (s + 1) * View
<1>0. \A p \in -1..View : \A s \in Map(p) : Follows(p, s)
  BY MapFacts
<1>1. Grab # {} /\ Grab \cap excused = {} => connected /\ Follows(pointer, serverPointer)
  BY DEF PointerInv, DragFollows
<1>2. pointer' \in -1..View
  BY PointerSteps
<1> HIDE DEF Follows
<1> SUFFICES /\ Grab' \subseteq excused' \/ connected'
             /\ Grab' # {} /\ Grab' \cap excused' = {}
                   => Follows(pointer', serverPointer')
  BY DEF PointerInv, DragFollows, InView, Follows
<1>3. CASE \E k \in Keys : KeyEvent(k)
  <2>1. PICK k \in Keys : KeyEvent(k)
    BY <1>3
  <2>2. k \notin Buttons
    BY CodeFacts
  <2>3. UNCHANGED <<pointer, serverPointer, connected, Grab>>
    BY <2>1, <2>2 DEF KeyEvent, KeyPress, RepeatRelease, KeyRepeat, KeyRelease, Grab
  <2>4. \A b \in Grab : b \in excused' <=> b \in excused
    <3>1. Twins[k] \subseteq Keys /\ \A b \in Grab : b \notin Keys
      BY CodeFacts DEF Twins, Grab
    <3> QED  BY <2>1, <2>2, <3>1
             DEF KeyEvent, KeyPress, RepeatRelease, KeyRepeat, KeyRelease, Told, Grab
  <2> QED  BY <1>1, <2>3, <2>4 DEF PointerInv
<1>4. CASE \E b \in Buttons : MousePress(b) \/ MouseRelease(b)
  <2>1. PICK b \in Buttons : MousePress(b) \/ MouseRelease(b)
    BY <1>4
  <2>2. CASE connected
    <3>1. connected' /\ serverPointer' \in Map(pointer')
      BY <2>1, <2>2 DEF MousePress, MouseRelease, SendPointer
    <3> QED  BY <1>0, <1>2, <3>1
  <2>3. CASE ~connected
    <3>1. Grab \subseteq excused
      BY <2>3 DEF PointerInv
    <3>2. Grab' \subseteq excused'
      BY <2>1, <2>3, <3>1 DEF MousePress, MouseRelease, Grab
    <3> QED  BY <3>2
  <2> QED  BY <2>2, <2>3
<1>5. CASE \E p \in -1..View : MouseMove(p)
  <2>1. UNCHANGED <<connected, excused, Grab>>
    BY <1>5 DEF MouseMove, Grab
  <2>2. Grab # {} /\ connected => serverPointer' \in Map(pointer')
    BY <1>5 DEF MouseMove, SendPointer
  <2> QED  BY <1>0, <1>1, <1>2, <2>1, <2>2 DEF PointerInv
<1>6. CASE \E delta \in Rotations : WheelTurn(delta)
  <2>1. connected' /\ serverPointer' \in Map(pointer')
    BY <1>6 DEF WheelTurn, SendPointer
  <2> QED  BY <1>0, <1>2, <2>1
<1>7. CASE Connect \/ FocusChanges \/ SettingChanges \/ UNCHANGED vars
  <2>1. UNCHANGED <<pointer, serverPointer, excused, Grab>> /\ (connected => connected')
    BY <1>7 DEF Connect, FocusChanges, SettingChanges, vars, Grab
  <2> QED  BY <1>1, <2>1 DEF PointerInv
<1> QED  BY <1>3, <1>4, <1>5, <1>6, <1>7 DEF Next, KeyEvent

-----------------------------------------------------------------------------
(* The theorems.                                                            *)

\* Nothing is held, and no button known, before the view has a context.
LEMMA InitInput == Init => InputInv
<1> SUFFICES ASSUME Init PROVE InputInv
  OBVIOUS
<1>1. HeldTypes
  BY FS_EmptySet, InputAssumption DEF Init, HeldTypes
<1>2. PointerTypes /\ WheelKeepsDirection
  BY InputAssumption DEF Init, PointerTypes, WheelKeepsDirection, Still
<1>3. FlagTypes
  BY DEF Init, FlagTypes
<1>4. PointerInv
  BY DEF Init, PointerInv, DragFollows, Grab
<1> QED  BY <1>1, <1>2, <1>3, <1>4 DEF InputInv

\* The parts together are inductive.
THEOREM Invariance == Spec => []InputInv
<1>1. InputInv /\ [Next]_vars => InputInv'
  BY HeldTypesStep, PointerTypesStep, FlagTypesStep, PointerInvStep, WheelStep
     DEF InputInv
<1> QED  BY <1>1, InitInput, PTL DEF Spec

\* Type correctness: in particular the positions that are sent fit 16 bits,
\* wherever the pointer is (mouseEventScaleSend).
THEOREM TypeCorrect == Spec => []TypeOK
<1>1. InputInv => TypeOK
  BY DEF InputInv, HeldTypes, PointerTypes, FlagTypes, TypeOK
<1> QED  BY <1>1, Invariance, PTL

\* The server's pointer follows a drag, for every size of the view and of the
\* desktop whose product fits 32 bits (mouseMoveEvent, mouseEventScaleSend).
THEOREM PointerFollows == Spec => []DragFollows
<1>1. InputInv => DragFollows
  BY DEF InputInv, PointerInv
<1> QED  BY <1>1, Invariance, PTL

\* The wheel turns the way it is turned, by whatever amount (wheelEvent).
THEOREM WheelTurnsAlike == Spec => []WheelKeepsDirection
<1>1. InputInv => WheelKeepsDirection
  BY DEF InputInv
<1> QED  BY <1>1, Invariance, PTL

\* A key that is released takes no code with it that another one needs, and an
\* auto-repeat gives back what it takes.
LEMMA ServerHeldStep ==
    OthersKeepTheirCode /\ HeldTypes /\ ServerHoldsTheSame /\ [Next]_vars
       => ServerHoldsTheSame'
<1> SUFFICES ASSUME OthersKeepTheirCode, HeldTypes, ServerHoldsTheSame, [Next]_vars
             PROVE  ServerHoldsTheSame'
  OBVIOUS
<1>0. /\ held \subseteq Keys \cup Buttons /\ Changing \subseteq Keys
      /\ repeating \subseteq Keys /\ setting \in Settings
  BY InputAssumption DEF HeldTypes
<1>1. \A k \in Keys : \A down :
         /\ CodeNow(k, down) \subseteq Codes[k]
         /\ k \notin Changing => CodeNow(k, down) = Codes[k]
  BY <1>0, NowFacts
<1>2. \A b \in Buttons : ButtonCode(b) = Codes[b]
  BY DEF Codes
<1>3. ASSUME NEW input \in Keys \cup Buttons, NEW codes, Presses(input, codes),
             codes \subseteq Codes[input], input \notin Changing => codes = Codes[input],
             Owed \subseteq Owed'
      PROVE  ServerHoldsTheSame'
  <2>1. \A code \in serverHeld' :
           \E i \in held' \cup excused' \cup Changing : code \in Codes[i]
    BY <1>3 DEF Presses, ServerHoldsTheSame
  <2>2. \A i \in held' \ (excused' \cup Changing) : Codes[i] \subseteq serverHeld' \cup Owed'
    BY <1>3 DEF Presses, ServerHoldsTheSame
  <2> QED  BY <2>1, <2>2 DEF ServerHoldsTheSame
<1>4. ASSUME NEW input \in Keys \cup Buttons, NEW codes, Releases(input, codes),
             input \notin Changing => codes = Codes[input],
             \A i \in held \ (Changing \cup Twins[input]) :
                i # input => Codes[i] \cap codes = {},
             Owed \subseteq Owed'
      PROVE  ServerHoldsTheSame'
  <2>1. \A code \in serverHeld' :
           \E i \in held' \cup excused' \cup Changing : code \in Codes[i]
    BY <1>4 DEF Releases, Told, ServerHoldsTheSame
  <2>2. \A i \in held' \ (excused' \cup Changing) : Codes[i] \subseteq serverHeld' \cup Owed'
    BY <1>4 DEF Releases, Told, ServerHoldsTheSame
  <2> QED  BY <2>1, <2>2 DEF ServerHoldsTheSame
<1>5. ASSUME NEW k \in Keys, Presses(k, CodeNow(k, held)), repeating = {}
      PROVE  ServerHoldsTheSame'
  BY <1>1, <1>3, <1>5 DEF Owed
<1>6. ASSUME NEW k \in Keys, Releases(k, CodeNow(k, held \ {k})), repeating = {}
      PROVE  ServerHoldsTheSame'
  <2>1. \A i \in held \ (Changing \cup Twins[k]) :
           i # k => Codes[i] \cap CodeNow(k, held \ {k}) = {}
    BY <1>0, TwinFacts
  <2> QED  BY <1>1, <1>4, <1>6, <2>1 DEF Owed
<1>7. ASSUME NEW b \in Buttons, UNCHANGED <<repeating, setting>>,
             held' \in {held \cup {b}, held \ {b}}
      PROVE  Owed' = Owed
  <2>1. b \notin Modifiers
    BY InputAssumption
  <2>2. held' \cap Modifiers = held \cap Modifiers
    BY <1>7, <2>1
  <2> QED  BY <1>7, <2>2 DEF Owed, CodeNow
<1>8. ASSUME NEW b \in Buttons, Presses(b, ButtonCode(b)), UNCHANGED <<repeating, setting>>
      PROVE  ServerHoldsTheSame'
  <2>1. Owed' = Owed
    BY <1>7, <1>8 DEF Presses
  <2> QED  BY <1>2, <1>3, <1>8, <2>1
<1>9. ASSUME NEW b \in Buttons, Releases(b, ButtonCode(b)), UNCHANGED <<repeating, setting>>
      PROVE  ServerHoldsTheSame'
  <2>1. b \notin Keys
    BY InputAssumption
  <2>2. \A i \in held \ (Changing \cup Twins[b]) :
           i # b => Codes[i] \cap ButtonCode(b) = {}
    <3> SUFFICES ASSUME NEW i \in held \ (Changing \cup Twins[b]), i # b
                 PROVE  Codes[i] \cap ButtonCode(b) = {}
      OBVIOUS
    <3>1. CASE i \in Keys
      BY <1>2, <3>1, CodeFacts
    <3>2. CASE i \in Buttons
      BY <1>2, <2>1, <3>2 DEF Twins, ButtonCode
    <3> QED  BY <1>0, <3>1, <3>2
  <2>3. Owed' = Owed
    BY <1>7, <1>9 DEF Releases
  <2> QED  BY <1>2, <1>4, <1>9, <2>2, <2>3
<1>10. ASSUME NEW k \in Keys \cap held, UNCHANGED <<held, excused, setting>>,
              repeating = {}, repeating' = {k},
              serverHeld' = serverHeld \ CodeNow(k, held)
       PROVE  ServerHoldsTheSame'
  <2>1. Owed = {} /\ Owed' = CodeNow(k, held)
    BY <1>10 DEF Owed, CodeNow
  <2> QED  BY <1>10, <2>1 DEF ServerHoldsTheSame
<1>11. ASSUME NEW k \in Keys \cap held, UNCHANGED <<held, excused, setting>>,
              repeating \subseteq {k}, repeating' = {},
              serverHeld' = serverHeld \cup CodeNow(k, held)
       PROVE  ServerHoldsTheSame'
  <2>1. Owed \subseteq CodeNow(k, held) /\ Owed' = {}
    BY <1>11 DEF Owed
  <2>2. CodeNow(k, held) \subseteq Codes[k]
    BY <1>1
  <2> QED  BY <1>11, <2>1, <2>2 DEF ServerHoldsTheSame
<1>12. CASE /\ UNCHANGED <<held, serverHeld, excused, repeating>>
            /\ UNCHANGED setting \/ repeating = {}
  <2>1. Owed' = Owed
    BY <1>12 DEF Owed, CodeNow
  <2> QED  BY <1>12, <2>1 DEF ServerHoldsTheSame
<1> QED  BY <1>5, <1>6, <1>8, <1>9, <1>10, <1>11, <1>12, HeldSteps

\* Whatever is pressed, repeated and released, in whatever order, wherever the
\* focus goes and whatever locks and layout are switched to meanwhile, the server
\* holds what the user holds, but for the keys of Changing, those it was not told
\* of, or told the release of a twin, and a repeat under way (keyPressEvent,
\* keyReleaseEvent).  The premise says what Changing stands for.
THEOREM HeldAgrees ==
    ASSUME OthersKeepTheirCode
    PROVE  Spec => []ServerHoldsTheSame
<1>1. Init => ServerHoldsTheSame
  BY DEF Init, ServerHoldsTheSame
<1>2. InputInv => HeldTypes
  BY DEF InputInv
<1>3. HeldTypes /\ ServerHoldsTheSame /\ [Next]_vars => ServerHoldsTheSame'
  BY ServerHeldStep
<1> QED  BY <1>1, <1>2, <1>3, Invariance, PTL DEF Spec

=============================================================================
