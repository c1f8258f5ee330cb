---------------------------- MODULE ConsoleProofs ----------------------------
(***************************************************************************)
(* Three theorems about module Console: it implements module Terminal, no  *)
(* modifier of the keyboard is ever stuck, and backspace always erases.    *)
(***************************************************************************)
EXTENDS Console, SequenceTheorems, WellFoundedInduction, TLAPS

\* The console's record; of the cursor CursorInv speaks below.
VconShape ==
  vcon \in [cononical : BOOLEAN, buffer : Seq(Printable \cup {"NUL"}),
            reader : Reader \cup {Nobody}, cursor : {vcon.cursor}]

\* While a line is typed it holds characters only, and its reader is a process that waits.
LineOfReader ==
  vcon.cononical => /\ vcon.buffer \in Seq(Printable)
                    /\ vcon.reader \in Reader \cap blocked

LineInv == VconShape /\ LineOfReader

\* The bytes on the wire are those a key has left to send, and agree with what is held.
WireOfKey ==
  \/ wire = <<>>
  \/ \E key \in Keys, down \in BOOLEAN :
        /\ wire = Bytes(key, down) \/ wire = <<Byte(key, down)>>
        /\ down <=> key \in held

\* A modifier is on because of a key that is down or whose release is on its way.
ModifierExplained ==
  \A m \in kb.modifiers :
     \E key \in Keys : /\ scancode_normal[key] = m
                       /\ key \in held \/ (wire # <<>> /\ wire[Len(wire)].key = key)

KeyInv == /\ kb \in [modifiers : SUBSET Modifiers, caps : BOOLEAN, extended : {FALSE}]
          /\ held \subseteq Keys
          /\ WireOfKey
          /\ ModifierExplained

-----------------------------------------------------------------------------
(* The terminal *)

\* The record with its fields spelled out.
LEMMA VconFields ==
  ASSUME VconShape
  PROVE  vcon = [cononical |-> vcon.cononical, buffer |-> vcon.buffer,
                 reader |-> vcon.reader, cursor |-> vcon.cursor]
  BY DEF VconShape

\* The invariant holds in the beginning.
LEMMA LineInit == CInit => LineInv
  <1> SUFFICES ASSUME CInit PROVE LineInv OBVIOUS
  <1> QED BY DEF CInit, LineInv, VconShape, LineOfReader, Origin

\* Every step keeps the invariant and is a step of the terminal or leaves it alone.
LEMMA LineStep ==
  ASSUME LineInv, [CNext]_cvars
  PROVE  LineInv' /\ [T!TNext]_(T!tvars)
  <1> USE DEF LineInv
  <1>1. CASE UNCHANGED <<vcon, blocked, given>>
    BY <1>1 DEF VconShape, LineOfReader, T!tvars
  <1>2. ASSUME NEW p \in Reader, Input(p) PROVE LineInv' /\ T!Ask(p)
    <2>1. vcon' = [cononical |-> TRUE, buffer |-> <<>>, reader |-> p, cursor |-> vcon.cursor]
      BY <1>2 DEF Input, VconShape
    <2>2. blocked' = blocked \cup {p} /\ given' = given /\ p \notin blocked
      BY <1>2 DEF Input
    <2>3. LineInv'
      BY <2>1, <2>2 DEF VconShape, LineOfReader
    <2>4. (IF vcon.cononical THEN vcon.reader ELSE Nobody) # p
      BY <2>2, ReaderAssumption DEF LineOfReader
    <2>5. QED BY <2>1, <2>2, <2>3, <2>4 DEF T!Ask
  <1>3. ASSUME NEW p \in Reader, NEW text \in Texts, Write(p, text)
        PROVE LineInv' /\ UNCHANGED T!tvars
    BY <1>3 DEF Write, VconShape, LineOfReader, T!tvars
  <1>4. ASSUME NEW e, KeyboardHandle(e) PROVE LineInv' /\ [T!TNext]_(T!tvars)
    <2>1. CASE /\ e.pressed /\ InterruptKey(e)
               /\ vcon' = Echo(Echo(vcon, e.keycode), e.keycode)
               /\ UNCHANGED <<blocked, given>>
      <3>1. e.keycode = "c" /\ "c" \in Printable
        BY <2>1 DEF InterruptKey, Printable
      <3> DEFINE once == HandleCursor(CursorOn(vcon.cursor))
                 twice == HandleCursor(CursorOn(once))
      <3>a. vcon' = [cononical |-> vcon.cononical, buffer |-> Append(Append(vcon.buffer, "c"), "c"),
                     reader |-> vcon.reader, cursor |-> twice]
        BY <2>1, <3>1, VconFields DEF Echo
      <3> HIDE DEF twice
      <3>2. /\ vcon'.cononical = vcon.cononical /\ vcon'.reader = vcon.reader
            /\ vcon'.buffer = Append(Append(vcon.buffer, "c"), "c")
            /\ VconShape'
        BY <3>a, <3>1 DEF VconShape
      <3>3. LineOfReader'
        <4>1. vcon.cononical => Append(Append(vcon.buffer, "c"), "c") \in Seq(Printable)
          BY <3>1 DEF LineOfReader
        <4>2. blocked' = blocked
          BY <2>1
        <4>3. QED BY <3>2, <4>1, <4>2 DEF LineOfReader
      <3>4. vcon.cononical => T!Interrupt("c")
        <4>1. vcon.cononical => Append(Append(vcon.buffer, "c"), "c") = vcon.buffer \o <<"c", "c">>
          BY <3>1 DEF LineOfReader
        <4>2. vcon.cononical => vcon.reader # Nobody
          BY ReaderAssumption DEF LineOfReader
        <4>3. QED BY <2>1, <3>2, <4>1, <4>2 DEF T!Interrupt
      <3>5. ~vcon.cononical => UNCHANGED T!tvars
        BY <2>1, <3>2 DEF T!tvars
      <3>6. QED BY <3>1, <3>2, <3>3, <3>4, <3>5 DEF T!TNext
    <2>2. CASE vcon.cononical /\ EndLine
      <3> DEFINE cur == Putc(vcon.cursor, "NL")
      <3>a. vcon' = [cononical |-> FALSE, buffer |-> Append(vcon.buffer, "NUL"),
                     reader |-> vcon.reader, cursor |-> cur]
        BY <2>2, VconFields DEF EndLine
      <3> HIDE DEF cur
      <3>b. Append(vcon.buffer, "NUL") \in Seq(Printable \cup {"NUL"})
        BY DEF VconShape
      <3>c. ~vcon'.cononical /\ VconShape'
        BY <3>a, <3>b DEF VconShape
      <3>1. /\ ~vcon'.cononical /\ VconShape'
            /\ given' = [to |-> vcon.reader, line |-> vcon.buffer]
        BY <2>2, <3>c DEF EndLine
      <3>2. vcon.reader # Nobody
        BY <2>2, ReaderAssumption DEF LineOfReader
      <3>3. T!Enter
        BY <2>2, <3>1, <3>2 DEF T!Enter
      <3>4. QED BY <3>1, <3>3 DEF LineOfReader, T!TNext
    <2>3. CASE vcon.cononical /\ vcon' = Backspace(vcon) /\ UNCHANGED <<blocked, given>>
      <3>1. CASE vcon' = vcon
        BY <2>3, <3>1 DEF VconShape, LineOfReader, T!tvars
      <3>2. CASE vcon' # vcon
        <4>1. /\ vcon.buffer # <<>>
              /\ vcon' = [vcon EXCEPT !.cursor = CursorBack(@), !.buffer = Front(@)]
          BY <2>3, <3>2 DEF Backspace
        <4> DEFINE cur == CursorBack(vcon.cursor)
                   buf == Front(vcon.buffer)
        <4>a. vcon' = [cononical |-> vcon.cononical, buffer |-> buf,
                       reader |-> vcon.reader, cursor |-> cur]
          BY <4>1, VconFields
        <4>2. /\ vcon'.cononical = vcon.cononical /\ vcon'.reader = vcon.reader
              /\ vcon'.buffer = Front(vcon.buffer)
          BY <4>a
        <4>3. Front(vcon.buffer) \in Seq(Printable)
          BY <2>3, <4>1 DEF LineOfReader, Front
        <4> HIDE DEF cur, buf
        <4>b. buf \in Seq(Printable \cup {"NUL"})
          BY <4>3 DEF buf
        <4>4. VconShape'
          BY <4>a, <4>b DEF VconShape
        <4>5. vcon.reader # Nobody
          BY <2>3, ReaderAssumption DEF LineOfReader
        <4>6. T!Erase
          BY <2>3, <4>1, <4>2, <4>5 DEF T!Erase, T!Front, Front
        <4>7. QED BY <2>3, <4>2, <4>3, <4>4, <4>6 DEF LineOfReader, T!TNext
      <3>3. QED BY <3>1, <3>2
    <2>4. CASE /\ vcon.cononical /\ e.keycode \in Printable
               /\ vcon' = Echo(vcon, e.keycode) /\ UNCHANGED <<blocked, given>>
      <3> DEFINE cur == HandleCursor(CursorOn(vcon.cursor))
      <3>a. vcon' = [cononical |-> vcon.cononical, buffer |-> Append(vcon.buffer, e.keycode),
                     reader |-> vcon.reader, cursor |-> cur]
        BY <2>4, VconFields DEF Echo
      <3> HIDE DEF cur
      <3>1. /\ vcon'.cononical = vcon.cononical /\ vcon'.reader = vcon.reader
            /\ vcon'.buffer = Append(vcon.buffer, e.keycode)
            /\ VconShape'
        BY <2>4, <3>a DEF VconShape
      <3>2. vcon.reader # Nobody
        BY <2>4, ReaderAssumption DEF LineOfReader
      <3>3. T!Type(e.keycode)
        BY <2>4, <3>1, <3>2 DEF T!Type
      <3>4. QED BY <2>4, <3>1, <3>3 DEF LineOfReader, T!TNext
    <2>5. QED BY <1>1, <1>4, <2>1, <2>2, <2>3, <2>4 DEF KeyboardHandle
  <1>5. CASE KeyboardInterrupt
    BY <1>4, <1>5 DEF KeyboardInterrupt
  <1>6. ASSUME NEW key \in Keys, Press(key) \/ Release(key)
        PROVE UNCHANGED <<vcon, blocked, given>>
    BY <1>6 DEF Press, Release
  <1>7. CASE UNCHANGED cvars
    BY <1>1, <1>7 DEF cvars
  <1>8. QED BY <1>1, <1>2, <1>3, <1>5, <1>6, <1>7 DEF CNext, T!TNext

\* The console implements the terminal: a reader is given exactly what was typed since it
\* asked, after the erasures, whatever keys, lines and processes there are.
THEOREM ConsoleIsTerminal == CSpec => ImplementsTerminal
  <1>1. CInit => T!TInit
    BY DEF CInit, T!TInit
  <1>2. QED BY <1>1, LineInit, LineStep, PTL DEF CSpec, ImplementsTerminal, T!TSpec

-----------------------------------------------------------------------------
(* The modifiers *)

\* What the tables say of a key that is no prefix: its keycode is a modifier exactly when
\* its plain meaning is, and then it is that modifier, shift or no shift.
LEMMA ModifierCodes ==
  ASSUME NEW key \in Keys, NEW down \in BOOLEAN, kb.extended = FALSE
  PROVE  LET code == Keycode(Byte(key, down))
         IN  (code \in Modifiers \/ scancode_normal[key] \in Modifiers)
               => code = scancode_normal[key]
  <1>1. key \in AllKeys /\ key # "E0"
    BY KeysAssumption DEF AllKeys
  <1>2. /\ scancode_shift[key] # "NONE" =>
               scancode_shift[key] \notin Modifiers /\ scancode_normal[key] \notin Modifiers
    BY <1>1 DEF AllKeys, scancode_shift, scancode_normal, Lower, Upper, Modifiers
  <1>3. QED BY <1>1, <1>2 DEF Keycode, Byte

\* The prefix byte means nothing.
LEMMA PrefixCode ==
  ASSUME NEW down
  PROVE  Keycode(Byte("E0", down)) = "NONE"
  BY DEF Keycode, Byte, scancode_extended

\* No key is down when the system starts.
LEMMA KeyInit == CInit => KeyInv
  BY DEF CInit, KeyInv, WireOfKey, ModifierExplained, Modifiers

\* Keys go down and up, and bytes arrive, one after the other.
LEMMA KeyStep ==
  ASSUME KeyInv, [CNext]_cvars
  PROVE  KeyInv'
  <1> USE DEF KeyInv
  <1>1. CASE UNCHANGED <<held, wire, kb>>
    <2>1. held' = held /\ wire' = wire /\ kb' = kb
      BY <1>1
    <2>2. WireOfKey'
      BY <2>1 DEF WireOfKey
    <2>3. ModifierExplained'
      BY <2>1 DEF ModifierExplained
    <2> QED BY <2>1, <2>2, <2>3
  <1>2. ASSUME NEW key \in Keys, NEW down \in BOOLEAN, wire = <<>>, kb' = kb,
               wire' = Bytes(key, down),
               held' = IF down THEN held \cup {key} ELSE held \ {key}
        PROVE  KeyInv'
    <2>1. wire' # <<>> /\ wire'[Len(wire')].key = key
      BY <1>2 DEF Bytes, Byte
    <2>2. WireOfKey' /\ held' \subseteq Keys
      BY <1>2 DEF WireOfKey
    <2>3. ModifierExplained'
      BY <1>2, <2>1 DEF ModifierExplained
    <2>4. QED BY <1>2, <2>2, <2>3
  <1>3. CASE KeyboardInterrupt
    <2>1. PICK key \in Keys, down \in BOOLEAN :
            /\ wire = Bytes(key, down) \/ wire = <<Byte(key, down)>>
            /\ down <=> key \in held
      BY <1>3 DEF KeyboardInterrupt, WireOfKey
    <2>2. held' = held /\ wire' = Tail(wire)
          /\ kb' = ScanState(Head(wire), Keycode(Head(wire)))
      BY <1>3 DEF KeyboardInterrupt
    <2>3. CASE wire = <<Byte("E0", FALSE), Byte(key, down)>>
      <3>1. Head(wire) = Byte("E0", FALSE) /\ wire' = <<Byte(key, down)>>
        BY <2>2, <2>3
      <3>2. /\ kb' \in [modifiers : SUBSET Modifiers, caps : BOOLEAN, extended : {FALSE}]
            /\ kb'.modifiers = kb.modifiers
        <4>1. kb' = ScanState(Byte("E0", FALSE), "NONE")
          BY <2>2, <3>1, PrefixCode
        <4>2. "NONE" \notin Modifiers
          BY DEF Modifiers
        <4>3. QED BY <4>1, <4>2 DEF ScanState, Byte
      <3>3. wire[Len(wire)].key = wire'[Len(wire')].key /\ wire' # <<>>
        BY <2>3, <3>1 DEF Byte
      <3>4. WireOfKey'
        BY <2>1, <2>2, <3>1 DEF WireOfKey
      <3>5. ModifierExplained'
        BY <2>2, <3>2, <3>3 DEF ModifierExplained
      <3>6. QED BY <2>2, <3>2, <3>4, <3>5
    <2>4. CASE wire = <<Byte(key, down)>>
      <3> DEFINE code == Keycode(Byte(key, down))
      <3>1. Head(wire) = Byte(key, down) /\ wire' = <<>> /\ wire[Len(wire)].key = key
        BY <2>2, <2>4 DEF Byte
      <3>2. /\ kb' \in [modifiers : SUBSET Modifiers, caps : BOOLEAN, extended : {FALSE}]
            /\ kb'.modifiers = IF code \notin Modifiers THEN kb.modifiers
                               ELSE IF down THEN kb.modifiers \cup {code}
                                    ELSE kb.modifiers \ {code}
        <4>1. kb' = ScanState(Byte(key, down), code)
          BY <2>2, <3>1
        <4> HIDE DEF code
        <4>2. kb \in [modifiers : SUBSET Modifiers, caps : BOOLEAN, extended : {FALSE}]
          OBVIOUS
        <4>3. QED BY <4>1, <4>2 DEF ScanState, Byte
      <3>3. code \in Modifiers \/ scancode_normal[key] \in Modifiers
              => code = scancode_normal[key]
        BY ModifierCodes
      <3> HIDE DEF code
      <3>4. ASSUME NEW m \in kb'.modifiers
            PROVE  \E x \in Keys : scancode_normal[x] = m /\ x \in held
        <4>1. m \in Modifiers
          BY <3>2
        <4>2. CASE m \in kb.modifiers
          <5>1. PICK x \in Keys : scancode_normal[x] = m /\ (x \in held \/ x = key)
            BY <3>1, <4>2 DEF ModifierExplained
          <5>2. CASE x = key /\ ~down
            <6>1. code = m
              BY <3>3, <4>1, <5>1, <5>2
            <6>2. QED BY <3>2, <3>4, <4>1, <5>2, <6>1
          <5>3. QED BY <2>1, <5>1, <5>2
        <4>3. CASE m \notin kb.modifiers
          BY <2>1, <3>2, <3>3, <3>4, <4>3
        <4>4. QED BY <4>2, <4>3
      <3>5. ModifierExplained'
        BY <2>2, <3>4 DEF ModifierExplained
      <3>6. QED BY <2>2, <3>1, <3>2, <3>5 DEF WireOfKey
    <2>5. QED BY <2>1, <2>3, <2>4 DEF Bytes
  <1>4. ASSUME NEW key \in Keys, Press(key) PROVE KeyInv'
    BY <1>2, <1>4 DEF Press
  <1>5. ASSUME NEW key \in Keys, Release(key) PROVE KeyInv'
    BY <1>2, <1>5 DEF Release
  <1>6. ASSUME NEW p \in Reader, NEW text \in Texts, Input(p) \/ Write(p, text)
        PROVE  UNCHANGED <<held, wire, kb>>
    BY <1>6 DEF Input, Write
  <1>7. ASSUME NEW p \in Reader, Input(p)
        PROVE  UNCHANGED <<held, wire, kb>>
    BY <1>7 DEF Input
  <1>8. CASE UNCHANGED cvars
    BY <1>1, <1>8 DEF cvars
  <1>9. QED BY <1>1, <1>3, <1>4, <1>5, <1>6, <1>7, <1>8 DEF CNext

\* Once the bytes of all keys have arrived, shift and ctrl are on only if a shift or a
\* ctrl key is down: no sequence of keys leaves process_scancode with a modifier stuck.
THEOREM ModifiersReleased == CSpec => []NoStuckModifier
  <1>1. KeyInv => NoStuckModifier
    BY DEF KeyInv, ModifierExplained, NoStuckModifier
  <1>2. QED BY <1>1, KeyInit, KeyStep, PTL DEF CSpec
-----------------------------------------------------------------------------
(* The cursor *)

Cursors == [column : Nat, line : Nat]

\* How many characters lie before the cursor, counted in rows of Width.
Place(c) == c.line * Width + c.column

\* A line in progress fits between the corner of the screen and the cursor.
CursorInv == /\ vcon.cursor \in Cursors
             /\ vcon.cononical => Len(vcon.buffer) <= Place(vcon.cursor)

LEMMA PlaceIs ==
  ASSUME NEW c \in Cursors
  PROVE  Place(c) \in Nat /\ c.line \in Nat /\ c.column \in Nat
<1>1. c.line \in Nat /\ c.column \in Nat /\ Width \in Nat
  BY WidthAssumption DEF Cursors
<1> QED BY <1>1 DEF Place

\* A character typed takes the cursor one place on, with or without the wrap.
LEMMA TypedOn ==
  ASSUME NEW c \in Cursors
  PROVE  /\ HandleCursor(CursorOn(c)) \in Cursors
         /\ Place(HandleCursor(CursorOn(c))) = Place(c) + 1
<1> DEFINE x == c.column
           y == c.line
<1>1. x \in Nat /\ y \in Nat /\ Width \in Nat /\ c = [column |-> x, line |-> y]
  BY WidthAssumption DEF Cursors
<1>2. CursorOn(c) = [column |-> x + 1, line |-> y]
  BY <1>1 DEF CursorOn
<1> HIDE DEF x, y
<1>3. CASE x + 1 = Width
  <2>1. HandleCursor(CursorOn(c)) = [column |-> 0, line |-> y + 1]
    BY <1>2, <1>3 DEF HandleCursor
  <2>2. (y + 1) * Width + 0 = y * Width + x + 1
    BY <1>1, <1>3
  <2> QED BY <1>1, <2>1, <2>2 DEF Cursors, Place, x, y
<1>4. CASE x + 1 # Width
  <2>1. HandleCursor(CursorOn(c)) = [column |-> x + 1, line |-> y]
    BY <1>2, <1>4 DEF HandleCursor
  <2>2. y * Width + (x + 1) = y * Width + x + 1
    BY <1>1
  <2> QED BY <1>1, <2>1, <2>2 DEF Cursors, Place, x, y
<1> QED BY <1>3, <1>4

\* Off the corner, one back is one place less.
LEMMA TakenBack ==
  ASSUME NEW c \in Cursors, c # Origin
  PROVE  CursorBack(c) \in Cursors /\ Place(CursorBack(c)) = Place(c) - 1
<1> DEFINE x == c.column
           y == c.line
<1>1. x \in Nat /\ y \in Nat /\ Width \in Nat \ {0} /\ c = [column |-> x, line |-> y]
  BY WidthAssumption DEF Cursors
<1>2. ~(x = 0 /\ y = 0)
  BY <1>1 DEF Origin
<1> HIDE DEF x, y
<1>3. CASE x = 0
  <2>1. CursorBack(c) = [column |-> Width - 1, line |-> y - 1]
    BY <1>3 DEF CursorBack, x, y
  <2>2. y - 1 \in Nat /\ Width - 1 \in Nat
    BY <1>1, <1>2, <1>3
  <2>3. (y - 1) * Width + (Width - 1) = (y * Width + x) - 1
    BY <1>1, <1>3
  <2>4. CursorBack(c) \in Cursors
    BY <2>1, <2>2 DEF Cursors
  <2>5. Place(CursorBack(c)) = (y - 1) * Width + (Width - 1) /\ Place(c) = y * Width + x
    BY <2>1 DEF Place, x, y
  <2>6. Place(CursorBack(c)) = Place(c) - 1
    BY <2>3, <2>5, Zenon
  <2> QED BY <2>4, <2>6
<1>4. CASE x # 0
  <2>1. CursorBack(c) = [column |-> x - 1, line |-> y]
    BY <1>1, <1>4 DEF CursorBack, x, y
  <2>2. x - 1 \in Nat /\ y * Width + (x - 1) = y * Width + x - 1
    BY <1>1, <1>4
  <2> QED BY <1>1, <2>1, <2>2 DEF Cursors, Place, x, y
<1> QED BY <1>3, <1>4

LEMMA PutcStays ==
  ASSUME NEW c \in Cursors, NEW char
  PROVE  Putc(c, char) \in Cursors
<1>1. CASE char = "NL"
  <2>1. c.line + 1 \in Nat /\ Width # 0
    BY WidthAssumption DEF Cursors
  <2>2. Putc(c, char) = [column |-> 0, line |-> c.line + 1]
    BY <1>1, <2>1 DEF Putc, HandleCursor
  <2> QED BY <2>1, <2>2 DEF Cursors
<1>2. CASE char = "BS"
  <2>1. Putc(c, char) = IF c = Origin THEN c ELSE CursorBack(c)
    BY <1>2 DEF Putc
  <2> QED BY <2>1, TakenBack
<1>3. CASE char \notin {"NL", "BS"}
  <2>1. Putc(c, char) = CursorOn(c)
    BY <1>3 DEF Putc
  <2>2. c.column + 1 \in Nat /\ c.line \in Nat /\ CursorOn(c) = [column |-> c.column + 1, line |-> c.line]
    BY DEF CursorOn, Cursors
  <2> QED BY <2>1, <2>2 DEF Cursors
<1> QED BY <1>1, <1>2, <1>3

(***************************************************************************)
(* A text printed is a fold over its characters; Printed is the cursor as  *)
(* a function of the characters that are out.                              *)
(***************************************************************************)
LEMMA LeastOne == ASSUME NEW S \in SUBSET Nat, S # {}
                  PROVE  \E x \in S : \A y \in S : x <= y
<1> DEFINE less == OpToRel(<, Nat)
<1>1. \A x, y \in Nat : y < x => <<y, x>> \in less
  BY DEF OpToRel
<1>2. IsWellFoundedOn(less, Nat)
  BY NatLessThanWellFounded
<1> HIDE DEF less
<1>3. PICK x \in S : \A y \in S : ~(<<y, x>> \in less)
  BY <1>2, WFMin
<1>4. \A y \in S : ~(y < x)
  BY <1>1, <1>3
<1> QED BY <1>4

\* The character printed last.
LEMMA LastOut ==
  ASSUME NEW n \in Nat, NEW S \in SUBSET (1..(n + 1)), S # {}
  PROVE  Max(S) \in S /\ S \ {Max(S)} \in SUBSET (1..n)
<1> DEFINE T1 == {n + 1 - x : x \in S}
<1>1. T1 \in SUBSET Nat /\ T1 # {}
  <2>1. \A x \in S : n + 1 - x \in Nat
    OBVIOUS
  <2> QED BY <2>1
<1>2. PICK y \in T1 : \A z \in T1 : y <= z
  BY <1>1, LeastOne
<1>3. PICK x \in S : y = n + 1 - x
  OBVIOUS
<1>4. ASSUME NEW z \in S PROVE x >= z
  <2>1. n + 1 - x <= n + 1 - z
    BY <1>2, <1>3
  <2>2. x \in Int /\ z \in Int
    OBVIOUS
  <2> QED BY <2>1, <2>2
<1>5. Max(S) \in S /\ \A z \in S : Max(S) >= z
  BY <1>4 DEF Max
<1>6. ASSUME NEW z \in S \ {Max(S)} PROVE z \in 1..n
  <2>1. z \in 1..(n + 1) /\ Max(S) \in 1..(n + 1) /\ z <= Max(S) /\ z # Max(S)
    BY <1>5
  <2> HIDE DEF Max
  <2> QED BY <2>1
<1> QED BY <1>5, <1>6

Moved(text, c, f, S) == IF S = {} THEN c ELSE Putc(f[S \ {Max(S)}], text[Max(S)])
Printed(text, c, n, f) == f = [S \in SUBSET (1..n) |-> Moved(text, c, f, S)]

\* Such a function exists.
LEMMA PrintedIs ==
  ASSUME NEW text, NEW c, NEW n \in Nat
  PROVE  \E f : Printed(text, c, n, f)
<1> DEFINE Some(m) == \E f : Printed(text, c, m, f)
           Bad == {m \in Nat : ~Some(m)}
<1>1. Some(0)
  <2> DEFINE f == [S \in SUBSET (1..0) |-> c]
  <2>1. \A S \in SUBSET (1..0) : Moved(text, c, f, S) = c
    BY DEF Moved
  <2>2. f = [S \in SUBSET (1..0) |-> Moved(text, c, f, S)]
    BY <2>1
  <2> QED BY <2>2 DEF Printed
<1>2. ASSUME NEW m \in Nat, Some(m) PROVE Some(m + 1)
  <2>1. PICK f : f = [S \in SUBSET (1..m) |-> Moved(text, c, f, S)]
    BY <1>2 DEF Printed
  <2> DEFINE h == [S \in SUBSET (1..(m + 1)) |-> Moved(text, c, f, S)]
  <2>2. ASSUME NEW S \in SUBSET (1..(m + 1))
        PROVE  Moved(text, c, h, S) = Moved(text, c, f, S)
    <3>1. CASE S = {}
      BY <3>1 DEF Moved
    <3>2. CASE S # {}
      <4> DEFINE r == S \ {Max(S)}
      <4>1. r \in SUBSET (1..m) /\ r \in SUBSET (1..(m + 1))
        BY <3>2, LastOut
      <4>2. h[r] = f[r]
        <5> HIDE DEF r
        <5>1. f[r] = Moved(text, c, f, r)
          BY <2>1, <4>1, Zenon
        <5> QED BY <4>1, <5>1
      <4> HIDE DEF h
      <4> QED BY <3>2, <4>2 DEF Moved
    <3> QED BY <3>1, <3>2
  <2>3. h = [S \in SUBSET (1..(m + 1)) |-> Moved(text, c, h, S)]
    BY <2>2
  <2> QED BY <2>3 DEF Printed
<1>3. Bad = {}
  <2> SUFFICES ASSUME Bad # {} PROVE FALSE
    OBVIOUS
  <2>1. PICK x \in Bad : \A y \in Bad : x <= y
    BY LeastOne
  <2> HIDE DEF Some
  <2>2. x \in Nat /\ ~Some(x) /\ x # 0
    BY <1>1
  <2>3. x - 1 \in Nat /\ Some(x - 1)
    BY <2>1, <2>2
  <2> QED BY <1>2, <2>2, <2>3
<1> QED BY <1>3

\* All it gives are places on the screen.
LEMMA PrintedStays ==
  ASSUME NEW text, NEW c \in Cursors, NEW n \in Nat, NEW f, Printed(text, c, n, f)
  PROVE  f[1..n] \in Cursors
<1>1. \A S \in SUBSET (1..n) : f[S] = Moved(text, c, f, S)
  BY Zenon DEF Printed
<1> DEFINE Good(m) == m <= n => \A S \in SUBSET (1..m) : f[S] \in Cursors
           Bad == {m \in Nat : ~Good(m)}
<1>2. Good(0)
  <2>1. \A S \in SUBSET (1..0) : S = {} /\ S \in SUBSET (1..n)
    OBVIOUS
  <2> QED BY <1>1, <2>1 DEF Moved
<1>3. ASSUME NEW m \in Nat, Good(m) PROVE Good(m + 1)
  <2> SUFFICES ASSUME m + 1 <= n, NEW S \in SUBSET (1..(m + 1)) PROVE f[S] \in Cursors
    OBVIOUS
  <2>1. S \in SUBSET (1..n)
    <3>1. \A x \in 1..(m + 1) : x \in 1..n
      OBVIOUS
    <3> QED BY <3>1
  <2>2. CASE S = {}
    BY <1>1, <2>1, <2>2 DEF Moved
  <2>3. CASE S # {}
    <3>1. S \ {Max(S)} \in SUBSET (1..m)
      BY <2>3, LastOut
    <3>2. f[S \ {Max(S)}] \in Cursors
      BY <1>3, <3>1
    <3>3. f[S] = Putc(f[S \ {Max(S)}], text[Max(S)])
      BY <1>1, <2>1, <2>3 DEF Moved
    <3> QED BY <3>2, <3>3, PutcStays
  <2> QED BY <2>2, <2>3
<1>4. Bad = {}
  <2> SUFFICES ASSUME Bad # {} PROVE FALSE
    OBVIOUS
  <2>1. PICK x \in Bad : \A y \in Bad : x <= y
    BY LeastOne
  <2> HIDE DEF Good
  <2>2. x \in Nat /\ ~Good(x) /\ x # 0
    BY <1>2
  <2>3. x - 1 \in Nat /\ Good(x - 1)
    BY <2>1, <2>2
  <2> QED BY <1>3, <2>2, <2>3
<1>5. Good(n)
  BY <1>4
<1> QED BY <1>5

\* vcon_write: whatever is printed, the cursor stays on the screen.
LEMMA WriteStays ==
  ASSUME NEW c \in Cursors, NEW text \in Texts
  PROVE  FoldLeft(Putc, c, text) \in Cursors
<1>1. text \in Seq(Glyphs) /\ Len(text) \in Nat /\ DOMAIN text = 1..Len(text)
  BY TextsAssumption
<1> DEFINE n == Len(text)
           P(f) == f = [S \in SUBSET (1..n) |->
                          IF S = {} THEN c ELSE Putc(f[S \ {Max(S)}], text[Max(S)])]
<1>2. FoldLeft(Putc, c, text) = (CHOOSE f : P(f))[1..n]
  BY <1>1, Zenon DEF FoldLeft, MapThenFoldSet
<1>3. \A f : P(f) <=> Printed(text, c, n, f)
  BY Zenon DEF Printed, Moved
<1>4. \E f : P(f)
  <2>1. PICK f : Printed(text, c, n, f)
    BY <1>1, PrintedIs
  <2> HIDE DEF P
  <2> QED BY <1>3, <2>1
<1> HIDE DEF P
<1>5. P(CHOOSE f : P(f))
  BY <1>4
<1> QED BY <1>1, <1>2, <1>3, <1>5, PrintedStays

\* Every step keeps the line and the cursor in step.
LEMMA CursorStep ==
  ASSUME ~Crosstalk, LineInv, CursorInv, [CNext]_cvars
  PROVE  CursorInv'
<1> DEFINE cur == vcon.cursor
<1>0. /\ cur \in Cursors /\ Place(cur) \in Nat /\ vcon.buffer \in Seq(Printable \cup {"NUL"})
      /\ vcon = [cononical |-> vcon.cononical, buffer |-> vcon.buffer,
                 reader |-> vcon.reader, cursor |-> cur]
      /\ Len(vcon.buffer) \in Nat /\ vcon.cononical => Len(vcon.buffer) <= Place(cur)
  BY VconFields, PlaceIs DEF CursorInv, LineInv, VconShape
<1> HIDE DEF cur
<1>1. CASE vcon' = vcon
  BY <1>1 DEF CursorInv
<1>2. ASSUME NEW p \in Reader, Input(p) PROVE CursorInv'
  <2>1. vcon' = [vcon EXCEPT !.cononical = TRUE, !.buffer = <<>>, !.reader = p]
    BY <1>2 DEF Input
  <2>2. vcon'.cursor = cur /\ vcon'.buffer = <<>> /\ Len(<<>>) = 0
    BY <1>0, <2>1
  <2> QED BY <1>0, <2>2 DEF CursorInv
<1>3. ASSUME NEW p \in Reader, NEW text \in Texts, Write(p, text) PROVE CursorInv'
  <2> DEFINE new == FoldLeft(Putc, cur, text)
  <2>1. new \in Cursors
    BY <1>0, WriteStays
  <2>2. ~vcon.cononical /\ vcon' = [vcon EXCEPT !.cursor = new]
    BY <1>3 DEF Write, cur
  <2> HIDE DEF new
  <2>3. vcon'.cursor = new /\ vcon'.cononical = vcon.cononical
    BY <1>0, <2>2
  <2> QED BY <2>1, <2>2, <2>3 DEF CursorInv
<1>4. ASSUME NEW v, NEW char,
             v = [cononical |-> v.cononical, buffer |-> v.buffer,
                  reader |-> v.reader, cursor |-> v.cursor],
             v.cursor \in Cursors, v.buffer \in Seq(Printable \cup {"NUL"}),
             v.cononical => Len(v.buffer) <= Place(v.cursor), char \in Printable
      PROVE  LET w == Echo(v, char) IN
             /\ w = [cononical |-> w.cononical, buffer |-> w.buffer,
                     reader |-> w.reader, cursor |-> w.cursor]
             /\ w.cursor \in Cursors /\ w.buffer \in Seq(Printable \cup {"NUL"})
             /\ w.cononical => Len(w.buffer) <= Place(w.cursor)
  <2> DEFINE new == HandleCursor(CursorOn(v.cursor))
             line == Append(v.buffer, char)
             w == Echo(v, char)
  <2>1. new \in Cursors /\ Place(new) = Place(v.cursor) + 1 /\ Place(v.cursor) \in Nat
    BY <1>4, TypedOn, PlaceIs
  <2>2. line \in Seq(Printable \cup {"NUL"}) /\ Len(line) = Len(v.buffer) + 1 /\ Len(v.buffer) \in Nat
    BY <1>4
  <2>3. w = [v EXCEPT !.cursor = new, !.buffer = line]
    BY DEF Echo
  <2> HIDE DEF new, line, w
  <2>4. w = [cononical |-> v.cononical, buffer |-> line, reader |-> v.reader, cursor |-> new]
    BY <1>4, <2>3
  <2>5. v.cononical => Len(line) <= Place(new)
    BY <1>4, <2>1, <2>2
  <2>6. /\ w.cononical = v.cononical /\ w.buffer = line /\ w.reader = v.reader /\ w.cursor = new
    BY <2>4
  <2> QED BY <2>1, <2>2, <2>4, <2>5, <2>6 DEF w
<1>5. ASSUME NEW e, KeyboardHandle(e) PROVE CursorInv'
  <2>1. CASE InterruptKey(e) /\ vcon' = Echo(Echo(vcon, e.keycode), e.keycode)
    <3>1. e.keycode \in Printable
      BY <2>1 DEF InterruptKey, Printable
    <3> DEFINE v == Echo(vcon, e.keycode)
    <3>2. /\ v = [cononical |-> v.cononical, buffer |-> v.buffer,
                  reader |-> v.reader, cursor |-> v.cursor]
          /\ v.cursor \in Cursors /\ v.buffer \in Seq(Printable \cup {"NUL"})
          /\ v.cononical => Len(v.buffer) <= Place(v.cursor)
      BY <1>0, <1>4, <3>1 DEF cur
    <3> HIDE DEF v
    <3> QED BY <1>4, <2>1, <3>1, <3>2 DEF CursorInv, v
  <2>2. CASE EndLine
    <3> DEFINE new == Putc(cur, "NL")
    <3>1. new \in Cursors
      BY <1>0, PutcStays
    <3>2. vcon' = [vcon EXCEPT !.cononical = FALSE, !.buffer = Append(@, "NUL"), !.cursor = new]
      BY <2>2 DEF EndLine, cur
    <3> HIDE DEF new
    <3>3. vcon'.cursor = new /\ vcon'.cononical = FALSE
      BY <1>0, <3>2
    <3> QED BY <3>1, <3>3 DEF CursorInv
  <2>3. CASE vcon' = Backspace(vcon) /\ vcon' # vcon
    <3> DEFINE new == CursorBack(cur)
               line == Front(vcon.buffer)
    <3>1. cur # Origin /\ vcon.buffer # <<>> /\ vcon' = [vcon EXCEPT !.cursor = new, !.buffer = line]
      BY <2>3 DEF Backspace, cur
    <3>2. new \in Cursors /\ Place(new) = Place(cur) - 1
      BY <1>0, <3>1, TakenBack
    <3>3. Len(line) = Len(vcon.buffer) - 1
      <4>1. ASSUME NEW q \in Seq(Printable \cup {"NUL"}), q # <<>>
            PROVE  Len(Front(q)) = Len(q) - 1
        <5>1. Len(q) \in Nat /\ Len(q) # 0
          BY <4>1
        <5>2. Len(q) - 1 \in 0..Len(q) /\ \A i \in 1..Len(q) - 1 : q[i] \in Printable \cup {"NUL"}
          BY <4>1, <5>1
        <5> DEFINE S == Printable \cup {"NUL"}
                   n == Len(q) - 1
                   f == SubSeq(q, 1, n)
        <5>3. 1 \in Int /\ n \in Int /\ \A i \in 1..n : q[i] \in S
          BY <5>1, <5>2
        <5>4. Front(q) = f
          BY Zenon DEF Front
        <5> HIDE DEF S, n
        <5>5. Len(f) = IF 1 <= n THEN n - 1 + 1 ELSE 0
          BY <5>3, SubSeqProperties
        <5> HIDE DEF f
        <5>6. n \in Nat /\ n = Len(q) - 1
          BY <5>1 DEF n
        <5> QED BY <5>4, <5>5, <5>6
      <4> QED BY <1>0, <3>1, <4>1
    <3> HIDE DEF new, line
    <3>4. vcon'.cursor = new /\ vcon'.cononical = vcon.cononical /\ vcon'.buffer = line
      BY <1>0, <3>1
    <3>5. vcon.cononical => Len(line) <= Place(new)
      BY <1>0, <3>2, <3>3
    <3> QED BY <3>2, <3>4, <3>5 DEF CursorInv
  <2>4. CASE e.keycode \in Printable /\ vcon' = Echo(vcon, e.keycode)
    BY <1>0, <1>4, <2>4 DEF CursorInv, cur
  <2> QED BY <1>1, <1>5, <2>1, <2>2, <2>3, <2>4 DEF KeyboardHandle
<1>6. CASE KeyboardInterrupt
  BY <1>5, <1>6 DEF KeyboardInterrupt
<1>7. ASSUME NEW key \in Keys, Press(key) \/ Release(key) PROVE vcon' = vcon
  BY <1>7 DEF Press, Release
<1>8. CASE UNCHANGED cvars
  BY <1>1, <1>8 DEF cvars
<1> QED BY <1>1, <1>2, <1>3, <1>6, <1>7, <1>8 DEF CNext

\* Backspace takes the last character off the line whenever there is one: the cursor is
\* never at the corner of the screen while the line has a character, however it wrapped
\* and was taken back, for any width, any lines and any texts printed before.  It holds
\* as long as nobody prints while another process reads a line.
THEOREM BackspaceErases == ~Crosstalk => (CSpec => ErasesLast)
<1> SUFFICES ASSUME ~Crosstalk PROVE CSpec => ErasesLast
  OBVIOUS
<1>1. CInit => CursorInv
  <2> SUFFICES ASSUME CInit PROVE CursorInv
    OBVIOUS
  <2> QED BY DEF CInit, CursorInv, Cursors, Origin
<1>2. ASSUME LineInv, CursorInv, [CNext]_cvars PROVE LineInv' /\ CursorInv'
  BY <1>2, LineStep, CursorStep
<1>3. ASSUME LineInv, CursorInv, KeyboardInterrupt, vcon.cononical, vcon.buffer # <<>>,
             Head(wire).pressed, Keycode(Head(wire)) = "BS"
      PROVE  vcon'.buffer = Front(vcon.buffer)
  <2> DEFINE e == ScanEvent(Head(wire))
  <2>1. e.pressed /\ e.keycode = "BS"
    BY <1>3 DEF ScanEvent, Lower
  <2>2. KeyboardHandle(e)
    BY <1>3 DEF KeyboardInterrupt
  <2> HIDE DEF e
  <2>3. vcon' = Backspace(vcon)
    BY <1>3, <2>1, <2>2 DEF KeyboardHandle, InterruptKey, Glyphs, Printable
  <2>4. vcon.cursor # Origin
    <3>1. Len(vcon.buffer) \in Nat /\ Len(vcon.buffer) # 0
      BY <1>3 DEF LineInv, VconShape
    <3>2. Place(Origin) = 0
      BY WidthAssumption DEF Place, Origin
    <3> QED BY <1>3, <3>1, <3>2 DEF CursorInv
  <2>5. vcon' = [vcon EXCEPT !.cursor = CursorBack(@), !.buffer = Front(@)]
    BY <1>3, <2>3, <2>4 DEF Backspace
  <2> QED BY <1>3, <2>5, VconFields DEF LineInv
<1>4. LineInv /\ CursorInv /\ [CNext]_cvars =>
        [(/\ KeyboardInterrupt /\ vcon.cononical /\ vcon.buffer # <<>>
          /\ Head(wire).pressed /\ Keycode(Head(wire)) = "BS")
            => vcon'.buffer = Front(vcon.buffer)]_cvars
  BY <1>3
<1> QED BY <1>1, <1>2, <1>4, LineInit, PTL DEF CSpec, ErasesLast
==============================================================================
