------------------------------- MODULE Console -------------------------------
(***************************************************************************)
(* The keyboard driver, drivers/keyboard.c, and the line discipline of the *)
(* virtual console, drivers/vcon.c.                                        *)
(*                                                                         *)
(* The controller sends one byte per interrupt.  keyboard_isr enters the   *)
(* event in a queue of 64 and vcon_handle_user_input, called in the same   *)
(* interrupt, empties it: between interrupts it is empty, and here the     *)
(* event goes straight from one to the other.  The states of num lock and  *)
(* scroll lock, which nothing reads, and the pixels of the screen are left *)
(* out.                                                                    *)
(***************************************************************************)
EXTENDS Integers, FiniteSets, Sequences, SequencesExt

CONSTANTS
  Reader,      \* the processes that use the console
  Nobody,      \* no process
  Keys,        \* the keys that are pressed
  Texts,       \* what processes print: sequences of Glyphs
  Width,       \* FBCON_GRID_WIDTH
  Crosstalk,   \* whether a process prints while another has asked for a line
  MaxLine,     \* bound: characters in the line when a key goes down
  MaxRow,      \* bound: row of the cursor when a process calls
  MaxColumn,   \* bound: its column when a process prints, for printing does not wrap
  MaxHeld      \* bound: keys held at the same time

ASSUME ReaderAssumption == Nobody \notin Reader
ASSUME WidthAssumption == Width \in Nat \ {0}
ASSUME CrosstalkAssumption == Crosstalk \in BOOLEAN
ASSUME BoundsAssumption == MaxLine \in Nat /\ MaxRow \in Nat /\ MaxColumn \in Nat /\ MaxHeld \in Nat

\* One key of every kind that the drivers treat in its own way: letters, of which c is
\* also an interrupt key, keys with and without the prefix 0xE0, and num lock, whose
\* code KEY_MOD_NUMLOCK is also that of a space.
AllKeys == {"a", "c", "shift", "rshift", "ctrl", "rctrl", "caps", "num", "enter", "end",
            "back", "f1"}
ASSUME KeysAssumption == Keys \subseteq AllKeys

Prefixed == {"rctrl", "end"}
Modifiers == {"CTRL", "SHIFT"}
Lower == {"a", "c"}
Upper == [a |-> "A", c |-> "C"]
Printable == {"a", "c", "A", "C", "SP"}
Glyphs == Printable \cup {"NL", "BS"}
ASSUME TextsAssumption == Texts \subseteq Seq(Glyphs)

\* "NL", "BS", "NUL" and "SP" are the characters \\n, \\b, \\0 and the space.
\* scancode_normal, scancode_shift and scancode_extended; code 0 is "NONE".
scancode_normal ==
  [key \in AllKeys \cup {"E0"} |->
     CASE key \in Lower               -> key
       [] key \in {"shift", "rshift"} -> "SHIFT"
       [] key \in {"ctrl", "rctrl"}   -> "CTRL"
       [] key = "caps"                -> "CAPS"
       [] key = "num"                 -> "SP"
       [] key \in {"enter", "end"}    -> "NL"
       [] key = "back"                -> "BS"
       [] key = "f1"                  -> "F1"
       [] OTHER                       -> "NONE"]
scancode_shift ==
  [key \in AllKeys \cup {"E0"} |-> IF key \in Lower THEN Upper[key] ELSE "NONE"]
scancode_extended ==
  [key \in AllKeys \cup {"E0"} |->
     CASE key \in {"ctrl", "rctrl"} -> "CTRL" [] key = "end" -> "END" [] OTHER -> "NONE"]

VARIABLES
  held,   \* the keys that are down
  wire,   \* bytes the controller has not delivered yet
  kb,     \* KEYBOARD_STATE: modifiers, caps_lock, extended
  vcon,   \* VCONS[0]: cononical, buffer (as far as input_buffer_pointer), reader, cursor
  blocked, \* the processes that wait in vcon_input
  given   \* the last line that was copied out: whose buffer it went to, and the line

cvars == <<held, wire, kb, vcon, blocked, given>>

-----------------------------------------------------------------------------
(* keyboard.c *)

\* process_scancode: the keyboard state after a byte.  The flag that 0xE0 sets is
\* cleared by the same call, with the code of 0xE0 itself.
ScanState(byte, keycode) ==
  [modifiers |-> IF keycode \notin Modifiers THEN kb.modifiers
                 ELSE IF byte.pressed THEN kb.modifiers \cup {keycode}
                      ELSE kb.modifiers \ {keycode},
   caps |-> IF keycode = "CAPS" /\ byte.pressed THEN ~kb.caps ELSE kb.caps,
   extended |-> FALSE]

\* Faulty variant of Keycode: with shift on, the shifted table is used for every key.
KeycodeShifted(byte) ==
  IF kb.extended \/ byte.key = "E0" THEN scancode_extended[byte.key]
  ELSE IF "SHIFT" \in kb.modifiers THEN scancode_shift[byte.key]
       ELSE scancode_normal[byte.key]

\* The translation in process_scancode: a key without a shifted meaning keeps its own.
Keycode(byte) ==
  IF kb.extended \/ byte.key = "E0" THEN scancode_extended[byte.key]
  ELSE IF "SHIFT" \in kb.modifiers /\ scancode_shift[byte.key] # "NONE"
       THEN scancode_shift[byte.key]
       ELSE scancode_normal[byte.key]

\* The event process_scancode returns, with the modifiers from before the byte and caps
\* lock applied to letters.
ScanEvent(byte) ==
  LET code == Keycode(byte)
      caps == ScanState(byte, code).caps
  IN  [modifiers |-> kb.modifiers,
       keycode |-> IF caps /\ byte.pressed /\ code \in Lower THEN Upper[code] ELSE code,
       pressed |-> byte.pressed]

-----------------------------------------------------------------------------
(* vcon.c *)

\* Faulty variant of HandleCursor: the cursor goes back to the start of its own row.
HandleCursorSameRow(c) == IF c.column = Width THEN [c EXCEPT !.column = 0] ELSE c

\* vcon_handle_cursor; the scroll at the bottom row only moves pixels
HandleCursor(c) == IF c.column = Width THEN [column |-> 0, line |-> c.line + 1] ELSE c

CursorOn(c) == [c EXCEPT !.column = @ + 1]

\* One back, to the end of the row above at the start of a row.
CursorBack(c) ==
  IF c.column = 0 THEN [column |-> Width - 1, line |-> c.line - 1]
  ELSE [c EXCEPT !.column = @ - 1]

Origin == [column |-> 0, line |-> 0]

\* vcon_putc: the cursor after a character that a process prints, which does not wrap
Putc(c, char) ==
  CASE char = "NL" -> HandleCursor([column |-> 0, line |-> c.line + 1])
    [] char = "BS" -> IF c = Origin THEN c ELSE CursorBack(c)
    [] OTHER       -> CursorOn(c)

\* vcon_keyboard_handle for a character that is echoed and entered in the line
Echo(v, char) ==
  [v EXCEPT !.cursor = HandleCursor(CursorOn(@)), !.buffer = Append(@, char)]

\* vcon_keyboard_handle for backspace
Backspace(v) ==
  IF v.cursor = Origin \/ v.buffer = <<>> THEN v
  ELSE [v EXCEPT !.cursor = CursorBack(@), !.buffer = Front(@)]

\* vcon_keyboard_handle for the key that ends a line: the line goes to the reader
EndLine == /\ vcon' = [vcon EXCEPT !.cononical = FALSE, !.buffer = Append(@, "NUL"),
                                  !.cursor = Putc(@, "NL")]
           /\ given' = [to |-> vcon.reader, line |-> vcon.buffer]
           /\ blocked' = blocked \ {vcon.reader}

\* With ctrl held, c is an interrupt key (as / and z are): it is echoed as two
\* characters.  What process_group_signal then does to the process on the CPU is
\* KeyInterrupt of module Process, and the handler ends there.
InterruptKey(e) == "CTRL" \in e.modifiers /\ e.keycode = "c"

\* vcon_keyboard_handle and, for an event that is no press, vcon_handle_user_input
KeyboardHandle(e) ==
  \/ /\ e.pressed /\ InterruptKey(e)
     /\ vcon' = Echo(Echo(vcon, e.keycode), e.keycode)
     /\ UNCHANGED <<blocked, given>>
  \/ /\ e.pressed /\ ~InterruptKey(e) /\ vcon.cononical /\ e.keycode = "NL"
     /\ EndLine
  \/ /\ e.pressed /\ ~InterruptKey(e) /\ vcon.cononical /\ e.keycode = "BS"
     /\ vcon' = Backspace(vcon)
     /\ UNCHANGED <<blocked, given>>
  \/ /\ e.pressed /\ ~InterruptKey(e) /\ vcon.cononical /\ e.keycode \in Printable
     /\ vcon' = Echo(vcon, e.keycode)
     /\ UNCHANGED <<blocked, given>>
  \/ /\ ~(e.pressed /\ (InterruptKey(e) \/ (vcon.cononical /\ e.keycode \in Glyphs)))
     /\ UNCHANGED <<vcon, blocked, given>>

-----------------------------------------------------------------------------
(* The actions *)

Byte(key, pressed) == [key |-> key, pressed |-> pressed]

\* The bytes a key sends; 0xE0 has the bit of a release.
Bytes(key, pressed) ==
  IF key \in Prefixed THEN <<Byte("E0", FALSE), Byte(key, pressed)>> ELSE <<Byte(key, pressed)>>

\* The user; the controller sends one key after the other.
Press(key) == /\ wire = <<>> /\ key \notin held
              /\ Cardinality(held) < MaxHeld
              /\ key \in Lower \cup {"num"} => Len(vcon.buffer) < MaxLine
              /\ held' = held \cup {key}
              /\ wire' = Bytes(key, TRUE)
              /\ UNCHANGED <<kb, vcon, blocked, given>>

Release(key) == /\ wire = <<>> /\ key \in held
                /\ held' = held \ {key}
                /\ wire' = Bytes(key, FALSE)
                /\ UNCHANGED <<kb, vcon, blocked, given>>

\* The keyboard interrupt: keyboard_isr, then vcon_handle_user_input
KeyboardInterrupt ==
  /\ wire # <<>>
  /\ wire' = Tail(wire)
  /\ kb' = ScanState(Head(wire), Keycode(Head(wire)))
  /\ KeyboardHandle(ScanEvent(Head(wire)))
  /\ UNCHANGED held

\* Faulty variant of Input: input_buffer_pointer is not reset.
InputKeeps(p) == /\ p \notin blocked /\ vcon.cursor.line < MaxRow
                 /\ vcon' = [vcon EXCEPT !.cononical = TRUE, !.reader = p]
                 /\ blocked' = blocked \cup {p}
                 /\ UNCHANGED <<held, wire, kb, given>>

\* sys_input of a process in the foreground: vcon_input
Input(p) == /\ p \notin blocked /\ vcon.cursor.line < MaxRow
            /\ vcon' = [vcon EXCEPT !.cononical = TRUE, !.buffer = <<>>, !.reader = p]
            /\ blocked' = blocked \cup {p}
            /\ UNCHANGED <<held, wire, kb, given>>

\* sys_write of a process in the foreground: vcon_write
Write(p, text) == /\ p \notin blocked /\ vcon.cursor.line < MaxRow
                  /\ vcon.cursor.column < MaxColumn /\ (vcon.cononical => Crosstalk)
                  /\ vcon' = [vcon EXCEPT !.cursor = FoldLeft(Putc, @, text)]
                  /\ UNCHANGED <<held, wire, kb, blocked, given>>

CInit == /\ held = {} /\ wire = <<>>
         /\ kb = [modifiers |-> {}, caps |-> FALSE, extended |-> FALSE]
         /\ vcon = [cononical |-> FALSE, buffer |-> <<>>, reader |-> Nobody,
                    cursor |-> Origin]
         /\ blocked = {} /\ given = [to |-> Nobody, line |-> <<>>]

CNext == \/ \E key \in Keys : Press(key) \/ Release(key)
         \/ KeyboardInterrupt
         \/ \E p \in Reader : Input(p) \/ \E text \in Texts : Write(p, text)

CSpec == CInit /\ [][CNext]_cvars

-----------------------------------------------------------------------------
(* Properties *)

\* Backspace takes the last character off the line, as long as there is one: the test
\* for the top left corner in the code never stands in the way, however the line has
\* wrapped and been taken back.
ErasesLast ==
  [][(/\ KeyboardInterrupt /\ vcon.cononical /\ vcon.buffer # <<>>
      /\ Head(wire).pressed /\ Keycode(Head(wire)) = "BS")
        => vcon'.buffer = Front(vcon.buffer)]_cvars

\* No modifier is stuck: when the bytes of all keys have arrived, a modifier is on only
\* if a key that means it is down, prefix or not and whatever was pressed in between.
NoStuckModifier ==
  wire = <<>> => kb.modifiers \subseteq {scancode_normal[key] : key \in held}

\* The terminal a reader sees: the line exists while it is being typed.
T == INSTANCE Terminal WITH
       Char <- Printable,
       asker <- IF vcon.cononical THEN vcon.reader ELSE Nobody,
       typed <- IF vcon.cononical THEN vcon.buffer ELSE <<>>

\* The console is a terminal: the reader gets what was typed since it asked, edited.
\* Keys go through two drivers, tables, modifiers and the cursor's boundary tests, and
\* none is lost, doubled or erased wrongly.
ImplementsTerminal == T!TSpec
==============================================================================
