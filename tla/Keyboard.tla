------------------------------ MODULE Keyboard ------------------------------
(***************************************************************************)
(* The keyboard driver, drivers/kbd/kbd.cpp: kbd_irq_handler turns the one *)
(* or two bytes of a scan code into a key and a direction, updates the     *)
(* modifiers it keeps, and publishes the packet to its subscribers.        *)
(***************************************************************************)
EXTENDS Integers, Sequences, FiniteSets

CONSTANTS
  Keys                \* the keys of the board, by their make code: <<b>> or <<224, b>>

Extension == 224      \* 0xE0

\* What the handler's arithmetic relies on, and what boards keep to: a plain break
\* code stays below the extension, extended codes start at 16, and none of them comes
\* out as one of the two further codes the handler takes for ctrl and alt.
ASSUME KeysAssumption ==
  Keys \subseteq {<<b>> : b \in 0 .. 95} \cup {<<Extension, b>> : b \in (16 .. 127) \ {61, 88}}

VARIABLE
  mods                \* shifted, ctrl_down, alt_down, caps_lock, num_lock, scroll_lock

\* Byte and word arithmetic of the handler.
Byte(n) == n % 256
Word(n) == n % 65536

Make(key) == key
Break(key) == [key EXCEPT ![Len(key)] = @ + 128]

\* The word the handler computes from an extended code, before the direction.
Lowered(b) == Word(b - 16)

\* release_or_press and key_code of a scan code.
Pressed(scan) == IF Len(scan) = 2 THEN Lowered(scan[2]) < 128 ELSE scan[1] < 128

\* Slip: the direction stays in an extended code.
KeyCodeWithDirection(scan) ==
  IF Len(scan) = 2 THEN Byte(Word(Lowered(scan[2])) + 96)
  ELSE IF Pressed(scan) THEN scan[1] ELSE scan[1] - 128

KeyCode(scan) ==
  IF Len(scan) = 2
  THEN Byte(Word(IF Pressed(scan) THEN Lowered(scan[2]) ELSE Lowered(scan[2]) - 128) + 96)
  ELSE IF Pressed(scan) THEN scan[1] ELSE scan[1] - 128

Flip(flag, now) == IF now THEN ~flag ELSE flag

\* Slip: a modifier is set when its key is seen, whichever way it went.
ModifiersIgnoringRelease(m, code, press) ==
  [m EXCEPT !.ctrl_down = @ \/ code = 29, !.alt_down = @ \/ code = 56, !.shifted = @ \/ code = 42]

\* The modifiers after a key; the flags follow the last key of their kind.
Modifiers(m, code, press) ==
  [ctrl_down |-> IF code \in {29, 141} THEN press ELSE m.ctrl_down,
   alt_down |-> IF code \in {56, 168} THEN press ELSE m.alt_down,
   shifted |-> IF code \in {42, 54} THEN press ELSE m.shifted,
   caps_lock |-> Flip(m.caps_lock, code = 58 /\ press),
   num_lock |-> Flip(m.num_lock, code = 69 /\ press),
   scroll_lock |-> Flip(m.scroll_lock, code = 70 /\ press)]

NoModifiers ==
  [shifted |-> FALSE, ctrl_down |-> FALSE, alt_down |-> FALSE,
   caps_lock |-> FALSE, num_lock |-> FALSE, scroll_lock |-> FALSE]

\* What is published; the other flags of the packet are never read.
PacketOf(scan) ==
  [key_code |-> KeyCode(scan), release_or_press |-> Pressed(scan),
   shifted |-> mods'.shifted, caps_lock |-> mods'.caps_lock]

KbdInit == mods = NoModifiers

\* kbd_irq_handler, for one scan code.
KbdIrqHandler(scan) == mods' = Modifiers(mods, KeyCode(scan), Pressed(scan))

ModifierFlags ==
  [shifted : BOOLEAN, ctrl_down : BOOLEAN, alt_down : BOOLEAN,
   caps_lock : BOOLEAN, num_lock : BOOLEAN, scroll_lock : BOOLEAN]

KbdTypeOK == mods \in ModifierFlags
=============================================================================
