----------------------------- MODULE Keypresses -----------------------------
(***************************************************************************)
(* The keyboard driver with a keyboard attached and a subscriber that      *)
(* believes what it is told: keys go down, repeat and come up in any order.*)
(***************************************************************************)
EXTENDS Keyboard

VARIABLES
  held,               \* the keys that are down
  told                \* the key codes a subscriber was told are down

keyVars == <<mods, held, told>>

KeysInit == KbdInit /\ held = {} /\ told = {}

\* keyboard_event_publisher, to a subscriber that keeps the last word on each key.
Publish(p) ==
  told' = IF p.release_or_press THEN told \cup {p.key_code} ELSE told \ {p.key_code}

Press(key) ==
  /\ KbdIrqHandler(Make(key)) /\ Publish(PacketOf(Make(key)))
  /\ held' = held \cup {key}

Release(key) ==
  /\ key \in held
  /\ KbdIrqHandler(Break(key)) /\ Publish(PacketOf(Break(key)))
  /\ held' = held \ {key}

KeysNext == \E key \in Keys : Press(key) \/ Release(key)

KeysSpec == KeysInit /\ [][KeysNext]_keyVars

-----------------------------------------------------------------------------
\* Type invariant; extended codes become 96 to 207.
TypeOK == KbdTypeOK /\ held \subseteq Keys /\ told \subseteq 0 .. 207

\* No modifier sticks: while the driver reports shift, ctrl or alt, a key of that
\* kind is down, whatever was pressed, repeated and released around it.
ModifiersAreHeld ==
  /\ mods.shifted => held \cap {<<42>>, <<54>>} # {}
  /\ mods.ctrl_down => <<29>> \in held
  /\ mods.alt_down => <<56>> \in held

\* kbd_irq_handler's arithmetic on plain and extended codes keeps keys apart: a
\* subscriber that follows makes and breaks knows exactly the keys that are down.
SubscriberKnowsKeys == told = {KeyCode(Make(key)) : key \in held}
                       /\ Cardinality(told) = Cardinality(held)
=============================================================================
