--------------------------- MODULE KeyboardProofs ---------------------------
(***************************************************************************)
(* Proofs about the keyboard: Keypresses, for every board that keeps to    *)
(* KeysAssumption; the table of subscribers, for every size of it, every   *)
(* number of entries that unsubscribe moves and every set of functions;    *)
(* then the shell, which is such a subscriber, for every table of          *)
(* characters and size of its buffer.                                      *)
(***************************************************************************)
EXTENDS Subscribers, Shell, SequenceTheorems, FunctionTheorems, FiniteSetTheorems, WellFoundedInduction, TLAPS

\* The key code of a key.
CodeOf(key) == KeyCode(Make(key))

\* A plain code is its key code, and the break code differs from it by 128.
LEMMA PlainCode ==
  ASSUME NEW b \in 0 .. 95
  PROVE  /\ CodeOf(<<b>>) = b /\ KeyCode(Break(<<b>>)) = b
         /\ Pressed(Make(<<b>>)) = TRUE /\ Pressed(Break(<<b>>)) = FALSE
<1>1. Make(<<b>>) = <<b>> /\ Break(<<b>>) = <<b + 128>>
  BY DEF Make, Break
<1>2. Len(<<b>>) = 1 /\ Len(<<b + 128>>) = 1 /\ <<b>>[1] = b /\ <<b + 128>>[1] = b + 128
  OBVIOUS
<1>3. Pressed(<<b>>) = TRUE /\ Pressed(<<b + 128>>) = FALSE
  BY <1>2 DEF Pressed
<1>4. KeyCode(<<b>>) = b /\ KeyCode(<<b + 128>>) = b
  BY <1>2, <1>3 DEF KeyCode
<1> QED
  BY <1>1, <1>3, <1>4 DEF CodeOf

\* An extended code is moved up by 80, over the 16-bit word and the cut to a byte.
LEMMA ExtendedCode ==
  ASSUME NEW b \in 16 .. 127
  PROVE  LET key == <<Extension, b>>
         IN  /\ CodeOf(key) = b + 80 /\ KeyCode(Break(key)) = b + 80
             /\ Pressed(Make(key)) = TRUE /\ Pressed(Break(key)) = FALSE
<1> DEFINE key == <<Extension, b>>
           released == <<Extension, b + 128>>
<1>1. Make(key) = key /\ Break(key) = released
  BY DEF Make, Break
<1>2. Len(key) = 2 /\ Len(released) = 2 /\ key[2] = b /\ released[2] = b + 128
  OBVIOUS
<1>3. Lowered(b) = b - 16 /\ Lowered(b + 128) = b + 112
  BY DEF Lowered, Word
<1>4. Pressed(key) = TRUE /\ Pressed(released) = FALSE
  BY <1>2, <1>3 DEF Pressed
<1>5. Byte(Word(b - 16) + 96) = b + 80
  BY DEF Byte, Word
<1>6. KeyCode(key) = b + 80 /\ KeyCode(released) = b + 80
  BY <1>2, <1>3, <1>4, <1>5 DEF KeyCode
<1> QED
  BY <1>1, <1>4, <1>6 DEF CodeOf

\* A key has a plain or an extended code.
LEMMA TwoKinds ==
  ASSUME NEW key \in Keys
  PROVE  \/ \E b \in 0 .. 95 : key = <<b>>
         \/ \E b \in 16 .. 127 : key = <<Extension, b>> /\ b \notin {61, 88}
  BY KeysAssumption

\* Whatever the key, make and break give one key code, and opposite directions.
LEMMA OneCodePerKey ==
  ASSUME NEW key \in Keys
  PROVE  /\ CodeOf(key) \in 0 .. 207 /\ KeyCode(Break(key)) = CodeOf(key)
         /\ Pressed(Make(key)) = TRUE /\ Pressed(Break(key)) = FALSE
<1>1. ASSUME NEW b \in 0 .. 95, key = <<b>>
      PROVE  /\ CodeOf(key) \in 0 .. 207 /\ KeyCode(Break(key)) = CodeOf(key)
             /\ Pressed(Make(key)) = TRUE /\ Pressed(Break(key)) = FALSE
  <2>1. b \in 0 .. 207
    OBVIOUS
  <2> QED
    BY <1>1, <2>1, PlainCode, Zenon
<1>2. ASSUME NEW b \in 16 .. 127, key = <<Extension, b>>
      PROVE  /\ CodeOf(key) \in 0 .. 207 /\ KeyCode(Break(key)) = CodeOf(key)
             /\ Pressed(Make(key)) = TRUE /\ Pressed(Break(key)) = FALSE
  <2>1. b + 80 \in 0 .. 207
    OBVIOUS
  <2> QED
    BY <1>2, <2>1, ExtendedCode, Zenon
<1> QED
  BY <1>1, <1>2, TwoKinds, Zenon

\* No two keys share a key code.
LEMMA KeysApart ==
  ASSUME NEW k1 \in Keys, NEW k2 \in Keys, CodeOf(k1) = CodeOf(k2)
  PROVE  k1 = k2
<1> DEFINE Plain(key) == \E b \in 0 .. 95 : key = <<b>> /\ CodeOf(key) = b
           Extended(key) == \E b \in 16 .. 127 : key = <<Extension, b>> /\ CodeOf(key) = b + 80
<1>1. ASSUME NEW key \in Keys PROVE Plain(key) \/ Extended(key)
  <2>1. ASSUME NEW b \in 0 .. 95, key = <<b>> PROVE Plain(key)
    BY <2>1, PlainCode, Zenon
  <2>2. ASSUME NEW b \in 16 .. 127, key = <<Extension, b>> PROVE Extended(key)
    BY <2>2, ExtendedCode, Zenon
  <2> HIDE DEF Plain, Extended
  <2> QED
    BY <2>1, <2>2, TwoKinds, Zenon
<1>2. Plain(k1) \/ Extended(k1)
  BY <1>1
<1>3. Plain(k2) \/ Extended(k2)
  BY <1>1
<1> QED
  BY <1>2, <1>3

\* The modifiers, by their codes and by their keys.
ShiftCode(code) == code \in {42, 54}
CtrlCode(code) == code \in {29, 141}
AltCode(code) == code \in {56, 168}
ShiftKey(key) == key \in {<<42>>, <<54>>}
CtrlKey(key) == key = <<29>>
AltKey(key) == key = <<56>>

\* The codes the handler takes for modifiers belong to the keys it means.
LEMMA ModifierCodes ==
  ASSUME NEW key \in Keys
  PROVE  /\ ShiftCode(CodeOf(key)) <=> ShiftKey(key)
         /\ CtrlCode(CodeOf(key)) <=> CtrlKey(key)
         /\ AltCode(CodeOf(key)) <=> AltKey(key)
<1>1. CASE \E b \in 0 .. 95 : key = <<b>>
  <2> PICK b \in 0 .. 95 : key = <<b>>
    BY <1>1
  <2>1. CodeOf(key) = b
    BY PlainCode, Zenon
  <2> QED
    BY <2>1 DEF ShiftCode, CtrlCode, AltCode, ShiftKey, CtrlKey, AltKey
<1>2. CASE \E b \in 16 .. 127 : key = <<Extension, b>> /\ b \notin {61, 88}
  <2> PICK b \in 16 .. 127 : key = <<Extension, b>> /\ b \notin {61, 88}
    BY <1>2
  <2>1. CodeOf(key) = b + 80
    BY ExtendedCode, Zenon
  <2>2. key \notin {<<42>>, <<54>>, <<29>>, <<56>>}
    OBVIOUS
  <2> QED
    BY <2>1, <2>2 DEF ShiftCode, CtrlCode, AltCode, ShiftKey, CtrlKey, AltKey
<1> QED
  BY <1>1, <1>2, TwoKinds

\* The flags stay flags.
LEMMA ModifiersType ==
  ASSUME NEW m \in ModifierFlags, NEW code, NEW press \in BOOLEAN
  PROVE  Modifiers(m, code, press) \in ModifierFlags
<1>1. ASSUME NEW flag \in BOOLEAN, NEW now \in BOOLEAN PROVE Flip(flag, now) \in BOOLEAN
  BY DEF Flip
<1>2. ASSUME NEW flag \in BOOLEAN, NEW codes PROVE (IF code \in codes THEN press ELSE flag) \in BOOLEAN
  BY Zenon
<1>3. /\ m.shifted \in BOOLEAN /\ m.ctrl_down \in BOOLEAN /\ m.alt_down \in BOOLEAN
      /\ m.caps_lock \in BOOLEAN /\ m.num_lock \in BOOLEAN /\ m.scroll_lock \in BOOLEAN
  BY DEF ModifierFlags
<1> DEFINE After == Modifiers(m, code, press)
<1>4. /\ (IF code \in {42, 54} THEN press ELSE m.shifted) \in BOOLEAN
      /\ (IF code \in {29, 141} THEN press ELSE m.ctrl_down) \in BOOLEAN
      /\ (IF code \in {56, 168} THEN press ELSE m.alt_down) \in BOOLEAN
  BY <1>2, <1>3, Zenon
<1>5. (code = 58 /\ press) \in BOOLEAN /\ (code = 69 /\ press) \in BOOLEAN /\ (code = 70 /\ press) \in BOOLEAN
  BY Zenon
<1>6. /\ Flip(m.caps_lock, code = 58 /\ press) \in BOOLEAN
      /\ Flip(m.num_lock, code = 69 /\ press) \in BOOLEAN
      /\ Flip(m.scroll_lock, code = 70 /\ press) \in BOOLEAN
  BY <1>1, <1>3, <1>5, Zenon
<1> QED
  BY <1>4, <1>6, Zenon DEF Modifiers, ModifierFlags

-----------------------------------------------------------------------------
\* The subscriber knows the codes of the keys that are down.
Known == told = {CodeOf(key) : key \in held}

KeysInv == TypeOK /\ ModifiersAreHeld /\ Known

\* The handler publishes what Modifiers computed, under the one code of the key.
LEMMA PressInv == ASSUME NEW key \in Keys, KeysInv, Press(key) PROVE KeysInv'
<1>1. /\ mods' = Modifiers(mods, CodeOf(key), TRUE)
      /\ told' = told \cup {CodeOf(key)} /\ held' = held \cup {key}
  BY OneCodePerKey DEF Press, KbdIrqHandler, Publish, PacketOf, CodeOf
<1>2. TypeOK'
  BY <1>1, OneCodePerKey, ModifiersType DEF KeysInv, TypeOK, KbdTypeOK, ModifierFlags
<1>3. /\ mods'.shifted => ShiftCode(CodeOf(key)) \/ mods.shifted
      /\ mods'.ctrl_down => CtrlCode(CodeOf(key)) \/ mods.ctrl_down
      /\ mods'.alt_down => AltCode(CodeOf(key)) \/ mods.alt_down
  <2>1. mods'.shifted = IF ShiftCode(CodeOf(key)) THEN TRUE ELSE mods.shifted
    BY <1>1, Zenon DEF Modifiers, ShiftCode
  <2>2. mods'.ctrl_down = IF CtrlCode(CodeOf(key)) THEN TRUE ELSE mods.ctrl_down
    BY <1>1, Zenon DEF Modifiers, CtrlCode
  <2>3. mods'.alt_down = IF AltCode(CodeOf(key)) THEN TRUE ELSE mods.alt_down
    BY <1>1, Zenon DEF Modifiers, AltCode
  <2> QED
    BY <2>1, <2>2, <2>3, Zenon
<1>4. ModifiersAreHeld'
  <2>1. mods'.shifted => ShiftKey(key) \/ mods.shifted
    BY <1>3, ModifierCodes, Zenon
  <2>2. mods'.ctrl_down => CtrlKey(key) \/ mods.ctrl_down
    BY <1>3, ModifierCodes, Zenon
  <2>3. mods'.alt_down => AltKey(key) \/ mods.alt_down
    BY <1>3, ModifierCodes, Zenon
  <2> QED
    BY <1>1, <2>1, <2>2, <2>3, Zenon DEF KeysInv, ModifiersAreHeld, ShiftKey, CtrlKey, AltKey
<1>5. Known'
  BY <1>1 DEF KeysInv, Known
<1> QED
  BY <1>2, <1>4, <1>5 DEF KeysInv

\* No other key that is down loses its code: no two keys share one.
LEMMA ReleaseInv == ASSUME NEW key \in Keys, KeysInv, Release(key) PROVE KeysInv'
<1>1. /\ mods' = Modifiers(mods, CodeOf(key), FALSE)
      /\ told' = told \ {CodeOf(key)} /\ held' = held \ {key} /\ key \in held
  BY OneCodePerKey DEF Release, KbdIrqHandler, Publish, PacketOf
<1>2. TypeOK'
  BY <1>1, ModifiersType DEF KeysInv, TypeOK, KbdTypeOK, ModifierFlags
<1>3. /\ mods'.shifted => ~ShiftCode(CodeOf(key)) /\ mods.shifted
      /\ mods'.ctrl_down => ~CtrlCode(CodeOf(key)) /\ mods.ctrl_down
      /\ mods'.alt_down => ~AltCode(CodeOf(key)) /\ mods.alt_down
  <2>1. mods'.shifted = IF ShiftCode(CodeOf(key)) THEN FALSE ELSE mods.shifted
    BY <1>1, Zenon DEF Modifiers, ShiftCode
  <2>2. mods'.ctrl_down = IF CtrlCode(CodeOf(key)) THEN FALSE ELSE mods.ctrl_down
    BY <1>1, Zenon DEF Modifiers, CtrlCode
  <2>3. mods'.alt_down = IF AltCode(CodeOf(key)) THEN FALSE ELSE mods.alt_down
    BY <1>1, Zenon DEF Modifiers, AltCode
  <2> QED
    BY <2>1, <2>2, <2>3
<1>4. ModifiersAreHeld'
  <2>1. mods'.shifted => ~ShiftKey(key) /\ mods.shifted
    BY <1>3, ModifierCodes, Zenon
  <2>2. mods'.ctrl_down => ~CtrlKey(key) /\ mods.ctrl_down
    BY <1>3, ModifierCodes, Zenon
  <2>3. mods'.alt_down => ~AltKey(key) /\ mods.alt_down
    BY <1>3, ModifierCodes, Zenon
  <2> QED
    BY <1>1, <2>1, <2>2, <2>3, Zenon DEF KeysInv, ModifiersAreHeld, ShiftKey, CtrlKey, AltKey
<1>5. Known'
  BY <1>1, KeysApart DEF KeysInv, Known, TypeOK
<1> QED
  BY <1>2, <1>4, <1>5 DEF KeysInv

\* The invariant holds in every state of the keyboard and its driver.
THEOREM KeysInvariance == KeysSpec => []KeysInv
<1>1. KeysInit => KeysInv
  BY DEF KeysInit, KbdInit, NoModifiers, ModifierFlags, KeysInv, TypeOK, KbdTypeOK, ModifiersAreHeld, Known
<1>2. KeysInv /\ [KeysNext]_keyVars => KeysInv'
  <2> SUFFICES ASSUME KeysInv, [KeysNext]_keyVars PROVE KeysInv'
    OBVIOUS
  <2>1. CASE \E key \in Keys : Press(key)
    BY <2>1, PressInv
  <2>2. CASE \E key \in Keys : Release(key)
    BY <2>2, ReleaseInv
  <2>3. CASE UNCHANGED keyVars
    BY <2>3 DEF keyVars, KeysInv, TypeOK, KbdTypeOK, ModifiersAreHeld, Known
  <2> QED
    BY <2>1, <2>2, <2>3 DEF KeysNext
<1> QED
  BY <1>1, <1>2, PTL DEF KeysSpec

\* No modifier sticks: on any board, whatever was pressed, repeated and released,
\* a modifier the driver reports has one of its keys down.
THEOREM NoStuckModifier == KeysSpec => []ModifiersAreHeld
<1>1. KeysInv => ModifiersAreHeld
  BY DEF KeysInv
<1> QED
  BY KeysInvariance, <1>1, PTL

\* Modifiers stay flags, and key codes stay below 208.
THEOREM TypeCorrect == KeysSpec => []TypeOK
<1>1. KeysInv => TypeOK
  BY DEF KeysInv
<1> QED
  BY KeysInvariance, <1>1, PTL

\* A board has finitely many keys, and the keys that are down have as many codes.
LEMMA HeldCodes ==
  ASSUME held \subseteq Keys
  PROVE  Cardinality({CodeOf(key) : key \in held}) = Cardinality(held)
<1> DEFINE codes == {CodeOf(key) : key \in held}
           code == [key \in held |-> CodeOf(key)]
<1>1. code \in [held -> codes] /\ codes \subseteq 0 .. 207
  BY OneCodePerKey
<1>2. \A k1, k2 \in held : code[k1] = code[k2] => k1 = k2
  BY KeysApart
<1>3. \A c \in codes : \E key \in held : code[key] = c
  OBVIOUS
<1>4. code \in Bijection(held, codes)
  <2> HIDE DEF code, codes
  <2> QED
    BY <1>1, <1>2, <1>3, Fun_IsBij
<1>5. IsFiniteSet(codes)
  <2>1. IsFiniteSet(0 .. 207)
    <3>1. 0 \in Int /\ 207 \in Int
      OBVIOUS
    <3> QED
      BY <3>1, FS_Interval, Zenon
  <2> HIDE DEF codes
  <2> QED
    BY <1>1, <2>1, FS_Subset
<1>6. IsFiniteSet(held)
  <2>1. code \in Injection(held, codes)
    BY <1>4, Fun_BijectionProperties, Zenon
  <2> HIDE DEF code, codes
  <2> QED
    BY <2>1, <1>5, FS_Injection
<1>7. ExistsBijection(held, codes)
  BY <1>4 DEF ExistsBijection
<1> QED
  BY <1>6, <1>7, FS_Bijection

\* Make and break, plain and extended: a subscriber that follows what the driver
\* publishes knows exactly the keys that are down, and tells them apart.
THEOREM KeysKnown == KeysSpec => []SubscriberKnowsKeys
<1>1. KeysInv => SubscriberKnowsKeys
  BY HeldCodes DEF KeysInv, TypeOK, Known, SubscriberKnowsKeys, CodeOf
<1> QED
  BY KeysInvariance, <1>1, PTL

-----------------------------------------------------------------------------
\* Short names for the table and its length.
T == keyboard_event_subscriber
k == keyboard_subscribers

\* The places, from 1 on, at which a function is called.
CalledAt(h) == {n \in 1 .. k : T[n - 1] = h}

\* The entries of the table.
Entries == 0 .. Capacity - 1

TableInv ==
  /\ k \in 0 .. Moved + 1
  /\ T \in [Entries -> Handlers \cup {nullptr}]
  /\ \A n \in 1 .. k : T[n - 1] \in Handlers
  /\ subscriptions \in [Handlers -> Nat]
  /\ \A h \in Handlers : Cardinality(CalledAt(h)) = subscriptions[h]

\* Handlers are called at finitely many places.
LEMMA CalledFinitely ==
  ASSUME TableInv, NEW h
  PROVE  IsFiniteSet(CalledAt(h))
<1>1. k \in Int
  BY SubscribersAssumption DEF TableInv
<1>2. IsFiniteSet(1 .. k) /\ CalledAt(h) \in SUBSET (1 .. k)
  BY <1>1, FS_Interval DEF CalledAt
<1> QED
  BY <1>2, FS_Subset

\* A nonempty set of naturals has a least element.
LEMMA LeastNatural ==
  ASSUME NEW S, S \subseteq Nat, S # {}
  PROVE  \E x \in S : \A y \in S : x <= y
<1>1. PICK x \in S : \A y \in S : ~(<<y, x>> \in OpToRel(<, Nat))
  BY WFMin, NatLessThanWellFounded
<1>2. \A y \in S : ~(y < x)
  BY <1>1 DEF OpToRel
<1> QED
  BY <1>2

\* The table starts empty.
LEMMA TableInitial == SubscribersInit => TableInv
<1> SUFFICES ASSUME SubscribersInit PROVE TableInv
  OBVIOUS
<1>1. k = 0 /\ T = [n \in Entries |-> nullptr] /\ subscriptions = [h \in Handlers |-> 0]
  BY DEF SubscribersInit, k, T, Entries
<1>2. k \in 0 .. Moved + 1
  BY <1>1, SubscribersAssumption
<1>3. T \in [Entries -> Handlers \cup {nullptr}] /\ subscriptions \in [Handlers -> Nat]
  BY <1>1
<1>4. \A n \in 1 .. k : T[n - 1] \in Handlers
  BY <1>1
<1>5. ASSUME NEW h \in Handlers PROVE Cardinality(CalledAt(h)) = subscriptions[h]
  <2>1. CalledAt(h) = {}
    BY <1>1 DEF CalledAt
  <2> QED
    BY <1>1, <2>1, FS_EmptySet, Zenon
<1> QED
  BY <1>2, <1>3, <1>4, <1>5 DEF TableInv

\* What the sizes and the invariant say of a table in use.
LEMMA Sizes ==
  ASSUME TableInv
  PROVE  /\ Capacity \in Nat /\ Moved \in Nat /\ 1 <= Moved /\ Moved <= Capacity - 1
         /\ k \in Nat /\ k <= Moved + 1
  BY SubscribersAssumption DEF TableInv

\* A subscription adds one place, for the function subscribed.
LEMMA SubscribeKeeps ==
  ASSUME TableInv, NEW h \in Handlers, keyboard_event_subscribe(h)
  PROVE  TableInv'
<1>1. /\ k <= Moved /\ k' = k + 1 /\ T' = [T EXCEPT ![k] = h]
      /\ subscriptions' = [subscriptions EXCEPT ![h] = @ + 1]
  BY DEF keyboard_event_subscribe, T, k
<1>2. /\ T \in [Entries -> Handlers \cup {nullptr}]
      /\ \A n \in 1 .. k : T[n - 1] \in Handlers
      /\ subscriptions \in [Handlers -> Nat]
      /\ \A g \in Handlers : Cardinality(CalledAt(g)) = subscriptions[g]
  BY DEF TableInv
<1>3. k \in Entries /\ \A n \in 1 .. k : n - 1 \in Entries /\ n - 1 # k
  BY <1>1, Sizes DEF Entries
<1>4. /\ T' \in [Entries -> Handlers \cup {nullptr}]
      /\ T'[k] = h
      /\ \A n \in 1 .. k : T'[n - 1] = T[n - 1]
  BY <1>1, <1>2, <1>3
<1>5. k' \in 0 .. Moved + 1
  BY <1>1, Sizes
<1>6. \A n \in 1 .. k + 1 : n \in 1 .. k \/ n - 1 = k
  BY Sizes
<1>7. \A n \in 1 .. k + 1 : T'[n - 1] \in Handlers
  BY <1>2, <1>4, <1>6
<1>8. subscriptions' \in [Handlers -> Nat]
  BY <1>1, <1>2
<1>9. ASSUME NEW g \in Handlers
      PROVE  Cardinality(CalledAt(g)') = subscriptions'[g]
  <2>1. CalledAt(g)' = {n \in 1 .. k + 1 : T'[n - 1] = g}
    BY <1>1 DEF CalledAt
  <2>2. k + 1 \notin CalledAt(g) /\ (k + 1) - 1 = k /\ k + 1 \in 1 .. k + 1 /\ 1 .. k \subseteq 1 .. k + 1
    BY Sizes DEF CalledAt
  <2>3. \A n \in 1 .. k + 1 : n \in 1 .. k \/ n = k + 1
    BY Sizes
  <2>4. CASE g = h
    <3>1. CalledAt(g)' = CalledAt(g) \cup {k + 1}
      BY <1>4, <2>1, <2>2, <2>3, <2>4 DEF CalledAt
    <3>2. Cardinality(CalledAt(g)') = Cardinality(CalledAt(g)) + 1
      BY <2>2, <3>1, CalledFinitely, FS_AddElement
    <3> QED
      BY <1>1, <1>2, <1>9, <2>4, <3>2
  <2>5. CASE g # h
    <3>1. CalledAt(g)' = CalledAt(g)
      BY <1>4, <2>1, <2>2, <2>3, <2>5 DEF CalledAt
    <3> QED
      BY <1>1, <1>2, <1>9, <2>5, <3>1
  <2> QED
    BY <2>4, <2>5
<1> QED
  BY <1>1, <1>4, <1>5, <1>7, <1>8, <1>9 DEF TableInv

-----------------------------------------------------------------------------
\* What unsubscribing does to the places: one of the function's, the first, goes,
\* and those behind it come forward.
OneGoes(h, at) ==
  /\ at \in 0 .. k - 1 /\ T[at] = h
  /\ k' = k - 1
  /\ T' \in [Entries -> Handlers \cup {nullptr}]
  /\ \A n \in 0 .. k - 2 : T'[n] = IF n < at THEN T[n] ELSE T[n + 1]

\* A function that is subscribed is found.
LEMMA Found ==
  ASSUME TableInv, NEW h \in Handlers, subscriptions[h] > 0
  PROVE  \E at \in 0 .. k - 1 : T[at] = h /\ \A m \in 0 .. at - 1 : T[m] # h
<1> DEFINE S == {n \in 0 .. k - 1 : T[n] = h}
<1>1. Cardinality(CalledAt(h)) > 0
  BY DEF TableInv
<1>2. CalledAt(h) # {}
  BY <1>1, FS_EmptySet
<1>3. PICK c \in 1 .. k : T[c - 1] = h
  BY <1>2 DEF CalledAt
<1>4. c - 1 \in S /\ S \subseteq Nat
  BY <1>3, Sizes
<1>5. PICK at \in S : \A y \in S : at <= y
  <2> HIDE DEF S
  <2> QED
    BY <1>4, LeastNatural
<1>6. \A m \in 0 .. at - 1 : m \in 0 .. k - 1 /\ ~(at <= m)
  BY <1>5, Sizes
<1> QED
  BY <1>5, <1>6

\* Moving the table up removes one entry: none is lost, doubled or left null.
LEMMA UnsubscribeRemoves ==
  ASSUME TableInv, NEW h \in Handlers, keyboard_event_unsubscribe(h)
  PROVE  \E at \in 0 .. k - 1 : OneGoes(h, at)
<1> DEFINE at == CHOOSE n \in 0 .. k - 1 : T[n] = h /\ \A m \in 0 .. n - 1 : T[m] # h
           cleared == [T EXCEPT ![at] = nullptr]
<1>1. /\ subscriptions[h] > 0
      /\ T' = MovedUp(cleared, at)
      /\ k' = k - 1
  BY DEF keyboard_event_unsubscribe, T, k
<1>2. at \in 0 .. k - 1 /\ T[at] = h
  BY <1>1, Found
<1> HIDE DEF at
<1>3. T \in [Entries -> Handlers \cup {nullptr}]
  BY DEF TableInv
<1>4. at \in Entries
  BY <1>2, Sizes DEF Entries
<1>5. /\ cleared \in [Entries -> Handlers \cup {nullptr}]
      /\ \A n \in Entries : n # at => cleared[n] = T[n]
  BY <1>3, <1>4
<1> HIDE DEF cleared
<1>6. T' = [n \in Entries |-> IF n \in at .. Moved - 1 THEN cleared[n + 1] ELSE cleared[n]]
  BY <1>1, <1>5 DEF MovedUp
<1>7. \A n \in at .. Moved - 1 : n + 1 \in Entries
  BY <1>2, Sizes DEF Entries
<1>8. T' \in [Entries -> Handlers \cup {nullptr}]
  BY <1>5, <1>6, <1>7
<1>9. ASSUME NEW n \in 0 .. k - 2
      PROVE  T'[n] = IF n < at THEN T[n] ELSE T[n + 1]
  <2>1. n \in Entries /\ n + 1 \in Entries /\ n \in Int /\ at \in Int
    BY <1>2, <1>9, Sizes DEF Entries
  <2>2. CASE n < at
    <3>1. n \notin at .. Moved - 1 /\ n # at
      BY <2>1, <2>2
    <3> QED
      BY <1>5, <1>6, <2>1, <2>2, <3>1
  <2>3. CASE ~(n < at)
    <3>1. n \in at .. Moved - 1 /\ n + 1 # at
      BY <1>9, <2>1, <2>3, Sizes
    <3> QED
      BY <1>5, <1>6, <2>1, <2>3, <3>1
  <2> QED
    BY <2>2, <2>3
<1> QED
  BY <1>1, <1>2, <1>8, <1>9 DEF OneGoes

\* The places that remain, one for one, are those after the removal.
LEMMA PlacesRemain ==
  ASSUME TableInv, NEW h \in Handlers, NEW at \in 0 .. k - 1, OneGoes(h, at), NEW g \in Handlers
  PROVE  Cardinality(CalledAt(g)') = Cardinality(CalledAt(g) \ {at + 1})
<1> DEFINE From == CalledAt(g) \ {at + 1}
           To == CalledAt(g)'
           shift == [n \in From |-> IF n <= at THEN n ELSE n - 1]
<1>1. To = {n \in 1 .. k - 1 : T'[n - 1] = g}
  BY DEF CalledAt, OneGoes
<1>2. \A n \in 1 .. k - 1 : T'[n - 1] = IF n <= at THEN T[n - 1] ELSE T[n]
  <2> SUFFICES ASSUME NEW n \in 1 .. k - 1 PROVE T'[n - 1] = IF n <= at THEN T[n - 1] ELSE T[n]
    OBVIOUS
  <2>1. n - 1 \in 0 .. k - 2 /\ (n - 1) + 1 = n /\ (n - 1 < at <=> n <= at)
    BY Sizes
  <2> QED
    BY <2>1 DEF OneGoes
<1>3. ASSUME NEW n \in From PROVE shift[n] \in To
  <2>1. n \in 1 .. k /\ n # at + 1 /\ T[n - 1] = g
    BY <1>3 DEF CalledAt
  <2>2. CASE n <= at
    <3>1. n \in 1 .. k - 1 /\ shift[n] = n
      BY <1>3, <2>1, <2>2, Sizes
    <3> QED
      BY <1>1, <1>2, <2>1, <2>2, <3>1
  <2>3. CASE ~(n <= at)
    <3>1. n - 1 \in 1 .. k - 1 /\ shift[n] = n - 1 /\ ~(n - 1 <= at)
      BY <1>3, <2>1, <2>3, Sizes
    <3> QED
      BY <1>1, <1>2, <2>1, <3>1
  <2> QED
    BY <2>2, <2>3
<1>4. \A n1, n2 \in From : shift[n1] = shift[n2] => n1 = n2
  <2>1. \A n \in From : n \in 1 .. k /\ n # at + 1
    BY DEF CalledAt
  <2> SUFFICES ASSUME NEW n1 \in From, NEW n2 \in From, shift[n1] = shift[n2] PROVE n1 = n2
    OBVIOUS
  <2>2. n1 \in Int /\ n2 \in Int /\ n1 # at + 1 /\ n2 # at + 1 /\ at \in Int
    BY <2>1, Sizes
  <2> QED
    BY <2>2
<1>5. ASSUME NEW m \in To PROVE \E n \in From : shift[n] = m
  <2>1. m \in 1 .. k - 1 /\ T'[m - 1] = g
    BY <1>1, <1>5
  <2>2. CASE m <= at
    <3>1. m \in 1 .. k /\ m # at + 1 /\ T[m - 1] = g
      BY <1>2, <2>1, <2>2, Sizes
    <3>2. m \in From
      BY <3>1 DEF CalledAt
    <3> QED
      BY <2>2, <3>2
  <2>3. CASE ~(m <= at)
    <3>1. m + 1 \in 1 .. k /\ m + 1 # at + 1 /\ (m + 1) - 1 = m /\ ~(m + 1 <= at)
      BY <2>1, <2>3, Sizes
    <3>2. m + 1 \in From
      BY <1>2, <2>1, <2>3, <3>1 DEF CalledAt
    <3> QED
      BY <3>1, <3>2
  <2> QED
    BY <2>2, <2>3
<1>6. shift \in Bijection(From, To)
  <2>1. shift \in [From -> To]
    <3>1. shift = [n \in From |-> shift[n]]
      OBVIOUS
    <3> HIDE DEF shift, From, To
    <3> QED
      BY <1>3, <3>1
  <2> HIDE DEF shift, From, To
  <2> QED
    BY <1>4, <1>5, <2>1, Fun_IsBij
<1>7. IsFiniteSet(From)
  BY CalledFinitely, FS_RemoveElement
<1>8. ExistsBijection(From, To)
  BY <1>6 DEF ExistsBijection
<1> HIDE DEF From, To
<1>9. Cardinality(To) = Cardinality(From)
  BY <1>7, <1>8, FS_Bijection
<1> QED
  BY <1>9 DEF From, To

\* Unsubscribing keeps one place for each subscription that is left.
LEMMA UnsubscribeKeeps ==
  ASSUME TableInv, NEW h \in Handlers, keyboard_event_unsubscribe(h)
  PROVE  TableInv'
<1>1. subscriptions[h] > 0 /\ subscriptions' = [subscriptions EXCEPT ![h] = @ - 1]
  BY DEF keyboard_event_unsubscribe
<1>2. PICK at \in 0 .. k - 1 : OneGoes(h, at)
  BY UnsubscribeRemoves
<1>3. /\ \A n \in 1 .. k : T[n - 1] \in Handlers
      /\ subscriptions \in [Handlers -> Nat]
      /\ \A g \in Handlers : Cardinality(CalledAt(g)) = subscriptions[g]
  BY DEF TableInv
<1>4. k' = k - 1 /\ T' \in [Entries -> Handlers \cup {nullptr}]
  BY <1>2 DEF OneGoes
<1>5. k' \in 0 .. Moved + 1
  BY <1>2, <1>4, Sizes
<1>6. ASSUME NEW n \in 1 .. k - 1 PROVE T'[n - 1] \in Handlers
  <2>1. n - 1 \in 0 .. k - 2 /\ (n - 1) + 1 = n /\ n \in 1 .. k /\ n + 1 \in 1 .. k /\ (n + 1) - 1 = n
    BY <1>6, Sizes
  <2>2. T'[n - 1] \in {T[n - 1], T[n]}
    BY <1>2, <2>1 DEF OneGoes
  <2> QED
    BY <1>3, <2>1, <2>2
<1>7. subscriptions' \in [Handlers -> Nat]
  <2>1. subscriptions[h] - 1 \in Nat
    BY <1>1, <1>3
  <2> QED
    BY <1>1, <1>3, <2>1
<1>8. ASSUME NEW g \in Handlers
      PROVE  Cardinality(CalledAt(g)') = subscriptions'[g]
  <2>1. Cardinality(CalledAt(g)') = Cardinality(CalledAt(g) \ {at + 1})
    BY <1>2, PlacesRemain
  <2>2. Cardinality(CalledAt(g) \ {at + 1})
          = IF at + 1 \in CalledAt(g) THEN Cardinality(CalledAt(g)) - 1 ELSE Cardinality(CalledAt(g))
    BY CalledFinitely, FS_RemoveElement
  <2>3. at + 1 \in 1 .. k /\ (at + 1) - 1 = at /\ T[at] = h
    BY <1>2, Sizes DEF OneGoes
  <2>4. at + 1 \in CalledAt(g) <=> g = h
    BY <2>3 DEF CalledAt
  <2> QED
    BY <1>1, <1>3, <1>8, <2>1, <2>2, <2>4
<1> QED
  BY <1>4, <1>5, <1>6, <1>7, <1>8 DEF TableInv

\* One place in the table for each subscription, whoever subscribed and
\* unsubscribed before, in whatever order.
THEOREM OnePlaceEach == SubscribersSpec => []TableInv
<1>1. TableInv /\ [SubscribersNext]_everyVar => TableInv'
  <2> SUFFICES ASSUME TableInv, [SubscribersNext]_everyVar PROVE TableInv'
    OBVIOUS
  <2>1. CASE \E h \in Handlers : keyboard_event_subscribe(h)
    BY <2>1, SubscribeKeeps
  <2>2. CASE \E h \in Handlers : keyboard_event_unsubscribe(h)
    BY <2>2, UnsubscribeKeeps
  <2>3. CASE UNCHANGED <<tableVars, subscriptions>>
    <3>1. T' = T /\ k' = k /\ subscriptions' = subscriptions
      BY <2>3 DEF tableVars, T, k
    <3>2. \A h : CalledAt(h)' = CalledAt(h)
      BY <3>1 DEF CalledAt
    <3> QED
      BY <3>1, <3>2 DEF TableInv
  <2> QED
    BY <2>1, <2>2, <2>3 DEF SubscribersNext, KeyComes, everyVar
<1> QED
  BY TableInitial, <1>1, PTL DEF SubscribersSpec

\* The next key calls every function once for each of its subscriptions, and nothing
\* else: keyboard_event_publisher never meets the null pointer of an entry that
\* was removed.
THEOREM EachHears == SubscribersSpec => []EachHearsEachKey
<1>1. TableInv => EachHearsEachKey
  <2> SUFFICES ASSUME TableInv PROVE EachHearsEachKey
    OBVIOUS
  <2>1. DOMAIN Called = 1 .. k /\ \A n \in 1 .. k : Called[n] = T[n - 1]
    BY DEF Called, k, T
  <2>2. ToSet(Called) \subseteq Handlers
    BY <2>1 DEF ToSet, TableInv
  <2>3. \A h \in Handlers : {n \in DOMAIN Called : Called[n] = h} = CalledAt(h)
    BY <2>1 DEF CalledAt
  <2> QED
    BY <2>2, <2>3 DEF EachHearsEachKey, TableInv
<1> QED
  BY OnePlaceEach, <1>1, PTL

-----------------------------------------------------------------------------
(* The shell.                                                              *)

\* Every character a key can give, and the character 0.
Chars ==
  {NUL} \cup {kbdus[kc] : kc \in DOMAIN kbdus} \cup {kbdus_s[kc] : kc \in DOMAIN kbdus_s}
        \cup {kbdus_sc[kc] : kc \in DOMAIN kbdus_sc}

Buffer == 0 .. BufferSize - 1

\* The buffer holds a line, and characters 0 after it.
Holds(l) == \A c \in Buffer : memory[c] = IF c < Len(l) THEN l[c + 1] ELSE NUL

Blank == \A c \in Buffer : memory[c] = NUL

Setup == {"subscribe", "allocate", "clear_first"}

TypesHold ==
  /\ line \in Seq(Chars) /\ memory \in [Cells -> Chars]
  /\ command_buffer_index \in Int /\ command_buffer_index <= MaxIndex
  /\ disturbed \in BOOLEAN /\ stray \in BOOLEAN /\ allocated \in BOOLEAN /\ subscribed \in BOOLEAN

\* The line is only what the buffer holds between the two stores that clear it and
\* the index; what is stored in between is remembered until the index is reset.
IInv ==
  /\ TypesHold
  /\ allocated <=> pc \notin {"subscribe", "allocate"}
  /\ pc = "subscribe" => ~subscribed
  /\ ~disturbed => command_buffer_index = Len(line)
  /\ ~disturbed /\ pc \in Setup => line = <<>>
  /\ ~disturbed /\ pc \notin Setup \cup {"reset"} => Holds(line)
  /\ pc = "reset" /\ ~stray => Blank

\* The buffer is among the cells.
LEMMA BufferInCells ==
  /\ Buffer \subseteq Cells /\ Buffer \subseteq Int
  /\ BufferSize \in Nat /\ MaxIndex \in Nat /\ BufferSize <= MaxIndex
BY ShellAssumption DEF Buffer, Cells

\* What a key gives is one of the characters.
LEMMA CharacterOfKey ==
  ASSUME NEW kc, NEW shift, NEW caps
  PROVE  kcascii(kc, shift, caps) \in Chars
<1>1. At(kbdus, kc) \in Chars /\ At(kbdus_s, kc) \in Chars /\ At(kbdus_sc, kc) \in Chars /\ NUL \in Chars
  BY DEF At, Chars
<1> QED
  BY <1>1 DEF kcascii

\* The program starts with an empty line and no buffer.
LEMMA Initial == Init => IInv
<1> SUFFICES ASSUME Init PROVE IInv
  OBVIOUS
<1>1. line = <<>> /\ <<>> \in Seq(Chars) /\ Len(line) = 0
  BY DEF Init
<1>2. memory \in [Cells -> Chars]
  BY DEF Init, Empty, Chars
<1>3. TypesHold
  <2>1. line \in Seq(Chars)
    BY <1>1
  <2>2. command_buffer_index \in Int /\ command_buffer_index <= MaxIndex
    BY BufferInCells DEF Init
  <2>3. /\ disturbed \in BOOLEAN /\ stray \in BOOLEAN
        /\ allocated \in BOOLEAN /\ subscribed \in BOOLEAN
    BY DEF Init
  <2> QED
    BY <1>2, <2>1, <2>2, <2>3 DEF TypesHold
<1> QED
  BY <1>1, <1>3 DEF Init, IInv, Setup

-----------------------------------------------------------------------------
(* The keys.                                                               *)

\* A store inside the buffer changes one character.
LEMMA Storing ==
  ASSUME TypesHold, NEW c \in Int, NEW ch \in Chars
  PROVE  /\ Store(c, ch) \in [Cells -> Chars]
         /\ allocated /\ c \in Cells => Store(c, ch) = [memory EXCEPT ![c] = ch]
         /\ \A d \in Cells : d # c => Store(c, ch)[d] = memory[d]
BY DEF TypesHold, Store

\* A character goes to the end of the line and of the buffer's text.
LEMMA CharacterKeeps ==
  ASSUME IInv, pc # "subscribe", NEW ch \in Chars, Character(ch), UNCHANGED <<pc, allocated, subscribed>>
  PROVE  IInv'
<1> DEFINE m == Store(command_buffer_index, ch)
<1>1. TypesHold
  BY DEF IInv
<1>2. /\ m \in [Cells -> Chars] /\ memory' = m
      /\ allocated /\ command_buffer_index \in Cells => m = [memory EXCEPT ![command_buffer_index] = ch]
  BY <1>1, Storing DEF Character, i, TypesHold
<1> HIDE DEF m
<1>3. line' \in Seq(Chars) /\ (~disturbed' => line' = Append(line, ch))
  BY <1>1 DEF Character, Kept, TypesHold
<1>4. TypesHold'
  BY <1>1, <1>2, <1>3, BufferInCells DEF TypesHold, Character, i
<1>5. ~disturbed' => /\ ~disturbed /\ allocated /\ pc \notin Setup
                     /\ command_buffer_index \in Buffer /\ command_buffer_index = Len(line)
  BY <1>1 DEF Character, Unsettled, Outside, IInv, Buffer, Setup, i, TypesHold
<1>6. ~disturbed' => command_buffer_index' = Len(line')
  BY <1>1, <1>3, <1>5 DEF Character, i, TypesHold
<1>7. ASSUME ~disturbed', pc' \notin Setup \cup {"reset"}
      PROVE  Holds(line)'
  <2>1. Holds(line) /\ line' = Append(line, ch) /\ command_buffer_index = Len(line) /\ line \in Seq(Chars)
    BY <1>1, <1>3, <1>5, <1>7 DEF IInv, TypesHold
  <2>2. memory' = [memory EXCEPT ![Len(line)] = ch] /\ memory \in [Cells -> Chars] /\ Len(line) \in Buffer
    BY <1>1, <1>2, <1>5, <1>7, <2>1, BufferInCells DEF TypesHold
  <2>3. /\ Len(line') = Len(line) + 1 /\ line'[Len(line) + 1] = ch
        /\ \A n \in 1 .. Len(line) : line'[n] = line[n]
    BY <2>1
  <2>4. ASSUME NEW c \in Buffer
        PROVE  memory'[c] = IF c < Len(line') THEN line'[c + 1] ELSE NUL
    <3>1. c \in Cells /\ c \in Int /\ c >= 0 /\ Len(line) \in Nat
      BY <2>1, <2>4, BufferInCells DEF Buffer
    <3>2. memory[c] = IF c < Len(line) THEN line[c + 1] ELSE NUL
      BY <2>1, <2>4 DEF Holds
    <3>3. CASE c = Len(line)
      BY <2>2, <2>3, <3>1, <3>3
    <3>4. CASE c < Len(line)
      <4>1. c + 1 \in 1 .. Len(line)
        BY <3>1, <3>4
      <4> QED
        BY <2>2, <2>3, <3>1, <3>2, <3>4, <4>1
    <3>5. CASE c > Len(line)
      BY <2>2, <2>3, <3>1, <3>2, <3>5
    <3> QED
      BY <3>1, <3>3, <3>4, <3>5
  <2> QED
    BY <2>4 DEF Holds
<1>8. pc' = "reset" => stray'
  BY DEF Character
<1> QED
  BY <1>1, <1>4, <1>5, <1>6, <1>7, <1>8 DEF IInv

\* Backspace takes the last character from both, or leaves the buffer at its front.
LEMMA BackspaceKeeps ==
  ASSUME IInv, pc # "subscribe", Backspace, UNCHANGED <<pc, allocated, subscribed>>
  PROVE  IInv'
<1> DEFINE last == command_buffer_index - 1
           m == Store(last, NUL)
<1>1. TypesHold /\ NUL \in Chars
  BY DEF IInv, Chars
<1>2. /\ m \in [Cells -> Chars] /\ memory' = m
      /\ allocated /\ last \in Cells => m = [memory EXCEPT ![last] = NUL]
      /\ \A d \in Cells : d # last => m[d] = memory[d]
  <2>1. last \in Int
    BY <1>1 DEF TypesHold
  <2> HIDE DEF last
  <2>2. /\ m \in [Cells -> Chars]
        /\ allocated /\ last \in Cells => m = [memory EXCEPT ![last] = NUL]
        /\ \A d \in Cells : d # last => m[d] = memory[d]
    BY <1>1, <2>1, Storing
  <2>3. memory' = m
    BY DEF Backspace, i, last
  <2> QED
    BY <2>2, <2>3
<1> HIDE DEF m
<1>3. ~disturbed' => /\ ~disturbed /\ allocated /\ pc \notin Setup
                     /\ last \in Buffer /\ command_buffer_index = Len(line)
  BY <1>1 DEF Backspace, Unsettled, Outside, IInv, Buffer, Setup, i, TypesHold
<1>4. line' \in Seq(Chars)
      /\ (~disturbed' => /\ Len(line') = last
                         /\ \A n \in 1 .. last : line'[n] = line[n])
  <2>1. CASE disturbed'
    <3>1. line' = <<>>
      BY <2>1 DEF Backspace, Kept
    <3> QED
      BY <2>1, <3>1
  <2>2. CASE ~disturbed'
    <3>1. line' = Front(line) /\ line \in Seq(Chars) /\ Len(line) = last + 1 /\ last \in Nat
      BY <1>1, <1>3, <2>2, BufferInCells DEF Backspace, Kept, TypesHold, Buffer
    <3>2. Front(line) = SubSeq(line, 1, last)
      BY <3>1 DEF Front
    <3> HIDE DEF last
    <3> QED
      BY <2>2, <3>1, <3>2
  <2> QED
    BY <2>1, <2>2
<1>5. TypesHold'
  <2>1. command_buffer_index' \in Int /\ command_buffer_index' <= MaxIndex
    BY <1>1, BufferInCells DEF TypesHold, Backspace, i
  <2>2. disturbed' \in BOOLEAN /\ stray' \in BOOLEAN
    BY <1>1 DEF TypesHold, Backspace
  <2> QED
    BY <1>1, <1>2, <1>4, <2>1, <2>2 DEF TypesHold
<1>6. ~disturbed' => command_buffer_index' = Len(line')
  BY <1>4 DEF Backspace, i
<1>7. ASSUME ~disturbed', pc' \notin Setup \cup {"reset"}
      PROVE  Holds(line)'
  <2>1. /\ Holds(line) /\ Len(line) = last + 1 /\ last \in Buffer /\ last \in Int
        /\ memory' = [memory EXCEPT ![last] = NUL] /\ memory \in [Cells -> Chars]
        /\ Len(line') = last /\ \A n \in 1 .. last : line'[n] = line[n]
    BY <1>1, <1>2, <1>3, <1>4, <1>7, BufferInCells DEF IInv, TypesHold
  <2> HIDE DEF last
  <2>2. ASSUME NEW c \in Buffer
        PROVE  memory'[c] = IF c < Len(line') THEN line'[c + 1] ELSE NUL
    <3>1. c \in Cells /\ c \in Int /\ c >= 0
      BY <2>2, BufferInCells DEF Buffer
    <3>2. memory[c] = IF c < Len(line) THEN line[c + 1] ELSE NUL
      BY <2>1, <2>2 DEF Holds
    <3>3. CASE c = last
      BY <2>1, <3>1, <3>3
    <3>4. CASE c < last
      <4>1. c + 1 \in 1 .. last
        BY <2>1, <3>1, <3>4
      <4> QED
        BY <2>1, <3>1, <3>2, <3>4, <4>1
    <3>5. CASE c > last
      BY <2>1, <3>1, <3>2, <3>5
    <3> QED
      BY <2>1, <3>1, <3>3, <3>4, <3>5
  <2> QED
    BY <2>2 DEF Holds
<1>8. ASSUME pc' = "reset", ~stray'
      PROVE  Blank'
  <2>1. Blank
    BY <1>8 DEF IInv, Backspace
  <2>2. ASSUME NEW c \in Buffer PROVE memory'[c] = NUL
    <3>1. c \in Cells /\ memory[c] = NUL
      BY <2>1, <2>2, BufferInCells DEF Blank
    <3>2. CASE c # last
      BY <1>2, <3>1, <3>2
    <3>3. CASE c = last
      <4>1. allocated
        BY <1>8 DEF IInv
      <4> HIDE DEF last
      <4>2. m = [memory EXCEPT ![last] = NUL] /\ memory \in [Cells -> Chars]
        BY <1>1, <1>2, <3>1, <3>3, <4>1 DEF TypesHold
      <4> QED
        BY <1>2, <3>1, <3>3, <4>2
    <3> QED
      BY <3>2, <3>3
  <2> QED
    BY <2>2 DEF Blank
<1> QED
  BY <1>1, <1>3, <1>5, <1>6, <1>7, <1>8 DEF IInv

\* A tab moves the index; the line grows by the characters 0 that are there.
LEMMA TabKeeps ==
  ASSUME IInv, pc # "subscribe", Tab, UNCHANGED <<pc, allocated, subscribed>>
  PROVE  IInv'
<1> DEFINE n == ((IF command_buffer_index < 0 THEN 0 ELSE command_buffer_index \div 4) + 1) * 4
           gap == [c \in 1 .. n - Len(line) |-> NUL]
<1>1. TypesHold /\ NUL \in Chars
  BY DEF IInv, Chars
<1>2. /\ n \in Int /\ n > 0 /\ n > command_buffer_index /\ n <= MaxIndex
      /\ command_buffer_index' = n /\ memory' = memory /\ stray' = stray
      /\ line' = IF disturbed' THEN <<>> ELSE line \o gap
      /\ disturbed' = (disturbed \/ Unsettled)
  <2>1. command_buffer_index \in Int
    BY <1>1 DEF TypesHold
  <2>2. n \in Int /\ n > 0 /\ n > command_buffer_index
    BY <2>1
  <2> QED
    BY <2>2 DEF Tab, Kept, i
<1> HIDE DEF n
<1>3. ~disturbed' => ~disturbed /\ pc \notin Setup /\ command_buffer_index = Len(line)
  BY <1>2 DEF Unsettled, IInv, Setup
<1>4. ASSUME ~disturbed'
      PROVE  /\ line' \in Seq(Chars) /\ Len(line') = n /\ Len(line) < n
             /\ \A c \in 1 .. n : line'[c] = IF c <= Len(line) THEN line[c] ELSE NUL
  <2>1. line \in Seq(Chars) /\ Len(line) \in Nat /\ Len(line) < n
    BY <1>1, <1>2, <1>3, <1>4 DEF TypesHold
  <2>2. gap \in Seq(Chars) /\ Len(gap) = n - Len(line) /\ \A c \in 1 .. n - Len(line) : gap[c] = NUL
    BY <1>1, <1>2, <2>1
  <2> HIDE DEF gap
  <2>3. /\ line \o gap \in Seq(Chars)
        /\ Len(line \o gap) = Len(line) + Len(gap)
        /\ \A c \in 1 .. Len(line) + Len(gap) :
             (line \o gap)[c] = IF c <= Len(line) THEN line[c] ELSE gap[c - Len(line)]
    BY <2>1, <2>2, ConcatProperties, Zenon
  <2> DEFINE longer == line \o gap
  <2> HIDE DEF longer
  <2>4. line' = longer
    BY <1>2, <1>4 DEF longer
  <2>5. /\ longer \in Seq(Chars) /\ Len(longer) = n
        /\ \A c \in 1 .. n : longer[c] = IF c <= Len(line) THEN line[c] ELSE gap[c - Len(line)]
    <3>1. Len(line) + Len(gap) = n
      BY <1>2, <2>1, <2>2
    <3> QED
      BY <2>3, <3>1, Zenon DEF longer
  <2>6. \A c \in 1 .. n : ~(c <= Len(line)) => gap[c - Len(line)] = NUL
    BY <1>2, <2>1, <2>2
  <2> QED
    BY <2>1, <2>4, <2>5, <2>6
<1>5. line' \in Seq(Chars)
  <2>1. CASE disturbed'
    BY <1>2, <2>1
  <2> QED
    BY <1>4, <2>1
<1>6. TypesHold'
  BY <1>1, <1>2, <1>5 DEF TypesHold, Unsettled
<1>7. ASSUME ~disturbed', pc' \notin Setup \cup {"reset"}
      PROVE  Holds(line)'
  <2>1. Holds(line)
    BY <1>3, <1>7 DEF IInv
  <2>2. ASSUME NEW c \in Buffer
        PROVE  memory'[c] = IF c < Len(line') THEN line'[c + 1] ELSE NUL
    <3>1. c \in Int /\ c >= 0 /\ Len(line) \in Nat
      BY <1>1, <2>2, BufferInCells DEF Buffer, TypesHold
    <3>2. memory'[c] = IF c < Len(line) THEN line[c + 1] ELSE NUL
      BY <1>2, <2>1, <2>2 DEF Holds
    <3>3. Len(line') = n /\ Len(line) < n
      BY <1>4, <1>7
    <3>4. c < n => line'[c + 1] = IF c + 1 <= Len(line) THEN line[c + 1] ELSE NUL
      <4>1. c < n => c + 1 \in 1 .. n
        BY <1>2, <3>1
      <4> QED
        BY <1>4, <1>7, <4>1
    <3> QED
      BY <1>2, <3>1, <3>2, <3>3, <3>4
  <2> QED
    BY <2>2 DEF Holds
<1>8. Blank' <=> Blank
  BY <1>2 DEF Blank
<1> QED
  BY <1>1, <1>2, <1>3, <1>4, <1>6, <1>7, <1>8 DEF IInv

\* Whatever the key, and wherever the program is, the strengthening is kept.
LEMMA KeyKeeps == IInv /\ Key => IInv'
<1> SUFFICES ASSUME IInv, Key PROVE IInv'
  OBVIOUS
<1>1. PICK scan : IF subscribed THEN KeyboardEvent(PacketOf(scan))
                  ELSE UNCHANGED <<shared, line, disturbed, stray, rushed>>
  BY DEF Key
<1>2. UNCHANGED <<pc, allocated, subscribed>>
  BY DEF Key, local
<1>3. CASE UNCHANGED <<shared, line, disturbed, stray>>
  BY <1>2, <1>3 DEF IInv, TypesHold, shared, Holds, Blank
<1>4. CASE subscribed /\ KeyboardEvent(PacketOf(scan))
  <2> DEFINE p == PacketOf(scan)
             ch == kcascii(p.key_code, p.shifted, p.caps_lock)
  <2>1. pc # "subscribe"
    BY <1>4 DEF IInv
  <2>2. \/ UNCHANGED <<shared, line, disturbed, stray>>
        \/ Tab \/ Backspace \/ Enter \/ Character(ch)
    BY <1>4 DEF KeyboardEvent
  <2>3. ch \in Chars
    BY CharacterOfKey
  <2> HIDE DEF ch
  <2>4. CASE Enter
    BY <1>2, <2>4 DEF Enter, IInv, TypesHold, Holds, Blank
  <2>5. CASE Character(ch)
    BY <1>2, <2>1, <2>3, <2>5, CharacterKeeps
  <2> QED
    BY <1>2, <1>3, <2>1, <2>2, <2>4, <2>5, TabKeeps, BackspaceKeeps
<1> QED
  BY <1>1, <1>3, <1>4

-----------------------------------------------------------------------------
(* The program.                                                            *)

\* A step that leaves what is typed and stored alone, and does not pass one of
\* the places where the strengthening changes.
LEMMA StepAside ==
  ASSUME IInv,
         UNCHANGED <<command_buffer_index, memory, subscribed, allocated, line, disturbed, stray>>,
         pc \notin Setup \cup {"reset"}, pc' \notin Setup \cup {"reset"}
  PROVE  IInv'
BY DEF IInv, TypesHold, Holds, Blank, Setup

\* Every step of the shell itself, whatever was typed before it.
LEMMA StepKeeps == IInv /\ Step => IInv'
<1> SUFFICES ASSUME IInv, Step PROVE IInv'
  OBVIOUS
<1>1. CASE Subscribe
  BY <1>1 DEF Subscribe, Goto, shared, ghosts, IInv, TypesHold, Holds, Blank, Setup
<1>2. CASE Allocate
  BY <1>2 DEF Allocate, Goto, shared, ghosts, IInv, TypesHold, Holds, Blank, Setup
<1>3. CASE Clear
  <2>1. /\ pc \in {"clear_first", "clear"} /\ pc' = IF pc = "clear" THEN "reset" ELSE "prompt"
        /\ memory' = Cleared /\ stray' = FALSE
        /\ UNCHANGED <<command_buffer_index, line, disturbed, allocated, subscribed>>
    BY <1>3 DEF Clear, Goto
  <2>2. memory' \in [Cells -> Chars] /\ \A c \in Buffer : memory'[c] = NUL
    BY <2>1, BufferInCells DEF Cleared, Chars, IInv, TypesHold, Buffer
  <2>3. TypesHold'
    BY <2>1, <2>2 DEF IInv, TypesHold
  <2>4. ASSUME ~disturbed', pc' \notin Setup \cup {"reset"}
        PROVE  Holds(line)'
    <3>1. line' = <<>>
      BY <2>1, <2>4 DEF IInv, Setup
    <3> QED
      BY <2>2, <3>1, BufferInCells DEF Holds, Buffer
  <2> QED
    BY <2>1, <2>2, <2>3, <2>4 DEF IInv, Blank, Setup
<1>4. CASE Reset
  <2>1. /\ pc = "reset" /\ pc' = "prompt" /\ command_buffer_index' = 0 /\ line' = <<>>
        /\ disturbed' = stray
        /\ UNCHANGED <<memory, allocated, subscribed, stray>>
    BY <1>4 DEF Reset, Goto
  <2>2. TypesHold'
    <3>1. <<>> \in Seq(Chars) /\ MaxIndex \in Nat
      BY BufferInCells
    <3> QED
      BY <2>1, <3>1 DEF IInv, TypesHold
  <2>3. ASSUME ~disturbed' PROVE Holds(line)'
    <3>1. Blank
      BY <2>1, <2>3 DEF IInv
    <3> QED
      BY <2>1, <3>1, BufferInCells DEF Holds, Blank, Buffer
  <2> QED
    BY <2>1, <2>2, <2>3 DEF IInv, Setup
<1>5. CASE Prompt
  BY <1>5, StepAside DEF Prompt, Goto, shared, Setup
<1>6. CASE Wait
  BY <1>6, StepAside DEF Wait, Goto, ghosts, Setup
<1>7. CASE Poll \/ TestEvent \/ TestBackspace
  BY <1>7, StepAside DEF Poll, TestEvent, TestBackspace, Test, Goto, shared, ghosts, Setup
<1>8. CASE Echo \/ PrintText \/ EventDone
  BY <1>8, StepAside DEF Echo, PrintText, EventDone, Goto, shared, ghosts, Setup
<1>9. CASE Erase \/ EraseDone \/ Newline
  BY <1>9, StepAside DEF Erase, EraseDone, Newline, Goto, shared, ghosts, Setup
<1>10. CASE PerformCommand
  BY <1>10, StepAside DEF PerformCommand, Goto, shared, ghosts, Setup
<1> QED
  BY <1>1, <1>2, <1>3, <1>4, <1>5, <1>6, <1>7, <1>8, <1>9, <1>10 DEF Step

\* The strengthening holds of every reachable state.
THEOREM Invariance == Spec => []IInv
<1>1. IInv /\ [Next]_vars => IInv'
  <2> SUFFICES ASSUME IInv, [Next]_vars PROVE IInv'
    OBVIOUS
  <2>1. CASE UNCHANGED vars
    BY <2>1 DEF vars, shared, local, ghosts, IInv, TypesHold, Holds, Blank
  <2> QED
    BY <2>1, KeyKeeps, StepKeeps DEF Next
<1> QED
  BY <1>1, Initial, PTL DEF Spec

\* Whatever is typed between whichever steps of the program, the buffer holds the
\* line and the index is its end, unless a key came at one of the moments named.
THEOREM LineKept == Spec => []BufferIsLine
<1>1. IInv => BufferIsLine
  <2> SUFFICES ASSUME IInv, allocated, ~disturbed, pc \notin {"clear_first", "reset"}
               PROVE  /\ command_buffer_index = Len(line)
                      /\ \A c \in 0 .. BufferSize - 1 :
                           memory[c] = IF c < Len(line) THEN line[c + 1] ELSE NUL
    BY DEF BufferIsLine
  <2>1. Holds(line)
    BY DEF IInv, Setup
  <2> QED
    BY <2>1 DEF IInv, Holds, Buffer
<1> QED
  BY <1>1, Invariance, PTL

-----------------------------------------------------------------------------
(* The echo.                                                               *)

\* The characters typed up to a place of the line.
UpTo(l, n) == {m \in Typed(l) : m <= n}

\* There are finitely many, and no more than the line is long.
LEMMA TypedFinite ==
  ASSUME NEW l \in Seq(Chars)
  PROVE  /\ Typed(l) \subseteq 1 .. Len(l) /\ IsFiniteSet(Typed(l))
         /\ Cardinality(Typed(l)) \in Nat /\ Cardinality(Typed(l)) <= Len(l)
         /\ \A n : /\ IsFiniteSet(UpTo(l, n)) /\ Cardinality(UpTo(l, n)) \in Nat
                   /\ Cardinality(UpTo(l, n)) <= Cardinality(Typed(l))
<1>1. Typed(l) \subseteq 1 .. Len(l) /\ Len(l) \in Nat
  BY DEF Typed
<1>2. IsFiniteSet(1 .. Len(l)) /\ Cardinality(1 .. Len(l)) = Len(l)
  <2>1. 1 \in Int /\ Len(l) \in Int /\ Len(l) - 1 + 1 = Len(l) /\ (1 > Len(l) => Len(l) = 0)
    BY <1>1
  <2>2. IsFiniteSet(1 .. Len(l)) /\ Cardinality(1 .. Len(l)) = IF 1 > Len(l) THEN 0 ELSE Len(l) - 1 + 1
    BY <2>1, FS_Interval, Zenon
  <2> QED
    BY <2>1, <2>2
<1>3. IsFiniteSet(Typed(l)) /\ Cardinality(Typed(l)) <= Len(l)
  BY <1>1, <1>2, FS_Subset
<1>4. ASSUME NEW n PROVE /\ IsFiniteSet(UpTo(l, n)) /\ Cardinality(UpTo(l, n)) \in Nat
                         /\ Cardinality(UpTo(l, n)) <= Cardinality(Typed(l))
  <2>1. UpTo(l, n) \subseteq Typed(l)
    BY DEF UpTo
  <2> QED
    BY <1>3, <2>1, FS_Subset, FS_CardinalityType
<1> QED
  BY <1>1, <1>3, <1>4, FS_CardinalityType

\* No text shows a line of which nothing was typed but tabs.
LEMMA ShowsNothing ==
  ASSUME NEW l, Typed(l) = {}
  PROVE  Shows(<<>>, l)
<1>1. Cardinality({}) = 0 /\ Len(<<>>) = 0
  BY FS_EmptySet
<1> QED
  BY <1>1 DEF Shows

\* One character more on both sides.
LEMMA ShowsMore ==
  ASSUME NEW l \in Seq(Chars), NEW text \in Seq(Chars), NEW ch \in Chars \ {NUL}, Shows(text, l)
  PROVE  Shows(Append(text, ch), Append(l, ch))
<1> DEFINE longer == Append(l, ch)
           new == Len(l) + 1
<1>1. /\ Len(l) \in Nat /\ Len(longer) = new /\ DOMAIN longer = 1 .. new /\ longer[new] = ch
      /\ DOMAIN l = 1 .. Len(l) /\ \A n \in 1 .. Len(l) : longer[n] = l[n]
      /\ longer \in Seq(Chars)
  OBVIOUS
<1> HIDE DEF longer
<1>2. Typed(longer) = Typed(l) \cup {new} /\ new \notin Typed(l)
  BY <1>1 DEF Typed
<1>3. Cardinality(Typed(longer)) = Cardinality(Typed(l)) + 1
  BY <1>2, TypedFinite, FS_AddElement
<1>4. Len(text) = Cardinality(Typed(l)) /\ Len(Append(text, ch)) = Len(text) + 1
      /\ Append(text, ch)[Len(text) + 1] = ch
      /\ \A m \in 1 .. Len(text) : Append(text, ch)[m] = text[m]
  BY DEF Shows
<1>5. UpTo(longer, new) = Typed(longer)
  BY <1>1, <1>2, TypedFinite DEF UpTo
<1>6. ASSUME NEW n \in Typed(l) PROVE UpTo(longer, n) = UpTo(l, n)
  <2>1. n \in 1 .. Len(l)
    BY TypedFinite
  <2> QED
    BY <1>1, <1>2, <2>1 DEF UpTo
<1>7. ASSUME NEW n \in Typed(l) PROVE Append(text, ch)[Cardinality(UpTo(longer, n))] = longer[n]
  <2>1. n \in UpTo(l, n) /\ n \in 1 .. Len(l)
    BY TypedFinite DEF UpTo
  <2>2. Cardinality(UpTo(l, n)) \in 1 .. Len(text)
    <3>1. Cardinality(UpTo(l, n)) # 0
      BY <2>1, TypedFinite, FS_EmptySet
    <3> QED
      BY <1>4, <3>1, TypedFinite
  <2>3. text[Cardinality(UpTo(l, n))] = l[n]
    BY DEF Shows, UpTo
  <2> QED
    BY <1>1, <1>4, <1>6, <2>1, <2>2, <2>3
<1>8. \A n \in Typed(longer) : Append(text, ch)[Cardinality(UpTo(longer, n))] = longer[n]
  BY <1>1, <1>2, <1>3, <1>4, <1>5, <1>7
<1> QED
  BY <1>3, <1>4, <1>8 DEF Shows, UpTo, longer

\* One character less on both sides.
LEMMA ShowsLess ==
  ASSUME NEW l \in Seq(Chars), NEW text \in Seq(Chars), l # <<>>, Last(l) # NUL, Shows(text, l)
  PROVE  text # <<>> /\ Shows(Front(text), Front(l))
<1> DEFINE end == Len(l)
           shorter == Front(l)
<1>1. /\ end \in Nat \ {0} /\ shorter \in Seq(Chars) /\ Len(shorter) = end - 1
      /\ DOMAIN shorter = 1 .. end - 1 /\ DOMAIN l = 1 .. end
      /\ \A n \in 1 .. end - 1 : shorter[n] = l[n]
  <2>1. shorter = SubSeq(l, 1, end - 1)
    BY DEF Front
  <2>2. end \in Nat \ {0} /\ DOMAIN l = 1 .. end
    OBVIOUS
  <2> HIDE DEF end, shorter
  <2>3. shorter \in Seq(Chars) /\ Len(shorter) = end - 1 /\ \A n \in 1 .. end - 1 : shorter[n] = l[n]
    BY <2>1, <2>2
  <2> QED
    BY <2>2, <2>3
<1>2. l[end] # NUL
  BY DEF Last
<1> HIDE DEF shorter
<1>3. Typed(l) = Typed(shorter) \cup {end} /\ end \notin Typed(shorter)
  BY <1>1, <1>2 DEF Typed
<1>4. Cardinality(Typed(l)) = Cardinality(Typed(shorter)) + 1
  BY <1>1, <1>3, TypedFinite, FS_AddElement
<1>5. /\ Len(text) = Cardinality(Typed(l)) /\ Len(text) \in Nat \ {0} /\ text # <<>>
  BY <1>1, <1>4, TypedFinite DEF Shows
<1>6. /\ Len(Front(text)) = Len(text) - 1
      /\ \A m \in 1 .. Len(text) - 1 : Front(text)[m] = text[m]
  BY <1>5 DEF Front
<1>7. ASSUME NEW n \in Typed(shorter)
      PROVE  Front(text)[Cardinality(UpTo(shorter, n))] = shorter[n]
  <2>1. n \in UpTo(shorter, n) /\ n \in 1 .. end - 1
    BY <1>1, TypedFinite DEF UpTo
  <2>2. UpTo(shorter, n) = UpTo(l, n)
    BY <1>1, <1>3, <2>1 DEF UpTo
  <2>3. Cardinality(UpTo(shorter, n)) \in 1 .. Len(text) - 1
    <3>1. Cardinality(UpTo(shorter, n)) # 0
      BY <1>1, <2>1, TypedFinite, FS_EmptySet
    <3> QED
      BY <1>1, <1>4, <1>5, <3>1, TypedFinite
  <2>4. text[Cardinality(UpTo(l, n))] = l[n]
    BY <1>3 DEF Shows, UpTo
  <2> QED
    BY <1>1, <1>6, <2>1, <2>2, <2>3, <2>4
<1>8. Len(Front(text)) = Cardinality(Typed(shorter))
  BY <1>1, <1>4, <1>5, <1>6, TypedFinite
<1> QED
  BY <1>5, <1>7, <1>8 DEF Shows, UpTo, shorter

\* A line that differs by characters 0 at its end shows as before.
LEMMA ShowsGap ==
  ASSUME NEW l \in Seq(Chars), NEW longer \in Seq(Chars), Len(l) <= Len(longer),
         \A n \in 1 .. Len(longer) : longer[n] = IF n <= Len(l) THEN l[n] ELSE NUL
  PROVE  Typed(longer) = Typed(l) /\ \A text : Shows(text, l) => Shows(text, longer)
<1>1. /\ Len(l) \in Nat /\ Len(longer) \in Nat
      /\ DOMAIN l = 1 .. Len(l) /\ DOMAIN longer = 1 .. Len(longer)
  OBVIOUS
<1>2. \A n \in DOMAIN l : n \in DOMAIN longer /\ longer[n] = l[n]
  BY <1>1
<1>3. Typed(longer) = Typed(l)
  BY <1>1, <1>2 DEF Typed
<1>4. \A n \in Typed(l) : longer[n] = l[n]
  BY <1>2 DEF Typed
<1> QED
  BY <1>3, <1>4 DEF Shows

Listening == Loop \cup {"wait"}
Awaiting == event_occured /\ pc # "event_done"           \* a character is still to be printed
Undone == unhandled_backspace /\ pc # "erase_done"       \* and one to be taken back
Calm == pc \in Listening /\ ~disturbed /\ ~rushed

Flags ==
  /\ rushed \in BOOLEAN /\ event_occured \in BOOLEAN /\ unhandled_backspace \in BOOLEAN
  /\ pc \in {"echo", "print", "event_done"} => event_occured
  /\ pc \in {"erase", "erase_done"} => unhandled_backspace

\* The screen is behind by one character at most, and the flags tell which way.
Screened ==
  /\ screen \in Seq(Chars)
  /\ IF Awaiting
     THEN /\ line # <<>> /\ Len(line) < BufferSize /\ Last(line) # NUL
          /\ Shows(Append(screen, Last(line)), line)
     ELSE IF Undone THEN screen # <<>> /\ Shows(Front(screen), line)
     ELSE Shows(screen, line)

EchoInv ==
  /\ Flags
  /\ (pc = "prompt" /\ ~disturbed /\ ~Pending) => Typed(line) = {}
  /\ Calm => Screened /\ ~(event_occured /\ unhandled_backspace)
  /\ Calm /\ pc = "print" => from = Len(line) - 1

\* A key that is not too quick comes when nothing is left to be echoed.
LEMMA QuietKey ==
  ASSUME EchoInv, IInv, ~Pending, ~Echoing, pc \in Listening, ~disturbed, ~rushed
  PROVE  screen \in Seq(Chars) /\ Shows(screen, line) /\ pc \notin {"echo", "print", "event_done", "erase", "erase_done"}
BY DEF EchoInv, Screened, Awaiting, Undone, Pending, Echoing, Calm

\* The character waits to be printed.
LEMMA CharacterEchoes ==
  ASSUME IInv, EchoInv, NEW ch \in Chars, ch # NUL, Character(ch), UNCHANGED <<pc, from, screen>>
  PROVE  EchoInv'
<1>1. event_occured' = TRUE /\ UNCHANGED <<unhandled_backspace, pc, from, screen>>
  BY DEF Character
<1>2. Flags'
  BY <1>1 DEF Character, EchoInv, Flags, Pending, Echoing
<1>3. ASSUME Calm'
      PROVE  /\ Screened' /\ ~unhandled_backspace' /\ pc' # "print"
  <2>1. /\ ~disturbed /\ ~rushed /\ ~Pending /\ ~Echoing /\ pc \in Listening
        /\ command_buffer_index + 1 < BufferSize /\ line' = Append(line, ch)
    <3>1. command_buffer_index \in Int /\ BufferSize \in Nat
      BY BufferInCells DEF IInv, TypesHold
    <3>2. ~disturbed' /\ ~rushed' /\ pc \in Listening
      BY <1>1, <1>3 DEF Calm
    <3>3. ~disturbed /\ line' = Append(line, ch)
      BY <3>2 DEF Character, Kept
    <3>4. ~rushed /\ ~Pending /\ ~Echoing /\ ~(command_buffer_index + 1 >= BufferSize)
      BY <3>2 DEF Character, i
    <3> QED
      BY <3>1, <3>2, <3>3, <3>4
  <2>2. screen \in Seq(Chars) /\ Shows(screen, line) /\ pc \notin {"print", "event_done"}
    BY <2>1, QuietKey
  <2>3. line \in Seq(Chars) /\ command_buffer_index = Len(line)
    BY <2>1 DEF IInv, TypesHold
  <2>4. /\ line' # <<>> /\ Len(line') = Len(line) + 1 /\ Last(line') = ch
    BY <2>1, <2>3 DEF Last
  <2>5. Shows(Append(screen, ch), line')
    BY <2>1, <2>2, <2>3, ShowsMore
  <2>6. Awaiting' /\ pc' # "print" /\ ~unhandled_backspace'
    BY <1>1, <2>1, <2>2 DEF Awaiting, Pending
  <2> QED
    BY <1>1, <2>1, <2>2, <2>3, <2>4, <2>5, <2>6 DEF Screened
<1> QED
  BY <1>1, <1>2, <1>3 DEF EchoInv, Pending

\* The last character waits to be taken back.
LEMMA BackspaceEchoes ==
  ASSUME IInv, EchoInv, Backspace, UNCHANGED <<pc, from, screen>>
  PROVE  EchoInv'
<1>1. unhandled_backspace' = TRUE /\ UNCHANGED <<event_occured, pc, from, screen>>
  BY DEF Backspace
<1>2. Flags'
  <2>1. rushed' \in BOOLEAN
    BY DEF Backspace, EchoInv, Flags
  <2> QED
    BY <1>1, <2>1 DEF EchoInv, Flags
<1>3. ASSUME Calm'
      PROVE  /\ Screened' /\ ~event_occured' /\ pc' # "print"
  <2>1. /\ ~disturbed /\ ~rushed /\ ~Pending /\ ~Echoing /\ pc \in Listening
        /\ Last(line) # NUL /\ line' = Front(line) /\ ~Outside(command_buffer_index - 1)
    BY <1>1, <1>3 DEF Backspace, Calm, Kept, i
  <2>2. screen \in Seq(Chars) /\ Shows(screen, line) /\ pc \notin {"print", "erase_done"}
    BY <2>1, QuietKey
  <2>3. line \in Seq(Chars) /\ command_buffer_index = Len(line)
    BY <2>1 DEF IInv, TypesHold
  <2>4. line # <<>>
    BY <2>1, <2>3, BufferInCells DEF Outside
  <2>5. screen # <<>> /\ Shows(Front(screen), line')
    BY <2>1, <2>2, <2>3, <2>4, ShowsLess
  <2>6. ~Awaiting' /\ Undone' /\ ~event_occured'
    BY <1>1, <2>1, <2>2 DEF Awaiting, Undone, Pending
  <2> QED
    BY <1>1, <2>2, <2>5, <2>6 DEF Screened
<1> QED
  BY <1>1, <1>2, <1>3 DEF EchoInv, Pending

\* A tab types nothing.
LEMMA TabEchoes ==
  ASSUME IInv, EchoInv, pc # "subscribe", Tab, UNCHANGED <<pc, from, screen>>
  PROVE  EchoInv'
<1> DEFINE n == ((IF command_buffer_index < 0 THEN 0 ELSE command_buffer_index \div 4) + 1) * 4
           gap == [c \in 1 .. n - Len(line) |-> NUL]
<1>1. UNCHANGED <<event_occured, unhandled_backspace, pc, from, screen>>
  BY DEF Tab
<1>2. Flags'
  BY <1>1 DEF Tab, EchoInv, Flags, Pending, Echoing
<1>3. ASSUME ~disturbed'
      PROVE  ~disturbed /\ Typed(line') = Typed(line) /\ \A text : Shows(text, line) => Shows(text, line')
  <2>1. line \in Seq(Chars) /\ NUL \in Chars /\ Len(line) \in Nat /\ ~disturbed /\ command_buffer_index = Len(line)
    BY <1>3 DEF IInv, TypesHold, Tab, Chars
  <2>2. n \in Nat /\ Len(line) < n
    BY <2>1
  <2>3. line' = line \o gap
    BY <1>3 DEF Tab, Kept, i
  <2> HIDE DEF n
  <2>4. gap \in Seq(Chars) /\ Len(gap) = n - Len(line) /\ \A c \in 1 .. n - Len(line) : gap[c] = NUL
    BY <2>1, <2>2
  <2> HIDE DEF gap
  <2>5. /\ line \o gap \in Seq(Chars)
        /\ Len(line \o gap) = Len(line) + Len(gap)
        /\ \A c \in 1 .. Len(line) + Len(gap) :
             (line \o gap)[c] = IF c <= Len(line) THEN line[c] ELSE gap[c - Len(line)]
    BY <2>1, <2>4, ConcatProperties, Zenon
  <2>6. Len(line) + Len(gap) = n
    BY <2>1, <2>2, <2>4
  <2>7. \A c \in 1 .. n : ~(c <= Len(line)) => gap[c - Len(line)] = NUL
    BY <2>1, <2>2, <2>4
  <2> DEFINE longer == line \o gap
  <2>8. longer \in Seq(Chars) /\ Len(longer) = n
        /\ \A c \in 1 .. Len(longer) : longer[c] = IF c <= Len(line) THEN line[c] ELSE NUL
    BY <2>5, <2>6, <2>7, Zenon
  <2> HIDE DEF longer
  <2>9. Typed(longer) = Typed(line) /\ \A text : Shows(text, line) => Shows(text, longer)
    BY <2>1, <2>2, <2>8, ShowsGap
  <2> QED
    BY <2>1, <2>3, <2>9 DEF longer
<1>4. ASSUME Calm'
      PROVE  /\ Screened' /\ ~Pending' /\ pc' # "print"
  <2>1. ~disturbed /\ ~rushed /\ ~Pending /\ ~Echoing /\ pc \in Listening
    BY <1>1, <1>4 DEF Tab, Calm
  <2>2. screen \in Seq(Chars) /\ Shows(screen, line) /\ pc # "print"
    BY <2>1, QuietKey
  <2>3. Shows(screen, line')
    BY <1>3, <1>4, <2>2 DEF Calm
  <2>4. ~Awaiting' /\ ~Undone' /\ ~Pending'
    BY <1>1, <2>1 DEF Awaiting, Undone, Pending
  <2> QED
    BY <1>1, <2>2, <2>3, <2>4 DEF Screened
<1> QED
  BY <1>1, <1>2, <1>3, <1>4 DEF EchoInv, Pending

\* Where the program is makes a difference after it has printed or taken back only.
LEMMA SameEcho ==
  ASSUME EchoInv, UNCHANGED <<event_occured, unhandled_backspace, line, disturbed, rushed, screen>>,
         pc' \in Listening => pc \in Listening,
         pc = "event_done" <=> pc' = "event_done", pc = "erase_done" <=> pc' = "erase_done",
         pc' \in {"echo", "print"} => event_occured, pc' = "erase" => unhandled_backspace,
         pc' # "prompt", Calm' /\ pc' = "print" => from' = Len(line') - 1
  PROVE  EchoInv'
BY DEF EchoInv, Flags, Calm, Screened, Awaiting, Undone

\* Whatever the key.
LEMMA KeyEchoes == IInv /\ EchoInv /\ Key => EchoInv'
<1> SUFFICES ASSUME IInv, EchoInv, Key PROVE EchoInv'
  OBVIOUS
<1>1. PICK scan : IF subscribed THEN KeyboardEvent(PacketOf(scan))
                  ELSE UNCHANGED <<shared, line, disturbed, stray, rushed>>
  BY DEF Key
<1>2. UNCHANGED <<pc, from, screen>>
  BY DEF Key, local
<1>3. CASE UNCHANGED <<event_occured, unhandled_backspace, line, disturbed, rushed>>
  BY <1>2, <1>3 DEF EchoInv, Flags, Screened, Calm, Awaiting, Undone, Pending
<1>4. CASE subscribed /\ KeyboardEvent(PacketOf(scan))
  <2> DEFINE p == PacketOf(scan)
             ch == kcascii(p.key_code, p.shifted, p.caps_lock)
  <2>1. pc # "subscribe"
    BY <1>4 DEF IInv
  <2>2. \/ UNCHANGED <<shared, line, disturbed, stray, rushed>>
        \/ Tab \/ Backspace \/ Enter \/ (Character(ch) /\ ch # NUL)
    BY <1>4 DEF KeyboardEvent
  <2>3. ch \in Chars
    BY CharacterOfKey
  <2> HIDE DEF ch
  <2>4. CASE UNCHANGED <<shared, line, disturbed, stray, rushed>>
    BY <1>3, <2>4 DEF shared
  <2>5. CASE Enter
    BY <1>3, <2>5 DEF Enter
  <2>6. CASE Character(ch) /\ ch # NUL
    BY <1>2, <2>3, <2>6, CharacterEchoes
  <2> QED
    BY <1>2, <2>1, <2>2, <2>4, <2>5, <2>6, TabEchoes, BackspaceEchoes
<1> QED
  BY <1>1, <1>3, <1>4 DEF shared

\* The character that waits is the whole string from its place on.
LEMMA OneCharacter ==
  ASSUME IInv, EchoInv, Calm, pc = "print"
  PROVE  StringAt(from) = <<Last(line)>>
<1>1. /\ line \in Seq(Chars) /\ line # <<>> /\ Len(line) < BufferSize /\ Last(line) # NUL
      /\ from = Len(line) - 1 /\ Holds(line)
  BY DEF EchoInv, Flags, Calm, Screened, Awaiting, IInv, TypesHold, Setup
<1>2. /\ Len(line) \in Nat \ {0} /\ from \in Buffer /\ from + 1 \in Buffer /\ from \in Nat
      /\ MaxIndex \in Nat /\ BufferSize <= MaxIndex
  BY <1>1, BufferInCells DEF Buffer
<1>3. memory[from] = Last(line) /\ memory[from + 1] = NUL
  BY <1>1, <1>2 DEF Holds, Last
<1> DEFINE ends == {e \in from .. MaxIndex : memory[e] = NUL} \cup {MaxIndex + 1}
           end == CHOOSE e \in ends : \A f \in ends : e <= f
<1>4. from + 1 \in ends /\ \A e \in ends : e \in Int /\ from + 1 <= e
  <2>1. from + 1 \in from .. MaxIndex
    <3>1. BufferSize \in Nat /\ from + 1 <= BufferSize - 1
      BY <1>2, BufferInCells DEF Buffer
    <3> QED
      BY <1>2, <3>1
  <2>2. ASSUME NEW e \in from .. MaxIndex, memory[e] = NUL PROVE from + 1 <= e
    <3>1. e # from
      BY <1>1, <1>3, <2>2
    <3> QED
      BY <1>2, <3>1
  <2> QED
    BY <1>2, <1>3, <2>1, <2>2 DEF Buffer
<1>5. end = from + 1
  <2> HIDE DEF ends
  <2>1. end \in ends /\ \A f \in ends : end <= f
    BY <1>4, Zenon
  <2> HIDE DEF end
  <2> QED
    BY <1>2, <1>4, <2>1
<1>6. from \in Cells
  BY <1>2, BufferInCells
<1>7. StringAt(from) = [n \in 1 .. end - from |-> memory[from + n - 1]]
  BY <1>6 DEF StringAt
<1> HIDE DEF end
<1>8. end - from = 1
  BY <1>2, <1>5
<1>9. \A n \in 1 .. 1 : memory[from + n - 1] = Last(line)
  BY <1>2, <1>3
<1> QED
  BY <1>7, <1>8, <1>9

\* The character is printed, and the screen has room for it.
LEMMA PrintEchoes == ASSUME IInv, EchoInv, PrintText PROVE EchoInv'
<1>1. /\ pc = "print" /\ pc' = "event_done" /\ event_occured
      /\ UNCHANGED <<event_occured, unhandled_backspace, line, disturbed, rushed>>
  BY DEF PrintText, Goto, shared, EchoInv, Flags
<1>2. ASSUME Calm' PROVE Screened' /\ ~unhandled_backspace'
  <2>1. Calm /\ Awaiting /\ ~Awaiting' /\ ~unhandled_backspace' /\ ~Undone'
    BY <1>1, <1>2 DEF Calm, Listening, Loop, Awaiting, Undone, EchoInv
  <2>2. /\ line \in Seq(Chars) /\ line # <<>> /\ Len(line) < BufferSize
        /\ Shows(Append(screen, Last(line)), line) /\ screen \in Seq(Chars)
    BY <2>1 DEF EchoInv, Screened, IInv, TypesHold
  <2>3. screen' = Capped(screen \o <<Last(line)>>)
    BY <1>1, <2>1, OneCharacter DEF PrintText, Printed, Calm
  <2> DEFINE more == Append(screen, Last(line))
  <2>4. Last(line) \in Chars /\ more \in Seq(Chars) /\ screen \o <<Last(line)>> = more
    BY <2>2 DEF Last
  <2> HIDE DEF more
  <2>5. Len(more) <= MaxScreen
    <3>1. Len(more) = Cardinality(Typed(line)) /\ Cardinality(Typed(line)) <= Len(line)
      BY <2>2, TypedFinite DEF Shows, more
    <3> QED
      BY <2>2, <3>1, ShellAssumption, TypedFinite
  <2>6. screen' = more
    BY <2>3, <2>4, <2>5 DEF Capped
  <2> QED
    BY <1>1, <2>1, <2>2, <2>4, <2>6 DEF Screened, more
<1> QED
  BY <1>1, <1>2 DEF EchoInv, Flags

\* Every step of the shell.
LEMMA StepEchoes == IInv /\ EchoInv /\ Step => EchoInv'
<1> SUFFICES ASSUME IInv, EchoInv, Step PROVE EchoInv'
  OBVIOUS
<1>1. CASE Subscribe \/ Allocate \/ Newline \/ PerformCommand
  BY <1>1, SameEcho
     DEF Subscribe, Allocate, Newline, PerformCommand, Goto, shared, ghosts, Listening, Loop, Test
<1>2. CASE Poll \/ TestEvent \/ TestBackspace
  BY <1>2, SameEcho DEF Poll, TestEvent, TestBackspace, Goto, shared, ghosts, Listening, Loop, Test
<1>3. CASE Wait
  BY <1>3, SameEcho DEF Wait, Goto, ghosts, Listening, Loop
<1>4. CASE Echo
  <2>1. ~disturbed => command_buffer_index = Len(line)
    BY DEF IInv
  <2> QED
    BY <1>4, <2>1, SameEcho DEF Echo, Goto, shared, ghosts, Listening, Loop, EchoInv, Flags, Calm, i
<1>5. CASE Clear
  <2>1. /\ pc \in {"clear_first", "clear"} /\ pc' = IF pc = "clear" THEN "reset" ELSE "prompt"
        /\ UNCHANGED <<event_occured, unhandled_backspace, line, disturbed, rushed>>
    BY <1>5 DEF Clear, Goto
  <2>2. ~disturbed' /\ pc' = "prompt" => Typed(line') = {}
    <3>1. Typed(<<>>) = {}
      BY DEF Typed
    <3> QED
      BY <2>1, <3>1 DEF IInv, Setup
  <2> QED
    BY <2>1, <2>2 DEF EchoInv, Flags, Calm, Listening, Loop
<1>6. CASE Reset
  <2>1. /\ pc' = "prompt" /\ line' = <<>> /\ Typed(<<>>) = {}
        /\ UNCHANGED <<event_occured, unhandled_backspace, rushed>>
    BY <1>6 DEF Reset, Goto, Typed
  <2> QED
    BY <2>1 DEF EchoInv, Flags, Calm, Listening, Loop
<1>7. CASE Prompt
  <2>1. /\ pc = "prompt" /\ pc' = "wait" /\ screen' = <<>> /\ rushed' = Pending
        /\ UNCHANGED <<event_occured, unhandled_backspace, line, disturbed>>
    BY <1>7 DEF Prompt, Goto, shared
  <2>2. ASSUME Calm' PROVE Screened' /\ ~Pending'
    <3>1. ~Pending /\ ~disturbed /\ Typed(line) = {}
      BY <2>1, <2>2 DEF Calm, EchoInv
    <3>2. Shows(<<>>, line) /\ <<>> \in Seq(Chars)
      BY <3>1, ShowsNothing
    <3> QED
      BY <2>1, <3>1, <3>2 DEF Screened, Awaiting, Undone, Pending
  <2>3. Pending \in BOOLEAN
    BY DEF Pending, EchoInv, Flags
  <2> QED
    BY <2>1, <2>2, <2>3 DEF EchoInv, Flags, Pending
<1>8. CASE PrintText
  BY <1>8, PrintEchoes
<1>9. CASE EventDone
  <2>1. /\ pc = "event_done" /\ pc' = "test_backspace" /\ event_occured' = FALSE
        /\ UNCHANGED <<unhandled_backspace, line, disturbed, screen, rushed>>
    BY <1>9 DEF EventDone, Goto, ghosts
  <2>2. ASSUME Calm' PROVE Screened'
    <3>1. Calm /\ event_occured /\ ~unhandled_backspace /\ ~Awaiting /\ ~Undone
      BY <2>1, <2>2 DEF Calm, Listening, Loop, EchoInv, Flags, Awaiting, Undone
    <3> QED
      BY <2>1, <3>1 DEF EchoInv, Screened, Awaiting, Undone
  <2> QED
    BY <2>1, <2>2 DEF EchoInv, Flags
<1>10. CASE Erase
  <2>1. /\ pc = "erase" /\ pc' = "erase_done" /\ screen' = IF screen = <<>> THEN screen ELSE Front(screen)
        /\ UNCHANGED <<event_occured, unhandled_backspace, line, disturbed, rushed>>
    BY <1>10 DEF Erase, Goto, shared
  <2>2. ASSUME Calm' PROVE Screened' /\ ~event_occured
    <3>1. Calm /\ unhandled_backspace /\ ~event_occured /\ ~Awaiting /\ Undone
      BY <2>1, <2>2 DEF Calm, Listening, Loop, EchoInv, Flags, Awaiting, Undone
    <3>2. screen \in Seq(Chars) /\ screen # <<>> /\ Shows(Front(screen), line)
      BY <3>1 DEF EchoInv, Screened
    <3>3. Front(screen) \in Seq(Chars)
      BY <3>2 DEF Front
    <3> QED
      BY <2>1, <3>1, <3>2, <3>3 DEF Screened, Awaiting, Undone
  <2> QED
    BY <2>1, <2>2 DEF EchoInv, Flags
<1>11. CASE EraseDone
  <2>1. /\ pc = "erase_done" /\ pc' = "poll" /\ unhandled_backspace' = FALSE
        /\ UNCHANGED <<event_occured, line, disturbed, screen, rushed>>
    BY <1>11 DEF EraseDone, Goto, ghosts
  <2>2. ASSUME Calm' PROVE Screened'
    <3>1. Calm /\ unhandled_backspace /\ ~event_occured /\ ~Awaiting /\ ~Undone
      BY <2>1, <2>2 DEF Calm, Listening, Loop, EchoInv, Flags, Awaiting, Undone
    <3> QED
      BY <2>1, <3>1 DEF EchoInv, Screened, Awaiting, Undone
  <2> QED
    BY <2>1, <2>2 DEF EchoInv, Flags
<1> QED
  BY <1>1, <1>2, <1>3, <1>4, <1>5, <1>6, <1>7, <1>8, <1>9, <1>10, <1>11 DEF Step

\* When the loop waits, the screen shows the line, whatever was typed, taken back and
\* tabbed over, at whatever steps of the program that are not excluded by name.
THEOREM EchoComplete == Spec => []EchoIsComplete
<1>1. Init => EchoInv
  BY DEF Init, EchoInv, Flags, Calm, Listening, Loop
<1>2. IInv /\ EchoInv /\ [Next]_vars => EchoInv'
  <2> SUFFICES ASSUME IInv, EchoInv, [Next]_vars PROVE EchoInv'
    OBVIOUS
  <2>1. CASE UNCHANGED vars
    BY <2>1 DEF vars, shared, local, ghosts, EchoInv, Flags, Calm, Screened, Awaiting, Undone, Pending
  <2> QED
    BY <2>1, KeyEchoes, StepEchoes DEF Next
<1>3. EchoInv => EchoIsComplete
  BY DEF EchoInv, EchoIsComplete, Calm, Listening, Loop, Screened, Awaiting, Undone, Pending
<1> QED
  BY <1>1, <1>2, <1>3, Invariance, PTL DEF Spec
=============================================================================
