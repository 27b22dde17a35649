---------------------------- MODULE TimerProofs ----------------------------
(***************************************************************************)
(* Proofs about Timer: for every frequency, duration and bound, no sleep is*)
(* short, and the variables keep their types.                              *)
(***************************************************************************)
EXTENDS Timer, TLAPS

Labels ==
  {"set_c0", "pit_init", "speaker_init", "idle", "play", "open_gate", "sleep",
   "cli", "read", "compare", "sti", "nops", "done", "slept", "lowest_tone"}

\* The instructions of sleep after its first, and those where interrupts are off.
Loop == {"cli", "read", "compare", "sti", "nops", "done"}
Closed == {"read", "compare", "sti", "done"}

Types ==
  /\ pc \in Labels /\ pending \in BOOLEAN /\ interrupts \in BOOLEAN /\ masked \in BOOLEAN
  /\ ms_clock \in Nat /\ ms_clock <= MaxClock
  /\ raised \in Nat /\ raised <= MaxClock
  /\ rax \in Nat /\ rbx \in Nat
  /\ tone \in Nat /\ (pc = "play" => tone # 0)
  /\ duration \in Nat /\ (pc \notin {"set_c0", "pit_init", "speaker_init", "idle"} =>
                            duration + 2 <= MaxClock)

\* Divisors and the counter of milliseconds, which is 0 until there is a frequency.
Channels ==
  /\ frequency_hz \in {0, Hz} /\ milliseconds \in Nat
  /\ IF frequency_hz = 0 THEN milliseconds = 0 ELSE milliseconds < frequency_hz
  /\ divisor \in 0 .. Word - 1 /\ c2_divisor \in 0 .. Word - 1 /\ gate \subseteq {0, 1}

\* Wherever sleep is called, a tick that waits is delivered first.
Window ==
  /\ pc \notin {"set_c0", "pit_init"} => ~masked
  /\ interrupts = (pc \notin Closed)

\* Every tick the clock has counted since sleep was called, and the one that
\* waits, was raised since then.
Counted ==
  pc \in Loop =>
    /\ rax = duration
    /\ \/ raised = MaxClock
       \/ ms_clock <= raised /\ (pending => ms_clock + 1 <= raised)

\* What sleep compares is no later than the clock, which stands still meanwhile.
Compared ==
  /\ pc \in {"compare", "done"} => rbx <= ms_clock
  /\ pc = "done" => rbx > rax

Inv == Types /\ Channels /\ Window /\ Counted /\ Compared /\ SleepsLongEnough

-----------------------------------------------------------------------------
\* The bounded counter stays in range and loses nothing below its bound.
LEMMA CappedBounds ==
  ASSUME NEW n \in Nat
  PROVE  /\ Capped(n) \in Nat /\ Capped(n) <= MaxClock /\ Capped(n) <= n
         /\ Capped(n) = MaxClock \/ Capped(n) = n
  BY TimerAssumption DEF Capped

\* A divisor fits its word.
LEMMA DivisorFits ==
  ASSUME NEW hz \in Nat, hz # 0
  PROVE  (Base \div hz) % Word \in 0 .. Word - 1
<1>1. Base \div hz \in Int
  BY TimerAssumption
<1> QED
  BY <1>1, TimerAssumption

\* The start: no tick was counted.
LEMMA InitInv == Init => Inv
<1> SUFFICES ASSUME Init PROVE Inv
  OBVIOUS
<1>1. 0 \in 0 .. Word - 1 /\ 0 <= MaxClock
  BY TimerAssumption
<1>2. Types
  BY <1>1, TimerAssumption DEF Init, Types, Labels
<1>3. Channels
  BY <1>1, TimerAssumption DEF Init, Channels
<1>4. Window /\ Counted /\ Compared /\ SleepsLongEnough
  BY DEF Init, Window, Closed, Counted, Loop, Compared, SleepsLongEnough
<1> QED
  BY <1>2, <1>3, <1>4 DEF Inv

\* The timer raises a tick: ghost and clock stay in step.
LEMMA RaiseInv == Inv /\ Raise => Inv'
<1> SUFFICES ASSUME Inv, Raise PROVE Inv'
  OBVIOUS
<1> USE DEF Inv
<1>1. raised + 1 \in Nat /\ raised' = Capped(raised + 1)
  BY DEF Raise, Types
<1>2. raised' \in Nat /\ raised' <= MaxClock /\ (raised' = MaxClock \/ raised' = raised + 1)
  BY <1>1, CappedBounds
<1>3. Types'
  BY <1>2 DEF Raise, Types, callVars, clockVars
<1>4. Channels' /\ Window' /\ Compared'
  BY DEF Raise, Channels, Window, Compared, clockVars, pitVars, callVars
<1>5. Counted'
  BY <1>2, TimerAssumption DEF Raise, Counted, Types, clockVars, callVars
<1>6. SleepsLongEnough'
  BY <1>2, TimerAssumption DEF Raise, SleepsLongEnough, Types, callVars
<1> QED
  BY <1>3, <1>4, <1>5, <1>6

\* The handler counts the tick it was called for; interrupts are on, so sleep is
\* not between its read and its compare.
LEMMA TickInv == Inv /\ Tick => Inv'
<1> SUFFICES ASSUME Inv, Tick PROVE Inv'
  OBVIOUS
<1> USE DEF Inv
<1>1. ms_clock + 1 \in Nat /\ ms_clock' = Capped(ms_clock + 1)
  BY DEF Tick, Types
<1>2. ms_clock' \in Nat /\ ms_clock' <= MaxClock /\ ms_clock' <= ms_clock + 1
  BY <1>1, CappedBounds
<1>3. pending /\ interrupts /\ pc \notin Closed
  BY DEF Tick, Deliverable, Window
<1>4. Types'
  BY <1>2 DEF Tick, Types, callVars
<1>5. Channels'
  BY TimerAssumption DEF Tick, Channels, SecondEnds, pitVars
<1>6. Window' /\ SleepsLongEnough'
  BY DEF Tick, Window, SleepsLongEnough, callVars
<1>7. Counted'
  BY <1>2, <1>3 DEF Tick, Counted, Types, callVars
<1>8. Compared'
  BY <1>3 DEF Tick, Compared, Closed
<1> QED
  BY <1>4, <1>5, <1>6, <1>7, <1>8

\* Driver code outside sleep.
LEMMA DriverInv ==
  Inv /\ (SetC0 \/ PitInit \/ SpeakerInit \/ PlaySound \/ OpenGate \/ CloseGate \/ LowestTone)
    => Inv'
<1> USE DEF Inv, Run, clockVars, callVars, pitVars
<1>1. ASSUME Inv, SetC0 PROVE Inv'
  <2>1. (Base \div Hz) % Word \in 0 .. Word - 1
    BY DivisorFits, TimerAssumption
  <2>2. Types' /\ Window' /\ Counted' /\ Compared' /\ SleepsLongEnough'
    BY <1>1 DEF SetC0, Types, Labels, Window, Closed, Counted, Loop, Compared, SleepsLongEnough
  <2>3. Channels'
    BY <1>1, <2>1, TimerAssumption DEF SetC0, Channels
  <2> QED BY <2>2, <2>3
<1>2. ASSUME Inv, PitInit PROVE Inv'
  BY <1>2 DEF PitInit, Types, Labels, Channels, Window, Closed, Counted, Loop, Compared, SleepsLongEnough
<1>3. ASSUME Inv, SpeakerInit PROVE Inv'
  BY <1>3 DEF SpeakerInit, Types, Labels, Channels, Window, Closed, Counted, Loop, Compared, SleepsLongEnough
<1>4. ASSUME Inv, PlaySound PROVE Inv'
  <2>1. (Base \div tone) % Word \in 0 .. Word - 1
    BY <1>4, DivisorFits DEF PlaySound, Types
  <2>2. Types' /\ Window' /\ Counted' /\ Compared' /\ SleepsLongEnough'
    BY <1>4 DEF PlaySound, SetC2, Types, Labels, Window, Closed, Counted, Loop, Compared, SleepsLongEnough
  <2>3. Channels'
    BY <1>4, <2>1 DEF PlaySound, SetC2, Channels
  <2> QED BY <2>2, <2>3
<1>5. ASSUME Inv, OpenGate PROVE Inv'
  BY <1>5 DEF OpenGate, Types, Labels, Channels, Window, Closed, Counted, Loop, Compared, SleepsLongEnough
<1>6. ASSUME Inv, CloseGate PROVE Inv'
  BY <1>6 DEF CloseGate, Types, Labels, Channels, Window, Closed, Counted, Loop, Compared, SleepsLongEnough
<1>7. ASSUME Inv, LowestTone PROVE Inv'
  <2>1. (Base \div 1) % Word \in 0 .. Word - 1
    BY DivisorFits
  <2>2. Types' /\ Window' /\ Counted' /\ Compared' /\ SleepsLongEnough'
    BY <1>7 DEF LowestTone, SetC2, Types, Labels, Window, Closed, Counted, Loop, Compared, SleepsLongEnough
  <2>3. Channels'
    BY <1>7, <2>1 DEF LowestTone, SetC2, Channels
  <2> QED BY <2>2, <2>3
<1> QED
  BY <1>1, <1>2, <1>3, <1>4, <1>5, <1>6, <1>7

\* beep is called with what its caller may ask for.
LEMMA BeepInv == Inv /\ Beep => Inv'
<1> SUFFICES ASSUME Inv, Beep PROVE Inv'
  OBVIOUS
<1> USE DEF Inv, Run, clockVars, pitVars
<1>1. tone' \in Nat \ {0} /\ duration' \in Nat /\ duration' + 2 <= MaxClock
  BY TimerAssumption DEF Beep
<1>2. Types'
  BY <1>1 DEF Beep, Types, Labels
<1>3. Channels' /\ Window' /\ Counted' /\ Compared' /\ SleepsLongEnough'
  BY DEF Beep, Channels, Window, Closed, Counted, Loop, Compared, SleepsLongEnough
<1> QED
  BY <1>2, <1>3

\* The instructions of sleep.
LEMMA SleepInv ==
  Inv /\ (SleepCalled \/ Cli \/ ReadClock \/ Compare \/ Sti \/ Nops \/ Done) => Inv'
<1> USE DEF Inv, Run, InSleep, clockVars, pitVars
<1>1. ASSUME Inv, SleepCalled PROVE Inv'
  <2>1. ~pending
    BY <1>1 DEF SleepCalled, Deliverable, Window, Closed
  <2>2. Types' /\ Channels'
    BY <1>1, TimerAssumption DEF SleepCalled, Types, Labels, Channels
  <2>3. Window' /\ Compared' /\ SleepsLongEnough'
    BY <1>1 DEF SleepCalled, Window, Closed, Compared, SleepsLongEnough
  <2>4. Counted'
    BY <1>1, <2>1 DEF SleepCalled, Counted
  <2> QED BY <2>2, <2>3, <2>4
<1>2. ASSUME Inv, Cli PROVE Inv'
  BY <1>2 DEF Cli, Types, Labels, Channels, Window, Closed, Counted, Loop, Compared, SleepsLongEnough
<1>3. ASSUME Inv, ReadClock PROVE Inv'
  BY <1>3 DEF ReadClock, Types, Labels, Channels, Window, Closed, Counted, Loop, Compared, SleepsLongEnough
<1>4. ASSUME Inv, Compare PROVE Inv'
  BY <1>4 DEF Compare, Past, Types, Labels, Channels, Window, Closed, Counted, Loop, Compared, SleepsLongEnough
<1>5. ASSUME Inv, Sti PROVE Inv'
  BY <1>5 DEF Sti, Types, Labels, Channels, Window, Closed, Counted, Loop, Compared, SleepsLongEnough
<1>6. ASSUME Inv, Nops PROVE Inv'
  BY <1>6 DEF Nops, Types, Labels, Channels, Window, Closed, Counted, Loop, Compared, SleepsLongEnough
<1>7. ASSUME Inv, Done PROVE Inv'
  <2>1. raised > duration
    BY <1>7 DEF Done, Types, Counted, Loop, Compared
  <2>2. Types' /\ Channels' /\ Window' /\ Counted' /\ Compared'
    BY <1>7 DEF Done, Types, Labels, Channels, Window, Closed, Counted, Loop, Compared
  <2>3. SleepsLongEnough'
    BY <1>7, <2>1 DEF Done, SleepsLongEnough
  <2> QED BY <2>2, <2>3
<1> QED
  BY <1>1, <1>2, <1>3, <1>4, <1>5, <1>6, <1>7

-----------------------------------------------------------------------------
\* The invariant holds in every state the kernel reaches.
THEOREM Invariance == Spec => []Inv
<1>1. Inv /\ [Next]_vars => Inv'
  <2> SUFFICES ASSUME Inv, [Next]_vars PROVE Inv'
    OBVIOUS
  <2>1. CASE Next
    BY <2>1, RaiseInv, TickInv, DriverInv, BeepInv, SleepInv DEF Next, Instruction
  <2>2. CASE UNCHANGED vars
    BY <2>2 DEF vars, clockVars, pitVars, callVars, Inv, Types, Channels, Window, Counted,
                Compared, SleepsLongEnough
  <2> QED BY <2>1, <2>2
<1> QED
  BY InitInv, <1>1, PTL DEF Spec

\* No sleep is short: for every duration, wherever in sleep.asm the ticks fall,
\* more periods of the timer than asked for have begun when it returns.
THEOREM NoShortSleep == Spec => []SleepsLongEnough
<1>1. Inv => SleepsLongEnough
  BY DEF Inv
<1> QED
  BY Invariance, <1>1, PTL

\* The variables of the timer and of sleep keep their types, and the milliseconds of
\* the current second stay below the frequency.
THEOREM TypeCorrect == Spec => []TypeOK
<1>1. Inv => TypeOK
  BY TimerAssumption DEF Inv, Types, Channels, Window, Closed, TypeOK
<1> QED
  BY Invariance, <1>1, PTL

=============================================================================
