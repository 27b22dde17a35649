-------------------------------- MODULE Timer --------------------------------
(***************************************************************************)
(* The timer: scheduling/timer.cpp, the tick in irq_handler, sleep         *)
(* (scheduling/sleep.asm) instruction by instruction, and the beeper, which*)
(* is what sleeps.  The interval timer and the interrupt controller are    *)
(* external: channel 0 raises a tick, channel 2 makes the tone.            *)
(***************************************************************************)
EXTENDS Integers

CONSTANTS
  Hz,                 \* what kmain asks of channel 0: 1000
  Base,               \* the timer's own frequency: 1193182
  Word,               \* 2^16, the width of a divisor
  Tones, Durations,   \* what beep is called with
  MaxClock            \* bound: ms_clock and raised stay at it, seconds wraps at it

ASSUME TimerAssumption ==
  /\ Hz \in Nat \ {0} /\ Base \in Nat /\ Word \in Nat \ {0}
  /\ Tones \subseteq Nat \ {0} /\ Durations \subseteq Nat
  /\ MaxClock \in Nat /\ \A d \in Durations : d + 2 <= MaxClock

VARIABLES
  frequency_hz, divisor, c2_frequency_hz, c2_divisor,
  channel2,           \* the divisor channel 2 was given
  gate,               \* bits 0 and 1 of port 0x61
  ms_clock, milliseconds, seconds,
  masked,             \* the timer's bit in the interrupt controller
  interrupts,         \* the interrupt flag
  pending,            \* a tick waits to be delivered
  pc,
  rax, rbx,
  tone, duration,     \* the arguments of beep
  raised              \* ghost: ticks the timer raised since sleep was called

clockVars == <<ms_clock, milliseconds, seconds>>
pitVars == <<frequency_hz, divisor, c2_frequency_hz, c2_divisor, channel2, gate>>
callVars == <<tone, duration>>
vars == <<clockVars, pitVars, callVars, masked, interrupts, pending, pc, rax, rbx, raised>>

Capped(n) == IF n > MaxClock THEN MaxClock ELSE n

\* kmain has switched interrupts on; the masks are those the firmware left.
Init ==
  /\ frequency_hz = 0 /\ divisor = 0 /\ c2_frequency_hz = 0 /\ c2_divisor = 0
  /\ channel2 = 0 /\ gate = {}
  /\ ms_clock = 0 /\ milliseconds = 0 /\ seconds = 0
  /\ masked \in BOOLEAN /\ interrupts = TRUE /\ pending = FALSE
  /\ pc = "set_c0" /\ rax = 0 /\ rbx = 0
  /\ tone = 0 /\ duration = 0 /\ raised = 0

-----------------------------------------------------------------------------
\* Channel 0 runs whatever the driver does.  A tick that finds one waiting is lost.
Raise ==
  /\ pending' = TRUE /\ raised' = Capped(raised + 1)
  /\ UNCHANGED <<clockVars, pitVars, callVars, masked, interrupts, pc, rax, rbx>>

Deliverable == pending /\ interrupts /\ ~masked

\* Slip: a second has one millisecond more.
SecondLate(ms) == ms > frequency_hz

SecondEnds(ms) == ms >= frequency_hz

\* irq_handler for the timer, between two instructions.
Tick ==
  /\ Deliverable
  /\ pending' = FALSE
  /\ ms_clock' = Capped(ms_clock + 1)
  /\ IF SecondEnds(milliseconds + 1)
     THEN milliseconds' = 0 /\ seconds' = (seconds + 1) % MaxClock
     ELSE milliseconds' = milliseconds + 1 /\ seconds' = seconds
  /\ UNCHANGED <<pitVars, callVars, masked, interrupts, pc, rax, rbx, raised>>

\* An instruction of the kernel; a tick that can be delivered goes first.
Run(label, to) ==
  /\ pc = label /\ pc' = to /\ ~Deliverable
  /\ UNCHANGED <<clockVars, pending>>

\* set_c0_frequency and pit_init.  Between its cli and its sti nothing else runs.
SetC0 ==
  /\ Run("set_c0", "pit_init")
  /\ frequency_hz' = Hz /\ divisor' = (Base \div Hz) % Word /\ interrupts' = TRUE
  /\ UNCHANGED <<c2_frequency_hz, c2_divisor, channel2, gate, callVars, masked, rax, rbx, raised>>

PitInit ==
  /\ Run("pit_init", "speaker_init") /\ masked' = FALSE
  /\ UNCHANGED <<pitVars, callVars, interrupts, rax, rbx, raised>>

\* pcspk::init
SpeakerInit ==
  /\ Run("speaker_init", "idle") /\ gate' = gate \cup {0}
  /\ UNCHANGED <<frequency_hz, divisor, c2_frequency_hz, c2_divisor, channel2, callVars, masked,
                 interrupts, rax, rbx, raised>>

\* set_c2_frequency writes the other channel's divisor to the timer.
SetC2(hz) ==
  /\ c2_frequency_hz' = hz /\ c2_divisor' = (Base \div hz) % Word
  /\ channel2' = divisor /\ interrupts' = TRUE
  /\ UNCHANGED <<frequency_hz, divisor>>

\* beep(frequency, duration): play_sound, which sets the frequency and then
\* opens the gate, sleep, stop_sound, and the lowest tone.
Beep ==
  /\ Run("idle", "play")
  /\ tone' \in Tones /\ duration' \in Durations
  /\ UNCHANGED <<pitVars, masked, interrupts, rax, rbx, raised>>

PlaySound ==
  /\ Run("play", "open_gate") /\ SetC2(tone)
  /\ UNCHANGED <<gate, callVars, masked, rax, rbx, raised>>

OpenGate ==
  /\ Run("open_gate", "sleep") /\ gate' = gate \cup {0, 1}
  /\ UNCHANGED <<frequency_hz, divisor, c2_frequency_hz, c2_divisor, channel2, callVars, masked,
                 interrupts, rax, rbx, raised>>

CloseGate ==
  /\ Run("slept", "lowest_tone") /\ gate' = gate \ {0, 1}
  /\ UNCHANGED <<frequency_hz, divisor, c2_frequency_hz, c2_divisor, channel2, callVars, masked,
                 interrupts, rax, rbx, raised>>

LowestTone ==
  /\ Run("lowest_tone", "idle") /\ SetC2(1)
  /\ UNCHANGED <<gate, callVars, masked, rax, rbx, raised>>

-----------------------------------------------------------------------------
(* sleep.                                                                  *)

InSleep == UNCHANGED <<pitVars, tone, duration, masked>>

\* mov [ms_clock], 0 and mov eax, edi.
SleepCalled ==
  /\ pc = "sleep" /\ pc' = "cli" /\ ~Deliverable
  /\ ms_clock' = 0 /\ rax' = duration /\ raised' = 0
  /\ UNCHANGED <<milliseconds, seconds, pending, interrupts, rbx>> /\ InSleep

Cli ==
  /\ Run("cli", "read") /\ interrupts' = FALSE
  /\ UNCHANGED <<rax, rbx, raised>> /\ InSleep

ReadClock ==
  /\ Run("read", "compare") /\ rbx' = ms_clock
  /\ UNCHANGED <<interrupts, rax, raised>> /\ InSleep

\* Slip: jge
AtLeast(clock, ms) == clock >= ms

Past(clock, ms) == clock > ms

Compare ==
  /\ Run("compare", IF Past(rbx, rax) THEN "done" ELSE "sti")
  /\ UNCHANGED <<interrupts, rax, rbx, raised>> /\ InSleep

\* Slip: interrupts stay off.
NoSti ==
  /\ Run("sti", "nops")
  /\ UNCHANGED <<interrupts, rax, rbx, raised>> /\ InSleep

Sti ==
  /\ Run("sti", "nops") /\ interrupts' = TRUE
  /\ UNCHANGED <<rax, rbx, raised>> /\ InSleep

Nops ==
  /\ Run("nops", "cli")
  /\ UNCHANGED <<interrupts, rax, rbx, raised>> /\ InSleep

\* The last sti; rax is popped, rbx is not.
Done ==
  /\ Run("done", "slept") /\ interrupts' = TRUE
  /\ UNCHANGED <<rax, rbx, raised>> /\ InSleep

Instruction ==
  \/ SetC0 \/ PitInit \/ SpeakerInit \/ PlaySound \/ OpenGate \/ CloseGate \/ LowestTone
  \/ SleepCalled \/ Cli \/ ReadClock \/ Compare \/ Sti \/ Nops \/ Done

Next == Raise \/ Tick \/ Instruction \/ Beep

\* The processor runs on, also when ticks keep coming (one takes a fraction of a
\* millisecond); it delivers what it can, and the timer goes on raising ticks.
Spec ==
  /\ Init /\ [][Next]_vars
  /\ SF_vars(Instruction) /\ WF_vars(Tick) /\ WF_vars(Raise)

-----------------------------------------------------------------------------
\* Type invariant.
TypeOK ==
  /\ divisor \in 0 .. Word - 1 /\ c2_divisor \in 0 .. Word - 1 /\ gate \subseteq {0, 1}
  /\ ms_clock \in 0 .. MaxClock /\ raised \in 0 .. MaxClock
  /\ frequency_hz \in {0, Hz} /\ (frequency_hz # 0 => milliseconds < frequency_hz)
  /\ pc \in {"read", "compare", "sti", "done"} => ~interrupts

\* sleep lasts for as many whole periods of the timer as was asked for: the first
\* tick may come at once, so it takes one more.
SleepsLongEnough == pc = "slept" => raised > duration

\* sleep returns: its loop opens a window for the tick it waits for.
SleepReturns == pc = "sleep" ~> pc = "slept"

=============================================================================
