SPECIFICATION Spec
CONSTANTS
  Hz = 2
  Base = 40
  Word = 32
  Tones <- MCTones
  Durations <- MCDurations
  MaxClock = 4
INVARIANTS TypeOK SleepsLongEnough 
PROPERTY SleepReturns
