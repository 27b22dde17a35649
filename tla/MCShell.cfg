SPECIFICATION Spec
CONSTANTS
  Keys <- MCKeys
  kbdus <- MCkbdus
  kbdus_s <- MCkbdus_s
  kbdus_sc <- MCkbdus_sc
  Commands <- MCCommands
  BufferSize = 3
  MaxIndex = 5
  MaxScreen = 4
INVARIANTS BufferIsLine EchoIsComplete
PROPERTY EnterIsHeard
