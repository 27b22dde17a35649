SPECIFICATION PanicSpec
CONSTANTS
  framebuffer_width = 128
  framebuffer_height = 27
  Texts <- MCTexts
  Reports <- ReportTexts
  MaxWrites = 4
  ShortBits = 4
  IntBits = 6
  LongBits = 8
  Symtab <- MCSymtab
  KernelEnd = 40
  Crashes <- MCCrashes
  Directives <- MCDirectives
  Slots <- MCSlots
INVARIANTS ScreenShowsBuffer TraceNamesCallers ReportTellsCrash PrintsAsC
PROPERTY ImplementsTerminal
CHECK_DEADLOCK FALSE
