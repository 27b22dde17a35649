SPECIFICATION Spec
CONSTANTS
  PageSize = 4
  MiB = 8
  ByteBits = 2
  Wrap = 32
  KernelStart = 12
  KernelSize = 3
  MemoryMaps <- Maps
INVARIANTS
  OneOwner
  Accounting
  PreciousNeverHandedOut
PROPERTIES
  ImplementsFrameAllocator
