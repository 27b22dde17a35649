SPECIFICATION PciSpec
CONSTANTS
  PageSize = 4
  MiB = 8
  ByteBits = 8
  Wrap = 128
  KernelStart = 184
  KernelSize = 7
  MemoryMaps <- Maps
  Entries = 4
  FramebufferPage = 80
  FramebufferSizes = {3, 12}
  FramebufferSlack = 1
  HeapPage = 128
  HeapLoop = 2
  UserEntry = 46
  StackCalls = 10
  MaxUserPages = 1
  Acpi <- AcpiAt
  Mcfg <- TwoSegments
  Devices = 4
  Functions = 2
  CommandSlots = 2
  TablesPerPage = 1
  ConfigSpaces <- Plugged
INVARIANTS
  TablesReachable
  TableTree
  NestingBounded
  UserReachesOnlyDonated
  KernelLostOnlyToBuffer
  
  ControllersInOrder
PROPERTIES
  OnlyTheRequestedPage
CHECK_DEADLOCK FALSE
