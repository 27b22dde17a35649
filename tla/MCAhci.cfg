SPECIFICATION Spec
CONSTANTS
  heap_start = 32
  HeapLength = 480
  Wide = 65536
  MaxSegments = 5
  Machines <- MCMachines
  PageUnits = 4
  Slots = 8
  PortCount = 3
  MaxCommands = 2
INVARIANTS PortsKept StructuresApart TableIsFree 
PROPERTIES SetUpAtRest InitializeReturns CommandReturns
CHECK_DEADLOCK FALSE
