-------------------------------- MODULE Pci ---------------------------------
(***************************************************************************)
(* configure_pci of boot/kconf.cpp: get_table of acpi.cpp looks for the    *)
(* MCFG, and enumerate_pci of pci.cpp walks the configuration space it     *)
(* describes and initializes every AHCI controller on it.  Each header is  *)
(* mapped before it is read, while map_memory works on the same page       *)
(* tables as the rest of the boot and the ports take memory from the same  *)
(* manager: the module composes the loops with modules Boot, Paging, Pmm.  *)
(*                                                                         *)
(* What initialize does with the registers of a port is module Ahci; here  *)
(* it is only the memory it takes and the addresses it uses.               *)
(***************************************************************************)
EXTENDS Boot

CONSTANTS
  Acpi(_),        \* where the ACPI structures are, given the memory map: the
                  \* pages of the RSDP and of the XSDT (rsdp, xsdt), and tables,
                  \* what the XSDT lists in its order, by signature and pages
  Mcfg,           \* the device_configurations: base (a page), start_bus, end_bus
  Devices,        \* devices on a bus: 32
  Functions,      \* functions of a device, a page each: 8
  CommandSlots,   \* commands a port has room for, with a table each: 32
  TablesPerPage,  \* command tables in a page, at 256 bytes: 16
  ConfigSpaces    \* what may be plugged in: <<configuration, bus, device,
                  \* function>> to device_id, class, abar and the number of
                  \* ports with a drive, drives

VARIABLES
  config,         \* the configuration space of this machine
  walk,           \* the loop counters: configuration, bus, device, function
  usable_ports,   \* the ports probe_ports has found on all controllers
  found,          \* ghost: the functions given to ahci::initialize, in order
  strayed         \* ghost: the pages used while they were not mapped to themselves

pciVars == <<config, walk, usable_ports, found, strayed>>
everyVar == <<vars, pciVars>>

\* ACPI's structures, the configuration space and the controllers' registers are at
\* addresses that exist, and a function is on a device of a bus.
ASSUME PciAssumption ==
  /\ Devices \in Nat /\ Functions \in Nat
  /\ TablesPerPage \in Nat \ {0} /\ CommandSlots \in 1 .. 2 * TablesPerPage
  /\ Mcfg \in Seq([base : Nat, start_bus : Nat, end_bus : Nat])
  /\ \A n \in DOMAIN Mcfg :
       Mcfg[n].base + (Mcfg[n].end_bus * Devices * Functions) \in VirtualPages
  /\ \A mm \in MemoryMaps :
       /\ Acpi(mm).rsdp \cup Acpi(mm).xsdt \subseteq VirtualPages
       /\ Acpi(mm).tables \in Seq([signature : STRING, pages : SUBSET VirtualPages])
  /\ \A c \in ConfigSpaces :
       /\ DOMAIN c \subseteq Nat \X Nat \X (0 .. Devices - 1) \X (0 .. Functions - 1)
       /\ \A w \in DOMAIN c : c[w].abar \in VirtualPages /\ c[w].drives \in Nat

PciInit ==
  /\ Init
  /\ config \in ConfigSpaces
  /\ walk = <<>> /\ usable_ports = 0 /\ found = <<>> /\ strayed = {}

-----------------------------------------------------------------------------
\* The table with the signature, the first if there are several.
get_table(xsdt, signature) == SelectInSeq(xsdt, LAMBDA table : table.signature = signature)

\* A bus is where its first device is, a device where its first function is.
FirstFunction(w) == w \o [k \in 1 .. 4 - Len(w) |-> 0]

\* base + (bus << 20) + (device << 15) + (function << 12), in pages.
Address(w) ==
  LET f == FirstFunction(w)
  IN  Mcfg[f[1]].base + (f[2] * Devices + f[3]) * Functions + f[4]

\* Where nothing answers, every bit is read as 1.
AllOnes == [device_id |-> 65535, class |-> <<255, 255, 255>>, abar |-> 0, drives |-> 0]

Header(w) ==
  IF FirstFunction(w) \in DOMAIN config THEN config[FirstFunction(w)] ELSE AllOnes

IsPresent(w) == Header(w).device_id \notin {0, 65535}

\* Mass storage, serial ATA, AHCI 1.0.
IsAhci(w) == Header(w).class = <<1, 6, 1>>

\* Slip: as many devices as functions.
BoundOfFunctions(w) == IF Len(w) = 2 THEN Mcfg[w[1]].end_bus ELSE Functions

\* The bound of the loop that the last counter is of.
Bound(w) ==
  CASE Len(w) = 2 -> Mcfg[w[1]].end_bus
    [] Len(w) = 3 -> Devices
    [] Len(w) = 4 -> Functions

Sibling(w) == Append(Front(w), Last(w) + 1)

MapsItself(page) == Translate(page) = page

\* The list, the area for what is received and the tables of a port, a page each.
PortPages == 2 + CommandSlots

-----------------------------------------------------------------------------
NotBoot == UNCHANGED <<pmmVars, i, fb_size, stacks, buffer, donated>>
Computes == NoTables /\ NotBoot

\* Between two map_memory calls of configure_pci.  What it does after a read at the
\* wrong address (a page fault, or a walk along whatever is there) is not modelled.
PciAt(s) == At(s) /\ strayed = {}

\* Pages are used at their own addresses.
Uses(pages) == strayed' = strayed \cup {page \in pages : ~MapsItself(page)}

McfgPages(mm) == LET listed == Acpi(mm).tables IN listed[get_table(listed, "MCFG")].pages

\* configure_pci: the RSDP and the XSDT are read for every table up to the MCFG, of
\* which the length is read too.
FindMcfg ==
  LET acpi == Acpi(memory_map)
      at   == get_table(acpi.tables, "MCFG")
  IN  /\ PciAt("pci") /\ walk = <<>>
      /\ at # 0
      /\ Uses(acpi.rsdp \cup acpi.xsdt \cup UNION {acpi.tables[k].pages : k \in 1 .. at})
      /\ walk' = <<1>>
      /\ Computes /\ UNCHANGED <<stage, config, usable_ports, found>>

\* The loop over the configurations, and in it the loop over the buses of one, read
\* their bounds and the base from the MCFG again each time.
ReadsMcfg == Uses(IF Len(walk) <= 2 THEN McfgPages(memory_map) ELSE {})

NextConfiguration ==
  /\ PciAt("pci") /\ Len(walk) = 1 /\ walk[1] <= Len(Mcfg)
  /\ ReadsMcfg
  /\ walk' = Append(walk, Mcfg[walk[1]].start_bus)
  /\ Computes /\ UNCHANGED <<stage, config, usable_ports, found>>

\* Slip: enumerate_function maps the device.
EnumerateMapsDevice ==
  /\ PciAt("pci") /\ Len(walk) > 1 /\ Last(walk) < Bound(walk)
  /\ ReadsMcfg
  /\ LET page == Address(IF Len(walk) = 4 THEN Front(walk) ELSE walk)
     IN  JustMaps(page, page, FALSE)
  /\ stage' = "header"
  /\ NotBoot /\ UNCHANGED <<config, walk, usable_ports, found>>

\* enumerate_bus, enumerate_device and enumerate_function begin alike.
Enumerate ==
  /\ PciAt("pci") /\ Len(walk) > 1 /\ Last(walk) < Bound(walk)
  /\ ReadsMcfg
  /\ JustMaps(Address(walk), Address(walk), FALSE)
  /\ stage' = "header"
  /\ NotBoot /\ UNCHANGED <<config, walk, usable_ports, found>>

\* What all steps that read the header of walk have in common.
ReadsHeader ==
  /\ PciAt("header")
  /\ Uses({Address(walk)})
  /\ NotBoot /\ UNCHANGED <<config, usable_ports>>

\* Nothing there, or no controller the kernel knows.
SkipFunction ==
  /\ ReadsHeader
  /\ ~IsPresent(walk) \/ (Len(walk) = 4 /\ ~IsAhci(walk))
  /\ stage' = "pci" /\ walk' = Sibling(walk)
  /\ NoTables /\ UNCHANGED found

\* The loop over the devices of a bus, or the functions of a device.
EnterLoop ==
  /\ ReadsHeader
  /\ IsPresent(walk) /\ Len(walk) < 4
  /\ stage' = "pci" /\ walk' = Append(walk, 0)
  /\ NoTables /\ UNCHANGED found

\* ahci::initialize maps the controller's registers first: one page.
InitializeController ==
  /\ ReadsHeader
  /\ IsPresent(walk) /\ Len(walk) = 4 /\ IsAhci(walk)
  /\ JustMaps(Header(walk).abar, Header(walk).abar, FALSE)
  /\ stage' = "probe" /\ walk' = Sibling(walk)
  /\ found' = Append(found, walk)

\* probe_ports reads the controller's registers; it takes an object for each of its
\* ports with a drive from the heap, module Heap, which asks for no page.
ProbePorts ==
  /\ PciAt("probe")
  /\ Uses({Header(Last(found)).abar})
  /\ usable_ports' = usable_ports + Header(Last(found)).drives
  /\ stage' = "ports" /\ i' = 0
  /\ NoTables /\ UNCHANGED <<pmmVars, fb_size, stacks, buffer, donated, config, walk, found>>

\* The page where request i of configure_port begins to write: for a command table
\* it is not the page that was requested, once as many as fill one come before it.
WritesTo(f) ==
  LET k == i % PortPages
  IN  IF k < 2 THEN f ELSE f + ((k - 2) \div TablesPerPage)

\* One request of configure_port, which initialize calls for the ports of all the
\* controllers so far, and what is written through it and to the port's registers.
ConfigurePorts ==
  /\ PciAt("ports") /\ i < usable_ports * PortPages
  /\ pmm!RequestPage
  /\ Uses({WritesTo(pmm!RequestedFrame)} \cup {Header(found[k]).abar : k \in DOMAIN found})
  /\ Again
  /\ NoTables /\ UNCHANGED <<fb_size, stacks, buffer, donated, config, walk, usable_ports, found>>

PortsDone ==
  /\ PciAt("ports") /\ i = usable_ports * PortPages
  /\ Goto("pci")
  /\ NoTables /\ UNCHANGED <<pmmVars, fb_size, stacks, buffer, donated, pciVars>>

LoopReturns ==
  /\ PciAt("pci") /\ Len(walk) > 1 /\ Last(walk) >= Bound(walk)
  /\ ReadsMcfg
  /\ walk' = Sibling(Front(walk))
  /\ Computes /\ UNCHANGED <<stage, config, usable_ports, found>>

EnumerationEnds ==
  /\ PciAt("pci") /\ Len(walk) = 1 /\ walk[1] > Len(Mcfg)
  /\ Goto("entry")
  /\ NoTables /\ UNCHANGED <<pmmVars, fb_size, stacks, buffer, donated, pciVars>>

PciNext ==
  \/ FindMcfg \/ NextConfiguration \/ Enumerate
  \/ SkipFunction \/ EnterLoop \/ InitializeController
  \/ ProbePorts \/ ConfigurePorts \/ PortsDone
  \/ LoopReturns \/ EnumerationEnds
  \/ (Next /\ UNCHANGED pciVars)

PciSpec == PciInit /\ [][PciNext]_everyVar

-----------------------------------------------------------------------------
\* What the kernel reads of ACPI and in the configuration space, the registers of the
\* controllers and the pages it writes for their ports are mapped at their own addresses
\* whenever it uses them, however the tables that map them had to be allocated, and the
\* registers stay mapped (the driver uses them for ever): the mappings of the boot before
\* must not be in the way, nor those after take them away.  The one exception is ACPI's:
\* nothing maps its structures but the identity map, so they are lost to the kernel
\* where the firmware has put them past the end of memory that is counted, or where
\* request_pages has mapped the graphics buffer.
AcpiPages ==
  LET acpi == Acpi(memory_map)
  IN  acpi.rsdp \cup acpi.xsdt \cup UNION {table.pages : table \in ToSet(acpi.tables)}

DevicesReachable ==
  /\ \A page \in strayed :
       page \in AcpiPages \cap (BufferRun \cup (VirtualPages \ pmm!MemoryFrames(memory_map)))
  /\ calls = <<>> => \A k \in DOMAIN found : MapsItself(Header(found[k]).abar)

\* Every AHCI function whose device, and the first device of whose bus, answer,
\* on the buses below end_bus.
Visible ==
  {w \in DOMAIN config :
     /\ w[1] \in DOMAIN Mcfg /\ w[2] \in Mcfg[w[1]].start_bus .. Mcfg[w[1]].end_bus - 1
     /\ IsPresent(<<w[1], w[2]>>) /\ IsPresent(<<w[1], w[2], w[3]>>)
     /\ IsPresent(w) /\ IsAhci(w)}

Precedes(v, w) == v[1] < w[1] \/ (v[1] = w[1] /\ Address(v) < Address(w))

\* Each of them is initialized exactly once, configuration by configuration in the
\* order of their addresses, and none is left out when user mode is entered.  A
\* second initialize would set up the running ports of the first one again.
ControllersInOrder ==
  /\ ToSet(found) \subseteq Visible
  /\ \A j, k \in DOMAIN found : j < k => Precedes(found[j], found[k])
  /\ \A v \in ToSet(found), w \in Visible \ ToSet(found) : Precedes(v, w)
  /\ stage \in {"entry", "stack", "user"} => ToSet(found) = Visible

=============================================================================
