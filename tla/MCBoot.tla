------------------------------- MODULE MCBoot -------------------------------
(***************************************************************************)
(* A scaled machine: tables of 4 entries (256 virtual pages, 16 pages per  *)
(* table of tables), pages of 4 bytes, a "MiB" of 2 pages, 80 frames of    *)
(* memory, a framebuffer of 1 to 4 pages and the heap in the upper half;   *)
(* PCI buses of 4 devices with 2 functions each.                           *)
(***************************************************************************)
EXTENDS Pci

MapEntry(base, length, type) == [base |-> base, length |-> length, type |-> type]

\* The kernel at page 46, where a random load address may put it (res/limine.cfg): on
\* the run of the graphics buffer, which begins at page 43.  ACPI's structures are at
\* the end of memory.
KernelInBuffer ==
  <<MapEntry(0, 8, 1), MapEntry(8, 176, 1), MapEntry(184, 8, 10), MapEntry(192, 124, 1),
    MapEntry(316, 4, 3), MapEntry(320, 2, 1)>>

\* The kernel just below the graphics buffer, on whose run request_pages must skip a
\* frame; ACPI's structures low in memory and the largest entry, which gets the bitmap,
\* above them.
KernelBelowBuffer ==
  <<MapEntry(0, 8, 1), MapEntry(8, 12, 1), MapEntry(20, 20, 1), MapEntry(40, 8, 3),
    MapEntry(48, 4, 4), MapEntry(52, 132, 1), MapEntry(184, 8, 10), MapEntry(192, 8, 1),
    MapEntry(200, 4, 4), MapEntry(204, 118, 1)>>

\* ACPI's structures where the graphics buffer falls, and past the end of memory.
AcpiInBuffer ==
  <<MapEntry(0, 8, 1), MapEntry(8, 172, 1), MapEntry(180, 4, 3), MapEntry(184, 8, 10),
    MapEntry(192, 130, 1)>>

AcpiBeyond ==
  <<MapEntry(0, 8, 1), MapEntry(8, 12, 1), MapEntry(20, 4, 4), MapEntry(24, 160, 1),
    MapEntry(184, 8, 10), MapEntry(192, 130, 1), MapEntry(352, 4, 3)>>

Maps == {KernelInBuffer, KernelBelowBuffer, AcpiInBuffer, AcpiBeyond}

\* The ACPI structures are in the first entry for them (type 3), the RSDP in the low
\* MiB or with them.
AcpiAt(mm) ==
  LET acpi  == mm[CHOOSE n \in DOMAIN mm : mm[n].type = 3 /\ \A k \in 1 .. n - 1 : mm[k].type # 3]
      first == acpi.base \div PageSize
      last  == (acpi.base + acpi.length - 1) \div PageSize
  IN  [rsdp |-> {IF first = last THEN 0 ELSE last}, xsdt |-> {last},
       tables |-> <<[signature |-> "FACP", pages |-> {last}],
                    [signature |-> "MCFG", pages |-> first .. last],
                    [signature |-> "HPET", pages |-> {last}]>>]

-----------------------------------------------------------------------------
(* Two configurations: one with three buses, one with a bus 1 only.        *)
TwoSegments == <<[base |-> 192, start_bus |-> 0, end_bus |-> 2],
                 [base |-> 160, start_bus |-> 1, end_bus |-> 2]>>

Fn(class) == [device_id |-> 7, class |-> class, abar |-> 0, drives |-> 0]
Bridge == Fn(<<6, 0, 0>>)
NoAhci == Fn(<<1, 6, 0>>)
Ahci(abar) == [Fn(<<1, 6, 1>>) EXCEPT !.abar = abar]
With(drives, header) == [header EXCEPT !.drives = drives]
Zero(header) == [header EXCEPT !.device_id = 0]

\* Controllers as a second function, alone on a device, and on the last device; one
\* behind a first function with no device, one on the bus at end_bus.  The one with a
\* drive is not the last one, which sets up its port again.
Crowded ==
     <<1, 0, 0, 0>> :> Bridge     @@ <<1, 0, 0, 1>> :> Ahci(84)
  @@ <<1, 0, 1, 1>> :> Ahci(87)   @@ <<1, 0, 2, 0>> :> Zero(Ahci(88))
  @@ <<1, 0, 3, 0>> :> Ahci(86)   @@ <<1, 1, 0, 0>> :> Bridge
  @@ <<1, 1, 3, 0>> :> NoAhci     @@ <<1, 1, 3, 1>> :> With(1, Ahci(100))
  @@ <<1, 2, 0, 0>> :> Ahci(101)  @@ <<2, 1, 0, 0>> :> Ahci(178)

\* A bus whose first device is missing is passed over.
Sparse ==
     <<1, 0, 1, 0>> :> Ahci(84)   @@ <<2, 1, 0, 0>> :> Bridge
  @@ <<2, 1, 2, 0>> :> With(1, Ahci(85))

Plugged == {Crowded, Sparse}

\* The memory maps are as NestingStaysBounded needs them.
ASSUME FramesLieClose

=============================================================================
