-------------------------------- MODULE MCPmm --------------------------------
(***************************************************************************)
(* A scaled machine: pages of 4 bytes, a "MiB" of 2 pages, 5 MiB of memory *)
(* (10 frames), bitmap bytes of 2 bits (so 2 spare bits past the end of    *)
(* memory, and a bitmap of 6 bytes that needs two pages).                  *)
(***************************************************************************)
EXTENDS Pmm

Entry(base, length, type) == [base |-> base, length |-> length, type |-> type]

\* The usual layout: BIOS data below the first MiB that is not page aligned,
\* the kernel listed as type 10, memory that does not end on a whole MiB.
Usual == <<Entry(0, 6, 1), Entry(6, 2, 2), Entry(8, 4, 1), Entry(12, 4, 10),
           Entry(16, 26, 1)>>

\* The kernel not listed at all (a hole), ACPI tables between two conventional
\* entries.
Holes == <<Entry(0, 8, 1), Entry(16, 12, 1), Entry(28, 4, 3), Entry(32, 8, 1)>>

\* Firmware memory past the end of what is counted.
Beyond == <<Entry(0, 8, 1), Entry(16, 16, 1), Entry(32, 10, 1), Entry(44, 8, 4)>>

Maps == {Usual, Holes, Beyond}
=============================================================================
