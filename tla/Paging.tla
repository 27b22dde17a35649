------------------------------- MODULE Paging -------------------------------
(***************************************************************************)
(* Four-level page tables, kernel/src/memory/paging.cpp, over the physical *)
(* memory manager of module Pmm.                                           *)
(*                                                                         *)
(* map_memory is recursive: a table it has to allocate is mapped at its    *)
(* own address before the walk goes on, and that call may allocate tables  *)
(* itself.  The recursion is a stack of calls, each one step per level.    *)
(*                                                                         *)
(* Addresses are page numbers.  A pointer to a table is a physical address *)
(* that the CPU translates, once cr3 is loaded, with those same tables; a  *)
(* table access that does not land on the table is recorded in astray.     *)
(***************************************************************************)
EXTENDS Integers, SequencesExt, FiniteSets

CONSTANTS
  PageSize, MiB, ByteBits, Wrap, KernelStart, KernelSize, MemoryMaps, \* of Pmm
  Entries       \* entries in a page table: 512

VARIABLES
  initialized, memory_map, bitmap,                                    \* of Pmm
  free_memory_size, used_memory_size, reserved_memory_size,
  held, aside,
  pml_4,        \* the frame of the root table
  cr3,          \* TRUE once the tables are the CPU's
  tables,       \* the contents of the frames used as tables
  calls,        \* the map_memory calls in progress, the innermost last
  astray        \* a table was accessed at an address that is not its own

pmm == INSTANCE Pmm

pmmVars == <<initialized, memory_map, bitmap, free_memory_size, used_memory_size,
             reserved_memory_size, held, aside>>
tableVars == <<pml_4, cr3, tables, calls, astray>>

ASSUME PagingAssumption ==
  /\ Entries \in Nat \ {0}
  /\ pmm!WrapAssumption /\ pmm!MapsAssumption /\ pmm!LayoutAssumption

Levels == 0 .. 3             \* pml4, page directory pointers, directory, table
VirtualPages == 0 .. Entries * Entries * Entries * Entries - 1

Absent == [present |-> FALSE, frame |-> 0, user |-> FALSE, pat |-> FALSE]
EmptyTable == [e \in 0 .. Entries - 1 |-> Absent]

\* page_map_indexer: the index of a virtual page in the table of a level, shifted
\* down once more for every level above the last.
Above(v) == v \div Entries
Index(v, level) ==
  (CASE level = 3 -> v
     [] level = 2 -> Above(v)
     [] level = 1 -> Above(Above(v))
     [] level = 0 -> Above(Above(Above(v)))) % Entries

-----------------------------------------------------------------------------
(* Translation: get_physical_address, which is also what the CPU does.     *)

Unmapped == -1

Entry(f, i) == IF f \in DOMAIN tables THEN tables[f][i] ELSE Absent

\* The four entries a translation of v reads, Absent below an absent one.
Path(v) ==
  LET below(e, level) == IF e.present THEN Entry(e.frame, Index(v, level)) ELSE Absent
      e0 == Entry(pml_4, Index(v, 0))
      e1 == below(e0, 1)
      e2 == below(e1, 2)
  IN  <<e0, e1, e2, below(e2, 3)>>

Translate(v) == LET leaf == Path(v)[4] IN IF leaf.present THEN leaf.frame ELSE Unmapped

\* User mode needs the user flag at all four levels.
UserCanReach(v) == LET path == Path(v) IN path[4].present /\ \A k \in 1 .. 4 : path[k].user

\* Before cr3 is loaded the bootloader's identity map is in force.
Lands(f) == cr3 => Translate(f) = f

-----------------------------------------------------------------------------
(* map_memory.                                                             *)

NewCall(v, p, pat) == [v |-> v, p |-> p, pat |-> pat, level |-> 0, at |-> pml_4]

MapMemory(v, p, pat) == calls' = Append(calls, NewCall(v, p, pat))

Top == Last(calls)
Slot == Index(Top.v, Top.level)
Found == tables[Top.at][Slot]

\* The call goes on with the next level's table.
Deeper(f) == [Top EXCEPT !.level = @ + 1, !.at = f]

\* The entry is present: follow it.
Descend ==
  /\ calls # <<>> /\ Top.level < 3 /\ Found.present
  /\ calls' = Append(Front(calls), Deeper(Found.frame))
  /\ astray' = (astray \/ ~Lands(Top.at))
  /\ UNCHANGED <<pmmVars, pml_4, cr3, tables>>

\* The tables once frame f has been cleared to be one of them.
Cleared(f) == [g \in (DOMAIN tables) \cup {f} |-> IF g = f THEN EmptyTable ELSE tables[g]]

\* Slip: the new table is entered in the root.
NewTableInRoot ==
  LET f == pmm!RequestedFrame IN
  /\ calls # <<>> /\ Top.level < 3 /\ ~Found.present
  /\ pmm!RequestPage
  /\ tables' = [Cleared(f) EXCEPT ![pml_4][Slot] =
                  [@ EXCEPT !.present = TRUE, !.frame = f]]
  /\ calls' = Append(Append(Front(calls), Deeper(f)), NewCall(f, f, FALSE))
  /\ astray' = (astray \/ ~Lands(Top.at) \/ ~Lands(f))
  /\ UNCHANGED <<pml_4, cr3>>

\* Slip: the new table is mapped before it is entered.
NewTableMappedFirst ==
  LET f == pmm!RequestedFrame IN
  /\ calls # <<>> /\ Top.level < 3 /\ ~Found.present
  /\ pmm!RequestPage
  /\ tables' = Cleared(f)
  /\ calls' = Append(calls, NewCall(f, f, FALSE))
  /\ astray' = (astray \/ ~Lands(Top.at) \/ ~Lands(f))
  /\ UNCHANGED <<pml_4, cr3>>

\* Slip: the memset clears the table above instead of the new one.
NewTableClearsParent ==
  LET f == pmm!RequestedFrame IN
  /\ calls # <<>> /\ Top.level < 3 /\ ~Found.present
  /\ pmm!RequestPage
  /\ tables' = [Cleared(f) EXCEPT ![Top.at] =
                  [EmptyTable EXCEPT ![Slot] = [@ EXCEPT !.present = TRUE, !.frame = f]]]
  /\ calls' = Append(Append(Front(calls), Deeper(f)), NewCall(f, f, FALSE))
  /\ astray' = (astray \/ ~Lands(Top.at) \/ ~Lands(f))
  /\ UNCHANGED <<pml_4, cr3>>

\* The entry is absent: take a page, clear it, enter it, and map it at its own
\* address before going on.  request_page is not checked for nullptr.
NewTable ==
  LET f == pmm!RequestedFrame IN
  /\ calls # <<>> /\ Top.level < 3 /\ ~Found.present
  /\ pmm!RequestPage
  /\ tables' = [Cleared(f) EXCEPT ![Top.at][Slot] =
                  [@ EXCEPT !.present = TRUE, !.frame = f]]
  /\ calls' = Append(Append(Front(calls), Deeper(f)), NewCall(f, f, FALSE))
  /\ astray' = (astray \/ ~Lands(Top.at) \/ ~Lands(f))
  /\ UNCHANGED <<pml_4, cr3>>

\* The last level: write the translation, keeping the entry's other flags.
WriteLeaf ==
  /\ calls # <<>> /\ Top.level = 3
  /\ tables' = [tables EXCEPT ![Top.at][Slot] =
                  [@ EXCEPT !.present = TRUE, !.frame = Top.p, !.pat = Top.pat]]
  /\ calls' = Front(calls)
  /\ astray' = (astray \/ ~Lands(Top.at))
  /\ UNCHANGED <<pmmVars, pml_4, cr3>>

MapStep == Descend \/ NewTable \/ WriteLeaf

-----------------------------------------------------------------------------
(* donate_to_userspace sets the user flag at all four levels and checks    *)
(* none for presence: below an absent entry it writes through address 0.   *)

\* Slip: the whole last table is donated.
DonateWholeTable(v) ==
  /\ tables' = [f \in DOMAIN tables |-> [e \in 0 .. Entries - 1 |->
                  IF \/ f = pml_4 /\ e = Index(v, 0)
                     \/ \E level \in 1 .. 3 : /\ f = Path(v)[level].frame
                                             /\ (e = Index(v, level) \/ level = 3)
                  THEN [tables[f][e] EXCEPT !.user = TRUE]
                  ELSE tables[f][e]]]
  /\ UNCHANGED astray

DonateToUserspace(v) ==
  LET at(level) == IF level = 0 THEN pml_4 ELSE Path(v)[level].frame
      onPath(f, e) == \E level \in Levels : f = at(level) /\ e = Index(v, level)
  IN  /\ tables' = [f \in DOMAIN tables |-> [e \in 0 .. Entries - 1 |->
                      IF onPath(f, e) THEN [tables[f][e] EXCEPT !.user = TRUE]
                                      ELSE tables[f][e]]]
      /\ astray' = (astray \/ \E level \in Levels :
                       at(level) \notin DOMAIN tables \/ ~Lands(at(level)))

=============================================================================
