-------------------------------- MODULE Pmm --------------------------------
(***************************************************************************)
(* The physical memory manager, kernel/src/memory/pmm.cpp: one bit per     *)
(* page frame and three byte counters that are meant to follow the bitmap. *)
(*                                                                         *)
(* The bitmap is the set of frames whose bit is set.  The counters move in *)
(* steps of one page and start at a whole number of MiB, so they are kept  *)
(* in pages, modulo Wrap pages (2^52 of them in the code's uint64 bytes).  *)
(* Nothing preempts these functions: no interrupt handler calls them and   *)
(* there is one CPU, so each call is one action, its loop included.        *)
(***************************************************************************)
EXTENDS Integers, Sequences, FiniteSets

CONSTANTS
  PageSize,     \* bytes in a page frame: 0x1000
  MiB,          \* the unit memory sizes are rounded to: 0x100000
  ByteBits,     \* frames tracked by one byte of the bitmap: 8
  Wrap,         \* pages after which a counter wraps: 2^64 / 0x1000
  KernelStart,  \* &__kernel_start
  KernelSize,   \* &__kernel_end - &__kernel_start
  MemoryMaps    \* the stivale memory maps a bootloader may pass

Null == 0       \* nullptr, which is also the address of frame 0

-----------------------------------------------------------------------------
(* What initialize computes from a memory map, a sequence of records with  *)
(* fields base, length (bytes) and type (1 is conventional memory).        *)

FrameOf(addr) == addr \div PageSize

Pages(addr, count) == FrameOf(addr) .. FrameOf(addr) + count - 1

Conventional(mm) == {i \in DOMAIN mm : mm[i].type = 1}

\* The last conventional entry of the list decides the size of memory.
TotalBytes(mm) ==
  LET last == CHOOSE i \in Conventional(mm) : \A j \in Conventional(mm) : j <= i
  IN  IF Conventional(mm) = {} THEN 0
      ELSE ((mm[last].base + mm[last].length) \div MiB) * MiB

TotalPages == [mm \in MemoryMaps |-> TotalBytes(mm) \div PageSize]

BitmapBytes(mm) == (TotalPages[mm] \div ByteBits) + 1

\* Every bit the bitmap has, the spare ones of its last bytes included.
BitFrames == [mm \in MemoryMaps |-> 0 .. BitmapBytes(mm) * ByteBits - 1]

MemoryFrames(mm) == 0 .. TotalPages[mm] - 1

\* The bitmap lives at the start of the first largest conventional entry.
BitmapBase(mm) ==
  LET size(i) == mm[i].length \div PageSize
      big == {i \in Conventional(mm) : size(i) > 0 /\ \A j \in Conventional(mm) :
                 size(j) < size(i) \/ (size(j) = size(i) /\ i <= j)}
  IN  IF big = {} THEN Null ELSE mm[CHOOSE i \in big : TRUE].base

\* The entries that are not conventional memory and start inside memory.
Firmware(mm) == {i \in DOMAIN mm : mm[i].type # 1 /\ mm[i].base < TotalBytes(mm)}

EntryFrames(mm) ==
  UNION {Pages(mm[i].base, mm[i].length \div PageSize) : i \in Firmware(mm)}

\* Slip: one page too few for a bitmap that fills its last page only in part.
BitmapFramesFloor(mm) == Pages(BitmapBase(mm), BitmapBytes(mm) \div PageSize)

BitmapFrames(mm) == Pages(BitmapBase(mm), (BitmapBytes(mm) \div PageSize) + 1)

LowFrames == Pages(0, MiB \div PageSize)

KernelFrames == Pages(KernelStart, (KernelSize \div PageSize) + 1)

\* What initialize sets by lock_pages and by reserve_pages, in its order: a
\* bit that an earlier call has set is left to that call.
BootLocked == [mm \in MemoryMaps |-> BitmapFrames(mm) \ EntryFrames(mm)]

BootReserved ==
  [mm \in MemoryMaps |->
     EntryFrames(mm) \cup ((LowFrames \cup KernelFrames) \ BitmapFrames(mm))]

BootOwned(mm) == BootLocked[mm] \cup BootReserved[mm]

ASSUME WrapAssumption == Wrap \in Nat \ {0}

\* A memory map the manager can serve: what initialize sets lies inside the
\* bitmap, and the bitmap has fewer bits than a counter has values.
ASSUME MapsAssumption ==
  \A mm \in MemoryMaps :
    /\ TotalBytes(mm) \in Nat
    /\ TotalPages[mm] \in Nat
    /\ BitmapBytes(mm) * ByteBits \in Nat
    /\ TotalPages[mm] < BitmapBytes(mm) * ByteBits
    /\ BitmapBytes(mm) * ByteBits < Wrap
    /\ BootOwned(mm) \subseteq BitFrames[mm]

Aligned(n) == n % PageSize = 0

\* What initialize takes for granted of a memory map and of the linker script: it
\* rounds every base and length down to whole pages.  The protocol promises it of
\* conventional memory only; other entries are smaller than pages only below the
\* first MiB.
ASSUME LayoutAssumption ==
  /\ PageSize \in Nat \ {0} /\ ByteBits \in Nat \ {0}
  /\ MiB \in Nat \ {0} /\ Aligned(MiB)
  /\ KernelStart \in Nat /\ KernelSize \in Nat /\ Aligned(KernelStart)
  /\ \A mm \in MemoryMaps : \A n \in DOMAIN mm :
       /\ mm[n].base \in Nat /\ mm[n].length \in Nat
       /\ \/ Aligned(mm[n].base) /\ (mm[n].type # 1 => Aligned(mm[n].length))
          \/ mm[n].type # 1 /\ mm[n].base + mm[n].length <= MiB

-----------------------------------------------------------------------------
VARIABLES
  initialized,           \* the guard of initialize
  memory_map,            \* the map initialize was given, <<>> before
  bitmap,                \* page_bitmap_map: the frames whose bit is set
  free_memory_size,
  used_memory_size,
  reserved_memory_size,
  held,                  \* ghost: frames a caller locked and has not freed
  aside                  \* ghost: frames a caller reserved and not unreserved

counters == <<free_memory_size, used_memory_size, reserved_memory_size>>
vars == <<initialized, memory_map, bitmap, counters, held, aside>>

\* uint64 arithmetic of the counters, in pages.
Plus(a, n)  == IF a + n < Wrap THEN a + n ELSE a + n - Wrap
Minus(a, n) == IF n <= a THEN a - n ELSE a - n + Wrap

Init ==
  /\ initialized = FALSE
  /\ memory_map = <<>>
  /\ bitmap = {}
  /\ free_memory_size = 0
  /\ used_memory_size = 0
  /\ reserved_memory_size = 0
  /\ held = {}
  /\ aside = {}

Initialize(mm) ==
  /\ ~initialized
  /\ initialized' = TRUE
  /\ memory_map' = mm
  /\ bitmap' = BootOwned(mm)
  /\ free_memory_size' = Minus(TotalPages[mm], Cardinality(BootOwned(mm)))
  /\ used_memory_size' = Plus(used_memory_size, Cardinality(BootLocked[mm]))
  /\ reserved_memory_size' = Plus(reserved_memory_size, Cardinality(BootReserved[mm]))
  /\ UNCHANGED <<held, aside>>

-----------------------------------------------------------------------------
(* lock_page(s), free_page(s), reserve_page(s), unreserve_page(s): each    *)
(* skips the frames of its range whose bit already has the value it sets.  *)

\* Slips: the early returns of lock_page/reserve_page and of free_page/
\* unreserve_page are missing.
NewlySetAlways(S)     == S
NewlyClearedAlways(S) == S

NewlySet(S)     == S \ bitmap
NewlyCleared(S) == S \cap bitmap

SetBits(S) ==
  /\ bitmap' = bitmap \cup S
  /\ free_memory_size' = Minus(free_memory_size, Cardinality(NewlySet(S)))

ClearBits(S) ==
  /\ bitmap' = bitmap \ S
  /\ free_memory_size' = Plus(free_memory_size, Cardinality(NewlyCleared(S)))

LockPages(S) ==
  /\ SetBits(S)
  /\ used_memory_size' = Plus(used_memory_size, Cardinality(NewlySet(S)))
  /\ held' = held \cup NewlySet(S)
  /\ UNCHANGED <<initialized, memory_map, reserved_memory_size, aside>>

FreePages(S) ==
  /\ ClearBits(S)
  /\ used_memory_size' = Minus(used_memory_size, Cardinality(NewlyCleared(S)))
  /\ held' = held \ S
  /\ UNCHANGED <<initialized, memory_map, reserved_memory_size, aside>>

ReservePages(S) ==
  /\ SetBits(S)
  /\ reserved_memory_size' = Plus(reserved_memory_size, Cardinality(NewlySet(S)))
  /\ aside' = aside \cup NewlySet(S)
  /\ UNCHANGED <<initialized, memory_map, used_memory_size, held>>

\* Slip: the counter of locked pages is updated, as in free_page.
UnreservePagesUsed(S) ==
  /\ ClearBits(S)
  /\ used_memory_size' = Minus(used_memory_size, Cardinality(NewlyCleared(S)))
  /\ aside' = aside \ S
  /\ UNCHANGED <<initialized, memory_map, reserved_memory_size, held>>

UnreservePages(S) ==
  /\ ClearBits(S)
  /\ reserved_memory_size' = Minus(reserved_memory_size, Cardinality(NewlyCleared(S)))
  /\ aside' = aside \ S
  /\ UNCHANGED <<initialized, memory_map, used_memory_size, held>>

\* request_page: first fit over every bit of the bitmap, or nullptr.
ClearFrames == BitFrames[memory_map] \ bitmap

FirstFit(S) == CHOOSE f \in S : \A g \in S : f <= g

RequestedFrame == IF ClearFrames = {} THEN Null ELSE FirstFit(ClearFrames)

RequestPage ==
  IF ClearFrames = {} THEN UNCHANGED vars ELSE LockPages({RequestedFrame})

-----------------------------------------------------------------------------
(* Callers.  They stay inside the bitmap, free what they locked and        *)
(* unreserve what they reserved; calling twice, or over frames that are    *)
(* already set or clear, is allowed.                                       *)

Ranges == {S \in {f .. l : f, l \in BitFrames[memory_map]} : S # {}}

MayFree(S)      == S \subseteq held \cup ClearFrames
MayUnreserve(S) == S \subseteq aside \cup ClearFrames

Next ==
  \/ \E mm \in MemoryMaps : Initialize(mm)
  \/ initialized /\ RequestPage
  \/ initialized /\ \E S \in Ranges : LockPages(S)
  \/ initialized /\ \E S \in Ranges : MayFree(S) /\ FreePages(S)
  \/ initialized /\ \E S \in Ranges : ReservePages(S)
  \/ initialized /\ \E S \in Ranges : MayUnreserve(S) /\ UnreservePages(S)

Spec == Init /\ [][Next]_vars

-----------------------------------------------------------------------------
AllBits == UNION {BitFrames[mm] : mm \in MemoryMaps}

\* The types of the state.
TypeOK ==
  /\ initialized \in BOOLEAN
  /\ initialized => memory_map \in MemoryMaps
  /\ initialized => bitmap \subseteq BitFrames[memory_map]
  /\ free_memory_size \in 0 .. Wrap - 1
  /\ used_memory_size \in 0 .. Wrap - 1
  /\ reserved_memory_size \in 0 .. Wrap - 1

\* Every set bit has exactly one reason: the boot, a lock or a reservation.
\* In particular no frame that initialize set (the kernel, the low MiB, the
\* bitmap itself, firmware memory) is ever handed to a caller.
OneOwner ==
  IF initialized
  THEN /\ bitmap = BootOwned(memory_map) \cup held \cup aside
       /\ held \cap aside = {}
       /\ BootOwned(memory_map) \cap (held \cup aside) = {}
  ELSE bitmap = {} /\ held = {} /\ aside = {}

\* The three counters are exactly what the bitmap says, modulo the width of a
\* counter: used counts the locked bits, reserved the reserved ones, and free
\* what is left of memory (it wraps once the spare bits past the end of memory
\* are taken too).
Accounting ==
  IF initialized
  THEN /\ used_memory_size = Cardinality(BootLocked[memory_map]) + Cardinality(held)
       /\ reserved_memory_size = Cardinality(BootReserved[memory_map]) + Cardinality(aside)
       /\ free_memory_size = Minus(TotalPages[memory_map], Cardinality(bitmap))
  ELSE free_memory_size = 0 /\ used_memory_size = 0 /\ reserved_memory_size = 0

\* What sys_get_info(free_ram) reports is the number of clear frames of memory
\* as long as no frame past the end of memory has been given away.
FreeRamHonest ==
  initialized /\ bitmap \subseteq MemoryFrames(memory_map) =>
    free_memory_size = Cardinality(MemoryFrames(memory_map) \ bitmap)

\* Reference definition, in bytes: the frames that an entry which is not conventional
\* memory (wherever it is), the low MiB, the kernel image or the bitmap's own buffer
\* occupy even one byte of.
Touched(base, length) == {f \in AllBits : /\ f * PageSize < base + length
                                          /\ base < (f + 1) * PageSize}

Precious ==
  [mm \in MemoryMaps |->
  (UNION {Touched(mm[i].base, mm[i].length) : i \in (DOMAIN mm) \ Conventional(mm)})
    \cup Touched(0, MiB) \cup Touched(KernelStart, KernelSize)
    \cup Touched(BitmapBase(mm), BitmapBytes(mm))]

\* No caller holds a frame of memory that holds bytes of something else, although
\* initialize rounds lengths down and bases down to whole pages; nor frame 0, whose
\* address callers could not tell from nullptr.  The spare bits past the end of
\* memory are not kept like that: initialize sets none of an entry that starts
\* there, and request_page gives its frames away.  But only when no frame of memory
\* is left: until then the next one is never one of something else.
PreciousNeverHandedOut ==
  initialized =>
    /\ held \cap MemoryFrames(memory_map)
         \cap (Precious[memory_map] \cup {FrameOf(Null)}) = {}
    /\ \/ MemoryFrames(memory_map) \subseteq bitmap
       \/ RequestedFrame \notin Precious[memory_map] \cup {FrameOf(Null)}

Setups == {[locked   |-> BootLocked[mm],
            reserved |-> BootReserved[mm],
            memory   |-> TotalPages[mm]] : mm \in MemoryMaps}

\* The manager implements FrameAllocator: no frame is given twice, none the
\* boot owns is given or taken back, and the reports are always right.
Abstract ==
  INSTANCE FrameAllocator WITH
    Frame    <- AllBits,
    Setups   <- Setups,
    up       <- initialized,
    boot     <- IF initialized THEN BootOwned(memory_map) ELSE {},
    used     <- IF initialized THEN BootLocked[memory_map] \cup held ELSE {},
    reserved <- IF initialized THEN BootReserved[memory_map] \cup aside ELSE {},
    memory   <- IF initialized THEN TotalPages[memory_map] ELSE 0,
    report   <- [free     |-> free_memory_size,
                 used     |-> used_memory_size,
                 reserved |-> reserved_memory_size]

ImplementsFrameAllocator == Abstract!Spec

=============================================================================
