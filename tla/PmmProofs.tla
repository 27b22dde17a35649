------------------------------ MODULE PmmProofs ------------------------------
(***************************************************************************)
(* Theorems of the physical memory manager, for every page size, memory    *)
(* map, kernel placement and counter width that satisfies the assumptions  *)
(* of module Pmm.                                                          *)
(***************************************************************************)
EXTENDS Pmm, FiniteSetTheorems, WellFoundedInduction, TLAPS

\* Inductive: the counters can be related to the bitmap only as long as every
\* set bit has one owner, for freeing subtracts from one of two counters.
IInv == TypeOK /\ OneOwner /\ Accounting

-----------------------------------------------------------------------------
(* Finite sets.                                                            *)

\* A set and the part of another that lies outside it do not count twice.
LEMMA CardinalityAdd ==
  ASSUME NEW A, NEW N, IsFiniteSet(A), IsFiniteSet(N), A \cap N = {}
  PROVE  /\ IsFiniteSet(A \cup N)
         /\ Cardinality(A \cup N) = Cardinality(A) + Cardinality(N)
<1>1. Cardinality(A) \in Nat /\ Cardinality(N) \in Nat
  BY FS_CardinalityType
<1>2. Cardinality(A \cap N) = 0
  BY FS_EmptySet
<1>3. /\ IsFiniteSet(A \cup N)
      /\ Cardinality(A \cup N) = Cardinality(A) + Cardinality(N) - Cardinality(A \cap N)
  BY FS_Union
<1> QED
  BY <1>1, <1>2, <1>3

\* Removing a subset subtracts its cardinality.
LEMMA CardinalityRemove ==
  ASSUME NEW A, NEW N, IsFiniteSet(A), N \subseteq A
  PROVE  /\ IsFiniteSet(A \ N)
         /\ IsFiniteSet(N)
         /\ Cardinality(N) \in Nat
         /\ Cardinality(A \ N) \in Nat
         /\ Cardinality(A \ N) + Cardinality(N) = Cardinality(A)
<1>1. IsFiniteSet(N)
  BY FS_Subset
<1>2. IsFiniteSet(A \ N) /\ (A \ N) \cap N = {} /\ (A \ N) \cup N = A
  BY FS_Difference
<1>3. Cardinality(A \ N) + Cardinality(N) = Cardinality(A)
  BY <1>1, <1>2, CardinalityAdd
<1> QED
  BY <1>1, <1>2, <1>3, FS_CardinalityType

\* A nonempty set of naturals has a least element.
LEMMA LeastNatural ==
  ASSUME NEW T, T \subseteq Nat, T # {}
  PROVE  \E x \in T : \A y \in T : x <= y
<1>1. PICK x \in T : \A y \in T : ~ (<<y, x>> \in OpToRel(<, Nat))
  BY WFMin, NatLessThanWellFounded
<1>2. \A y \in T : ~ (y < x)
  BY <1>1 DEF OpToRel
<1> QED
  BY <1>2

\* The first n naturals.
LEMMA FirstNaturals ==
  ASSUME NEW n \in Nat
  PROVE  IsFiniteSet(0 .. n - 1) /\ Cardinality(0 .. n - 1) = n
<1>1. n - 1 \in Int
  OBVIOUS
<1>2. /\ IsFiniteSet(0 .. n - 1)
      /\ Cardinality(0 .. n - 1) = IF 0 > n - 1 THEN 0 ELSE (n - 1) - 0 + 1
  BY <1>1, FS_Interval
<1> QED
  BY <1>2

-----------------------------------------------------------------------------
(* The memory map.                                                         *)

\* The bitmap of a legal map: finitely many bits, fewer than a counter counts.
LEMMA BitsOfMap ==
  ASSUME NEW mm \in MemoryMaps
  PROVE  /\ IsFiniteSet(BitFrames[mm])
         /\ Cardinality(BitFrames[mm]) \in Nat
         /\ Cardinality(BitFrames[mm]) < Wrap
         /\ TotalPages[mm] \in Nat
         /\ TotalPages[mm] < Cardinality(BitFrames[mm])
         /\ BitFrames[mm] \subseteq Nat
<1> DEFINE n == BitmapBytes(mm) * ByteBits
<1>1. n \in Nat /\ n < Wrap /\ TotalPages[mm] \in Nat /\ TotalPages[mm] < n
  BY MapsAssumption
<1>2. BitFrames[mm] = 0 .. n - 1
  BY DEF BitFrames
<1>3. IsFiniteSet(0 .. n - 1) /\ Cardinality(0 .. n - 1) = n
  BY <1>1, FirstNaturals
<1> QED
  BY <1>1, <1>2, <1>3

\* Every set of bits of the bitmap is finite and counts less than Wrap.
LEMMA BitsFinite ==
  ASSUME NEW mm \in MemoryMaps, NEW S, S \subseteq BitFrames[mm]
  PROVE  /\ IsFiniteSet(S)
         /\ Cardinality(S) \in 0 .. Wrap - 1
         /\ Cardinality(S) \in Nat
<1>1. IsFiniteSet(S) /\ Cardinality(S) <= Cardinality(BitFrames[mm])
  BY BitsOfMap, FS_Subset
<1>2. Cardinality(S) \in Nat
  BY <1>1, FS_CardinalityType
<1> QED
  BY <1>1, <1>2, BitsOfMap, WrapAssumption

\* What the boot locks and what it reserves are separate parts of the bitmap.
LEMMA BootSplit ==
  ASSUME NEW mm \in MemoryMaps
  PROVE  /\ BootOwned(mm) = BootLocked[mm] \cup BootReserved[mm]
         /\ BootLocked[mm] \cap BootReserved[mm] = {}
         /\ BootOwned(mm) \subseteq BitFrames[mm]
<1>1. BootLocked[mm] \cap BootReserved[mm] = {}
  BY DEF BootLocked, BootReserved
<1> QED
  BY <1>1, MapsAssumption DEF BootOwned

-----------------------------------------------------------------------------
(* Counter arithmetic.                                                     *)

\* Taking n frames from what was left leaves what is left of the new total,
\* and giving them back undoes it: wrapping loses nothing.
LEMMA MinusShift ==
  ASSUME NEW t \in 0 .. Wrap - 1, NEW a \in 0 .. Wrap - 1,
         NEW b \in 0 .. Wrap - 1, NEW n \in Nat, b = a + n
  PROVE  /\ Minus(t, a) \in 0 .. Wrap - 1
         /\ Minus(Minus(t, a), n) = Minus(t, b)
         /\ Plus(Minus(t, b), n) = Minus(t, a)
  BY WrapAssumption DEF Minus, Plus

-----------------------------------------------------------------------------
(* The invariant.                                                          *)

\* Nothing is set before initialize.
LEMMA InitIInv == Init => IInv
<1> SUFFICES ASSUME Init PROVE IInv
  OBVIOUS
<1>1. 0 \in 0 .. Wrap - 1
  BY WrapAssumption
<1>2. TypeOK
  BY <1>1 DEF Init, TypeOK
<1>3. OneOwner /\ Accounting
  BY DEF Init, OneOwner, Accounting
<1> QED
  BY <1>2, <1>3 DEF IInv

\* initialize leaves counters that match the bits it set.
LEMMA InitializeIInv ==
  ASSUME IInv, NEW mm \in MemoryMaps, Initialize(mm)
  PROVE  IInv'
<1> DEFINE L == BootLocked[mm]
           R == BootReserved[mm]
           B == BootOwned(mm)
<1>1. B = L \cup R /\ L \cap R = {} /\ B \subseteq BitFrames[mm]
  BY BootSplit
<1>2. /\ Cardinality(L) \in 0 .. Wrap - 1
      /\ Cardinality(R) \in 0 .. Wrap - 1
      /\ Cardinality(B) \in 0 .. Wrap - 1
  <2>1. L \subseteq BitFrames[mm] /\ R \subseteq BitFrames[mm]
    BY <1>1
  <2> QED
    BY <1>1, <2>1, BitsFinite
<1>3. TotalPages[mm] \in 0 .. Wrap - 1
  BY BitsOfMap, WrapAssumption
<1>4. /\ ~initialized /\ initialized' = TRUE /\ memory_map' = mm /\ bitmap' = B
      /\ held' = {} /\ aside' = {}
      /\ free_memory_size' = Minus(TotalPages[mm], Cardinality(B))
      /\ used_memory_size' = Plus(0, Cardinality(L))
      /\ reserved_memory_size' = Plus(0, Cardinality(R))
  BY DEF Initialize, IInv, OneOwner, Accounting
<1>5. Plus(0, Cardinality(L)) = Cardinality(L) /\ Plus(0, Cardinality(R)) = Cardinality(R)
  BY <1>2, WrapAssumption DEF Plus
<1>6. Minus(TotalPages[mm], Cardinality(B)) \in 0 .. Wrap - 1
  BY <1>2, <1>3, WrapAssumption DEF Minus
<1>7. TypeOK'
  BY <1>1, <1>2, <1>4, <1>5, <1>6 DEF TypeOK
<1>8. OneOwner'
  BY <1>4 DEF OneOwner
<1>9. Accounting'
  <2>1. Cardinality({}) = 0
    BY FS_EmptySet
  <2> QED
    BY <2>1, <1>2, <1>4, <1>5 DEF Accounting
<1> QED
  BY <1>7, <1>8, <1>9 DEF IInv

\* Setting the bits of S for the frames of mine, one of the two owned sets:
\* what every set and counter is afterwards.
LEMMA SetBitsEffect ==
  ASSUME IInv, initialized, NEW S, S \subseteq BitFrames[memory_map], SetBits(S),
         NEW mine, mine \subseteq bitmap, NEW N, N = NewlySet(S)
  PROVE  /\ bitmap' \subseteq BitFrames[memory_map]
         /\ bitmap' = bitmap \cup N
         /\ N \cap bitmap = {}
         /\ Cardinality(N) \in Nat
         /\ Cardinality(mine) \in Nat
         /\ Cardinality(mine \cup N) = Cardinality(mine) + Cardinality(N)
         /\ free_memory_size' \in 0 .. Wrap - 1
         /\ free_memory_size' = Minus(TotalPages[memory_map], Cardinality(bitmap'))
<1> DEFINE mm == memory_map
<1>1. mm \in MemoryMaps /\ bitmap \subseteq BitFrames[mm]
  BY DEF IInv, TypeOK
<1>2. /\ N \cap bitmap = {} /\ N \cap mine = {} /\ bitmap' = bitmap \cup N
      /\ bitmap \cup N \subseteq BitFrames[mm]
      /\ mine \subseteq BitFrames[mm]
      /\ N \subseteq BitFrames[mm]
  BY <1>1 DEF SetBits, NewlySet
<1>3. /\ IsFiniteSet(N) /\ IsFiniteSet(mine) /\ IsFiniteSet(bitmap)
      /\ Cardinality(N) \in Nat /\ Cardinality(mine) \in Nat
      /\ Cardinality(bitmap) \in 0 .. Wrap - 1
      /\ Cardinality(bitmap \cup N) \in 0 .. Wrap - 1
  BY <1>1, <1>2, BitsFinite
<1>4. Cardinality(mine \cup N) = Cardinality(mine) + Cardinality(N)
  BY <1>2, <1>3, CardinalityAdd
<1>5. Cardinality(bitmap \cup N) = Cardinality(bitmap) + Cardinality(N)
  BY <1>2, <1>3, CardinalityAdd
<1>6. /\ free_memory_size = Minus(TotalPages[mm], Cardinality(bitmap))
      /\ free_memory_size' = Minus(free_memory_size, Cardinality(N))
  BY DEF IInv, Accounting, SetBits
<1>7. TotalPages[mm] \in 0 .. Wrap - 1
  BY <1>1, BitsOfMap, WrapAssumption
<1>8. /\ Minus(Minus(TotalPages[mm], Cardinality(bitmap)), Cardinality(N))
           = Minus(TotalPages[mm], Cardinality(bitmap \cup N))
      /\ Minus(TotalPages[mm], Cardinality(bitmap \cup N)) \in 0 .. Wrap - 1
  BY <1>3, <1>5, <1>7, MinusShift, WrapAssumption
<1> QED
  BY <1>2, <1>3, <1>4, <1>6, <1>8

\* Clearing the bits of S, where every frame of S that is set belongs to mine.
LEMMA ClearBitsEffect ==
  ASSUME IInv, initialized, NEW S, ClearBits(S),
         NEW mine, mine \subseteq bitmap, NEW N, N = NewlyCleared(S), N \subseteq mine
  PROVE  /\ bitmap' \subseteq BitFrames[memory_map]
         /\ bitmap' = bitmap \ N
         /\ mine \ S = mine \ N
         /\ Cardinality(N) \in Nat
         /\ Cardinality(mine \ N) \in Nat
         /\ Cardinality(mine) = Cardinality(mine \ N) + Cardinality(N)
         /\ free_memory_size' \in 0 .. Wrap - 1
         /\ free_memory_size' = Minus(TotalPages[memory_map], Cardinality(bitmap'))
<1> DEFINE mm == memory_map
<1>1. mm \in MemoryMaps /\ bitmap \subseteq BitFrames[mm]
  BY DEF IInv, TypeOK
<1>2. /\ bitmap' = bitmap \ N /\ mine \ S = mine \ N /\ N \subseteq bitmap
      /\ bitmap \ N \subseteq BitFrames[mm]
      /\ mine \subseteq BitFrames[mm]
  BY <1>1 DEF ClearBits, NewlyCleared
<1>3. /\ IsFiniteSet(mine) /\ IsFiniteSet(bitmap)
      /\ Cardinality(bitmap) \in 0 .. Wrap - 1
      /\ Cardinality(bitmap \ N) \in 0 .. Wrap - 1
  BY <1>1, <1>2, BitsFinite
<1>4. /\ Cardinality(N) \in Nat /\ Cardinality(mine \ N) \in Nat
      /\ Cardinality(mine \ N) + Cardinality(N) = Cardinality(mine)
  BY <1>2, <1>3, CardinalityRemove
<1>5. Cardinality(bitmap \ N) + Cardinality(N) = Cardinality(bitmap)
  BY <1>2, <1>3, CardinalityRemove
<1>6. /\ free_memory_size = Minus(TotalPages[mm], Cardinality(bitmap))
      /\ free_memory_size' = Plus(free_memory_size, Cardinality(N))
  BY DEF IInv, Accounting, ClearBits
<1>7. TotalPages[mm] \in 0 .. Wrap - 1
  BY <1>1, BitsOfMap, WrapAssumption
<1>8. /\ Plus(Minus(TotalPages[mm], Cardinality(bitmap)), Cardinality(N))
           = Minus(TotalPages[mm], Cardinality(bitmap \ N))
      /\ Minus(TotalPages[mm], Cardinality(bitmap \ N)) \in 0 .. Wrap - 1
  <2>1. Cardinality(bitmap) = Cardinality(bitmap \ N) + Cardinality(N)
    BY <1>5
  <2> QED
    BY <1>3, <1>4, <1>7, <2>1, MinusShift
<1> QED
  BY <1>2, <1>4, <1>6, <1>8

\* Boot frames and a caller's frames, counted together, still fit a counter.
LEMMA CountFits ==
  ASSUME NEW mm \in MemoryMaps, NEW B, NEW H,
         B \subseteq BitFrames[mm], H \subseteq BitFrames[mm], B \cap H = {}
  PROVE  /\ Cardinality(B) \in Nat
         /\ Cardinality(H) \in Nat
         /\ Cardinality(B) + Cardinality(H) \in 0 .. Wrap - 1
<1>1. B \cup H \subseteq BitFrames[mm]
  OBVIOUS
<1>2. /\ IsFiniteSet(B) /\ IsFiniteSet(H)
      /\ Cardinality(B) \in Nat /\ Cardinality(H) \in Nat
      /\ Cardinality(B \cup H) \in 0 .. Wrap - 1
  BY <1>1, BitsFinite
<1>3. Cardinality(B \cup H) = Cardinality(B) + Cardinality(H)
  BY <1>2, CardinalityAdd
<1> QED
  BY <1>2, <1>3

\* The invariant, read as facts about the owned sets of an initialized manager.
LEMMA Ownership ==
  ASSUME IInv, initialized
  PROVE  /\ memory_map \in MemoryMaps
         /\ bitmap = BootLocked[memory_map] \cup BootReserved[memory_map] \cup held \cup aside
         /\ BootLocked[memory_map] \cap BootReserved[memory_map] = {}
         /\ held \cap aside = {}
         /\ (BootLocked[memory_map] \cup BootReserved[memory_map]) \cap (held \cup aside) = {}
         /\ bitmap \subseteq BitFrames[memory_map]
         /\ used_memory_size = Cardinality(BootLocked[memory_map]) + Cardinality(held)
         /\ reserved_memory_size = Cardinality(BootReserved[memory_map]) + Cardinality(aside)
<1>1. memory_map \in MemoryMaps /\ bitmap \subseteq BitFrames[memory_map]
  BY DEF IInv, TypeOK
<1>2. BootOwned(memory_map) = BootLocked[memory_map] \cup BootReserved[memory_map]
  BY DEF BootOwned
<1>3. BootLocked[memory_map] \cap BootReserved[memory_map] = {}
  BY <1>1, BootSplit
<1> QED
  BY <1>1, <1>2, <1>3 DEF IInv, OneOwner, Accounting

\* A counter of locked or of reserved frames follows the frames it counts.
LEMMA CounterMoves ==
  ASSUME NEW b \in Nat, NEW h \in Nat, NEW n \in Nat, b + h + n \in 0 .. Wrap - 1
  PROVE  /\ Plus(b + h, n) = b + (h + n)
         /\ Minus(b + (h + n), n) = b + h
         /\ b + h \in 0 .. Wrap - 1
  BY WrapAssumption DEF Plus, Minus

\* lock_page and lock_pages keep the invariant.
LEMMA LockPagesIInv ==
  ASSUME IInv, initialized, NEW S, S \subseteq BitFrames[memory_map], LockPages(S)
  PROVE  IInv'
<1> DEFINE N == NewlySet(S)
           L == BootLocked[memory_map]
<1>1. /\ SetBits(S) /\ held' = held \cup N /\ aside' = aside
      /\ initialized' = initialized /\ memory_map' = memory_map
      /\ used_memory_size' = Plus(used_memory_size, Cardinality(N))
      /\ reserved_memory_size' = reserved_memory_size
  BY DEF LockPages
<1>2. held \subseteq bitmap
  BY Ownership
<1> HIDE DEF N
<1>3. /\ bitmap' \subseteq BitFrames[memory_map]
      /\ bitmap' = bitmap \cup N
      /\ N \cap bitmap = {}
      /\ Cardinality(N) \in Nat
      /\ Cardinality(held) \in Nat
      /\ Cardinality(held \cup N) = Cardinality(held) + Cardinality(N)
      /\ free_memory_size' \in 0 .. Wrap - 1
      /\ free_memory_size' = Minus(TotalPages[memory_map], Cardinality(bitmap'))
  BY <1>1, <1>2, SetBitsEffect DEF N
<1>4. OneOwner'
  BY <1>1, <1>3, Ownership DEF OneOwner, BootOwned
<1>5. /\ Cardinality(L) \in Nat
      /\ Cardinality(L) + Cardinality(held \cup N) \in 0 .. Wrap - 1
  <2>1. L \subseteq BitFrames[memory_map] /\ L \cap (held \cup N) = {}
        /\ held \cup N \subseteq BitFrames[memory_map]
    BY <1>3, Ownership
  <2> QED
    BY <2>1, Ownership, CountFits
<1>6. used_memory_size' = Cardinality(L) + Cardinality(held \cup N)
  BY <1>1, <1>3, <1>5, Ownership, CounterMoves
<1>7. Accounting'
  BY <1>1, <1>3, <1>6 DEF Accounting, IInv
<1>8. TypeOK'
  BY <1>1, <1>3, <1>5, <1>6 DEF TypeOK, IInv
<1> QED
  BY <1>4, <1>7, <1>8 DEF IInv

\* reserve_page and reserve_pages keep the invariant.
LEMMA ReservePagesIInv ==
  ASSUME IInv, initialized, NEW S, S \subseteq BitFrames[memory_map], ReservePages(S)
  PROVE  IInv'
<1> DEFINE N == NewlySet(S)
           R == BootReserved[memory_map]
<1>1. /\ SetBits(S) /\ aside' = aside \cup N /\ held' = held
      /\ initialized' = initialized /\ memory_map' = memory_map
      /\ reserved_memory_size' = Plus(reserved_memory_size, Cardinality(N))
      /\ used_memory_size' = used_memory_size
  BY DEF ReservePages
<1>2. aside \subseteq bitmap
  BY Ownership
<1> HIDE DEF N
<1>3. /\ bitmap' \subseteq BitFrames[memory_map]
      /\ bitmap' = bitmap \cup N
      /\ N \cap bitmap = {}
      /\ Cardinality(N) \in Nat
      /\ Cardinality(aside) \in Nat
      /\ Cardinality(aside \cup N) = Cardinality(aside) + Cardinality(N)
      /\ free_memory_size' \in 0 .. Wrap - 1
      /\ free_memory_size' = Minus(TotalPages[memory_map], Cardinality(bitmap'))
  BY <1>1, <1>2, SetBitsEffect DEF N
<1>4. OneOwner'
  BY <1>1, <1>3, Ownership DEF OneOwner, BootOwned
<1>5. /\ Cardinality(R) \in Nat
      /\ Cardinality(R) + Cardinality(aside \cup N) \in 0 .. Wrap - 1
  <2>1. R \subseteq BitFrames[memory_map] /\ R \cap (aside \cup N) = {}
        /\ aside \cup N \subseteq BitFrames[memory_map]
    BY <1>3, Ownership
  <2> QED
    BY <2>1, Ownership, CountFits
<1>6. reserved_memory_size' = Cardinality(R) + Cardinality(aside \cup N)
  BY <1>1, <1>3, <1>5, Ownership, CounterMoves
<1>7. Accounting'
  BY <1>1, <1>3, <1>6 DEF Accounting, IInv
<1>8. TypeOK'
  BY <1>1, <1>3, <1>5, <1>6 DEF TypeOK, IInv
<1> QED
  BY <1>4, <1>7, <1>8 DEF IInv

\* free_page and free_pages keep the invariant when callers free what is theirs.
LEMMA FreePagesIInv ==
  ASSUME IInv, initialized, NEW S, MayFree(S), FreePages(S)
  PROVE  IInv'
<1> DEFINE N == NewlyCleared(S)
           L == BootLocked[memory_map]
<1>1. /\ ClearBits(S) /\ held' = held \ S /\ aside' = aside
      /\ initialized' = initialized /\ memory_map' = memory_map
      /\ used_memory_size' = Minus(used_memory_size, Cardinality(N))
      /\ reserved_memory_size' = reserved_memory_size
  BY DEF FreePages
<1>2. held \subseteq bitmap /\ N \subseteq held
  BY Ownership DEF MayFree, ClearFrames, NewlyCleared
<1> HIDE DEF N
<1>3. /\ bitmap' \subseteq BitFrames[memory_map]
      /\ bitmap' = bitmap \ N
      /\ held \ S = held \ N
      /\ Cardinality(N) \in Nat
      /\ Cardinality(held \ N) \in Nat
      /\ Cardinality(held) = Cardinality(held \ N) + Cardinality(N)
      /\ free_memory_size' \in 0 .. Wrap - 1
      /\ free_memory_size' = Minus(TotalPages[memory_map], Cardinality(bitmap'))
  BY <1>1, <1>2, ClearBitsEffect DEF N
<1>4. OneOwner'
  BY <1>1, <1>2, <1>3, Ownership DEF OneOwner, BootOwned
<1>5. /\ Cardinality(L) \in Nat
      /\ Cardinality(L) + Cardinality(held) \in 0 .. Wrap - 1
  <2>1. L \subseteq BitFrames[memory_map] /\ L \cap held = {}
        /\ held \subseteq BitFrames[memory_map]
    BY Ownership
  <2> QED
    BY <2>1, Ownership, CountFits
<1>6. /\ used_memory_size' = Cardinality(L) + Cardinality(held \ N)
      /\ used_memory_size' \in 0 .. Wrap - 1
  <2>1. Cardinality(L) + Cardinality(held \ N) + Cardinality(N) \in 0 .. Wrap - 1
    BY <1>3, <1>5
  <2> QED
    BY <2>1, <1>1, <1>3, <1>5, Ownership, CounterMoves
<1>7. Accounting'
  BY <1>1, <1>3, <1>6 DEF Accounting, IInv
<1>8. TypeOK'
  BY <1>1, <1>3, <1>6 DEF TypeOK, IInv
<1> QED
  BY <1>4, <1>7, <1>8 DEF IInv

\* unreserve_page and unreserve_pages keep the invariant likewise.
LEMMA UnreservePagesIInv ==
  ASSUME IInv, initialized, NEW S, MayUnreserve(S), UnreservePages(S)
  PROVE  IInv'
<1> DEFINE N == NewlyCleared(S)
           R == BootReserved[memory_map]
<1>1. /\ ClearBits(S) /\ aside' = aside \ S /\ held' = held
      /\ initialized' = initialized /\ memory_map' = memory_map
      /\ reserved_memory_size' = Minus(reserved_memory_size, Cardinality(N))
      /\ used_memory_size' = used_memory_size
  BY DEF UnreservePages
<1>2. aside \subseteq bitmap /\ N \subseteq aside
  BY Ownership DEF MayUnreserve, ClearFrames, NewlyCleared
<1> HIDE DEF N
<1>3. /\ bitmap' \subseteq BitFrames[memory_map]
      /\ bitmap' = bitmap \ N
      /\ aside \ S = aside \ N
      /\ Cardinality(N) \in Nat
      /\ Cardinality(aside \ N) \in Nat
      /\ Cardinality(aside) = Cardinality(aside \ N) + Cardinality(N)
      /\ free_memory_size' \in 0 .. Wrap - 1
      /\ free_memory_size' = Minus(TotalPages[memory_map], Cardinality(bitmap'))
  BY <1>1, <1>2, ClearBitsEffect DEF N
<1>4. OneOwner'
  BY <1>1, <1>2, <1>3, Ownership DEF OneOwner, BootOwned
<1>5. /\ Cardinality(R) \in Nat
      /\ Cardinality(R) + Cardinality(aside) \in 0 .. Wrap - 1
  <2>1. R \subseteq BitFrames[memory_map] /\ R \cap aside = {}
        /\ aside \subseteq BitFrames[memory_map]
    BY Ownership
  <2> QED
    BY <2>1, Ownership, CountFits
<1>6. /\ reserved_memory_size' = Cardinality(R) + Cardinality(aside \ N)
      /\ reserved_memory_size' \in 0 .. Wrap - 1
  <2>1. Cardinality(R) + Cardinality(aside \ N) + Cardinality(N) \in 0 .. Wrap - 1
    BY <1>3, <1>5
  <2> QED
    BY <2>1, <1>1, <1>3, <1>5, Ownership, CounterMoves
<1>7. Accounting'
  BY <1>1, <1>3, <1>6 DEF Accounting, IInv
<1>8. TypeOK'
  BY <1>1, <1>3, <1>6 DEF TypeOK, IInv
<1> QED
  BY <1>4, <1>7, <1>8 DEF IInv

\* request_page locks one clear bit of the bitmap, or changes nothing.
LEMMA RequestPageLocks ==
  ASSUME IInv, initialized, RequestPage
  PROVE  \/ UNCHANGED vars
         \/ \E S : S \subseteq BitFrames[memory_map] /\ LockPages(S)
<1>1. CASE ClearFrames = {}
  BY <1>1 DEF RequestPage
<1>2. CASE ClearFrames # {}
  <2>1. PICK f \in ClearFrames : \A g \in ClearFrames : f <= g
    <3>1. ClearFrames \subseteq Nat
      BY BitsOfMap, Ownership DEF ClearFrames
    <3> QED
      BY <1>2, <3>1, LeastNatural
  <2>2. RequestedFrame \in ClearFrames
    BY <1>2, <2>1 DEF RequestedFrame, FirstFit
  <2>3. {RequestedFrame} \subseteq BitFrames[memory_map] /\ LockPages({RequestedFrame})
    BY <1>2, <2>2 DEF RequestPage, ClearFrames
  <2> QED
    BY <2>3
<1> QED
  BY <1>1, <1>2

\* The ranges callers pass lie inside the bitmap.
LEMMA RangesInBitmap ==
  ASSUME IInv, initialized, NEW S \in Ranges
  PROVE  S \subseteq BitFrames[memory_map]
<1> DEFINE n == BitmapBytes(memory_map) * ByteBits
<1>1. n \in Nat /\ BitFrames[memory_map] = 0 .. n - 1
  BY Ownership, MapsAssumption DEF BitFrames
<1>2. PICK f \in BitFrames[memory_map], l \in BitFrames[memory_map] : S = f .. l
  BY DEF Ranges
<1> HIDE DEF n
<1> QED
  BY <1>1, <1>2

\* Every step of the manager and its callers keeps the invariant.
LEMMA NextIInv ==
  ASSUME IInv, [Next]_vars
  PROVE  IInv'
<1>1. CASE UNCHANGED vars
  BY <1>1 DEF IInv, TypeOK, OneOwner, Accounting, vars, counters
<1>2. ASSUME NEW mm \in MemoryMaps, Initialize(mm)
      PROVE  IInv'
  BY <1>2, InitializeIInv
<1>3. CASE initialized /\ RequestPage
  BY <1>1, <1>3, RequestPageLocks, LockPagesIInv
<1>4. initialized => \A S \in Ranges : S \subseteq BitFrames[memory_map]
  BY RangesInBitmap
<1>5. ASSUME initialized, NEW S \in Ranges, LockPages(S)
      PROVE  IInv'
  BY <1>4, <1>5, LockPagesIInv
<1>6. ASSUME initialized, NEW S \in Ranges, MayFree(S), FreePages(S)
      PROVE  IInv'
  BY <1>6, FreePagesIInv
<1>7. ASSUME initialized, NEW S \in Ranges, ReservePages(S)
      PROVE  IInv'
  BY <1>4, <1>7, ReservePagesIInv
<1>8. ASSUME initialized, NEW S \in Ranges, MayUnreserve(S), UnreservePages(S)
      PROVE  IInv'
  BY <1>8, UnreservePagesIInv
<1> QED
  BY <1>1, <1>2, <1>3, <1>5, <1>6, <1>7, <1>8 DEF Next

-----------------------------------------------------------------------------
(* The results.                                                            *)

\* The inductive invariant holds in every behaviour.
THEOREM Invariance == Spec => []IInv
<1>1. Init => IInv
  BY InitIInv
<1>2. IInv /\ [Next]_vars => IInv'
  BY NextIInv
<1> QED
  BY <1>1, <1>2, PTL DEF Spec

\* The state keeps its types.
THEOREM TypeCorrect == Spec => []TypeOK
  BY Invariance, PTL DEF IInv

\* Every set bit has one owner: pages of the boot are never handed to a caller
\* of request_page, and no page is both locked and reserved.
THEOREM Ownerships == Spec => []OneOwner
  BY Invariance, PTL DEF IInv

\* The three counters of pmm.cpp always agree with the bitmap.
THEOREM Accounts == Spec => []Accounting
  BY Invariance, PTL DEF IInv

\* The free memory reported to sys_get_info is the size of the clear part of
\* memory until frames past the end of memory are taken.
THEOREM FreeRam == Spec => []FreeRamHonest
<1>1. IInv => FreeRamHonest
  <2> SUFFICES ASSUME IInv, initialized, bitmap \subseteq MemoryFrames(memory_map)
               PROVE  free_memory_size = Cardinality(MemoryFrames(memory_map) \ bitmap)
    BY DEF FreeRamHonest
  <2> DEFINE M == MemoryFrames(memory_map)
             t == TotalPages[memory_map]
  <2>1. t \in Nat
    BY BitsOfMap, Ownership
  <2>2. IsFiniteSet(M) /\ Cardinality(M) = t
    BY <2>1, FirstNaturals DEF MemoryFrames
  <2> HIDE DEF M
  <2>3. bitmap \subseteq M
    BY DEF M
  <2>4. /\ Cardinality(M \ bitmap) \in Nat /\ Cardinality(bitmap) \in Nat
        /\ Cardinality(M \ bitmap) + Cardinality(bitmap) = t
    BY <2>2, <2>3, CardinalityRemove
  <2>5. free_memory_size = Minus(t, Cardinality(bitmap))
    BY DEF IInv, Accounting
  <2> HIDE DEF t
  <2>6. free_memory_size = Cardinality(M \ bitmap)
    BY <2>1, <2>4, <2>5 DEF Minus
  <2> QED
    BY <2>6 DEF M
<1> QED
  BY <1>1, Invariance, PTL

-----------------------------------------------------------------------------
(* What the boot sets covers every frame that holds something.             *)

\* Division leaves a remainder below the divisor.
LEMMA Division ==
  ASSUME NEW a \in Nat, NEW b \in Nat \ {0}
  PROVE  /\ a \div b \in Nat /\ a % b \in 0 .. b - 1
         /\ a = ((a \div b) * b) + (a % b)
BY SMT

\* Of two numbers of whole pages the smaller has fewer.
LEMMA FewerPages ==
  ASSUME NEW x \in Int, NEW y \in Int, NEW b \in Nat \ {0}, x * b < y * b
  PROVE  x < y
BY SMT

\* The frames a buffer touches, from an aligned base on, are those of its length in
\* pages and one more for a last page it fills in part.
LEMMA TouchedPages ==
  ASSUME NEW f \in Nat, NEW base \in Nat, NEW length \in Nat,
         PageSize \in Nat \ {0}, Aligned(base),
         f * PageSize < base + length, base < (f + 1) * PageSize
  PROVE  /\ f \in Pages(base, (length \div PageSize) + 1)
         /\ Aligned(length) => f \in Pages(base, length \div PageSize)
<1> DEFINE q == base \div PageSize
           l == length \div PageSize
<1>1. q \in Nat /\ base = q * PageSize
  BY Division DEF Aligned
<1>2. l \in Nat /\ length % PageSize \in 0 .. PageSize - 1 /\ length = l * PageSize + (length % PageSize)
  BY Division
<1> HIDE DEF q, l
<1>3. q < f + 1
  BY <1>1, FewerPages
<1>4. f < q + l + 1
  <2>1. f * PageSize < (q + l + 1) * PageSize
    BY <1>1, <1>2
  <2> QED
    BY <1>1, <1>2, <2>1, FewerPages
<1>5. Aligned(length) => f < q + l
  <2> SUFFICES ASSUME Aligned(length) PROVE f < q + l
    OBVIOUS
  <2>1. f * PageSize < (q + l) * PageSize
    BY <1>1, <1>2 DEF Aligned
  <2> QED
    BY <1>1, <1>2, <2>1, FewerPages
<1> QED
  BY <1>1, <1>2, <1>3, <1>4, <1>5 DEF Pages, FrameOf, q, l

\* The low MiB, frame 0 included.
LEMMA LowCovered ==
  ASSUME NEW f \in Nat, f * PageSize < MiB
  PROVE  f \in LowFrames /\ FrameOf(Null) \in LowFrames
<1>1. /\ PageSize \in Nat \ {0} /\ MiB \in Nat \ {0} /\ Aligned(MiB) /\ Aligned(0) /\ 0 \div PageSize = 0
  BY LayoutAssumption DEF Aligned
<1>2. f \in Pages(0, MiB \div PageSize)
  <2>1. f * PageSize < 0 + MiB /\ 0 < (f + 1) * PageSize
    BY <1>1
  <2> QED
    BY <1>1, <2>1, TouchedPages
<1> QED
  BY <1>1, <1>2 DEF LowFrames, Pages, FrameOf, Null

\* A frame of memory in an entry that is not conventional, whole pages or low: such
\* an entry starts in memory.
LEMMA FirmwareCovered ==
  ASSUME NEW mm \in MemoryMaps, NEW n \in (DOMAIN mm) \ Conventional(mm),
         NEW f \in MemoryFrames(mm),
         f * PageSize < mm[n].base + mm[n].length, mm[n].base < (f + 1) * PageSize
  PROVE  f \in EntryFrames(mm) \cup LowFrames
<1>1. /\ n \in DOMAIN mm /\ mm[n].type # 1 /\ PageSize \in Nat \ {0} /\ MiB \in Nat
      /\ mm[n].base \in Nat /\ mm[n].length \in Nat
      /\ \/ Aligned(mm[n].base) /\ Aligned(mm[n].length)
         \/ mm[n].base + mm[n].length <= MiB
  BY LayoutAssumption DEF Conventional
<1>2. f \in Nat /\ f < TotalPages[mm] /\ TotalBytes(mm) \in Nat /\ TotalPages[mm] \in Nat
  BY MapsAssumption DEF MemoryFrames
<1>3. n \in Firmware(mm)
  <2>1. TotalPages[mm] * PageSize <= TotalBytes(mm)
    <3> DEFINE b == TotalBytes(mm)
               q == b \div PageSize
    <3>1. q = TotalPages[mm]
      BY DEF TotalPages
    <3>2. b \in Nat /\ q \in Nat
      BY <1>2, <3>1
    <3>3. b % PageSize \in 0 .. PageSize - 1 /\ b = (q * PageSize) + (b % PageSize)
      BY <1>1, <3>2, Division
    <3> HIDE DEF q, b
    <3>4. q * PageSize \in Nat
      BY <1>1, <3>2
    <3> QED
      BY <3>1, <3>2, <3>3, <3>4 DEF b
  <2>2. (f + 1) * PageSize <= TotalPages[mm] * PageSize
    <3> DEFINE t == TotalPages[mm]
    <3>1. f + 1 <= t /\ t \in Nat
      BY <1>2
    <3> HIDE DEF t
    <3>2. (f + 1) * PageSize <= t * PageSize
      BY <1>1, <1>2, <3>1
    <3> QED
      BY <3>2 DEF t
  <2>3. (f + 1) * PageSize \in Nat /\ TotalPages[mm] * PageSize \in Nat
    BY <1>1, <1>2
  <2> QED
    BY <1>1, <1>2, <2>1, <2>2, <2>3 DEF Firmware
<1>4. CASE Aligned(mm[n].base) /\ Aligned(mm[n].length)
  <2>1. f \in Pages(mm[n].base, mm[n].length \div PageSize)
    BY <1>1, <1>2, <1>4, TouchedPages
  <2> QED
    BY <1>3, <2>1 DEF EntryFrames
<1>5. CASE mm[n].base + mm[n].length <= MiB
  <2>1. f * PageSize < MiB
    BY <1>1, <1>2, <1>5
  <2> QED
    BY <1>2, <2>1, LowCovered
<1> QED
  BY <1>1, <1>4, <1>5

\* The bitmap's own buffer, wherever initialize puts it.
LEMMA BitmapCovered ==
  ASSUME NEW mm \in MemoryMaps, NEW f \in Nat,
         f * PageSize < BitmapBase(mm) + BitmapBytes(mm), BitmapBase(mm) < (f + 1) * PageSize
  PROVE  f \in BitmapFrames(mm)
<1>1. PageSize \in Nat \ {0}
  BY LayoutAssumption
<1>2. BitmapBase(mm) \in Nat /\ Aligned(BitmapBase(mm))
  <2> DEFINE size(i) == mm[i].length \div PageSize
             big == {i \in Conventional(mm) : size(i) > 0 /\ \A j \in Conventional(mm) :
                       size(j) < size(i) \/ (size(j) = size(i) /\ i <= j)}
  <2>1. BitmapBase(mm) = IF big = {} THEN Null ELSE mm[CHOOSE i \in big : TRUE].base
    BY DEF BitmapBase
  <2>2. big \subseteq Conventional(mm)
    OBVIOUS
  <2> HIDE DEF big
  <2>3. CASE big = {}
    BY <1>1, <2>1, <2>3 DEF Null, Aligned
  <2>4. CASE big # {}
    <3>1. (CHOOSE i \in big : TRUE) \in Conventional(mm)
      BY <2>2, <2>4
    <3> QED
      BY <2>1, <2>4, <3>1, LayoutAssumption DEF Conventional
  <2> QED
    BY <2>3, <2>4
<1>3. BitmapBytes(mm) \in Nat
  <2>1. TotalPages[mm] \in Nat /\ ByteBits \in Nat \ {0}
    BY MapsAssumption, LayoutAssumption
  <2>2. TotalPages[mm] \div ByteBits \in Nat
    BY <2>1, Division
  <2> QED
    BY <2>2 DEF BitmapBytes
<1> QED
  BY <1>1, <1>2, <1>3, TouchedPages DEF BitmapFrames

\* Every frame of memory that holds even one byte of something is the boot's, and so
\* is frame 0.
LEMMA PreciousIsOwned ==
  ASSUME NEW mm \in MemoryMaps
  PROVE  /\ MemoryFrames(mm) \cap Precious[mm] \subseteq BootOwned(mm)
         /\ FrameOf(Null) \in BootOwned(mm)
<1>1. /\ PageSize \in Nat \ {0} /\ MiB \in Nat \ {0} /\ KernelStart \in Nat
      /\ KernelSize \in Nat /\ Aligned(KernelStart)
  BY LayoutAssumption
<1>2. BootOwned(mm) = BitmapFrames(mm) \cup EntryFrames(mm) \cup LowFrames \cup KernelFrames
  BY DEF BootOwned, BootLocked, BootReserved
<1>3. FrameOf(Null) \in LowFrames
  BY <1>1, LowCovered
<1>4. ASSUME NEW f \in MemoryFrames(mm), f \in Precious[mm]
      PROVE  f \in BootOwned(mm)
  <2> DEFINE rest == (DOMAIN mm) \ Conventional(mm)
             entries == UNION {Touched(mm[i].base, mm[i].length) : i \in rest}
  <2>1. Precious[mm] = entries \cup Touched(0, MiB) \cup Touched(KernelStart, KernelSize)
                         \cup Touched(BitmapBase(mm), BitmapBytes(mm))
    BY DEF Precious
  <2>2. \/ \E n \in rest : f \in Touched(mm[n].base, mm[n].length)
        \/ f \in Touched(0, MiB) \/ f \in Touched(KernelStart, KernelSize)
        \/ f \in Touched(BitmapBase(mm), BitmapBytes(mm))
    BY <1>4, <2>1
  <2>3. f \in Nat
    BY <1>4 DEF MemoryFrames
  <2>4. CASE \E n \in rest : f \in Touched(mm[n].base, mm[n].length)
    BY <1>2, <2>4, FirmwareCovered DEF Touched
  <2>5. CASE f \in Touched(0, MiB)
    BY <1>1, <1>2, <2>3, <2>5, LowCovered DEF Touched
  <2>6. CASE f \in Touched(KernelStart, KernelSize)
    BY <1>1, <1>2, <2>3, <2>6, TouchedPages DEF Touched, KernelFrames
  <2>7. CASE f \in Touched(BitmapBase(mm), BitmapBytes(mm))
    BY <1>2, <2>3, <2>7, BitmapCovered DEF Touched
  <2> QED
    BY <2>2, <2>4, <2>5, <2>6, <2>7
<1> QED
  BY <1>2, <1>3, <1>4

\* First fit reaches the bits past the end of memory last.
LEMMA MemoryFirst ==
  ASSUME initialized, memory_map \in MemoryMaps,
         ~(MemoryFrames(memory_map) \subseteq bitmap)
  PROVE  RequestedFrame \in MemoryFrames(memory_map) \ bitmap
<1>1. PICK g \in MemoryFrames(memory_map) : g \notin bitmap
  OBVIOUS
<1>2. /\ TotalPages[memory_map] \in Nat
      /\ BitmapBytes(memory_map) * ByteBits \in Nat
      /\ TotalPages[memory_map] < BitmapBytes(memory_map) * ByteBits
  BY MapsAssumption
<1>3. g \in ClearFrames /\ ClearFrames \subseteq Nat
  BY <1>1, <1>2 DEF ClearFrames, BitFrames, MemoryFrames
<1>4. PICK x \in ClearFrames : \A y \in ClearFrames : x <= y
  BY <1>3, LeastNatural
<1>5. /\ RequestedFrame \in ClearFrames
      /\ \A y \in ClearFrames : RequestedFrame <= y
  <2>1. RequestedFrame = CHOOSE f \in ClearFrames : \A y \in ClearFrames : f <= y
    BY <1>3 DEF RequestedFrame, FirstFit
  <2> QED
    BY <1>4, <2>1
<1>6. RequestedFrame <= g /\ RequestedFrame \in Nat
  BY <1>3, <1>5
<1> QED
  BY <1>1, <1>2, <1>5, <1>6 DEF ClearFrames, MemoryFrames

\* The rounding of initialize loses no page of memory: nobody is given one that holds a
\* byte of the kernel, the firmware, the low MiB or the bitmap, nor frame 0, and no bit
\* past the end of memory is given away while memory has a page left.
THEOREM PreciousKept == Spec => []PreciousNeverHandedOut
<1>1. IInv => PreciousNeverHandedOut
  <2> SUFFICES ASSUME IInv, initialized
               PROVE  /\ held \cap MemoryFrames(memory_map)
                           \cap (Precious[memory_map] \cup {FrameOf(Null)}) = {}
                      /\ \/ MemoryFrames(memory_map) \subseteq bitmap
                         \/ RequestedFrame \notin Precious[memory_map] \cup {FrameOf(Null)}
    BY DEF PreciousNeverHandedOut
  <2>1. /\ memory_map \in MemoryMaps
        /\ bitmap = BootOwned(memory_map) \cup held \cup aside
        /\ BootOwned(memory_map) \cap held = {}
    BY DEF IInv, TypeOK, OneOwner
  <2>2. /\ MemoryFrames(memory_map) \cap Precious[memory_map] \subseteq BootOwned(memory_map)
        /\ FrameOf(Null) \in BootOwned(memory_map)
    BY <2>1, PreciousIsOwned
  <2>3. \/ MemoryFrames(memory_map) \subseteq bitmap
        \/ RequestedFrame \in MemoryFrames(memory_map) \ bitmap
    BY <2>1, MemoryFirst
  <2> QED
    BY <2>1, <2>2, <2>3
<1> QED
  BY Invariance, <1>1, PTL

-----------------------------------------------------------------------------
(* The manager implements FrameAllocator.                                  *)

\* The refinement mapping's sets and memory.
Used   == IF initialized THEN BootLocked[memory_map] \cup held ELSE {}
Rsvd   == IF initialized THEN BootReserved[memory_map] \cup aside ELSE {}
Memory == IF initialized THEN TotalPages[memory_map] ELSE 0
Boot   == IF initialized THEN BootOwned(memory_map) ELSE {}
Report == [free     |-> free_memory_size,
           used     |-> used_memory_size,
           reserved |-> reserved_memory_size]

\* The instance counts as this module does.
LEMMA SameCardinality == \A S : Abstract!Cardinality(S) = Cardinality(S)
  BY DEF Abstract!Cardinality, Abstract!IsFiniteSet, Cardinality, IsFiniteSet

\* The counters are the report FrameAllocator promises.
LEMMA ReportIsTrue == IInv => Report = Abstract!TrueReport(Used, Rsvd, Memory)
<1> SUFFICES ASSUME IInv PROVE Report = Abstract!TrueReport(Used, Rsvd, Memory)
  OBVIOUS
<1>1. CASE ~initialized
  <2>1. Cardinality({}) = 0 /\ {} \cup {} = {}
    BY FS_EmptySet
  <2> QED
    BY <1>1, <2>1, SameCardinality DEF Report, Used, Rsvd, Memory, IInv, Accounting,
                      Abstract!TrueReport, Abstract!Left
<1>2. CASE initialized
  <2> DEFINE L == BootLocked[memory_map]
             R == BootReserved[memory_map]
  <2>1. /\ L \subseteq BitFrames[memory_map] /\ held \subseteq BitFrames[memory_map]
        /\ R \subseteq BitFrames[memory_map] /\ aside \subseteq BitFrames[memory_map]
        /\ L \cap held = {} /\ R \cap aside = {}
        /\ bitmap = (L \cup held) \cup (R \cup aside)
    BY <1>2, Ownership
  <2>2. IsFiniteSet(L) /\ IsFiniteSet(held) /\ IsFiniteSet(R) /\ IsFiniteSet(aside)
    BY <1>2, <2>1, Ownership, BitsFinite
  <2>3. Cardinality(L \cup held) = used_memory_size
    BY <1>2, <2>1, <2>2, CardinalityAdd, Ownership
  <2>4. Cardinality(R \cup aside) = reserved_memory_size
    BY <1>2, <2>1, <2>2, CardinalityAdd, Ownership
  <2>5. free_memory_size = Minus(TotalPages[memory_map], Cardinality(bitmap))
    BY <1>2 DEF IInv, Accounting
  <2>6. free_memory_size = Abstract!Left(Memory, Cardinality(Used \cup Rsvd))
    BY <1>2, <2>1, <2>5 DEF Minus, Abstract!Left, Memory, Used, Rsvd
  <2> QED
    BY <1>2, <2>3, <2>4, <2>6, SameCardinality DEF Report, Used, Rsvd, Abstract!TrueReport
<1> QED
  BY <1>1, <1>2

\* Init of the manager is an initial state of the allocator.
LEMMA InitRefines == Init => Abstract!Init
<1> SUFFICES ASSUME Init PROVE Abstract!Init
  OBVIOUS
<1>1. IInv
  BY InitIInv
<1>2. ~initialized
  BY DEF Init
<1>3. Report = Abstract!TrueReport({}, {}, 0)
  BY <1>1, <1>2, ReportIsTrue DEF Used, Rsvd, Memory
<1> QED
  BY <1>2, <1>3 DEF Abstract!Init, Report

\* Locking and freeing move frames of used; reserving and unreserving move
\* frames of reserved; the boot's frames stay.
LEMMA StepRefines == IInv /\ IInv' /\ [Next]_vars => [Abstract!Next]_(Abstract!vars)
<1> SUFFICES ASSUME IInv, IInv', [Next]_vars
             PROVE  [Abstract!Next]_(Abstract!vars)
  OBVIOUS
<1> DEFINE Same == initialized /\ initialized' = initialized /\ memory_map' = memory_map
<1>1. Report' = Abstract!TrueReport(Used', Rsvd', Memory')
  <2>1. (IInv => Report = Abstract!TrueReport(Used, Rsvd, Memory))'
    BY ReportIsTrue, PTL
  <2>2. (Abstract!TrueReport(Used, Rsvd, Memory))' = Abstract!TrueReport(Used', Rsvd', Memory')
    BY DEF Abstract!TrueReport, Abstract!Left
  <2> QED
    BY <2>1, <2>2
<1>2. CASE UNCHANGED vars
  BY <1>2 DEF vars, counters, Abstract!vars
<1>3. ASSUME NEW mm \in MemoryMaps, Initialize(mm)
      PROVE  Abstract!Next
  <2> DEFINE s == [locked |-> BootLocked[mm], reserved |-> BootReserved[mm],
                   memory |-> TotalPages[mm]]
  <2>1. s \in Setups
    BY DEF Setups
  <2>2. /\ ~initialized /\ initialized' /\ memory_map' = mm
        /\ held' = {} /\ aside' = {}
    BY <1>3 DEF Initialize, IInv, OneOwner
  <2>3. /\ Used' = s.locked /\ Rsvd' = s.reserved /\ Memory' = s.memory
        /\ Boot' = s.locked \cup s.reserved
    BY <2>2 DEF Used, Rsvd, Memory, Boot, BootOwned
  <2>4. Abstract!Setup(s)
    BY <1>1, <2>2, <2>3 DEF Abstract!Setup, Used, Rsvd, Memory, Boot, Report, Initialize
  <2> QED
    BY <2>1, <2>4 DEF Abstract!Next
<1>4. ASSUME Same, Rsvd' = Rsvd, Abstract!Moves(Used, Rsvd, Used')
      PROVE  Abstract!Next
  BY <1>1, <1>4 DEF Abstract!Next, Abstract!Transfer, Used, Rsvd, Memory, Report
<1>5. ASSUME Same, Used' = Used, Abstract!Moves(Rsvd, Used, Rsvd')
      PROVE  Abstract!Next
  BY <1>1, <1>5 DEF Abstract!Next, Abstract!Transfer, Used, Rsvd, Memory, Report
<1>6. ASSUME initialized, NEW S, S \subseteq BitFrames[memory_map], LockPages(S)
      PROVE  Abstract!Next
  <2>1. /\ Same /\ aside' = aside
        /\ held' = held \cup (S \ bitmap)
    BY <1>6 DEF LockPages, NewlySet
  <2>2. /\ Used' = Used \cup (S \ bitmap) /\ Rsvd' = Rsvd /\ Used \cup Rsvd = bitmap
        /\ Used \cap Rsvd = {} /\ bitmap \subseteq AllBits /\ S \subseteq AllBits
    BY <1>6, <2>1, Ownership DEF Used, Rsvd, AllBits
  <2>3. Abstract!Moves(Used, Rsvd, Used')
    BY <2>2 DEF Abstract!Moves
  <2> QED
    BY <2>1, <2>2, <2>3, <1>4
<1>7. ASSUME initialized, NEW S, MayFree(S), FreePages(S)
      PROVE  Abstract!Next
  <2>1. /\ Same /\ aside' = aside
        /\ held' = held \ S
        /\ S \cap bitmap \subseteq held
    BY <1>7, Ownership DEF FreePages, MayFree, ClearFrames
  <2>2. Used' \subseteq Used /\ Rsvd' = Rsvd /\ Boot \cap Used \subseteq Used'
    BY <1>7, <2>1, Ownership DEF Used, Rsvd, Boot, BootOwned
  <2>3. Abstract!Moves(Used, Rsvd, Used')
    BY <2>2 DEF Abstract!Moves, Boot
  <2> QED
    BY <2>1, <2>2, <2>3, <1>4
<1>8. ASSUME initialized, NEW S, S \subseteq BitFrames[memory_map], ReservePages(S)
      PROVE  Abstract!Next
  <2>1. /\ Same /\ held' = held
        /\ aside' = aside \cup (S \ bitmap)
    BY <1>8 DEF ReservePages, NewlySet
  <2>2. /\ Rsvd' = Rsvd \cup (S \ bitmap) /\ Used' = Used /\ Used \cup Rsvd = bitmap
        /\ Used \cap Rsvd = {} /\ bitmap \subseteq AllBits /\ S \subseteq AllBits
    BY <1>8, <2>1, Ownership DEF Used, Rsvd, AllBits
  <2>3. Abstract!Moves(Rsvd, Used, Rsvd')
    BY <2>2 DEF Abstract!Moves
  <2> QED
    BY <2>1, <2>2, <2>3, <1>5
<1>9. ASSUME initialized, NEW S, MayUnreserve(S), UnreservePages(S)
      PROVE  Abstract!Next
  <2>1. /\ Same /\ held' = held
        /\ aside' = aside \ S
        /\ S \cap bitmap \subseteq aside
    BY <1>9, Ownership DEF UnreservePages, MayUnreserve, ClearFrames
  <2>2. Rsvd' \subseteq Rsvd /\ Used' = Used /\ Boot \cap Rsvd \subseteq Rsvd'
    BY <1>9, <2>1, Ownership DEF Used, Rsvd, Boot, BootOwned
  <2>3. Abstract!Moves(Rsvd, Used, Rsvd')
    BY <2>2 DEF Abstract!Moves, Boot
  <2> QED
    BY <2>1, <2>2, <2>3, <1>5
<1>10. initialized => \A S \in Ranges : S \subseteq BitFrames[memory_map]
  BY RangesInBitmap
<1>11. CASE initialized /\ RequestPage
  BY <1>2, <1>6, <1>11, RequestPageLocks
<1> QED
  BY <1>2, <1>3, <1>6, <1>7, <1>8, <1>9, <1>10, <1>11 DEF Next

\* The physical memory manager implements FrameAllocator.
THEOREM Refinement == Spec => ImplementsFrameAllocator
<1>1. Init => Abstract!Init
  BY InitRefines
<1>2. IInv /\ IInv' /\ [Next]_vars => [Abstract!Next]_(Abstract!vars)
  BY StepRefines
<1> QED
  BY <1>1, <1>2, Invariance, PTL DEF Spec, ImplementsFrameAllocator, Abstract!Spec
=============================================================================
