-------------------------------- MODULE Heap --------------------------------
(***************************************************************************)
(* The kernel heap, memory/heap.cpp: a list of segments, each with its     *)
(* header in the memory it manages, so the model keeps that memory, one    *)
(* value per 8-byte word.  malloc returns the address of the header: what  *)
(* a caller stores in its block lands in the header.                       *)
(***************************************************************************)
EXTENDS Integers, Sequences, FiniteSets

CONSTANTS
  heap_start,         \* a byte address above the first page
  HeapLength,         \* bytes
  Wide,               \* 2^64, the width of length
  MaxSegments         \* bound: segments malloc walks before it is taken to loop

ASSUME HeapAssumption ==
  /\ heap_start \in Nat /\ heap_start >= 32 /\ heap_start % 8 = 0
  /\ HeapLength \in Nat /\ HeapLength % 8 = 0 /\ HeapLength >= 64
  /\ Wide \in Nat /\ Wide > heap_start + 2 * HeapLength
  /\ MaxSegments \in Nat \ {0}

VARIABLE mem

NULL == 0
HeaderSize == 32
heap_end == heap_start + HeapLength

\* The words of low memory, where a store through NULL goes, and of the heap.
Words == {8 * n : n \in 0 .. heap_end \div 8 - 1}

\* The fields of heap_segment_header.
Length(s) == s
NextOf(s) == s + 8
LastOf(s) == s + 16
Free(s) == s + 24
IsFree(m, s) == m[Free(s)] # 0

\* One value per word.  A store outside of Words (an EXCEPT outside of the domain)
\* changes memory that is not modelled.
HeapInit ==
  mem = [[w \in Words |-> 0] EXCEPT ![Length(heap_start)] = HeapLength - HeaderSize,
                                    ![Free(heap_start)] = 1]

-----------------------------------------------------------------------------
(* split, combine_forward, combine_backward.                               *)

\* Unsigned arithmetic: a segment too short for two headers comes out enormous.
SplitLength(m, s, size) == (m[Length(s)] - size - 2 * HeaderSize) % Wide

Wraps(m, s, size) == m[Length(s)] < size + 2 * HeaderSize

\* Slip: the segment after the new one is not told of it.
SplitWithoutLast(m, s, size) ==
  LET new == s + size + HeaderSize IN
  IF size < 16 \/ SplitLength(m, s, size) < 16 THEN m
  ELSE [m EXCEPT ![NextOf(new)] = m[NextOf(s)],
                 ![NextOf(s)] = new,
                 ![LastOf(new)] = s,
                 ![Length(new)] = SplitLength(m, s, size),
                 ![Free(new)] = m[Free(s)],
                 ![Length(s)] = size]

\* next is not tested for NULL before next->last is set.
Split(m, s, size) ==
  LET new == s + size + HeaderSize IN
  IF size < 16 \/ SplitLength(m, s, size) < 16 THEN m
  ELSE [m EXCEPT ![LastOf(m[NextOf(s)])] = new,
                 ![NextOf(new)] = m[NextOf(s)],
                 ![NextOf(s)] = new,
                 ![LastOf(new)] = s,
                 ![Length(new)] = SplitLength(m, s, size),
                 ![Free(new)] = m[Free(s)],
                 ![Length(s)] = size]

CombineForward(m, s) ==
  LET n == m[NextOf(s)]
      after == m[NextOf(n)]
      linked == IF after # NULL THEN [m EXCEPT ![LastOf(after)] = s] ELSE m
  IN  IF n = NULL \/ ~IsFree(m, n) THEN m
      ELSE [linked EXCEPT ![Length(s)] = (m[Length(s)] + m[Length(n)] + HeaderSize) % Wide,
                          ![NextOf(s)] = after]

CombineBackward(m, s) == IF m[LastOf(s)] # NULL THEN CombineForward(m, m[LastOf(s)]) ELSE m

-----------------------------------------------------------------------------
(* malloc and free.                                                        *)

Rounded(size) == IF size % 16 # 0 THEN (size % 16) + 16 ELSE size

\* The segments malloc looks at, from heap_start along next.
InHeap(a) == a \in Words /\ a >= heap_start /\ a + HeaderSize <= heap_end
Walk(m) ==
  LET at[n \in 0 .. MaxSegments] ==
        IF n = 0 THEN heap_start
        ELSE IF InHeap(at[n - 1]) THEN m[NextOf(at[n - 1])] ELSE NULL
  IN at

Fits(m, s, size) == InHeap(s) /\ IsFree(m, s) /\ m[Length(s)] >= size

\* The first segment that fits, NULL if there is none.
Chosen(m, size) ==
  LET hits == {n \in 0 .. MaxSegments : Fits(m, Walk(m)[n], size)}
  IN IF hits = {} THEN NULL ELSE Walk(m)[CHOOSE n \in hits : \A k \in hits : n <= k]

\* Slip: only an exact fit is marked.
MallocMarksExactFit(m, size) ==
  LET need == Rounded(size)
      s == Chosen(m, need)
  IN IF size = 0 \/ s = NULL THEN m
     ELSE IF m[Length(s)] > need THEN Split(m, s, need) ELSE [m EXCEPT ![Free(s)] = 0]

\* What malloc leaves in memory; it returns Chosen(m, Rounded(size)).
Malloc(m, size) ==
  LET need == Rounded(size)
      s == Chosen(m, need)
  IN IF size = 0 \/ s = NULL THEN m
     ELSE [(IF m[Length(s)] > need THEN Split(m, s, need) ELSE m) EXCEPT ![Free(s)] = 0]

\* Slip: without looking behind.
FreeSegmentForward(m, s) ==
  LET freed == [m EXCEPT ![Free(s)] = 1]
  IN IF freed[NextOf(s)] # NULL /\ IsFree(freed, freed[NextOf(s)])
     THEN CombineForward(freed, s) ELSE freed

FreeSegment(m, s) ==
  LET freed == [m EXCEPT ![Free(s)] = 1]
      forward == IF freed[NextOf(s)] # NULL /\ IsFree(freed, freed[NextOf(s)])
                 THEN CombineForward(freed, s) ELSE freed
  IN IF forward[LastOf(s)] # NULL /\ IsFree(forward, forward[LastOf(s)])
     THEN CombineBackward(forward, s) ELSE forward
=============================================================================
