----------------------------- MODULE HeapClient -----------------------------
(***************************************************************************)
(* The heap with a client that allocates and frees in any order and leaves *)
(* the blocks it gets alone.                                               *)
(***************************************************************************)
EXTENDS Heap

CONSTANTS
  Sizes               \* what the client asks for, multiples of 8

\* The bound of Walk is above any number of segments that the heap has room for.
ASSUME ClientAssumption ==
  /\ \A size \in Sizes : size \in Nat \ {0} /\ size % 8 = 0
  /\ MaxSegments * HeaderSize >= HeapLength

VARIABLES
  blocks,             \* ghost: header address -> what was asked for there
  wrapped             \* ghost: split has computed the length of a segment below zero

vars == <<mem, blocks, wrapped>>

Init == HeapInit /\ blocks = <<>> /\ wrapped = FALSE

Allocate(size) ==
  LET s == Chosen(mem, Rounded(size)) IN
  /\ mem' = Malloc(mem, size)
  /\ IF s = NULL THEN UNCHANGED <<blocks, wrapped>>
     ELSE /\ blocks' = [b \in DOMAIN blocks \cup {s} |-> IF b = s THEN size ELSE blocks[b]]
          /\ wrapped' = (wrapped \/ (mem[Length(s)] > Rounded(size) /\ Wraps(mem, s, Rounded(size))))

Release(s) ==
  /\ mem' = FreeSegment(mem, s)
  /\ blocks' = [b \in DOMAIN blocks \ {s} |-> blocks[b]]
  /\ UNCHANGED wrapped

\* Once a length has wrapped, the list is no longer a list: the client stops.
Next ==
  /\ ~wrapped
  /\ (\E size \in Sizes : Allocate(size)) \/ (\E s \in DOMAIN blocks : Release(s))

Spec == Init /\ [][Next]_vars

-----------------------------------------------------------------------------
\* The segments of the list.
Segments == {Walk(mem)[n] : n \in 0 .. MaxSegments} \ {NULL}
End(s) == s + HeaderSize + mem[Length(s)]

\* split and the two combines keep one doubly linked list in address order whose
\* segments, headers included, lie in the heap and do not overlap.
ListSound ==
  ~wrapped =>
    \A s \in Segments :
      /\ InHeap(s) /\ End(s) <= heap_end
      /\ mem[NextOf(s)] # NULL => mem[LastOf(mem[NextOf(s)])] = s /\ End(s) <= mem[NextOf(s)]

\* The blocks the client holds are exactly the segments that are not free, so no
\* block is handed out twice and every one freed can be handed out again.
BlocksAreTaken == ~wrapped => DOMAIN blocks = {s \in Segments : ~IsFree(mem, s)}

\* free leaves no two free neighbours: what is freed is one piece again.
FreeIsMerged ==
  ~wrapped => \A s \in Segments :
    IsFree(mem, s) /\ mem[NextOf(s)] # NULL => ~IsFree(mem, mem[NextOf(s)])

=============================================================================
