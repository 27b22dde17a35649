--------------------------- MODULE FrameAllocator ---------------------------
(***************************************************************************)
(* What the physical memory manager promises its callers, with no bitmap,  *)
(* no first fit and no incremental counters: frames belong to the boot, to *)
(* whoever locked them or to whoever reserved them, ownership never        *)
(* overlaps, the boot's frames never change hands, and the sizes reported  *)
(* are the sizes of those sets.                                            *)
(***************************************************************************)
EXTENDS Integers, FiniteSets

CONSTANTS
  Frame,    \* every frame the manager can track
  Setups,   \* what the boot may take: [locked, reserved, memory]
  Wrap      \* sizes are reported modulo Wrap

VARIABLES up, boot, used, reserved, memory, report

vars == <<up, boot, used, reserved, memory, report>>

\* Taking more frames than memory has wraps the report of free ones.
Left(total, taken) == IF taken <= total THEN total - taken ELSE total - taken + Wrap

TrueReport(u, r, m) ==
  [free     |-> Left(m, Cardinality(u \cup r)),
   used     |-> Cardinality(u),
   reserved |-> Cardinality(r)]

Init ==
  /\ up = FALSE
  /\ boot = {} /\ used = {} /\ reserved = {}
  /\ memory = 0
  /\ report = TrueReport({}, {}, 0)

Setup(s) ==
  /\ ~up
  /\ up' = TRUE
  /\ boot' = s.locked \cup s.reserved
  /\ used' = s.locked
  /\ reserved' = s.reserved
  /\ memory' = s.memory
  /\ report' = TrueReport(s.locked, s.reserved, s.memory)

\* One set of frames grows by frames nobody owned, or shrinks by frames that
\* are not the boot's.
Moves(mine, others, mine_next) ==
  \/ /\ mine \subseteq mine_next
     /\ mine_next \subseteq Frame
     /\ mine_next \cap others = {}
  \/ /\ mine_next \subseteq mine
     /\ boot \cap mine \subseteq mine_next

Transfer ==
  /\ up
  /\ UNCHANGED <<up, boot, memory>>
  /\ \/ Moves(used, reserved, used') /\ reserved' = reserved
     \/ Moves(reserved, used, reserved') /\ used' = used
  /\ report' = TrueReport(used', reserved', memory)

Next == Transfer \/ \E s \in Setups : Setup(s)

Spec == Init /\ [][Next]_vars
=============================================================================
