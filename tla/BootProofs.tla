----------------------------- MODULE BootProofs -----------------------------
(***************************************************************************)
(* Theorems of the boot, modules Boot and Pci, for every memory map, size  *)
(* of the tables, framebuffer, configuration space and set of controllers  *)
(* that satisfies the assumptions of those modules, as long as memory      *)
(* lasts: request_page is never checked for nullptr, so that nothing holds *)
(* of a machine that has no page left to give.                             *)
(***************************************************************************)
EXTENDS Pci, FiniteSetTheorems, FunctionTheorems, SequenceTheorems, WellFoundedInduction, TLAPS

-----------------------------------------------------------------------------
(* The page tables of module Paging.  The lemmas speak of tables t with    *)
(* root r and not of the variables, so that they can be used of the tables *)
(* before a step and after it.                                             *)

\* The places in a table.
Places == 0 .. Entries - 1
EntryRecords == [present : BOOLEAN, frame : Nat, user : BOOLEAN, pat : BOOLEAN]

\* The entry a walk reads.
Ent(t, f, e) == IF f \in DOMAIN t THEN t[f][e] ELSE Absent

\* The frames that the tables of a set point to.
Under(t, S) ==
  {Ent(t, s[1], s[2]).frame : s \in {x \in S \X Places : Ent(t, x[1], x[2]).present}}

\* The tables of a level, from the root on.
Level(t, r, k) ==
  CASE k = 0 -> {r}
    [] k = 1 -> Under(t, {r})
    [] k = 2 -> Under(t, Under(t, {r}))
    [] k = 3 -> Under(t, Under(t, Under(t, {r})))

\* The four entries a translation reads, as Path in module Paging.
Way(t, r, v) ==
  LET below(e, level) == IF e.present THEN Ent(t, e.frame, Index(v, level)) ELSE Absent
      e0 == Ent(t, r, Index(v, 0))
      e1 == below(e0, 1)
      e2 == below(e1, 2)
  IN  <<e0, e1, e2, below(e2, 3)>>

\* The entry of a level, the table it is in, and whether the walk gets to that table.
On(t, r, v, k) == Way(t, r, v)[k + 1]
Node(t, r, v, k) == IF k = 0 THEN r ELSE On(t, r, v, k - 1).frame
Reaches(t, r, v, k) == k # 0 => On(t, r, v, k - 1).present

\* Tables in the form of a tree: four levels apart, and one entry for each table.
Typed(t) == \A f \in DOMAIN t : t[f] \in [Places -> EntryRecords]
Covered(t, r) ==
  /\ \A k \in Levels : Level(t, r, k) \subseteq DOMAIN t
  /\ \A f \in DOMAIN t : \E k \in Levels : f \in Level(t, r, k)
Apart(t, r) == \A k, l \in Levels : k # l => Level(t, r, k) \cap Level(t, r, l) = {}
OneParent(t, r) ==
  \A k \in 0 .. 2 : \A f, g \in Level(t, r, k) : \A d, e \in Places :
    (/\ Ent(t, f, d).present /\ Ent(t, g, e).present
     /\ Ent(t, f, d).frame = Ent(t, g, e).frame) => f = g /\ d = e
Tree(t, r) == Typed(t) /\ Covered(t, r) /\ Apart(t, r) /\ OneParent(t, r)

-----------------------------------------------------------------------------
(* Indices.                                                                *)

\* An index is within a table.
LEMMA IndexInTable ==
  ASSUME Entries \in Nat \ {0}, NEW v \in Nat, NEW k \in Levels
  PROVE  Index(v, k) \in Places
<1>1. ASSUME NEW a \in Nat PROVE Above(a) \in Nat /\ a % Entries \in 0 .. Entries - 1
  BY SMT DEF Above
<1> QED
  BY <1>1 DEF Index, Places, Levels

\* A number is its quotient and its remainder.
LEMMA Digits ==
  ASSUME Entries \in Nat \ {0}, NEW a \in Nat
  PROVE  Above(a) \in Nat /\ a = (Above(a) * Entries) + (a % Entries)
BY SMT DEF Above

\* The shifts of a page are below the powers of the number of entries.
LEMMA AboveBelow ==
  ASSUME Entries \in Nat \ {0}, NEW a \in Nat, NEW b \in Nat, a < b * Entries
  PROVE  Above(a) < b
BY SMT DEF Above

\* A page is known by its four indices.
LEMMA FourIndices ==
  ASSUME Entries \in Nat \ {0}, NEW v \in VirtualPages, NEW w \in VirtualPages,
         \A k \in Levels : Index(v, k) = Index(w, k)
  PROVE  v = w
<1>1. ASSUME NEW a \in Nat, NEW b \in Nat, Above(a) = Above(b), a % Entries = b % Entries
      PROVE  a = b
  BY <1>1, Digits
<1>2. ASSUME NEW x \in VirtualPages
      PROVE  /\ x \in Nat /\ Above(x) \in Nat /\ Above(Above(x)) \in Nat
             /\ Above(Above(Above(x))) \in 0 .. Entries - 1
             /\ Index(x, 0) = Above(Above(Above(x))) /\ Index(x, 1) = Above(Above(x)) % Entries
             /\ Index(x, 2) = Above(x) % Entries /\ Index(x, 3) = x % Entries
  <2>1. x \in Nat /\ x < (Entries * Entries * Entries) * Entries /\ Entries * Entries * Entries \in Nat
    BY <1>2 DEF VirtualPages
  <2>2. Above(x) \in Nat /\ Above(x) < (Entries * Entries) * Entries /\ Entries * Entries \in Nat
    BY <2>1, AboveBelow, Digits
  <2>3. Above(Above(x)) \in Nat /\ Above(Above(x)) < Entries * Entries
    BY <2>2, AboveBelow, Digits
  <2>4. Above(Above(Above(x))) \in Nat /\ Above(Above(Above(x))) < Entries
    BY <2>3, AboveBelow, Digits
  <2>5. ASSUME NEW a \in Nat, a < Entries PROVE a % Entries = a
    BY <2>5
  <2>6. Above(Above(Above(x))) % Entries = Above(Above(Above(x)))
    BY <2>4, <2>5
  <2> QED
    BY <2>1, <2>2, <2>3, <2>4, <2>6 DEF Index
<1>3. \A k \in 0 .. 3 : Index(v, k) = Index(w, k)
  BY DEF Levels
<1>4. Above(Above(v)) = Above(Above(w))
  BY <1>1, <1>2, <1>3
<1>5. Above(v) = Above(w)
  BY <1>1, <1>2, <1>3, <1>4
<1> QED
  BY <1>1, <1>2, <1>3, <1>5

-----------------------------------------------------------------------------
(* Levels and walks.                                                       *)

\* A level is what the one above points to.
LEMMA NextLevel ==
  ASSUME NEW t, NEW r
  PROVE  /\ Level(t, r, 0) = {r}
         /\ \A k \in 0 .. 2 : Level(t, r, k + 1) = Under(t, Level(t, r, k))
<1>1. \A k \in 0 .. 2 : k = 0 \/ k = 1 \/ k = 2
  OBVIOUS
<1> QED
  BY <1>1 DEF Level

\* What it means to be pointed to.
LEMMA UnderMember ==
  ASSUME NEW t, NEW S, NEW g
  PROVE  g \in Under(t, S) <=>
           \E f \in S, e \in Places : Ent(t, f, e).present /\ Ent(t, f, e).frame = g
<1>1. ASSUME NEW f \in S, NEW e \in Places, Ent(t, f, e).present, Ent(t, f, e).frame = g
      PROVE  g \in Under(t, S)
  <2>1. <<f, e>> \in {x \in S \X Places : Ent(t, x[1], x[2]).present}
    BY <1>1
  <2> QED
    BY <1>1, <2>1 DEF Under
<1>2. ASSUME g \in Under(t, S)
      PROVE  \E f \in S, e \in Places : Ent(t, f, e).present /\ Ent(t, f, e).frame = g
  BY <1>2 DEF Under
<1> QED
  BY <1>1, <1>2

\* A table of a level points to the next level only.
LEMMA PointsBelow ==
  ASSUME NEW t, NEW r, NEW k \in 0 .. 2, NEW f \in Level(t, r, k), NEW e \in Places,
         Ent(t, f, e).present
  PROVE  Ent(t, f, e).frame \in Level(t, r, k + 1)
BY NextLevel, UnderMember

\* The walk, entry by entry.
LEMMA WalkStep ==
  ASSUME NEW t, NEW r, NEW v
  PROVE  /\ On(t, r, v, 0) = Ent(t, r, Index(v, 0))
         /\ \A k \in 0 .. 2 : On(t, r, v, k + 1) =
              IF On(t, r, v, k).present THEN Ent(t, On(t, r, v, k).frame, Index(v, k + 1)) ELSE Absent
<1> DEFINE e0 == Ent(t, r, Index(v, 0))
           e1 == IF e0.present THEN Ent(t, e0.frame, Index(v, 1)) ELSE Absent
           e2 == IF e1.present THEN Ent(t, e1.frame, Index(v, 2)) ELSE Absent
           e3 == IF e2.present THEN Ent(t, e2.frame, Index(v, 3)) ELSE Absent
<1>1. Way(t, r, v) = <<e0, e1, e2, e3>>
  BY DEF Way
<1> HIDE DEF e0, e1, e2, e3
<1>2. On(t, r, v, 0) = e0 /\ On(t, r, v, 1) = e1 /\ On(t, r, v, 2) = e2 /\ On(t, r, v, 3) = e3
  BY <1>1 DEF On
<1>3. \A k \in 0 .. 2 : k = 0 \/ k = 1 \/ k = 2
  OBVIOUS
<1> QED
  BY <1>2, <1>3 DEF e0, e1, e2, e3

\* A walk that gets to a level got to the one above.
LEMMA ReachesAbove ==
  ASSUME NEW t, NEW r, NEW v, NEW k \in 0 .. 2, Reaches(t, r, v, k + 1)
  PROVE  Reaches(t, r, v, k)
<1>1. On(t, r, v, k).present
  BY DEF Reaches
<1>2. CASE k = 0
  BY <1>2 DEF Reaches
<1>3. CASE k # 0
  <2>1. k - 1 \in 0 .. 2 /\ (k - 1) + 1 = k
    BY <1>3
  <2>2. On(t, r, v, k) = IF On(t, r, v, k - 1).present
                         THEN Ent(t, On(t, r, v, k - 1).frame, Index(v, k)) ELSE Absent
    BY <2>1, WalkStep
  <2> QED
    BY <1>1, <2>2 DEF Reaches, Absent
<1> QED
  BY <1>2, <1>3

\* The entry of a level is the one in its table that the page's index selects.
LEMMA EntryOfNode ==
  ASSUME NEW t, NEW r, NEW v, NEW k \in Levels, Reaches(t, r, v, k)
  PROVE  On(t, r, v, k) = Ent(t, Node(t, r, v, k), Index(v, k))
<1>1. CASE k = 0
  BY <1>1, WalkStep DEF Node
<1>2. CASE k # 0
  <2>1. k - 1 \in 0 .. 2 /\ (k - 1) + 1 = k
    BY <1>2 DEF Levels
  <2> QED
    BY <1>2, <2>1, WalkStep DEF Node, Reaches
<1> QED
  BY <1>1, <1>2

\* A walk that gets to a level is at a table of it.
LEMMA NodeInLevel ==
  ASSUME Entries \in Nat \ {0}, NEW t, NEW r, NEW v \in Nat
  PROVE  \A k \in Levels : Reaches(t, r, v, k) => Node(t, r, v, k) \in Level(t, r, k)
<1> DEFINE In(k) == Reaches(t, r, v, k) => Node(t, r, v, k) \in Level(t, r, k)
<1>1. In(0)
  BY NextLevel DEF Node
<1>2. ASSUME NEW k \in 0 .. 2, In(k) PROVE In(k + 1)
  <2> SUFFICES ASSUME Reaches(t, r, v, k + 1) PROVE Node(t, r, v, k + 1) \in Level(t, r, k + 1)
    OBVIOUS
  <2>1. k \in Levels /\ k + 1 # 0 /\ (k + 1) - 1 = k
    BY DEF Levels
  <2>2. Reaches(t, r, v, k) /\ Node(t, r, v, k) \in Level(t, r, k)
    BY <1>2, ReachesAbove
  <2>3. On(t, r, v, k) = Ent(t, Node(t, r, v, k), Index(v, k)) /\ Index(v, k) \in Places
    BY <2>1, <2>2, EntryOfNode, IndexInTable
  <2>4. On(t, r, v, k).present /\ Node(t, r, v, k + 1) = On(t, r, v, k).frame
    BY <2>1 DEF Reaches, Node
  <2> QED
    BY <2>2, <2>3, <2>4, PointsBelow
<1> HIDE DEF In
<1>3. In(1) /\ In(2) /\ In(3)
  BY <1>1, <1>2
<1>4. \A k \in Levels : In(k)
  BY <1>1, <1>3 DEF Levels
<1> QED
  BY <1>4 DEF In

\* Two walks that are at one table came the same way.
LEMMA SameWay ==
  ASSUME Entries \in Nat \ {0}, NEW t, NEW r, OneParent(t, r), NEW v \in Nat, NEW w \in Nat,
         NEW k \in 0 .. 2, Reaches(t, r, v, k + 1), Reaches(t, r, w, k + 1),
         Node(t, r, v, k + 1) = Node(t, r, w, k + 1)
  PROVE  Node(t, r, v, k) = Node(t, r, w, k) /\ Index(v, k) = Index(w, k)
<1>1. k \in Levels /\ k + 1 # 0 /\ (k + 1) - 1 = k
  BY DEF Levels
<1>2. ASSUME NEW x \in Nat, Reaches(t, r, x, k + 1)
      PROVE  /\ Node(t, r, x, k) \in Level(t, r, k) /\ Index(x, k) \in Places
             /\ Ent(t, Node(t, r, x, k), Index(x, k)).present
             /\ Ent(t, Node(t, r, x, k), Index(x, k)).frame = Node(t, r, x, k + 1)
  <2>1. Reaches(t, r, x, k)
    BY <1>2, ReachesAbove
  <2>2. On(t, r, x, k) = Ent(t, Node(t, r, x, k), Index(x, k))
    BY <1>1, <2>1, EntryOfNode
  <2>3. On(t, r, x, k).present /\ Node(t, r, x, k + 1) = On(t, r, x, k).frame
    BY <1>1, <1>2 DEF Reaches, Node
  <2> QED
    BY <1>1, <2>1, <2>2, <2>3, NodeInLevel, IndexInTable
<1> QED
  BY <1>2 DEF OneParent

\* So an entry of the last level translates one page.
LEMMA OnePage ==
  ASSUME Entries \in Nat \ {0}, NEW t, NEW r, OneParent(t, r),
         NEW v \in VirtualPages, NEW w \in VirtualPages,
         Reaches(t, r, v, 3), Reaches(t, r, w, 3),
         Node(t, r, v, 3) = Node(t, r, w, 3), Index(v, 3) = Index(w, 3)
  PROVE  v = w
<1>1. v \in Nat /\ w \in Nat
  BY DEF VirtualPages
<1>2. Reaches(t, r, v, 2) /\ Reaches(t, r, w, 2)
  BY ReachesAbove
<1>3. Reaches(t, r, v, 1) /\ Reaches(t, r, w, 1)
  BY <1>2, ReachesAbove
<1>4. Node(t, r, v, 2) = Node(t, r, w, 2) /\ Index(v, 2) = Index(w, 2)
  BY <1>1, SameWay
<1>5. Node(t, r, v, 1) = Node(t, r, w, 1) /\ Index(v, 1) = Index(w, 1)
  BY <1>1, <1>2, <1>4, SameWay
<1>6. Index(v, 0) = Index(w, 0)
  BY <1>1, <1>3, <1>5, SameWay
<1>7. \A k \in Levels : Index(v, k) = Index(w, k)
  BY <1>4, <1>5, <1>6 DEF Levels
<1> QED
  BY <1>7, FourIndices

-----------------------------------------------------------------------------
(* Steps that leave the tree as it is.                                     *)

\* Entries above the last level point where they did.
SameLinks(t, u, r) ==
  \A k \in 0 .. 2 : \A f \in Level(t, r, k), e \in Places :
    /\ Ent(u, f, e).present = Ent(t, f, e).present
    /\ Ent(u, f, e).frame = Ent(t, f, e).frame

\* What a set of tables points to depends on its entries only.
LEMMA UnderKept ==
  ASSUME NEW t, NEW u, NEW S,
         \A f \in S, e \in Places : /\ Ent(u, f, e).present = Ent(t, f, e).present
                                    /\ Ent(u, f, e).frame = Ent(t, f, e).frame
  PROVE  Under(u, S) = Under(t, S)
<1>1. \A g : g \in Under(u, S) <=> g \in Under(t, S)
  BY UnderMember
<1> QED
  BY <1>1

\* Then the levels are the same.
LEMMA LevelsKept ==
  ASSUME NEW t, NEW u, NEW r, SameLinks(t, u, r)
  PROVE  \A k \in Levels : Level(u, r, k) = Level(t, r, k)
<1> DEFINE Kept(k) == Level(u, r, k) = Level(t, r, k)
<1>1. Kept(0)
  BY NextLevel
<1>2. ASSUME NEW k \in 0 .. 2, Kept(k) PROVE Kept(k + 1)
  <2>1. Under(u, Level(t, r, k)) = Under(t, Level(t, r, k))
    BY UnderKept DEF SameLinks
  <2> QED
    BY <1>2, <2>1, NextLevel
<1> HIDE DEF Kept
<1>3. Kept(1) /\ Kept(2) /\ Kept(3)
  BY <1>1, <1>2
<1>4. \A k \in Levels : Kept(k)
  BY <1>1, <1>3 DEF Levels
<1> QED
  BY <1>4 DEF Kept

\* And the tree stays a tree.
LEMMA TreeKept ==
  ASSUME NEW t, NEW u, NEW r, Tree(t, r), SameLinks(t, u, r), DOMAIN u = DOMAIN t, Typed(u)
  PROVE  Tree(u, r)
<1>1. \A k \in Levels : Level(u, r, k) = Level(t, r, k)
  BY LevelsKept
<1>2. Covered(u, r) /\ Apart(u, r)
  BY <1>1 DEF Tree, Covered, Apart
<1>3. OneParent(u, r)
  <2> SUFFICES ASSUME NEW k \in 0 .. 2, NEW f \in Level(u, r, k), NEW g \in Level(u, r, k),
                      NEW d \in Places, NEW e \in Places,
                      Ent(u, f, d).present, Ent(u, g, e).present,
                      Ent(u, f, d).frame = Ent(u, g, e).frame
               PROVE  f = g /\ d = e
    BY DEF OneParent
  <2>1. f \in Level(t, r, k) /\ g \in Level(t, r, k)
    BY <1>1 DEF Levels
  <2>2. /\ Ent(t, f, d).present /\ Ent(t, g, e).present
        /\ Ent(t, f, d).frame = Ent(t, g, e).frame
    BY <2>1 DEF SameLinks
  <2> QED
    BY <2>1, <2>2 DEF Tree, OneParent
<1> QED
  BY <1>2, <1>3 DEF Tree

\* And walks go the same way.
LEMMA WalksKept ==
  ASSUME Entries \in Nat \ {0}, NEW t, NEW u, NEW r, SameLinks(t, u, r), NEW v \in Nat
  PROVE  \A k \in Levels : /\ Reaches(u, r, v, k) <=> Reaches(t, r, v, k)
                           /\ Reaches(t, r, v, k) => Node(u, r, v, k) = Node(t, r, v, k)
<1> DEFINE Same(k) == /\ Reaches(u, r, v, k) <=> Reaches(t, r, v, k)
                      /\ Reaches(t, r, v, k) => Node(u, r, v, k) = Node(t, r, v, k)
<1>1. Same(0)
  BY DEF Reaches, Node
<1>2. ASSUME NEW k \in 0 .. 2, Same(k) PROVE Same(k + 1)
  <2>1. k \in Levels /\ k + 1 # 0 /\ (k + 1) - 1 = k
    BY DEF Levels
  <2>2. /\ Reaches(t, r, v, k + 1) <=> On(t, r, v, k).present
        /\ Reaches(u, r, v, k + 1) <=> On(u, r, v, k).present
        /\ Node(t, r, v, k + 1) = On(t, r, v, k).frame
        /\ Node(u, r, v, k + 1) = On(u, r, v, k).frame
    BY <2>1 DEF Reaches, Node
  <2>3. CASE Reaches(t, r, v, k)
    <3> DEFINE n == Node(t, r, v, k)
    <3>1. n \in Level(t, r, k) /\ Index(v, k) \in Places
      BY <2>1, <2>3, NodeInLevel, IndexInTable
    <3>2. Reaches(u, r, v, k) /\ Node(u, r, v, k) = n
      BY <1>2, <2>3
    <3>3. On(t, r, v, k) = Ent(t, n, Index(v, k))
      BY <2>1, <2>3, EntryOfNode
    <3>4. On(u, r, v, k) = Ent(u, n, Index(v, k))
      BY <2>1, <3>2, EntryOfNode
    <3>5. On(u, r, v, k).present = On(t, r, v, k).present /\ On(u, r, v, k).frame = On(t, r, v, k).frame
      BY <3>1, <3>3, <3>4 DEF SameLinks
    <3> QED
      BY <2>2, <3>5
  <2>4. CASE ~Reaches(t, r, v, k)
    <3>1. ~Reaches(t, r, v, k + 1) /\ ~Reaches(u, r, v, k + 1)
      BY <1>2, <2>4, ReachesAbove
    <3> QED
      BY <3>1
  <2> QED
    BY <2>3, <2>4
<1> HIDE DEF Same
<1>3. Same(1) /\ Same(2) /\ Same(3)
  BY <1>1, <1>2
<1>4. \A k \in Levels : Same(k)
  BY <1>1, <1>3 DEF Levels
<1> QED
  BY <1>4 DEF Same

\* What a walk finds at a level, before and after.
LEMMA FoundAfter ==
  ASSUME Entries \in Nat \ {0}, NEW t, NEW u, NEW r, SameLinks(t, u, r),
         NEW v \in Nat, NEW k \in Levels, Reaches(t, r, v, k)
  PROVE  /\ On(t, r, v, k) = Ent(t, Node(t, r, v, k), Index(v, k))
         /\ On(u, r, v, k) = Ent(u, Node(t, r, v, k), Index(v, k))
<1>1. Reaches(u, r, v, k) /\ Node(u, r, v, k) = Node(t, r, v, k)
  BY WalksKept
<1>2. On(u, r, v, k) = Ent(u, Node(u, r, v, k), Index(v, k))
  BY <1>1, EntryOfNode
<1>3. On(t, r, v, k) = Ent(t, Node(t, r, v, k), Index(v, k))
  BY EntryOfNode
<1> QED
  BY <1>1, <1>2, <1>3

\* What is present was reached.
LEMMA PresentIsReached ==
  ASSUME NEW t, NEW r, NEW v, NEW k \in Levels, On(t, r, v, k).present
  PROVE  Reaches(t, r, v, k)
<1>1. CASE k = 0
  BY <1>1 DEF Reaches
<1>2. CASE k # 0
  <2>1. k - 1 \in 0 .. 2 /\ (k - 1) + 1 = k
    BY <1>2 DEF Levels
  <2>2. On(t, r, v, k) = IF On(t, r, v, k - 1).present
                         THEN Ent(t, On(t, r, v, k - 1).frame, Index(v, k)) ELSE Absent
    BY <2>1, WalkStep
  <2> QED
    BY <2>2 DEF Reaches, Absent
<1> QED
  BY <1>1, <1>2

\* A walk that reaches the last level reached all of them.
LEMMA ReachesAll ==
  ASSUME NEW t, NEW r, NEW v, Reaches(t, r, v, 3)
  PROVE  \A k \in Levels : Reaches(t, r, v, k)
<1>1. Reaches(t, r, v, 2)
  BY ReachesAbove
<1>2. Reaches(t, r, v, 1)
  BY <1>1, ReachesAbove
<1>3. Reaches(t, r, v, 0)
  BY DEF Reaches
<1> QED
  BY <1>1, <1>2, <1>3 DEF Levels

\* One entry is written.
Written(t, u, a, s, x) == u = [t EXCEPT ![a] = [t[a] EXCEPT ![s] = x]]

\* An entry of the last level is written.
LEMMA LeafWritten ==
  ASSUME NEW t, NEW r, Tree(t, r), NEW a \in Level(t, r, 3), NEW s \in Places, NEW x \in EntryRecords,
         NEW u, Written(t, u, a, s, x)
  PROVE  /\ DOMAIN u = DOMAIN t /\ Typed(u) /\ SameLinks(t, u, r)
         /\ a \in DOMAIN t /\ Ent(u, a, s) = x
         /\ \A f, e : e \in Places /\ (f # a \/ e # s) => Ent(u, f, e) = Ent(t, f, e)
<1>1. a \in DOMAIN t /\ t[a] \in [Places -> EntryRecords]
  BY DEF Tree, Covered, Typed, Levels
<1>2. DOMAIN u = DOMAIN t
  BY DEF Written
<1>3. u[a] = [t[a] EXCEPT ![s] = x] /\ \A f \in DOMAIN t : f # a => u[f] = t[f]
  BY <1>1 DEF Written
<1>4. u[a] \in [Places -> EntryRecords] /\ u[a][s] = x /\ \A e \in Places : e # s => u[a][e] = t[a][e]
  BY <1>1, <1>3
<1>5. Typed(u)
  BY <1>2, <1>3, <1>4 DEF Tree, Typed
<1>6. \A f, e : e \in Places /\ (f # a \/ e # s) => Ent(u, f, e) = Ent(t, f, e)
  BY <1>2, <1>3, <1>4 DEF Ent
<1>7. \A k \in 0 .. 2 : a \notin Level(t, r, k)
  BY DEF Tree, Apart, Levels
<1>8. SameLinks(t, u, r)
  BY <1>6, <1>7 DEF SameLinks
<1> QED
  BY <1>1, <1>2, <1>4, <1>5, <1>6, <1>8 DEF Ent

\* It is the translation of one page.
LEMMA OnePageWritten ==
  ASSUME Entries \in Nat \ {0}, NEW t, NEW r, Tree(t, r), NEW v \in VirtualPages,
         Reaches(t, r, v, 3), NEW x \in EntryRecords,
         NEW u, Written(t, u, Node(t, r, v, 3), Index(v, 3), x)
  PROVE  /\ On(u, r, v, 3) = x
         /\ \A w \in VirtualPages : \A k \in Levels :
              w # v \/ k # 3 => \/ On(u, r, w, k) = On(t, r, w, k)
                                \/ ~Reaches(t, r, w, k) /\ ~Reaches(u, r, w, k)
<1> DEFINE a == Node(t, r, v, 3)
           s == Index(v, 3)
<1>1. v \in Nat /\ 3 \in Levels
  BY DEF VirtualPages, Levels
<1>2. /\ a \in Level(t, r, 3) /\ s \in Places
      /\ Written(t, u, a, s, x)
  BY <1>1, NodeInLevel, IndexInTable
<1>3. /\ SameLinks(t, u, r) /\ Ent(u, a, s) = x
      /\ \A f, e : e \in Places /\ (f # a \/ e # s) => Ent(u, f, e) = Ent(t, f, e)
  <2> HIDE DEF a, s
  <2> QED
    BY <1>2, LeafWritten
<1>4. On(u, r, v, 3) = x
  BY <1>1, <1>3, FoundAfter
<1>5. ASSUME NEW w \in VirtualPages, NEW k \in Levels, w # v \/ k # 3
      PROVE  \/ On(u, r, w, k) = On(t, r, w, k)
             \/ ~Reaches(t, r, w, k) /\ ~Reaches(u, r, w, k)
  <2>1. w \in Nat /\ Index(w, k) \in Places
    BY IndexInTable DEF VirtualPages
  <2>2. CASE ~Reaches(t, r, w, k)
    BY <1>3, <2>1, <2>2, WalksKept
  <2>3. CASE Reaches(t, r, w, k)
    <3> DEFINE n == Node(t, r, w, k)
    <3>1. On(t, r, w, k) = Ent(t, n, Index(w, k)) /\ On(u, r, w, k) = Ent(u, n, Index(w, k))
      BY <1>3, <2>1, <2>3, FoundAfter
    <3>2. n # a \/ Index(w, k) # s
      <4>1. CASE k = 3
        BY <1>5, <2>3, <4>1, OnePage DEF Tree
      <4>2. CASE k # 3
        <5>1. n \in Level(t, r, k)
          BY <2>1, <2>3, NodeInLevel
        <5> QED
          BY <1>1, <1>2, <4>2, <5>1 DEF Tree, Apart
      <4> QED
        BY <4>1, <4>2
    <3> QED
      BY <1>3, <2>1, <3>1, <3>2
  <2> QED
    BY <2>2, <2>3
<1> QED
  BY <1>4, <1>5

\* Only flags are set: every entry points where it did.
FlagsOnly(t, u) ==
  /\ DOMAIN u = DOMAIN t /\ Typed(u)
  /\ \A f \in DOMAIN t, e \in Places : /\ u[f][e].present = t[f][e].present
                                       /\ u[f][e].frame = t[f][e].frame

\* Then walks find the same.
LEMMA FlagsSet ==
  ASSUME Entries \in Nat \ {0}, NEW t, NEW u, FlagsOnly(t, u), NEW r
  PROVE  /\ SameLinks(t, u, r)
         /\ \A v \in Nat, k \in Levels :
              Reaches(t, r, v, k) =>
                /\ On(u, r, v, k).present = On(t, r, v, k).present
                /\ On(u, r, v, k).frame = On(t, r, v, k).frame
<1>1. \A f, e : e \in Places => /\ Ent(u, f, e).present = Ent(t, f, e).present
                                /\ Ent(u, f, e).frame = Ent(t, f, e).frame
  BY DEF FlagsOnly, Ent
<1>2. SameLinks(t, u, r)
  BY <1>1 DEF SameLinks
<1>3. ASSUME NEW v \in Nat, NEW k \in Levels, Reaches(t, r, v, k)
      PROVE  /\ On(u, r, v, k).present = On(t, r, v, k).present
             /\ On(u, r, v, k).frame = On(t, r, v, k).frame
  BY <1>1, <1>2, <1>3, FoundAfter, IndexInTable
<1> QED
  BY <1>2, <1>3

-----------------------------------------------------------------------------
(* A table is added below one of the first three levels.                   *)

\* An empty table f is entered at place s of table a, where nothing was.
Grown(t, u, r, k, a, s, f) ==
  /\ k \in 0 .. 2 /\ a \in Level(t, r, k) /\ s \in Places /\ f \notin DOMAIN t
  /\ ~Ent(t, a, s).present
  /\ DOMAIN u = (DOMAIN t) \cup {f} /\ Typed(u)
  /\ Ent(u, a, s).present /\ Ent(u, a, s).frame = f
  /\ \A g, e : e \in Places /\ (g # a \/ e # s) => Ent(u, g, e) = Ent(t, g, e)

\* The new table points to nothing.
LEMMA EmptyAdded ==
  ASSUME NEW t, NEW u, NEW r, NEW k, NEW a, NEW s, NEW f, Grown(t, u, r, k, a, s, f), a # f,
         NEW S
  PROVE  Under(u, S \cup {f}) = Under(u, S)
<1>1. \A e \in Places : Ent(u, f, e) = Absent /\ Ent(t, f, e) = Absent
  BY DEF Grown, Ent
<1>2. ASSUME NEW g PROVE g \in Under(u, S \cup {f}) <=> g \in Under(u, S)
  BY <1>1, UnderMember DEF Absent
<1> QED
  BY <1>2

\* What tables point to when one of them may have got an entry for f.
LEMMA UnderGrown ==
  ASSUME NEW t, NEW u, NEW r, NEW k, NEW a, NEW s, NEW f, Grown(t, u, r, k, a, s, f),
         NEW S
  PROVE  Under(u, S) = {g \in Under(t, S) \cup {f} : g \in Under(t, S) \/ a \in S}
<1>1. ASSUME NEW g \in Under(u, S) PROVE g \in Under(t, S) \/ (a \in S /\ g = f)
  <2>1. PICK h \in S, e \in Places : Ent(u, h, e).present /\ Ent(u, h, e).frame = g
    BY UnderMember
  <2>2. CASE h = a /\ e = s
    BY <2>1, <2>2 DEF Grown
  <2>3. CASE h # a \/ e # s
    <3>1. Ent(t, h, e).present /\ Ent(t, h, e).frame = g
      BY <2>1, <2>3 DEF Grown
    <3> QED
      BY <3>1, UnderMember
  <2> QED
    BY <2>2, <2>3
<1>2. ASSUME NEW g \in Under(t, S) PROVE g \in Under(u, S)
  <2>1. PICK h \in S, e \in Places : Ent(t, h, e).present /\ Ent(t, h, e).frame = g
    BY UnderMember
  <2>2. Ent(u, h, e).present /\ Ent(u, h, e).frame = g
    BY <2>1 DEF Grown
  <2> QED
    BY <2>2, UnderMember
<1>3. ASSUME a \in S PROVE f \in Under(u, S)
  BY <1>3, UnderMember DEF Grown
<1> QED
  BY <1>1, <1>2, <1>3

\* The level below gets the new table, the others stay as they are.
LEMMA LevelsGrown ==
  ASSUME NEW t, NEW u, NEW r, NEW k, NEW a, NEW s, NEW f, Grown(t, u, r, k, a, s, f), Tree(t, r)
  PROVE  \A j \in Levels : Level(u, r, j) = Level(t, r, j) \cup (IF j = k + 1 THEN {f} ELSE {})
<1> DEFINE Added(j) == IF j = k + 1 THEN {f} ELSE {}
           Right(j) == Level(u, r, j) = Level(t, r, j) \cup Added(j)
<1>1. k \in 0 .. 2 /\ k \in Levels /\ a \in Level(t, r, k) /\ a # f
  BY DEF Grown, Tree, Covered, Levels
<1>2. Right(0)
  BY <1>1, NextLevel
<1>3. ASSUME NEW j \in 0 .. 2, Right(j) PROVE Right(j + 1)
  <2>1. Under(u, Level(t, r, j) \cup Added(j)) = Under(u, Level(t, r, j))
    <3>1. Under(u, Level(t, r, j) \cup {f}) = Under(u, Level(t, r, j))
      BY <1>1, EmptyAdded
    <3>2. Level(t, r, j) \cup {} = Level(t, r, j)
      OBVIOUS
    <3> QED
      BY <3>1, <3>2
  <2>2. a \in Level(t, r, j) <=> j = k
    BY <1>1 DEF Tree, Apart, Levels
  <2>3. j + 1 = k + 1 <=> j = k
    BY <1>1
  <2>4. Under(u, Level(t, r, j)) = Under(t, Level(t, r, j)) \cup Added(j + 1)
    <3> DEFINE L == Level(t, r, j)
    <3>1. Under(u, L) = {g \in Under(t, L) \cup {f} : g \in Under(t, L) \/ a \in L}
      BY UnderGrown
    <3> QED
      BY <2>2, <2>3, <3>1
  <2>5. /\ Level(u, r, j + 1) = Under(u, Level(u, r, j))
        /\ Level(t, r, j + 1) = Under(t, Level(t, r, j))
    BY NextLevel
  <2> QED
    BY <1>3, <2>1, <2>4, <2>5
<1> HIDE DEF Right
<1>4. Right(1) /\ Right(2) /\ Right(3)
  BY <1>2, <1>3
<1>5. \A j \in Levels : Right(j)
  BY <1>2, <1>4 DEF Levels
<1> QED
  BY <1>5 DEF Right

\* The tree stays a tree.
LEMMA TreeGrown ==
  ASSUME NEW t, NEW u, NEW r, NEW k, NEW a, NEW s, NEW f, Grown(t, u, r, k, a, s, f), Tree(t, r)
  PROVE  Tree(u, r)
<1> DEFINE Added(j) == IF j = k + 1 THEN {f} ELSE {}
<1>1. k \in 0 .. 2 /\ a \in Level(t, r, k) /\ f \notin DOMAIN t
  BY DEF Grown
<1>2. \A j \in Levels : Level(u, r, j) = Level(t, r, j) \cup Added(j)
  BY LevelsGrown
<1>3. \A j \in Levels : f \notin Level(t, r, j) /\ Level(t, r, j) \subseteq DOMAIN t
  BY <1>1 DEF Tree, Covered
<1>4. Covered(u, r)
  <2>1. \A j \in Levels : Level(u, r, j) \subseteq DOMAIN u
    BY <1>2, <1>3 DEF Grown
  <2>2. k + 1 \in Levels
    BY <1>1 DEF Levels
  <2>3. f \in Level(u, r, k + 1)
    BY <1>2, <2>2
  <2>4. \A g \in DOMAIN t : \E j \in Levels : g \in Level(u, r, j)
    BY <1>2 DEF Tree, Covered
  <2> QED
    BY <2>1, <2>2, <2>3, <2>4 DEF Covered, Grown
<1>5. Apart(u, r)
  <2> SUFFICES ASSUME NEW j \in Levels, NEW l \in Levels, j # l
               PROVE  Level(u, r, j) \cap Level(u, r, l) = {}
    BY DEF Apart
  <2>1. Level(t, r, j) \cap Level(t, r, l) = {}
    BY DEF Tree, Apart
  <2>2. Added(j) \cap Added(l) = {}
    OBVIOUS
  <2>3. Added(j) \subseteq {f} /\ Added(l) \subseteq {f}
    OBVIOUS
  <2> HIDE DEF Added
  <2> QED
    BY <1>2, <1>3, <2>1, <2>2, <2>3
<1>6. OneParent(u, r)
  <2> SUFFICES ASSUME NEW j \in 0 .. 2, NEW g \in Level(u, r, j), NEW h \in Level(u, r, j),
                      NEW d \in Places, NEW e \in Places,
                      Ent(u, g, d).present, Ent(u, h, e).present,
                      Ent(u, g, d).frame = Ent(u, h, e).frame
               PROVE  g = h /\ d = e
    BY DEF OneParent
  <2>1. j \in Levels /\ j + 1 \in Levels
    BY DEF Levels
  <2>2. \A p \in Places : ~Ent(t, f, p).present
    BY <1>1 DEF Ent, Absent
  <2>3. a # f
    BY <1>1, <1>3 DEF Levels
  <2>4. \A p \in Places : ~Ent(u, f, p).present
    BY <2>2, <2>3 DEF Grown
  <2>5. g \in Level(t, r, j) /\ h \in Level(t, r, j)
    BY <1>2, <2>1, <2>4
  <2>6. ASSUME NEW x \in Level(t, r, j), NEW p \in Places, Ent(t, x, p).present
        PROVE  Ent(t, x, p).frame # f
    BY <1>3, <2>1, <2>6, PointsBelow
  <2>7. CASE (g # a \/ d # s) /\ (h # a \/ e # s)
    <3>1. Ent(u, g, d) = Ent(t, g, d) /\ Ent(u, h, e) = Ent(t, h, e)
      BY <2>7 DEF Grown
    <3> QED
      BY <2>5, <3>1 DEF Tree, OneParent
  <2>8. CASE g = a /\ d = s /\ (h # a \/ e # s)
    <3>1. Ent(u, g, d).frame = f /\ Ent(u, h, e) = Ent(t, h, e)
      BY <2>8 DEF Grown
    <3> QED
      BY <2>5, <2>6, <3>1
  <2>9. CASE h = a /\ e = s /\ (g # a \/ d # s)
    <3>1. Ent(u, h, e).frame = f /\ Ent(u, g, d) = Ent(t, g, d)
      BY <2>9 DEF Grown
    <3> QED
      BY <2>5, <2>6, <3>1
  <2> QED
    BY <2>7, <2>8, <2>9
<1> QED
  BY <1>4, <1>5, <1>6 DEF Tree, Grown

\* Walks that got somewhere get there the same way.
LEMMA WalksGrown ==
  ASSUME Entries \in Nat \ {0},
         NEW t, NEW u, NEW r, NEW k, NEW a, NEW s, NEW f, Grown(t, u, r, k, a, s, f), Tree(t, r),
         NEW v \in Nat
  PROVE  \A j \in Levels :
           /\ Reaches(t, r, v, j) => /\ Reaches(u, r, v, j)
                                     /\ Node(u, r, v, j) = Node(t, r, v, j)
           /\ Reaches(u, r, v, j) => \/ /\ Reaches(t, r, v, j)
                                        /\ Node(u, r, v, j) = Node(t, r, v, j)
                                     \/ Node(u, r, v, j) = f
<1> DEFINE On1(j) == Reaches(t, r, v, j) => /\ Reaches(u, r, v, j)
                                            /\ Node(u, r, v, j) = Node(t, r, v, j)
           On2(j) == Reaches(u, r, v, j) => \/ /\ Reaches(t, r, v, j)
                                               /\ Node(u, r, v, j) = Node(t, r, v, j)
                                            \/ Node(u, r, v, j) = f
<1>1. On1(0) /\ On2(0)
  BY DEF Reaches, Node
<1>2. ASSUME NEW j \in 0 .. 2, On1(j), On2(j) PROVE On1(j + 1) /\ On2(j + 1)
  <2>1. j \in Levels /\ j + 1 # 0 /\ (j + 1) - 1 = j
    BY DEF Levels
  <2>2. /\ Reaches(t, r, v, j + 1) <=> On(t, r, v, j).present
        /\ Reaches(u, r, v, j + 1) <=> On(u, r, v, j).present
        /\ Node(t, r, v, j + 1) = On(t, r, v, j).frame
        /\ Node(u, r, v, j + 1) = On(u, r, v, j).frame
    BY <2>1 DEF Reaches, Node
  <2> DEFINE x == Index(v, j)
             n == Node(t, r, v, j)
  <2>3. x \in Places
    BY <2>1, IndexInTable
  <2>4. CASE Reaches(t, r, v, j)
    <3>1. Reaches(u, r, v, j) /\ Node(u, r, v, j) = n
      BY <1>2, <2>4
    <3>2. On(t, r, v, j) = Ent(t, n, x)
      BY <2>1, <2>4, EntryOfNode
    <3>3. On(u, r, v, j) = Ent(u, n, x)
      BY <2>1, <3>1, EntryOfNode
    <3>4. CASE n = a /\ x = s
      <4>1. ~Ent(t, n, x).present /\ Ent(u, n, x).frame = f
        BY <3>4 DEF Grown
      <4> QED
        BY <2>2, <3>2, <3>3, <4>1
    <3>5. CASE n # a \/ x # s
      <4>1. Ent(u, n, x) = Ent(t, n, x)
        BY <2>3, <3>5 DEF Grown
      <4> QED
        BY <2>2, <3>2, <3>3, <4>1
    <3> QED
      BY <3>4, <3>5
  <2>5. CASE ~Reaches(t, r, v, j)
    <3>1. ~Reaches(t, r, v, j + 1)
      BY <2>5, ReachesAbove
    <3>2. ASSUME Reaches(u, r, v, j + 1) PROVE FALSE
      <4>1. Reaches(u, r, v, j)
        BY <3>2, ReachesAbove
      <4>2. Node(u, r, v, j) = f
        BY <1>2, <2>5, <4>1
      <4>3. On(u, r, v, j) = Ent(u, f, x)
        BY <2>1, <4>1, <4>2, EntryOfNode
      <4>4. a # f
        BY DEF Grown, Tree, Covered, Levels
      <4>5. ~Ent(u, f, x).present
        <5>1. Ent(u, f, x) = Ent(t, f, x)
          BY <2>3, <4>4 DEF Grown
        <5> QED
          BY <5>1 DEF Grown, Ent, Absent
      <4> QED
        BY <2>2, <3>2, <4>3, <4>5
    <3> QED
      BY <3>1, <3>2
  <2> QED
    BY <2>4, <2>5
<1> HIDE DEF On1, On2
<1>3. On1(1) /\ On2(1)
  BY <1>1, <1>2
<1>4. On1(2) /\ On2(2)
  BY <1>3, <1>2
<1>5. On1(3) /\ On2(3)
  BY <1>4, <1>2
<1>6. \A j \in Levels : On1(j) /\ On2(j)
  BY <1>1, <1>3, <1>4, <1>5 DEF Levels
<1> QED
  BY <1>6 DEF On1, On2

\* And no page is translated differently.
LEMMA LeavesGrown ==
  ASSUME Entries \in Nat \ {0},
         NEW t, NEW u, NEW r, NEW k, NEW a, NEW s, NEW f, Grown(t, u, r, k, a, s, f), Tree(t, r),
         NEW v \in Nat
  PROVE  /\ On(u, r, v, 3).present <=> On(t, r, v, 3).present
         /\ On(t, r, v, 3).present => \A j \in Levels : On(u, r, v, j) = On(t, r, v, j)
<1>1. k \in 0 .. 2 /\ a \in Level(t, r, k) /\ s \in Places /\ f \notin DOMAIN t /\ a # f
  BY DEF Grown, Tree, Covered, Levels
<1>2. \A j \in Levels : Index(v, j) \in Places
  BY IndexInTable
<1>3. ASSUME On(t, r, v, 3).present
      PROVE  \A j \in Levels : On(u, r, v, j) = On(t, r, v, j)
  <2>1. \A j \in Levels : Reaches(t, r, v, j)
    BY <1>3, PresentIsReached, ReachesAll DEF Levels
  <2>2. \A j \in Levels : Reaches(u, r, v, j) /\ Node(u, r, v, j) = Node(t, r, v, j)
    BY <2>1, WalksGrown
  <2> SUFFICES ASSUME NEW j \in Levels PROVE On(u, r, v, j) = On(t, r, v, j)
    OBVIOUS
  <2>3. On(t, r, v, j) = Ent(t, Node(t, r, v, j), Index(v, j))
    BY <2>1, EntryOfNode
  <2>4. On(u, r, v, j) = Ent(u, Node(t, r, v, j), Index(v, j))
    <3>1. On(u, r, v, j) = Ent(u, Node(u, r, v, j), Index(v, j))
      BY <2>2, EntryOfNode
    <3> QED
      BY <2>2, <3>1
  <2>5. On(t, r, v, j).present
    <3>1. CASE j = 3
      BY <1>3, <3>1
    <3>2. CASE j # 3
      <4>1. j + 1 \in Levels /\ j + 1 # 0 /\ (j + 1) - 1 = j
        BY <3>2 DEF Levels
      <4> QED
        BY <2>1, <4>1 DEF Reaches
    <3> QED
      BY <3>1, <3>2
  <2>6. Node(t, r, v, j) # a \/ Index(v, j) # s
    BY <2>3, <2>5 DEF Grown
  <2> QED
    BY <1>2, <2>3, <2>4, <2>6 DEF Grown
<1>4. ASSUME On(u, r, v, 3).present PROVE On(t, r, v, 3).present
  <2>1. 3 \in Levels
    BY DEF Levels
  <2>2. Reaches(u, r, v, 3)
    BY <1>4, <2>1, PresentIsReached
  <2>3. On(u, r, v, 3) = Ent(u, Node(u, r, v, 3), Index(v, 3))
    BY <2>1, <2>2, EntryOfNode
  <2>4. Node(u, r, v, 3) # f
    <3>1. ASSUME NEW e \in Places PROVE ~Ent(u, f, e).present
      <4>1. Ent(u, f, e) = Ent(t, f, e)
        BY <1>1 DEF Grown
      <4> QED
        BY <1>1, <4>1 DEF Ent, Absent
    <3> QED
      BY <1>2, <1>4, <2>1, <2>3, <3>1
  <2>5. Reaches(t, r, v, 3) /\ Node(u, r, v, 3) = Node(t, r, v, 3)
    BY <2>1, <2>2, <2>4, WalksGrown
  <2>6. On(t, r, v, 3) = Ent(t, Node(t, r, v, 3), Index(v, 3))
    BY <2>1, <2>5, EntryOfNode
  <2>7. Node(t, r, v, 3) # a
    <3>1. Node(t, r, v, 3) \in Level(t, r, 3)
      BY <2>1, <2>5, NodeInLevel
    <3>2. Level(t, r, 3) \cap Level(t, r, k) = {}
      BY <1>1 DEF Tree, Apart, Levels
    <3> QED
      BY <1>1, <3>1, <3>2
  <2>8. Ent(u, Node(t, r, v, 3), Index(v, 3)) = Ent(t, Node(t, r, v, 3), Index(v, 3))
    BY <1>2, <2>1, <2>7 DEF Grown
  <2> QED
    BY <1>4, <2>3, <2>5, <2>6, <2>8
<1> QED
  BY <1>3, <1>4 DEF Levels

-----------------------------------------------------------------------------
(* The machine.                                                            *)

Memory == pmm!MemoryFrames(memory_map)

\* A frame of memory is clear as long as somebody may still ask for one, and it is not
\* the last one: half of a port's command tables are written in the frame after the one
\* that was requested.
MemoryLasts ==
  initialized /\ (stage = "user" => i < MaxUserPages) =>
    \E f \in Memory : f \notin bitmap /\ f + 1 \in Memory

-----------------------------------------------------------------------------
(* The stages of the boot.                                                 *)

Early == {"pmm", "root"}                                 \* before there are tables
NoCr3 == Early \cup {"identity", "framebuffer", "cr3"}   \* before they are the CPU's
PciStages == {"pci", "header", "probe", "ports"}
UserStages == {"stack", "user"}
Buffered == PciStages \cup UserStages \cup {"text", "entry"}   \* after request_pages
Stages == NoCr3 \cup Buffered \cup {"heap", "tss", "graphics", "buffer"}

\* The bitmap is the one pmm::initialize made of a memory map, or more is set.
PmmPart ==
  IF stage = "pmm" THEN ~initialized
  ELSE /\ initialized /\ memory_map \in MemoryMaps
       /\ pmm!BootOwned(memory_map) \subseteq bitmap
       /\ bitmap \subseteq pmm!BitFrames[memory_map]

\* The loop counters and what the stages hand on to each other.
StagePart ==
  /\ stage \in Stages /\ i \in Nat /\ fb_size \in FramebufferSizes
  /\ cr3 <=> stage \notin NoCr3
  /\ stage = "identity" => i <= pmm!TotalPages[memory_map]
  /\ stage = "framebuffer" => i <= FramebufferPages
  /\ stage = "heap" => i <= HeapLoop
  /\ stage = "tss" => /\ i <= 6 /\ stacks \in Seq(Memory)
                      /\ Len(stacks) = IF i < 3 THEN i ELSE 3
  /\ stage \in NoCr3 \cup {"heap"} => stacks = <<>>
  /\ stage \in NoCr3 \cup {"heap", "tss", "graphics"} => buffer = 0
  /\ stage = "buffer" => i \in 1 .. BufferPages
  /\ stage = "buffer" \/ (stage \in Buffered /\ BufferPages > 1) => buffer \in Memory \ {0}
  /\ buffer \in Nat

\* The counters of the enumeration are within their loops.
WalkPart ==
  /\ config \in ConfigSpaces /\ walk \in Seq(Nat) /\ Len(walk) <= 4
  /\ stage \notin PciStages \cup UserStages \cup {"entry"} => walk = <<>>
  /\ stage = "header" => Len(walk) > 1
  /\ Len(walk) = 1 => walk[1] \in 1 .. Len(Mcfg) + 1
  /\ Len(walk) > 1 => walk[1] \in 1 .. Len(Mcfg)
  /\ Len(walk) > 2 \/ stage = "header" => walk[2] < Mcfg[walk[1]].end_bus
  /\ Len(walk) > 3 \/ (stage = "header" /\ Len(walk) = 3) => walk[3] < Devices
  /\ stage = "header" /\ Len(walk) = 4 => walk[4] < Functions

CallRecords == [v : VirtualPages, p : Nat, pat : BOOLEAN, level : Levels, at : Nat]

\* A call is at the table that the walk of its page gets to at its level.
OnItsWay(t, r, c) == Reaches(t, r, c.v, c.level) /\ c.at = Node(t, r, c.v, c.level)

CallPart ==
  /\ calls \in Seq(CallRecords)
  /\ \A n \in DOMAIN calls : OnItsWay(tables, pml_4, calls[n])
  /\ stage \in Early \cup UserStages => calls = <<>>

\* The tables are a tree of frames of memory that nobody else has.
TreePart ==
  /\ pml_4 \in Nat
  /\ IF stage \in Early THEN tables = <<>>
     ELSE /\ Tree(tables, pml_4)
          /\ DOMAIN tables \subseteq Memory \cap bitmap
          /\ DOMAIN tables \cap pmm!BootOwned(memory_map) = {}

Basic == PmmPart /\ StagePart /\ WalkPart /\ CallPart /\ TreePart

\* The steps of the enumeration that ask for no page.
Walks ==
  \/ FindMcfg \/ NextConfiguration \/ Enumerate \/ SkipFunction \/ EnterLoop
  \/ InitializeController \/ ProbePorts \/ PortsDone \/ LoopReturns \/ EnumerationEnds

-----------------------------------------------------------------------------
(* The tables of the moment.                                               *)

\* A table of no entry is no table.
LEMMA EntryIsEnt == \A f, e : Entry(f, e) = Ent(tables, f, e)
BY DEF Entry, Ent

\* Path is the walk.
LEMMA PathIsWay == \A v : Path(v) = Way(tables, pml_4, v)
BY EntryIsEnt DEF Path, Way

\* A page is translated by its entry of the last level.
LEMMA TranslateIsLeaf ==
  \A v : Translate(v) = LET e == On(tables, pml_4, v, 3) IN IF e.present THEN e.frame ELSE Unmapped
<1> SUFFICES ASSUME NEW v
             PROVE  Translate(v) = LET e == On(tables, pml_4, v, 3)
                                   IN  IF e.present THEN e.frame ELSE Unmapped
  OBVIOUS
<1>1. Path(v)[4] = On(tables, pml_4, v, 3)
  BY PathIsWay DEF On
<1> QED
  BY <1>1 DEF Translate

-----------------------------------------------------------------------------
(* request_page.                                                           *)

\* A nonempty set of naturals has a least element.
LEMMA LeastElement ==
  ASSUME NEW S, S \subseteq Nat, S # {}
  PROVE  \E x \in S : \A y \in S : x <= y
<1>1. PICK x \in S : \A y \in S : ~ (<<y, x>> \in OpToRel(<, Nat))
  BY WFMin, NatLessThanWellFounded
<1>2. \A y \in S : ~ (y < x)
  BY <1>1 DEF OpToRel
<1> QED
  BY <1>2

\* What is known of a memory map.
LEMMA MapFacts ==
  ASSUME NEW mm \in MemoryMaps
  PROVE  /\ pmm!TotalPages[mm] \in Nat
         /\ pmm!MemoryFrames(mm) = 0 .. pmm!TotalPages[mm] - 1
         /\ pmm!MemoryFrames(mm) \subseteq pmm!BitFrames[mm]
         /\ pmm!BitFrames[mm] \subseteq Nat
         /\ pmm!BootOwned(mm) \subseteq pmm!BitFrames[mm]
<1>1. /\ pmm!TotalPages[mm] \in Nat
      /\ pmm!BitmapBytes(mm) * ByteBits \in Nat
      /\ pmm!TotalPages[mm] < pmm!BitmapBytes(mm) * ByteBits
      /\ pmm!BootOwned(mm) \subseteq pmm!BitFrames[mm]
  BY PagingAssumption DEF pmm!MapsAssumption
<1>2. pmm!BitFrames[mm] = 0 .. pmm!BitmapBytes(mm) * ByteBits - 1
  BY DEF pmm!BitFrames
<1>3. pmm!MemoryFrames(mm) = 0 .. pmm!TotalPages[mm] - 1
  BY DEF pmm!MemoryFrames
<1> QED
  BY <1>1, <1>2, <1>3

\* The page requested is the first clear frame of memory.
LEMMA Requested ==
  ASSUME PmmPart, initialized, MemoryLasts, stage = "user" => i < MaxUserPages, pmm!RequestPage,
         NEW f, f = pmm!RequestedFrame
  PROVE  /\ f \in Memory /\ f \notin bitmap /\ f + 1 \in Memory
         /\ \A g \in Nat : g < f => g \in bitmap
         /\ bitmap' = bitmap \cup {f} /\ held' = held \cup {f}
         /\ UNCHANGED <<initialized, memory_map>>
<1>1. /\ memory_map \in MemoryMaps /\ bitmap \subseteq pmm!BitFrames[memory_map]
  BY DEF PmmPart
<1> DEFINE C == pmm!BitFrames[memory_map] \ bitmap
<1>2. /\ Memory = 0 .. pmm!TotalPages[memory_map] - 1 /\ pmm!TotalPages[memory_map] \in Nat
      /\ Memory \subseteq pmm!BitFrames[memory_map] /\ pmm!BitFrames[memory_map] \subseteq Nat
  BY <1>1, MapFacts DEF Memory
<1>3. PICK m \in Memory : m \notin bitmap /\ m + 1 \in Memory
  BY DEF MemoryLasts
<1>4. C # {} /\ C \subseteq Nat /\ m \in C
  BY <1>2, <1>3
<1>5. f \in C /\ \A g \in C : f <= g
  <2>1. \E x \in C : \A y \in C : x <= y
    BY <1>4, LeastElement
  <2>2. f = CHOOSE x \in C : \A y \in C : x <= y
    BY <1>4 DEF pmm!RequestedFrame, pmm!ClearFrames, pmm!FirstFit
  <2> QED
    BY <2>1, <2>2
<1>6. f \in Memory /\ f \notin bitmap /\ f + 1 \in Memory
  BY <1>2, <1>3, <1>4, <1>5
<1>7. ASSUME NEW g \in Nat, g < f PROVE g \in bitmap
  <2>1. g \in Memory
    BY <1>2, <1>6, <1>7
  <2>2. g \notin C
    BY <1>5, <1>6, <1>7, <1>2
  <2> QED
    BY <1>2, <2>1, <2>2
<1>8. pmm!LockPages({f})
  BY <1>4 DEF pmm!RequestPage, pmm!ClearFrames
<1>9. /\ bitmap' = bitmap \cup {f} /\ held' = held \cup {f}
      /\ UNCHANGED <<initialized, memory_map>>
  BY <1>6, <1>8 DEF pmm!LockPages, pmm!SetBits, pmm!NewlySet
<1> QED
  BY <1>6, <1>7, <1>9

-----------------------------------------------------------------------------
(* The steps of map_memory.                                                *)

\* The innermost call and the entry it is about to use.
LEMMA TopFacts ==
  ASSUME CallPart, TreePart, calls # <<>>
  PROVE  /\ Len(calls) \in Nat \ {0} /\ Len(calls) \in DOMAIN calls /\ DOMAIN calls = 1 .. Len(calls)
         /\ Top = calls[Len(calls)] /\ Top \in CallRecords /\ Top.v \in Nat /\ Top.level \in Levels
         /\ stage \notin Early /\ Tree(tables, pml_4)
         /\ Reaches(tables, pml_4, Top.v, Top.level)
         /\ Top.at = Node(tables, pml_4, Top.v, Top.level)
         /\ Top.at \in Level(tables, pml_4, Top.level) /\ Top.at \in DOMAIN tables
         /\ Slot = Index(Top.v, Top.level) /\ Slot \in Places
         /\ Found = Ent(tables, Top.at, Slot) /\ Found = On(tables, pml_4, Top.v, Top.level)
<1>1. /\ Len(calls) \in Nat \ {0} /\ Len(calls) \in DOMAIN calls /\ DOMAIN calls = 1 .. Len(calls)
      /\ calls[Len(calls)] \in CallRecords
  BY DEF CallPart
<1>2. Top = calls[Len(calls)]
  BY DEF Top, Last
<1>3. stage \notin Early /\ Tree(tables, pml_4)
  BY DEF CallPart, TreePart
<1>4. OnItsWay(tables, pml_4, Top)
  BY <1>1, <1>2 DEF CallPart
<1>5. Top \in CallRecords /\ Top.v \in VirtualPages /\ Top.v \in Nat /\ Top.level \in Levels
  BY <1>1, <1>2 DEF CallRecords, VirtualPages
<1>6. Entries \in Nat \ {0}
  BY PagingAssumption
<1>7. Slot = Index(Top.v, Top.level) /\ Slot \in Places
  BY <1>5, <1>6, IndexInTable DEF Slot
<1>8. /\ Reaches(tables, pml_4, Top.v, Top.level)
      /\ Top.at = Node(tables, pml_4, Top.v, Top.level)
  BY <1>4 DEF OnItsWay
<1>9. Top.at \in Level(tables, pml_4, Top.level)
  BY <1>5, <1>6, <1>8, NodeInLevel
<1>10. Top.at \in DOMAIN tables
  BY <1>3, <1>5, <1>9 DEF Tree, Covered
<1>11. Found = Ent(tables, Top.at, Slot)
  BY <1>10 DEF Found, Ent
<1>12. Found = On(tables, pml_4, Top.v, Top.level)
  BY <1>5, <1>7, <1>8, <1>11, EntryOfNode
<1> QED
  BY <1>1, <1>2, <1>3, <1>5, <1>7, <1>8, <1>9, <1>10, <1>11, <1>12

\* All calls but the innermost.
LEMMA Outer ==
  ASSUME NEW S, NEW s \in Seq(S), Len(s) \in Nat \ {0}
  PROVE  /\ Front(s) \in Seq(S) /\ Len(Front(s)) = Len(s) - 1
         /\ \A n \in 1 .. Len(s) - 1 : Front(s)[n] = s[n]
<1> DEFINE last == Len(s) - 1
           t == SubSeq(s, 1, last)
<1>1. last \in Nat /\ \A n \in 1 .. last : s[n] \in S
  OBVIOUS
<1> HIDE DEF last
<1>2. /\ t \in Seq(S) /\ Len(t) = IF 1 <= last THEN last - 1 + 1 ELSE 0
      /\ \A n \in 1 .. last - 1 + 1 : t[n] = s[1 + n - 1]
  BY <1>1, SubSeqProperties
<1> HIDE DEF t
<1>3. Len(t) = last /\ \A n \in 1 .. last : t[n] = s[n]
  <2>1. last - 1 + 1 = last /\ \A n \in 1 .. last : 1 + n - 1 = n
    BY <1>1
  <2>2. Len(t) = last
    BY <1>1, <1>2
  <2> QED
    BY <1>2, <2>1, <2>2
<1>4. Front(s) = t
  BY DEF Front, t, last
<1> QED
  BY <1>2, <1>3, <1>4 DEF last

\* The fields of the innermost call once it is a level further down.
LEMMA DeeperFields ==
  ASSUME Top \in CallRecords, Top.level < 3, NEW f \in Nat
  PROVE  /\ Deeper(f) \in CallRecords
         /\ Deeper(f).v = Top.v /\ Deeper(f).p = Top.p
         /\ Deeper(f).level = Top.level + 1 /\ Deeper(f).at = f
<1> DEFINE c == Top
<1>1. c \in [v : VirtualPages, p : Nat, pat : BOOLEAN, level : Levels, at : Nat]
  BY DEF CallRecords
<1>2. c.level + 1 \in Levels
  BY <1>1 DEF Levels
<1>3. Deeper(f) = [c EXCEPT !.level = c.level + 1, !.at = f]
  BY DEF Deeper
<1> HIDE DEF c
<1>4. /\ Deeper(f) \in [v : VirtualPages, p : Nat, pat : BOOLEAN, level : Levels, at : Nat]
      /\ Deeper(f).v = c.v /\ Deeper(f).p = c.p
      /\ Deeper(f).level = c.level + 1 /\ Deeper(f).at = f
  BY <1>1, <1>2, <1>3
<1> QED
  BY <1>4 DEF CallRecords, c

\* The fields of a call that begins.
LEMMA NewCallFields ==
  ASSUME NEW v \in VirtualPages, NEW p \in Nat, NEW pat \in BOOLEAN, pml_4 \in Nat
  PROVE  /\ NewCall(v, p, pat) \in CallRecords
         /\ NewCall(v, p, pat).v = v /\ NewCall(v, p, pat).p = p
         /\ NewCall(v, p, pat).level = 0 /\ NewCall(v, p, pat).at = pml_4
BY DEF NewCall, CallRecords, Levels

\* What a step of map_memory does to the stack of calls: the innermost goes a
\* level down,
LEMMA DescendCalls ==
  ASSUME CallPart, TreePart, Descend
  PROVE  /\ calls' \in Seq(CallRecords) /\ Len(calls') = Len(calls)
         /\ Found.frame \in Nat
         /\ calls'[Len(calls)] = Deeper(Found.frame)
         /\ \A n \in 1 .. Len(calls) - 1 : calls'[n] = calls[n]
<1>1. calls # <<>> /\ Top.level < 3 /\ calls' = Append(Front(calls), Deeper(Found.frame))
  BY DEF Descend
<1>2. calls \in Seq(CallRecords) /\ Len(calls) \in Nat \ {0} /\ Top \in CallRecords
  BY <1>1, TopFacts DEF CallPart
<1>3. Found.frame \in Nat
  BY <1>1, TopFacts DEF Found, Tree, Typed, EntryRecords
<1>4. Deeper(Found.frame) \in CallRecords
  BY <1>1, <1>2, <1>3, DeeperFields
<1> QED
  BY <1>1, <1>2, <1>3, <1>4, Outer

\* or it goes down to a new table and calls map_memory for it,
LEMMA NewTableCalls ==
  ASSUME CallPart, TreePart, NewTable, NEW f \in VirtualPages, f = pmm!RequestedFrame
  PROVE  /\ calls' \in Seq(CallRecords) /\ Len(calls') = Len(calls) + 1
         /\ calls'[Len(calls)] = Deeper(f)
         /\ calls'[Len(calls) + 1] = NewCall(f, f, FALSE)
         /\ \A n \in 1 .. Len(calls) - 1 : calls'[n] = calls[n]
<1>1. /\ calls # <<>> /\ Top.level < 3
      /\ calls' = Append(Append(Front(calls), Deeper(f)), NewCall(f, f, FALSE))
  BY DEF NewTable
<1>2. calls \in Seq(CallRecords) /\ Len(calls) \in Nat \ {0} /\ Top \in CallRecords
  BY <1>1, TopFacts DEF CallPart
<1>3. f \in Nat /\ pml_4 \in Nat
  BY <1>1, TopFacts DEF VirtualPages, TreePart
<1>4. Deeper(f) \in CallRecords /\ NewCall(f, f, FALSE) \in CallRecords
  BY <1>1, <1>2, <1>3, DeeperFields, NewCallFields
<1> DEFINE s == Append(Front(calls), Deeper(f))
           c == NewCall(f, f, FALSE)
<1>5. /\ s \in Seq(CallRecords) /\ Len(s) = Len(calls) /\ s[Len(calls)] = Deeper(f)
      /\ \A n \in 1 .. Len(calls) - 1 : s[n] = calls[n]
  BY <1>2, <1>4, Outer
<1>6. calls' = Append(s, c) /\ c \in CallRecords
  BY <1>1, <1>4
<1> HIDE DEF s, c
<1>7. /\ calls' \in Seq(CallRecords) /\ Len(calls') = Len(s) + 1
      /\ calls'[Len(s) + 1] = c
      /\ \A n \in 1 .. Len(s) : calls'[n] = s[n]
  BY <1>5, <1>6, AppendProperties
<1>8. Len(calls) \in 1 .. Len(s) /\ \A n \in 1 .. Len(calls) - 1 : n \in 1 .. Len(s)
  BY <1>2, <1>5
<1> QED
  BY <1>5, <1>7, <1>8 DEF c

\* or it returns.
LEMMA WriteLeafCalls ==
  ASSUME CallPart, TreePart, WriteLeaf
  PROVE  /\ calls' \in Seq(CallRecords) /\ Len(calls') = Len(calls) - 1
         /\ \A n \in 1 .. Len(calls) - 1 : calls'[n] = calls[n]
<1>1. calls # <<>> /\ calls' = Front(calls)
  BY DEF WriteLeaf
<1>2. calls \in Seq(CallRecords) /\ Len(calls) \in Nat \ {0}
  BY <1>1, TopFacts DEF CallPart
<1> QED
  BY <1>1, <1>2, Outer

\* A new table grows the tree.
LEMMA NewTableGrows ==
  ASSUME CallPart, TreePart, NewTable, NEW f \in Nat, f = pmm!RequestedFrame, f \notin DOMAIN tables
  PROVE  /\ Grown(tables, tables', pml_4, Top.level, Top.at, Slot, f)
         /\ Ent(tables', Top.at, Slot).user = Ent(tables, Top.at, Slot).user
<1> DEFINE a == Top.at
           s == Slot
           x == [EmptyTable[s] EXCEPT !.present = TRUE, !.frame = f]
           cleared == Cleared(f)
<1>1. calls # <<>> /\ Top.level < 3 /\ ~Found.present
  BY DEF NewTable
<1>2. tables' = [cleared EXCEPT ![a][s] = [@ EXCEPT !.present = TRUE, !.frame = f]]
  BY DEF NewTable
<1>3. /\ Top.level \in 0 .. 2 /\ a \in Level(tables, pml_4, Top.level) /\ s \in Places
      /\ a \in DOMAIN tables /\ Found = Ent(tables, a, s) /\ Typed(tables)
  BY <1>1, TopFacts DEF Levels, Tree
<1>4. /\ DOMAIN cleared = {f} \cup DOMAIN tables /\ cleared[f] = EmptyTable
      /\ \A g \in DOMAIN tables : cleared[g] = tables[g]
  BY DEF Cleared
<1>5. EmptyTable \in [Places -> EntryRecords] /\ \A e \in Places : EmptyTable[e] = Absent
  BY DEF EmptyTable, Places, EntryRecords, Absent
<1>6. cleared[a] = tables[a] /\ tables[a] \in [Places -> EntryRecords] /\ a # f
  BY <1>3, <1>4 DEF Typed
<1> DEFINE y == [tables[a][s] EXCEPT !.present = TRUE, !.frame = f]
<1>7. y \in EntryRecords /\ y.present /\ y.frame = f /\ y.user = tables[a][s].user
  BY <1>3, <1>6 DEF EntryRecords
<1> HIDE DEF cleared
<1>8. tables' = [cleared EXCEPT ![a] = [tables[a] EXCEPT ![s] = y]]
  BY <1>2, <1>3, <1>4, <1>6
<1> HIDE DEF a, s, y
<1>9. DOMAIN tables' = DOMAIN cleared /\ tables'[a] = [tables[a] EXCEPT ![s] = y]
      /\ \A g \in DOMAIN cleared : g # a => tables'[g] = cleared[g]
  BY <1>3, <1>4, <1>8
<1>10. /\ tables'[a] \in [Places -> EntryRecords] /\ tables'[a][s] = y
       /\ \A e \in Places : e # s => tables'[a][e] = tables[a][e]
  BY <1>3, <1>6, <1>7, <1>9
<1>11. Typed(tables')
  BY <1>3, <1>4, <1>5, <1>9, <1>10 DEF Typed
<1>12. ASSUME NEW g, NEW e \in Places, g # a \/ e # s PROVE Ent(tables', g, e) = Ent(tables, g, e)
  <2>1. CASE g = a
    BY <1>3, <1>4, <1>9, <1>10, <1>12, <2>1 DEF Ent
  <2>2. CASE g = f
    BY <1>4, <1>5, <1>6, <1>9, <2>2 DEF Ent
  <2>3. CASE g # a /\ g # f
    BY <1>4, <1>9, <2>3 DEF Ent
  <2> QED
    BY <2>1, <2>2, <2>3
<1>13. Ent(tables', a, s) = y
  BY <1>3, <1>4, <1>9, <1>10 DEF Ent
<1>14. Ent(tables', a, s).user = Ent(tables, a, s).user
  BY <1>3, <1>7, <1>13 DEF Ent
<1>15. a = Top.at /\ s = Slot
  BY DEF a, s
<1>16. Grown(tables, tables', pml_4, Top.level, Top.at, Slot, f)
  BY <1>1, <1>3, <1>4, <1>7, <1>9, <1>11, <1>12, <1>13, <1>15 DEF Grown
<1> QED
  BY <1>14, <1>15, <1>16

\* The entry that a call at the last level writes.
Leaf == [Found EXCEPT !.present = TRUE, !.frame = Top.p, !.pat = Top.pat]

\* It is all that the call writes.
LEMMA LeafIsWritten ==
  ASSUME CallPart, TreePart, WriteLeaf
  PROVE  /\ Written(tables, tables', Top.at, Slot, Leaf) /\ Leaf \in EntryRecords
         /\ Leaf.present /\ Leaf.frame = Top.p /\ Leaf.user = Found.user
<1> DEFINE a == Top.at
           s == Slot
           e == tables[a][s]
           x == [e EXCEPT !.present = TRUE, !.frame = Top.p, !.pat = Top.pat]
<1>1. calls # <<>> /\ tables' = [tables EXCEPT ![a][s] = [@ EXCEPT !.present = TRUE,
                                                   !.frame = Top.p, !.pat = Top.pat]]
  BY DEF WriteLeaf
<1>2. a \in DOMAIN tables /\ s \in Places /\ tables[a] \in [Places -> EntryRecords] /\ e \in EntryRecords
  BY <1>1, TopFacts DEF Tree, Typed
<1>3. Top.p \in Nat /\ Top.pat \in BOOLEAN
  BY <1>1, TopFacts DEF CallRecords
<1>4. Leaf = x
  BY DEF Leaf, Found
<1>5. tables' = [tables EXCEPT ![a] = [tables[a] EXCEPT ![s] = x]]
  BY <1>1, <1>2
<1>6. x \in EntryRecords /\ x.present /\ x.frame = Top.p /\ x.user = e.user
  <2> HIDE DEF e
  <2>1. e \in [present : BOOLEAN, frame : Nat, user : BOOLEAN, pat : BOOLEAN]
    BY <1>2 DEF EntryRecords
  <2> DEFINE p == Top.p
             q == Top.pat
  <2>2. p \in Nat /\ q \in BOOLEAN
    BY <1>3
  <2> HIDE DEF p, q
  <2>3. [e EXCEPT !.present = TRUE, !.frame = p, !.pat = q] \in EntryRecords
    BY <2>1, <2>2 DEF EntryRecords
  <2>4. [e EXCEPT !.present = TRUE, !.frame = p, !.pat = q].present
    BY <2>1
  <2>5. [e EXCEPT !.present = TRUE, !.frame = p, !.pat = q].frame = p
    BY <2>1
  <2>6. [e EXCEPT !.present = TRUE, !.frame = p, !.pat = q].user = e.user
    BY <2>1
  <2> QED
    BY <2>3, <2>4, <2>5, <2>6 DEF p, q
<1>7. e = Found
  BY DEF Found
<1> QED
  BY <1>4, <1>5, <1>6, <1>7 DEF Written

\* donate_to_userspace sets flags.
LEMMA DonateFlags ==
  ASSUME Tree(tables, pml_4), NEW v, DonateToUserspace(v)
  PROVE  FlagsOnly(tables, tables')
<1> DEFINE at(level) == IF level = 0 THEN pml_4 ELSE Path(v)[level].frame
           onPath(f, e) == \E level \in Levels : f = at(level) /\ e = Index(v, level)
<1>1. tables' = [f \in DOMAIN tables |-> [e \in 0 .. Entries - 1 |->
                   IF onPath(f, e) THEN [tables[f][e] EXCEPT !.user = TRUE] ELSE tables[f][e]]]
  BY DEF DonateToUserspace
<1> HIDE DEF onPath
<1>2. ASSUME NEW x \in EntryRecords
      PROVE  /\ [x EXCEPT !.user = TRUE] \in EntryRecords
             /\ [x EXCEPT !.user = TRUE].present = x.present
             /\ [x EXCEPT !.user = TRUE].frame = x.frame
  BY DEF EntryRecords
<1>3. ASSUME NEW f \in DOMAIN tables, NEW e \in Places
      PROVE  /\ tables'[f][e] \in EntryRecords
             /\ tables'[f][e].present = tables[f][e].present
             /\ tables'[f][e].frame = tables[f][e].frame
  <2>1. tables[f][e] \in EntryRecords
    BY DEF Tree, Typed
  <2>2. tables'[f][e] = IF onPath(f, e) THEN [tables[f][e] EXCEPT !.user = TRUE] ELSE tables[f][e]
    BY <1>1 DEF Places
  <2> QED
    BY <1>2, <2>1, <2>2
<1>4. DOMAIN tables' = DOMAIN tables /\ \A f \in DOMAIN tables : tables'[f] = [e \in Places |-> tables'[f][e]]
  BY <1>1 DEF Places
<1>5. Typed(tables')
  <2>1. \A f \in DOMAIN tables' : tables'[f] \in [Places -> EntryRecords]
    BY <1>3, <1>4
  <2> QED
    BY <2>1 DEF Typed
<1> QED
  BY <1>3, <1>4, <1>5 DEF FlagsOnly

\* A call that goes on is on its way, one level further down.
LEMMA FurtherDown ==
  ASSUME NEW u, NEW r, NEW v, NEW k \in 0 .. 2, On(u, r, v, k).present
  PROVE  Reaches(u, r, v, k + 1) /\ Node(u, r, v, k + 1) = On(u, r, v, k).frame
<1>1. k + 1 # 0 /\ (k + 1) - 1 = k
  OBVIOUS
<1> QED
  BY <1>1 DEF Reaches, Node

\* A step that follows an entry.
LEMMA DescendKeeps ==
  ASSUME Basic, Descend, UNCHANGED bootVars
  PROVE  CallPart' /\ TreePart'
<1>1. calls # <<>> /\ Top.level < 3 /\ Found.present /\ UNCHANGED <<pmmVars, pml_4, tables, stage>>
  BY DEF Descend, bootVars
<1>2. CallPart /\ TreePart
  BY DEF Basic
<1>3. TreePart'
  BY <1>1, <1>2 DEF TreePart, Memory, pmmVars
<1>4. /\ calls' \in Seq(CallRecords) /\ Len(calls') = Len(calls)
      /\ Found.frame \in Nat /\ calls'[Len(calls)] = Deeper(Found.frame)
      /\ \A n \in 1 .. Len(calls) - 1 : calls'[n] = calls[n]
  BY <1>1, <1>2, DescendCalls
<1>5. OnItsWay(tables', pml_4', calls'[Len(calls)])
  <2> DEFINE c == Deeper(Found.frame)
             k == Top.level
  <2>1. Top \in CallRecords /\ k \in 0 .. 2 /\ Found = On(tables, pml_4, Top.v, k)
    BY <1>1, <1>2, TopFacts DEF Levels
  <2>2. /\ Reaches(tables, pml_4, Top.v, k + 1)
        /\ Node(tables, pml_4, Top.v, k + 1) = Found.frame
    BY <1>1, <2>1, FurtherDown
  <2>3. c.v = Top.v /\ c.level = k + 1 /\ c.at = Found.frame
    BY <1>1, <1>4, <2>1, DeeperFields
  <2>4. calls'[Len(calls)] = c
    BY <1>4
  <2> HIDE DEF c, k
  <2> QED
    BY <1>1, <2>2, <2>3, <2>4 DEF OnItsWay
<1>6. \A n \in DOMAIN calls' : OnItsWay(tables', pml_4', calls'[n])
  <2> SUFFICES ASSUME NEW n \in DOMAIN calls' PROVE OnItsWay(tables', pml_4', calls'[n])
    OBVIOUS
  <2>1. Len(calls) \in Nat \ {0} /\ DOMAIN calls = 1 .. Len(calls)
    BY <1>1, <1>2, TopFacts
  <2>2. n \in 1 .. Len(calls)
    BY <1>4
  <2>3. CASE n = Len(calls)
    BY <1>5, <2>3
  <2>4. CASE n # Len(calls)
    <3>1. n \in 1 .. Len(calls) - 1 /\ n \in DOMAIN calls
      BY <2>1, <2>2, <2>4
    <3>2. OnItsWay(tables, pml_4, calls[n]) /\ calls'[n] = calls[n]
      BY <1>2, <1>4, <3>1 DEF CallPart
    <3> QED
      BY <1>1, <3>2 DEF OnItsWay
  <2> QED
    BY <2>3, <2>4
<1>7. stage \notin Early \cup UserStages
  BY <1>1, <1>2 DEF CallPart
<1> QED
  BY <1>1, <1>3, <1>4, <1>6, <1>7 DEF CallPart

\* Memory is within the address space.
LEMMA MemoryIsMappable ==
  ASSUME PmmPart, stage # "pmm"
  PROVE  /\ Memory \subseteq VirtualPages /\ Memory \subseteq Nat
         /\ Memory = 0 .. pmm!TotalPages[memory_map] - 1 /\ pmm!TotalPages[memory_map] \in Nat
         /\ memory_map \in MemoryMaps
<1>1. memory_map \in MemoryMaps
  BY DEF PmmPart
<1>2. Memory = 0 .. pmm!TotalPages[memory_map] - 1 /\ pmm!TotalPages[memory_map] \in Nat
  BY <1>1, MapFacts DEF Memory
<1>3. pmm!TotalPages[memory_map] <= HeapPage /\ HeapPage \in VirtualPages
  BY <1>1, BootAssumption
<1> DEFINE N == Entries * Entries * Entries * Entries
<1>4. VirtualPages = 0 .. N - 1 /\ N \in Nat
  BY PagingAssumption DEF VirtualPages
<1> HIDE DEF N
<1> QED
  BY <1>1, <1>2, <1>3, <1>4

\* The table that a step of map_memory adds.
LEMMA NewTableFrame ==
  ASSUME Basic, MemoryLasts, NewTable, NEW f, f = pmm!RequestedFrame
  PROVE  /\ f \in Memory /\ f \in Nat /\ f \in VirtualPages
         /\ f \notin bitmap /\ f \notin DOMAIN tables
         /\ \A g \in Nat : g < f => g \in bitmap
         /\ bitmap' = bitmap \cup {f} /\ UNCHANGED <<initialized, memory_map>>
         /\ Grown(tables, tables', pml_4, Top.level, Top.at, Slot, f)
         /\ calls # <<>> /\ Top.level < 3 /\ ~Found.present /\ pml_4' = pml_4 /\ cr3' = cr3
<1>1. /\ calls # <<>> /\ Top.level < 3 /\ ~Found.present /\ pmm!RequestPage
      /\ pml_4' = pml_4 /\ cr3' = cr3
  BY DEF NewTable
<1>2. CallPart /\ TreePart /\ PmmPart
  BY DEF Basic
<1>3. stage \notin Early \cup UserStages
  BY <1>1, <1>2 DEF CallPart
<1>4. initialized /\ stage # "pmm" /\ stage # "user"
  BY <1>2, <1>3 DEF PmmPart, Early, UserStages
<1>5. /\ f \in Memory /\ f \notin bitmap /\ \A g \in Nat : g < f => g \in bitmap
      /\ bitmap' = bitmap \cup {f} /\ UNCHANGED <<initialized, memory_map>>
  BY <1>1, <1>2, <1>4, Requested
<1>6. f \in Nat /\ f \in VirtualPages
  BY <1>2, <1>4, <1>5, MemoryIsMappable
<1>7. f \notin DOMAIN tables
  BY <1>2, <1>3, <1>5 DEF TreePart
<1>8. Grown(tables, tables', pml_4, Top.level, Top.at, Slot, f)
  BY <1>2, <1>6, <1>7, NewTableGrows
<1> QED
  BY <1>1, <1>5, <1>6, <1>7, <1>8

\* A call on its way stays on it when the tree grows.
LEMMA GrownOnItsWay ==
  ASSUME Basic, NEW k, NEW a, NEW s, NEW f, Grown(tables, tables', pml_4, k, a, s, f),
         stage \notin Early, pml_4' = pml_4, NEW c \in CallRecords, OnItsWay(tables, pml_4, c)
  PROVE  OnItsWay(tables', pml_4', c)
<1>1. c.v \in Nat /\ c.level \in Levels /\ Entries \in Nat \ {0} /\ Tree(tables, pml_4)
  BY PagingAssumption DEF CallRecords, VirtualPages, Basic, TreePart
<1> DEFINE u == tables'
           v == c.v
           l == c.level
<1>2. Reaches(tables, pml_4, v, l) /\ c.at = Node(tables, pml_4, v, l)
  BY DEF OnItsWay
<1>3. Reaches(u, pml_4, v, l) /\ Node(u, pml_4, v, l) = Node(tables, pml_4, v, l)
  <2> HIDE DEF u, v, l
  <2>1. Grown(tables, u, pml_4, k, a, s, f)
    BY DEF u
  <2>2. v \in Nat /\ l \in Levels
    BY <1>1 DEF v, l
  <2> QED
    BY <1>1, <1>2, <2>1, <2>2, WalksGrown
<1> QED
  BY <1>2, <1>3 DEF OnItsWay

\* A step that adds a table.
LEMMA NewTableKeeps ==
  ASSUME Basic, MemoryLasts, NewTable, UNCHANGED bootVars
  PROVE  CallPart' /\ TreePart'
<1> DEFINE f == pmm!RequestedFrame
           k == Top.level
<1>1. /\ f \in Memory /\ f \in Nat /\ f \in VirtualPages
      /\ f \notin bitmap /\ f \notin DOMAIN tables
      /\ bitmap' = bitmap \cup {f} /\ UNCHANGED <<initialized, memory_map>>
      /\ Grown(tables, tables', pml_4, k, Top.at, Slot, f)
      /\ calls # <<>> /\ k < 3 /\ pml_4' = pml_4
  BY NewTableFrame
<1>2. CallPart /\ TreePart /\ PmmPart /\ UNCHANGED stage
  BY DEF Basic, bootVars
<1>3. stage \notin Early \cup UserStages
  BY <1>1, <1>2 DEF CallPart
<1>4. Tree(tables', pml_4) /\ DOMAIN tables' = (DOMAIN tables) \cup {f}
  BY <1>1, <1>2, <1>3, TreeGrown DEF TreePart, Grown
<1>5. TreePart'
  <2>1. pmm!BootOwned(memory_map) \subseteq bitmap
    BY <1>2, <1>3 DEF PmmPart, Early
  <2>2. Memory' = Memory
    BY <1>1 DEF Memory
  <2>3. pml_4 \in Nat /\ DOMAIN tables \subseteq Memory \cap bitmap
        /\ DOMAIN tables \cap pmm!BootOwned(memory_map) = {}
    BY <1>2, <1>3 DEF TreePart
  <2>4. DOMAIN tables' \subseteq Memory \cap bitmap'
    BY <1>1, <1>4, <2>3
  <2>5. DOMAIN tables' \cap pmm!BootOwned(memory_map) = {}
    BY <1>1, <1>4, <2>1, <2>3
  <2> QED
    BY <1>1, <1>2, <1>3, <1>4, <2>2, <2>3, <2>4, <2>5 DEF TreePart
<1>6. /\ calls' \in Seq(CallRecords) /\ Len(calls') = Len(calls) + 1
      /\ calls'[Len(calls)] = Deeper(f)
      /\ calls'[Len(calls) + 1] = NewCall(f, f, FALSE)
      /\ \A n \in 1 .. Len(calls) - 1 : calls'[n] = calls[n]
  BY <1>1, <1>2, NewTableCalls
<1>7. OnItsWay(tables', pml_4', Deeper(f))
  <2> DEFINE c == Deeper(f)
  <2>1. Top \in CallRecords /\ k \in 0 .. 2 /\ OnItsWay(tables, pml_4, Top) /\ Slot = Index(Top.v, k)
    BY <1>1, <1>2, TopFacts DEF Levels, OnItsWay
  <2>2. OnItsWay(tables', pml_4', Top)
    BY <1>1, <1>3, <2>1, GrownOnItsWay
  <2>3. Reaches(tables', pml_4, Top.v, k) /\ Node(tables', pml_4, Top.v, k) = Top.at
    BY <1>1, <2>2 DEF OnItsWay
  <2>4. On(tables', pml_4, Top.v, k) = Ent(tables', Top.at, Slot)
    BY <2>1, <2>3, EntryOfNode DEF Levels
  <2>5. Ent(tables', Top.at, Slot).present /\ Ent(tables', Top.at, Slot).frame = f
    BY <1>1 DEF Grown
  <2>6. /\ Reaches(tables', pml_4, Top.v, k + 1)
        /\ Node(tables', pml_4, Top.v, k + 1) = f
    BY <2>1, <2>4, <2>5, FurtherDown
  <2>7. c.v = Top.v /\ c.level = k + 1 /\ c.at = f
    BY <1>1, <2>1, DeeperFields
  <2> HIDE DEF c, k
  <2>8. OnItsWay(tables', pml_4', c)
    BY <1>1, <2>6, <2>7 DEF OnItsWay
  <2> QED
    BY <2>8 DEF c
<1>8. OnItsWay(tables', pml_4', NewCall(f, f, FALSE))
  <2> DEFINE c == NewCall(f, f, FALSE)
  <2>1. c.level = 0 /\ c.at = pml_4
    BY DEF NewCall
  <2> HIDE DEF c
  <2>2. OnItsWay(tables', pml_4', c)
    BY <1>1, <2>1 DEF OnItsWay, Reaches, Node
  <2> QED
    BY <2>2 DEF c
<1>9. \A n \in DOMAIN calls' : OnItsWay(tables', pml_4', calls'[n])
  <2> SUFFICES ASSUME NEW n \in DOMAIN calls' PROVE OnItsWay(tables', pml_4', calls'[n])
    OBVIOUS
  <2>1. Len(calls) \in Nat \ {0} /\ DOMAIN calls = 1 .. Len(calls)
    BY <1>1, <1>2, TopFacts
  <2>2. n \in 1 .. Len(calls) + 1
    BY <1>6
  <2>3. CASE n = Len(calls)
    BY <1>6, <1>7, <2>3
  <2>4. CASE n = Len(calls) + 1
    BY <1>6, <1>8, <2>4
  <2>5. CASE n # Len(calls) /\ n # Len(calls) + 1
    <3>1. n \in 1 .. Len(calls) - 1 /\ n \in DOMAIN calls
      BY <2>1, <2>2, <2>5
    <3>2. OnItsWay(tables, pml_4, calls[n]) /\ calls'[n] = calls[n] /\ calls[n] \in CallRecords
      BY <1>2, <1>6, <3>1 DEF CallPart
    <3>3. OnItsWay(tables', pml_4', calls[n])
      BY <1>1, <1>3, <3>2, GrownOnItsWay
    <3> QED
      BY <3>2, <3>3 DEF OnItsWay
  <2> QED
    BY <2>3, <2>4, <2>5
<1> QED
  BY <1>2, <1>3, <1>5, <1>6, <1>9 DEF CallPart

\* A step that keeps all links keeps calls on their way.
LEMMA LinkedOnItsWay ==
  ASSUME NEW u, SameLinks(tables, u, pml_4), NEW c \in CallRecords, OnItsWay(tables, pml_4, c)
  PROVE  OnItsWay(u, pml_4, c)
<1>1. c.v \in Nat /\ c.level \in Levels /\ Entries \in Nat \ {0}
  BY PagingAssumption DEF CallRecords, VirtualPages
<1> DEFINE v == c.v
           l == c.level
<1>2. Reaches(tables, pml_4, v, l) /\ c.at = Node(tables, pml_4, v, l)
  BY DEF OnItsWay
<1>3. v \in Nat /\ l \in Levels
  BY <1>1
<1>4. Reaches(u, pml_4, v, l) /\ Node(u, pml_4, v, l) = Node(tables, pml_4, v, l)
  <2> HIDE DEF v, l
  <2> QED
    BY <1>1, <1>2, <1>3, WalksKept
<1> QED
  BY <1>2, <1>4 DEF OnItsWay

\* The last step of a call.
LEMMA WriteLeafFacts ==
  ASSUME Basic, WriteLeaf
  PROVE  /\ Top.v \in VirtualPages /\ Top.level = 3 /\ Reaches(tables, pml_4, Top.v, 3)
         /\ Top.at = Node(tables, pml_4, Top.v, 3) /\ Slot = Index(Top.v, 3)
         /\ Written(tables, tables', Node(tables, pml_4, Top.v, 3), Index(Top.v, 3), Leaf)
         /\ Leaf \in EntryRecords /\ Leaf.present /\ Leaf.frame = Top.p /\ Leaf.user = Found.user
         /\ DOMAIN tables' = DOMAIN tables /\ Typed(tables') /\ SameLinks(tables, tables', pml_4)
         /\ Tree(tables, pml_4) /\ UNCHANGED <<pmmVars, pml_4, cr3>> /\ calls # <<>>
<1>1. CallPart /\ TreePart /\ calls # <<>> /\ Top.level = 3 /\ UNCHANGED <<pmmVars, pml_4, cr3>>
  BY DEF Basic, WriteLeaf
<1>2. /\ Reaches(tables, pml_4, Top.v, 3) /\ Top.at = Node(tables, pml_4, Top.v, 3)
      /\ Slot = Index(Top.v, 3) /\ Top.v \in VirtualPages
      /\ Tree(tables, pml_4) /\ Top.at \in Level(tables, pml_4, 3) /\ Slot \in Places
  BY <1>1, TopFacts DEF CallRecords
<1>3. /\ Written(tables, tables', Top.at, Slot, Leaf) /\ Leaf \in EntryRecords
      /\ Leaf.present /\ Leaf.frame = Top.p /\ Leaf.user = Found.user
  BY <1>1, LeafIsWritten
<1>4. DOMAIN tables' = DOMAIN tables /\ Typed(tables') /\ SameLinks(tables, tables', pml_4)
  BY <1>2, <1>3, LeafWritten
<1> QED
  BY <1>1, <1>2, <1>3, <1>4

\* Writing a leaf keeps the tables and what links them.
LEMMA WriteLeafKeeps ==
  ASSUME Basic, WriteLeaf, UNCHANGED bootVars
  PROVE  CallPart' /\ TreePart'
<1>1. /\ DOMAIN tables' = DOMAIN tables /\ Typed(tables') /\ SameLinks(tables, tables', pml_4)
      /\ Tree(tables, pml_4) /\ UNCHANGED <<pmmVars, pml_4, stage>> /\ calls # <<>>
  BY WriteLeafFacts DEF bootVars
<1>2. CallPart /\ TreePart
  BY DEF Basic
<1>3. Tree(tables', pml_4)
  BY <1>1, TreeKept
<1>4. stage \notin Early \cup UserStages
  BY <1>1, <1>2 DEF CallPart
<1>5. TreePart'
  BY <1>1, <1>2, <1>3, <1>4 DEF TreePart, Memory, pmmVars
<1>6. /\ calls' \in Seq(CallRecords) /\ Len(calls') = Len(calls) - 1
      /\ \A n \in 1 .. Len(calls) - 1 : calls'[n] = calls[n]
  BY <1>2, WriteLeafCalls
<1>7. ASSUME NEW n \in DOMAIN calls' PROVE OnItsWay(tables', pml_4', calls'[n])
  <2>1. n \in 1 .. Len(calls) - 1 /\ n \in DOMAIN calls
    BY <1>1, <1>2, <1>6, TopFacts
  <2>2. OnItsWay(tables, pml_4, calls[n]) /\ calls'[n] = calls[n] /\ calls[n] \in CallRecords
    BY <1>2, <1>6, <2>1 DEF CallPart
  <2> QED
    BY <1>1, <2>2, LinkedOnItsWay
<1> QED
  BY <1>1, <1>4, <1>5, <1>6, <1>7 DEF CallPart

\* A step of map_memory.
LEMMA MapStepBasic ==
  ASSUME Basic, MemoryLasts, MapStep, UNCHANGED <<bootVars, pciVars>>
  PROVE  Basic'
<1>1. UNCHANGED <<initialized, memory_map, cr3>> /\ bitmap \subseteq bitmap'
      /\ (bitmap' # bitmap => bitmap' \subseteq bitmap \cup Memory)
  <2>1. CASE Descend
    BY <2>1 DEF Descend, pmmVars
  <2>2. CASE WriteLeaf
    BY <2>2 DEF WriteLeaf, pmmVars
  <2>3. CASE NewTable
    <3>1. /\ pmm!RequestedFrame \in Memory /\ bitmap' = bitmap \cup {pmm!RequestedFrame}
          /\ UNCHANGED <<initialized, memory_map, cr3>>
      BY <2>3, NewTableFrame
    <3> QED
      BY <3>1
  <2> QED
    BY <2>1, <2>2, <2>3 DEF MapStep
<1>2. UNCHANGED <<stage, i, fb_size, stacks, buffer, donated, config, walk, found, strayed>>
  BY DEF bootVars, pciVars
<1>3. PmmPart /\ StagePart /\ WalkPart
  BY DEF Basic
<1>4. PmmPart'
  <2>1. CASE stage = "pmm"
    BY <1>1, <1>2, <1>3, <2>1 DEF PmmPart
  <2>2. CASE stage # "pmm"
    <3>1. Memory \subseteq pmm!BitFrames[memory_map]
      BY <1>3, <2>2, MapFacts DEF PmmPart, Memory
    <3> QED
      BY <1>1, <1>2, <1>3, <2>2, <3>1 DEF PmmPart
  <2> QED
    BY <2>1, <2>2
<1>5. StagePart'
  BY <1>1, <1>2, <1>3 DEF StagePart, FramebufferPages, BufferPages, Memory
<1>6. WalkPart'
  BY <1>2, <1>3 DEF WalkPart
<1>7. CallPart' /\ TreePart'
  BY DescendKeeps, NewTableKeeps, WriteLeafKeeps DEF MapStep
<1> QED
  BY <1>4, <1>5, <1>6, <1>7 DEF Basic

-----------------------------------------------------------------------------
(* The steps of the boot: stages and counters.                             *)

\* The number of pages of the framebuffer and of the buffer.
LEMMA PageCounts ==
  ASSUME StagePart
  PROVE  /\ FramebufferPages \in Nat /\ BufferPages \in Nat \ {0}
         /\ fb_size \in Nat /\ PageSize \in Nat \ {0}
<1>1. fb_size \in Nat /\ FramebufferSlack \in Nat
  BY BootAssumption DEF StagePart
<1>2. PageSize \in Nat \ {0}
  BY PagingAssumption DEF pmm!LayoutAssumption
<1>3. \A n \in Nat : n \div PageSize \in Nat
  BY <1>2
<1>4. fb_size + FramebufferSlack + PageSize - 1 \in Nat
  BY <1>1, <1>2
<1> QED
  BY <1>1, <1>2, <1>3, <1>4 DEF FramebufferPages, BufferPages

\* A page is asked for.
LEMMA Asked ==
  ASSUME Basic, MemoryLasts, stage # "pmm", stage = "user" => i < MaxUserPages, pmm!RequestPage,
         NEW f, f = pmm!RequestedFrame
  PROVE  /\ f \in Memory /\ f \in Nat /\ f \in VirtualPages /\ f \notin bitmap
         /\ f + 1 \in Memory /\ \A g \in Nat : g < f => g \in bitmap
         /\ bitmap' = bitmap \cup {f} /\ held' = held \cup {f}
         /\ UNCHANGED <<initialized, memory_map>> /\ Memory' = Memory
         /\ f \notin pmm!BootOwned(memory_map) /\ f \notin DOMAIN tables
         /\ stage' # "pmm" => PmmPart'
<1>1. PmmPart /\ initialized /\ pmm!BootOwned(memory_map) \subseteq bitmap /\ TreePart
  BY DEF Basic, PmmPart
<1>2. /\ f \in Memory /\ f \notin bitmap /\ \A g \in Nat : g < f => g \in bitmap
      /\ f + 1 \in Memory
      /\ bitmap' = bitmap \cup {f} /\ held' = held \cup {f}
      /\ UNCHANGED <<initialized, memory_map>>
  BY <1>1, Requested
<1>3. f \in Nat /\ f \in VirtualPages /\ memory_map \in MemoryMaps
  BY <1>1, <1>2, MemoryIsMappable
<1>4. Memory' = Memory
  BY <1>2 DEF Memory
<1>5. f \notin DOMAIN tables
  <2>1. CASE stage \in Early
    BY <1>1, <2>1 DEF TreePart
  <2>2. CASE stage \notin Early
    BY <1>1, <1>2, <2>2 DEF TreePart
  <2> QED
    BY <2>1, <2>2
<1>6. stage' # "pmm" => PmmPart'
  <2>1. Memory \subseteq pmm!BitFrames[memory_map]
    BY <1>3, MapFacts DEF Memory
  <2> QED
    BY <1>1, <1>2, <2>1 DEF PmmPart
<1> QED
  BY <1>1, <1>2, <1>3, <1>4, <1>5, <1>6

\* Frame 0 is the boot's: nullptr is nobody's page.
LEMMA FrameZero == \A mm \in MemoryMaps : 0 \in pmm!BootOwned(mm)
<1> SUFFICES ASSUME NEW mm \in MemoryMaps PROVE 0 \in pmm!BootOwned(mm)
  OBVIOUS
<1>1. PageSize \in Nat \ {0} /\ MiB \in Nat \ {0} /\ MiB % PageSize = 0
  BY PagingAssumption DEF pmm!LayoutAssumption, pmm!Aligned
<1> DEFINE q == MiB \div PageSize
<1>2. q \in Nat /\ MiB = (q * PageSize) + (MiB % PageSize)
  BY <1>1, SMT
<1>3. 0 \div PageSize = 0
  BY <1>1
<1> HIDE DEF q
<1>4. q # 0
  BY <1>1, <1>2
<1>5. 0 \in 0 + 0 .. 0 + q - 1
  BY <1>2, <1>4
<1>6. 0 \in pmm!LowFrames
  BY <1>3, <1>5 DEF pmm!LowFrames, pmm!Pages, pmm!FrameOf, q
<1> QED
  BY <1>6 DEF pmm!BootOwned, pmm!BootLocked, pmm!BootReserved

\* Each step of module Boot leaves stages and counters right.
LEMMA NextStage ==
  ASSUME Basic, MemoryLasts, Next
  PROVE  StagePart'
<1> USE DEF Early, NoCr3, PciStages, UserStages, Buffered, Stages
<1>1. StagePart /\ PmmPart /\ CallPart
  BY DEF Basic
<1>2. FramebufferPages \in Nat /\ BufferPages \in Nat \ {0} /\ i \in Nat
  BY <1>1, PageCounts DEF StagePart
<1>3. ASSUME fb_size' = fb_size PROVE FramebufferPages' = FramebufferPages /\ BufferPages' = BufferPages
  BY <1>3 DEF FramebufferPages, BufferPages
<1>4. (stage # "pmm" => pmm!TotalPages[memory_map] \in Nat) /\ HeapLoop \in Nat
  BY <1>1, MapFacts, BootAssumption DEF PmmPart
<1>5. CASE ConfigurePmm
  <2>1. stage = "pmm" /\ stage' = "root" /\ i' = 0 /\ UNCHANGED <<cr3, fb_size, stacks, buffer>>
    BY <1>5 DEF ConfigurePmm, At, Goto, NoTables
  <2> QED
    BY <1>1, <1>2, <1>3, <1>4, <2>1 DEF StagePart
<1>6. CASE RootTable
  <2>1. stage = "root" /\ stage' = "identity" /\ i' = 0 /\ UNCHANGED <<cr3, fb_size, stacks, buffer>>
    BY <1>6 DEF RootTable, At, Goto
  <2>2. pmm!RequestPage
    BY <1>6 DEF RootTable
  <2>3. Memory' = Memory /\ UNCHANGED memory_map
    BY <2>1, <2>2, Asked
  <2> QED
    BY <1>1, <1>2, <1>3, <1>4, <2>1, <2>3 DEF StagePart
<1>7. CASE IdentityMap
  <2>1. stage = "identity" /\ i < pmm!TotalPages[memory_map] /\ UNCHANGED <<stage, cr3, fb_size, stacks, buffer, memory_map>> /\ i' = i + 1
    BY <1>7 DEF IdentityMap, At, Again, JustMaps, pmmVars
  <2>2. Memory' = Memory
    BY <2>1 DEF Memory
  <2> QED
    BY <1>1, <1>2, <1>3, <1>4, <2>1, <2>2 DEF StagePart
<1>8. CASE LoopEnds("identity", pmm!TotalPages[memory_map], "framebuffer")
  <2>1. stage = "identity" /\ stage' = "framebuffer" /\ i' = 0 /\ UNCHANGED <<cr3, fb_size, stacks, buffer>>
    BY <1>8 DEF LoopEnds, At, Goto, NoTables
  <2> QED
    BY <1>1, <1>2, <1>3, <1>4, <2>1 DEF StagePart
<1>9. CASE MapFramebuffer
  <2>1. stage = "framebuffer" /\ i < FramebufferPages /\ UNCHANGED <<stage, cr3, fb_size, stacks, buffer>> /\ i' = i + 1
    BY <1>9 DEF MapFramebuffer, At, Again, JustMaps
  <2> QED
    BY <1>1, <1>2, <1>3, <1>4, <2>1 DEF StagePart
<1>10. CASE LoopEnds("framebuffer", FramebufferPages, "cr3")
  <2>1. stage = "framebuffer" /\ stage' = "cr3" /\ i' = 0 /\ UNCHANGED <<cr3, fb_size, stacks, buffer>>
    BY <1>10 DEF LoopEnds, At, Goto, NoTables
  <2> QED
    BY <1>1, <1>2, <1>3, <1>4, <2>1 DEF StagePart
<1>11. CASE LoadCr3
  <2>1. stage = "cr3" /\ stage' = "heap" /\ i' = 0 /\ cr3' = TRUE /\ UNCHANGED <<fb_size, stacks, buffer>>
    BY <1>11 DEF LoadCr3, At, Goto
  <2> QED
    BY <1>1, <1>2, <1>3, <1>4, <2>1 DEF StagePart
<1>12. CASE MapHeap
  <2>1. stage = "heap" /\ i < HeapLoop /\ UNCHANGED <<stage, cr3, fb_size, stacks, buffer>> /\ i' = i + 1
    BY <1>12 DEF MapHeap, At, Again, JustMaps
  <2>2. pmm!RequestPage
    BY <1>12 DEF MapHeap
  <2>3. Memory' = Memory /\ UNCHANGED memory_map
    BY <2>1, <2>2, Asked
  <2> QED
    BY <1>1, <1>2, <1>3, <1>4, <2>1, <2>3 DEF StagePart
<1>13. CASE LoopEnds("heap", HeapLoop, "tss")
  <2>1. stage = "heap" /\ stage' = "tss" /\ i' = 0 /\ UNCHANGED <<cr3, fb_size, stacks, buffer, memory_map>>
    BY <1>13 DEF LoopEnds, At, Goto, NoTables, pmmVars
  <2>2. Memory' = Memory
    BY <2>1 DEF Memory
  <2> QED
    BY <1>1, <1>2, <1>3, <1>4, <2>1, <2>2 DEF StagePart
<1>14. CASE RequestStack
  <2> DEFINE f == pmm!RequestedFrame
  <2>1. /\ stage = "tss" /\ i < 3 /\ UNCHANGED <<stage, cr3, fb_size, buffer>> /\ i' = i + 1
        /\ stacks' = Append(stacks, f) /\ pmm!RequestPage
    BY <1>14 DEF RequestStack, At, Again, NoTables
  <2>2. f \in Memory /\ Memory' = Memory /\ memory_map' = memory_map
    BY <2>1, Asked
  <2>3. stacks' \in Seq(Memory') /\ Len(stacks') = IF i' < 3 THEN i' ELSE 3
    BY <1>1, <1>2, <2>1, <2>2 DEF StagePart
  <2> QED
    BY <1>1, <1>2, <1>3, <1>4, <2>1, <2>2, <2>3 DEF StagePart
<1>15. CASE MapStack
  <2>1. stage = "tss" /\ i \in 3 .. 5 /\ UNCHANGED <<stage, cr3, fb_size, stacks, buffer, memory_map>> /\ i' = i + 1
    BY <1>15 DEF MapStack, At, Again, JustMaps, pmmVars
  <2>2. Memory' = Memory
    BY <2>1 DEF Memory
  <2> QED
    BY <1>1, <1>2, <1>3, <1>4, <2>1, <2>2 DEF StagePart
<1>16. CASE LoopEnds("tss", 6, "graphics")
  <2>1. stage = "tss" /\ stage' = "graphics" /\ i' = 0 /\ UNCHANGED <<cr3, fb_size, stacks, buffer>>
    BY <1>16 DEF LoopEnds, At, Goto, NoTables
  <2> QED
    BY <1>1, <1>2, <1>3, <1>4, <2>1 DEF StagePart
<1>17. CASE NoBuffer
  <2>1. stage = "graphics" /\ BufferPages <= 1 /\ stage' = "text" /\ i' = 0 /\ UNCHANGED <<cr3, fb_size, stacks, buffer>>
    BY <1>17 DEF NoBuffer, At, Goto, NoTables
  <2> QED
    BY <1>1, <1>2, <1>3, <1>4, <2>1 DEF StagePart
<1>18. CASE FirstBufferPage
  <2> DEFINE f == pmm!RequestedFrame
  <2>1. /\ stage = "graphics" /\ BufferPages > 1 /\ UNCHANGED <<cr3, fb_size, stacks>>
        /\ stage' = "buffer" /\ i' = 1 /\ buffer' = f /\ pmm!RequestPage
    BY <1>18 DEF FirstBufferPage, At, JustMaps
  <2>2. f \in Memory /\ f \in Nat /\ Memory' = Memory /\ f # 0
    BY <1>1, <2>1, Asked, FrameZero DEF PmmPart
  <2> QED
    BY <1>1, <1>2, <1>3, <2>1, <2>2 DEF StagePart
<1>19. CASE NextBufferPage
  <2>1. stage = "buffer" /\ i < BufferPages /\ UNCHANGED <<stage, cr3, fb_size, stacks, buffer>> /\ i' = i + 1
    BY <1>19 DEF NextBufferPage, At, Again, JustMaps
  <2>2. pmm!RequestPage
    BY <1>19 DEF NextBufferPage
  <2>3. Memory' = Memory /\ UNCHANGED memory_map
    BY <2>1, <2>2, Asked
  <2> QED
    BY <1>1, <1>2, <1>3, <1>4, <2>1, <2>3 DEF StagePart
<1>20. CASE LoopEnds("buffer", BufferPages, "text")
  <2>1. stage = "buffer" /\ stage' = "text" /\ i' = 0 /\ UNCHANGED <<cr3, fb_size, stacks, buffer, memory_map>>
    BY <1>20 DEF LoopEnds, At, Goto, NoTables, pmmVars
  <2>2. Memory' = Memory
    BY <2>1 DEF Memory
  <2> QED
    BY <1>1, <1>2, <1>3, <1>4, <2>1, <2>2 DEF StagePart
<1>21. CASE TextBuffer
  <2>1. stage = "text" /\ stage' = "pci" /\ i' = 0 /\ UNCHANGED <<cr3, fb_size, stacks, buffer>>
    BY <1>21 DEF TextBuffer, At, Goto, NoTables
  <2>2. pmm!RequestPage
    BY <1>21 DEF TextBuffer
  <2>3. Memory' = Memory /\ UNCHANGED memory_map
    BY <2>1, <2>2, Asked
  <2> QED
    BY <1>1, <1>2, <1>3, <1>4, <2>1, <2>3 DEF StagePart
<1>22. CASE DonateEntry
  <2>1. stage = "entry" /\ stage' = "stack" /\ i' = 0 /\ UNCHANGED <<cr3, fb_size, stacks, buffer, memory_map>>
    BY <1>22 DEF DonateEntry, At, Goto, pmmVars
  <2>2. Memory' = Memory
    BY <2>1 DEF Memory
  <2> QED
    BY <1>1, <1>2, <1>3, <1>4, <2>1, <2>2 DEF StagePart
<1>23. CASE UserStack
  <2>1. stage = "stack" /\ stage' = "user" /\ i' = 0 /\ UNCHANGED <<cr3, fb_size, stacks, buffer>>
    BY <1>23 DEF UserStack, At, Goto, RequestAndDonate
  <2>2. pmm!RequestPage
    BY <1>23 DEF UserStack, RequestAndDonate
  <2>3. Memory' = Memory /\ UNCHANGED memory_map
    BY <2>1, <2>2, Asked
  <2> QED
    BY <1>1, <1>2, <1>3, <1>4, <2>1, <2>3 DEF StagePart
<1>24. CASE SysAllocatePage
  <2>1. stage = "user" /\ i < MaxUserPages /\ UNCHANGED <<stage, cr3, fb_size, stacks, buffer>> /\ i' = i + 1
    BY <1>24 DEF SysAllocatePage, At, Again, RequestAndDonate
  <2>2. pmm!RequestPage
    BY <1>24 DEF SysAllocatePage, RequestAndDonate
  <2>3. Memory' = Memory /\ UNCHANGED memory_map
    BY <2>1, <2>2, Asked
  <2> QED
    BY <1>1, <1>2, <1>3, <1>4, <2>1, <2>3 DEF StagePart
<1>25. CASE MapStep /\ UNCHANGED bootVars
  <2>1. UNCHANGED <<memory_map, cr3>>
    <3>1. CASE Descend \/ WriteLeaf
      BY <3>1 DEF Descend, WriteLeaf, pmmVars
    <3>2. CASE NewTable
      BY <3>2, NewTableFrame
    <3> QED
      BY <1>25, <3>1, <3>2 DEF MapStep
  <2> QED
    BY <1>1, <1>3, <1>25, <2>1 DEF StagePart, bootVars, Memory
<1> QED
  BY <1>5, <1>6, <1>7, <1>8, <1>9, <1>10, <1>11, <1>12, <1>13, <1>14, <1>15, <1>16, <1>17, <1>18, <1>19, <1>20, <1>21, <1>22, <1>23, <1>24, <1>25 DEF Next

\* The stages that module Boot leads to.
LEMMA NextStages ==
  ASSUME Next
  PROVE  /\ stage' \in {"header", "probe", "ports"} => stage' = stage
         /\ stage \in PciStages \cup UserStages \cup {"entry"} =>
              stage' \in PciStages \cup UserStages \cup {"entry"}
<1> USE DEF PciStages, UserStages, At, Goto, Again
<1>1. CASE ConfigurePmm \/ RootTable \/ LoadCr3 \/ NoBuffer \/ FirstBufferPage \/ TextBuffer
  BY <1>1 DEF ConfigurePmm, RootTable, LoadCr3, NoBuffer, FirstBufferPage, TextBuffer
<1>2. CASE \/ LoopEnds("identity", pmm!TotalPages[memory_map], "framebuffer")
           \/ LoopEnds("framebuffer", FramebufferPages, "cr3") \/ LoopEnds("heap", HeapLoop, "tss")
           \/ LoopEnds("tss", 6, "graphics") \/ LoopEnds("buffer", BufferPages, "text")
  BY <1>2 DEF LoopEnds
<1>3. CASE \/ IdentityMap \/ MapFramebuffer \/ MapHeap \/ RequestStack \/ MapStack \/ NextBufferPage
  BY <1>3 DEF IdentityMap, MapFramebuffer, MapHeap, RequestStack, MapStack, NextBufferPage
<1>4. CASE DonateEntry \/ UserStack \/ SysAllocatePage
  BY <1>4 DEF DonateEntry, UserStack, SysAllocatePage
<1>5. CASE MapStep /\ UNCHANGED bootVars
  BY <1>5 DEF bootVars
<1> QED
  BY <1>1, <1>2, <1>3, <1>4, <1>5 DEF Next

\* The last counter goes on.
LEMMA SiblingFacts ==
  ASSUME NEW w \in Seq(Nat), Len(w) \in Nat \ {0}
  PROVE  /\ Sibling(w) \in Seq(Nat) /\ Len(Sibling(w)) = Len(w)
         /\ \A n \in 1 .. Len(w) - 1 : Sibling(w)[n] = w[n]
         /\ Sibling(w)[Len(w)] = w[Len(w)] + 1
<1> DEFINE s == Front(w)
           x == w[Len(w)] + 1
<1>1. s \in Seq(Nat) /\ Len(s) = Len(w) - 1 /\ \A n \in 1 .. Len(w) - 1 : s[n] = w[n]
  BY Outer
<1>2. x \in Nat
  OBVIOUS
<1>3. Sibling(w) = Append(s, x)
  BY DEF Sibling, Last
<1> HIDE DEF s, x
<1>4. /\ Append(s, x) \in Seq(Nat) /\ Len(Append(s, x)) = Len(s) + 1
      /\ Append(s, x)[Len(s) + 1] = x
      /\ \A n \in 1 .. Len(s) : Append(s, x)[n] = s[n]
  BY <1>1, <1>2, AppendProperties
<1>5. Len(s) + 1 = Len(w)
  BY <1>1
<1> QED
  BY <1>1, <1>3, <1>4, <1>5 DEF x

\* Each step of module Pci leaves stages and counters right.
LEMMA PciStage ==
  ASSUME Basic, Walks
  PROVE  /\ StagePart' /\ stage \in PciStages /\ stage' \in PciStages \cup {"entry"}
         /\ UNCHANGED <<pmmVars, pml_4, cr3, tables, astray, fb_size, stacks, buffer, donated, config>>
<1> USE DEF PciStages
<1>1. /\ UNCHANGED <<pmmVars, pml_4, cr3, tables, astray, fb_size, stacks, buffer, donated, config>>
      /\ (i' = i \/ i' = 0) /\ stage \in PciStages /\ stage' \in PciStages \cup {"entry"}
  <2> USE DEF At, PciAt, Computes, NoTables, NotBoot
  <2>1. CASE FindMcfg \/ NextConfiguration
    BY <2>1 DEF FindMcfg, NextConfiguration
  <2>2. CASE Enumerate
    BY <2>2 DEF Enumerate, JustMaps, pciVars
  <2>3. CASE SkipFunction \/ EnterLoop
    BY <2>3 DEF SkipFunction, EnterLoop, ReadsHeader
  <2>4. CASE InitializeController
    BY <2>4 DEF InitializeController, ReadsHeader, JustMaps
  <2>5. CASE LoopReturns
    BY <2>5 DEF LoopReturns
  <2>6. CASE EnumerationEnds
    BY <2>6 DEF EnumerationEnds, Goto, pciVars
  <2>7. CASE ProbePorts \/ PortsDone
    BY <2>7 DEF ProbePorts, PortsDone, Goto, pciVars
  <2> QED
    BY <2>1, <2>2, <2>3, <2>4, <2>5, <2>6, <2>7 DEF Walks
<1>2. StagePart
  BY DEF Basic
<1>3. FramebufferPages' = FramebufferPages /\ BufferPages' = BufferPages /\ Memory' = Memory
  BY <1>1 DEF FramebufferPages, BufferPages, Memory, pmmVars
<1>4. StagePart'
  BY <1>1, <1>2, <1>3 DEF StagePart, Early, NoCr3, UserStages, Buffered, Stages
<1> QED
  BY <1>1, <1>4

\* A counter is added.
LEMMA Counted ==
  ASSUME NEW w \in Seq(Nat), NEW x \in Nat
  PROVE  /\ Append(w, x) \in Seq(Nat) /\ Len(Append(w, x)) = Len(w) + 1
         /\ Append(w, x)[Len(w) + 1] = x
         /\ \A n \in 1 .. Len(w) : Append(w, x)[n] = w[n]
OBVIOUS

\* A number up to four.
LEMMA UpToFour ==
  ASSUME NEW n \in Nat, n <= 4
  PROVE  n = 0 \/ n = 1 \/ n = 2 \/ n = 3 \/ n = 4
OBVIOUS

\* And the walk within its loops.
LEMMA PciWalk ==
  ASSUME Basic, Walks
  PROVE  WalkPart'
<1> USE DEF PciStages
<1>1. WalkPart
  BY DEF Basic
<1>2. config' = config /\ stage' \in PciStages \cup {"entry"} /\ stage \in PciStages
  BY PciStage
<1>3. /\ walk \in Seq(Nat) /\ Len(walk) \in Nat
      /\ Len(walk) = 0 \/ Len(walk) = 1 \/ Len(walk) = 2 \/ Len(walk) = 3 \/ Len(walk) = 4
  <2>1. walk \in Seq(Nat) /\ Len(walk) <= 4
    BY <1>1 DEF WalkPart
  <2>2. Len(walk) \in Nat
    BY <2>1, LenProperties
  <2>3. Len(walk) = 0 \/ Len(walk) = 1 \/ Len(walk) = 2 \/ Len(walk) = 3 \/ Len(walk) = 4
    BY <2>1, <2>2, UpToFour
  <2> QED
    BY <2>1, <2>2, <2>3
<1>4. Len(Mcfg) \in Nat /\ \A n \in 1 .. Len(Mcfg) : Mcfg[n].start_bus \in Nat
  <2>1. Mcfg \in Seq([base : Nat, start_bus : Nat, end_bus : Nat])
    BY PciAssumption
  <2>2. Len(Mcfg) \in Nat
    BY <2>1, LenProperties
  <2>3. \A n \in 1 .. Len(Mcfg) : Mcfg[n] \in [base : Nat, start_bus : Nat, end_bus : Nat]
    <3> DEFINE R == [base : Nat, start_bus : Nat, end_bus : Nat]
    <3> HIDE DEF R
    <3>1. \A n \in 1 .. Len(Mcfg) : Mcfg[n] \in R
      BY <2>1, ElementOfSeq DEF R
    <3> QED
      BY <3>1 DEF R
  <2> QED
    BY <2>2, <2>3
<1>5. CASE FindMcfg
  <2>1. walk' = <<1>> /\ stage' = "pci"
    BY <1>5 DEF FindMcfg, At, PciAt
  <2>2. walk' \in Seq(Nat) /\ Len(walk') = 1 /\ walk'[1] = 1
    BY <2>1
  <2>3. 1 \in 1 .. Len(Mcfg) + 1
    BY <1>4
  <2> QED
    BY <1>1, <1>2, <2>1, <2>2, <2>3 DEF WalkPart
<1>6. CASE NextConfiguration
  <2>1. /\ Len(walk) = 1 /\ walk[1] <= Len(Mcfg) /\ walk' = Append(walk, Mcfg[walk[1]].start_bus)
        /\ stage' = "pci"
    BY <1>6 DEF NextConfiguration, At, PciAt
  <2>2. walk[1] \in 1 .. Len(Mcfg)
    BY <1>1, <1>4, <2>1 DEF WalkPart
  <2>3. Mcfg[walk[1]].start_bus \in Nat
    BY <1>4, <2>2
  <2>4. /\ walk' \in Seq(Nat) /\ Len(walk') = Len(walk) + 1
        /\ \A n \in 1 .. Len(walk) : walk'[n] = walk[n]
    BY <1>3, <2>1, <2>3, Counted
  <2>5. Len(walk') = 2 /\ 1 \in 1 .. Len(walk)
    BY <2>1, <2>4
  <2>6. walk'[1] = walk[1]
    BY <2>4, <2>5
  <2> QED
    BY <1>1, <1>2, <2>1, <2>2, <2>4, <2>5, <2>6 DEF WalkPart
<1>7. CASE Enumerate
  <2>1. Len(walk) > 1 /\ walk[Len(walk)] < Bound(walk) /\ walk' = walk /\ stage' = "header" /\ stage = "pci"
    BY <1>7 DEF Enumerate, At, PciAt, pciVars, Last
  <2>2. /\ Len(walk) = 2 => Bound(walk) = Mcfg[walk[1]].end_bus
        /\ Len(walk) = 3 => Bound(walk) = Devices
        /\ Len(walk) = 4 => Bound(walk) = Functions
    BY DEF Bound
  <2>3. Len(walk) = 2 \/ Len(walk) = 3 \/ Len(walk) = 4
    BY <1>3, <2>1
  <2>4. /\ Len(walk) = 2 => walk[2] < Mcfg[walk[1]].end_bus
        /\ Len(walk) = 3 => walk[3] < Devices
        /\ Len(walk) = 4 => walk[4] < Functions
    BY <2>1, <2>2
  <2> QED
    BY <1>1, <1>2, <2>1, <2>3, <2>4 DEF WalkPart
<1>8. CASE SkipFunction \/ InitializeController
  <2>1. walk' = Sibling(walk) /\ stage' \in {"pci", "probe"} /\ stage = "header"
    BY <1>8 DEF SkipFunction, InitializeController, ReadsHeader, At, PciAt
  <2>2. (Len(walk) = 2 \/ Len(walk) = 3 \/ Len(walk) = 4) /\ Len(walk) \in Nat \ {0}
    BY <1>1, <1>3, <2>1 DEF WalkPart
  <2>3. walk' \in Seq(Nat) /\ Len(walk') = Len(walk) /\ \A n \in 1 .. Len(walk) - 1 : walk'[n] = walk[n]
    BY <1>3, <2>1, <2>2, SiblingFacts
  <2>4. walk'[1] = walk[1] /\ (Len(walk) > 2 => walk'[2] = walk[2]) /\ (Len(walk) > 3 => walk'[3] = walk[3])
    <3>1. /\ 1 \in 1 .. Len(walk) - 1
          /\ Len(walk) > 2 => 2 \in 1 .. Len(walk) - 1
          /\ Len(walk) > 3 => 3 \in 1 .. Len(walk) - 1
      BY <2>2
    <3> QED
      BY <2>3, <3>1
  <2> QED
    BY <1>1, <1>2, <2>1, <2>2, <2>3, <2>4 DEF WalkPart
<1>9. CASE EnterLoop
  <2>1. walk' = Append(walk, 0) /\ stage' = "pci" /\ stage = "header" /\ Len(walk) < 4
    BY <1>9 DEF EnterLoop, ReadsHeader, At, PciAt
  <2>2. Len(walk) = 2 \/ Len(walk) = 3
    BY <1>1, <1>3, <2>1 DEF WalkPart
  <2>3. walk' \in Seq(Nat) /\ Len(walk') = Len(walk) + 1 /\ \A n \in 1 .. Len(walk) : walk'[n] = walk[n]
    BY <1>3, <2>1, Counted
  <2>4. walk'[1] = walk[1] /\ walk'[2] = walk[2] /\ (Len(walk) = 3 => walk'[3] = walk[3])
    <3>1. 1 \in 1 .. Len(walk) /\ 2 \in 1 .. Len(walk) /\ (Len(walk) = 3 => 3 \in 1 .. Len(walk))
      BY <2>2
    <3> QED
      BY <2>3, <3>1
  <2>5. Len(walk') = 3 \/ (Len(walk) = 3 /\ Len(walk') = 4)
    <3>1. CASE Len(walk) = 2
      BY <2>3, <3>1
    <3>2. CASE Len(walk) = 3
      BY <2>3, <3>2
    <3> QED
      BY <2>2, <3>1, <3>2
  <2> QED
    BY <1>1, <1>2, <2>1, <2>2, <2>3, <2>4, <2>5 DEF WalkPart
<1>10. CASE LoopReturns
  <2> DEFINE w == Front(walk)
  <2>1. walk' = Sibling(w) /\ stage' = "pci" /\ stage = "pci" /\ Len(walk) > 1
    BY <1>10 DEF LoopReturns, At, PciAt
  <2>2. (Len(walk) = 2 \/ Len(walk) = 3 \/ Len(walk) = 4) /\ Len(walk) \in Nat \ {0}
    BY <1>3, <2>1
  <2>3. w \in Seq(Nat) /\ Len(w) = Len(walk) - 1 /\ \A n \in 1 .. Len(walk) - 1 : w[n] = walk[n]
    BY <1>3, <2>2, Outer
  <2>4. Len(w) \in Nat \ {0}
    BY <2>2, <2>3
  <2> HIDE DEF w
  <2>5. /\ walk' \in Seq(Nat) /\ Len(walk') = Len(w) /\ \A n \in 1 .. Len(w) - 1 : walk'[n] = w[n]
        /\ walk'[Len(w)] = w[Len(w)] + 1
    BY <2>1, <2>3, <2>4, SiblingFacts
  <2>6. CASE Len(walk) = 2
    <3>1. Len(w) = 1 /\ Len(walk') = 1 /\ 1 \in 1 .. Len(walk) - 1
      BY <2>3, <2>5, <2>6
    <3>2. walk'[1] = walk[1] + 1
      BY <2>3, <2>5, <3>1
    <3>3. walk[1] + 1 \in 1 .. Len(Mcfg) + 1
      BY <1>1, <1>4, <2>1 DEF WalkPart
    <3> QED
      BY <1>1, <1>2, <2>1, <2>5, <3>1, <3>2, <3>3 DEF WalkPart
  <2>7. CASE Len(walk) = 3
    <3>1. Len(w) = 2 /\ Len(walk') = 2 /\ 1 \in 1 .. Len(walk) - 1 /\ 1 \in 1 .. Len(w) - 1
      BY <2>3, <2>5, <2>7
    <3>2. walk'[1] = walk[1]
      BY <2>3, <2>5, <3>1
    <3>3. walk[1] \in 1 .. Len(Mcfg)
      BY <1>1, <2>1 DEF WalkPart
    <3> QED
      BY <1>1, <1>2, <2>1, <2>5, <3>1, <3>2, <3>3 DEF WalkPart
  <2>8. CASE Len(walk) = 4
    <3>1. /\ Len(w) = 3 /\ Len(walk') = 3 /\ 1 \in 1 .. Len(walk) - 1 /\ 1 \in 1 .. Len(w) - 1
          /\ 2 \in 1 .. Len(walk) - 1 /\ 2 \in 1 .. Len(w) - 1
      BY <2>3, <2>5, <2>8
    <3>2. walk'[1] = walk[1] /\ walk'[2] = walk[2]
      BY <2>3, <2>5, <3>1
    <3>3. walk[1] \in 1 .. Len(Mcfg) /\ walk[2] < Mcfg[walk[1]].end_bus
      BY <1>1, <2>1, <2>8 DEF WalkPart
    <3> QED
      BY <1>1, <1>2, <2>1, <2>5, <3>1, <3>2, <3>3 DEF WalkPart
  <2> QED
    BY <2>2, <2>6, <2>7, <2>8
<1>11. CASE EnumerationEnds
  <2>1. walk' = walk /\ stage' = "entry" /\ stage = "pci" /\ Len(walk) = 1
    BY <1>11 DEF EnumerationEnds, Goto, At, PciAt, pciVars
  <2> QED
    BY <1>1, <1>2, <2>1 DEF WalkPart
<1>12. CASE ProbePorts \/ PortsDone
  <2>1. walk' = walk /\ stage' \in {"ports", "pci"} /\ stage \in {"probe", "ports"}
    BY <1>12 DEF ProbePorts, PortsDone, Goto, At, PciAt, pciVars
  <2> QED
    BY <1>1, <1>2, <2>1 DEF WalkPart
<1> QED
  BY <1>5, <1>6, <1>7, <1>8, <1>9, <1>10, <1>11, <1>12 DEF Walks

\* A request of configure_port: of the boot's state only the bitmap and the counter of
\* the requests change.
LEMMA PortStep ==
  ASSUME Basic, MemoryLasts, ConfigurePorts, NEW f, f = pmm!RequestedFrame
  PROVE  /\ stage = "ports" /\ stage' = "ports" /\ i' = i + 1 /\ calls = <<>>
         /\ UNCHANGED <<pml_4, cr3, tables, calls, astray, fb_size, stacks, buffer, donated>>
         /\ UNCHANGED <<config, walk, usable_ports, found, initialized, memory_map>>
         /\ pmm!RequestPage /\ bitmap' = bitmap \cup {f} /\ held' = held \cup {f} /\ Memory' = Memory
         /\ f \in Memory /\ f + 1 \in Memory /\ f \in Nat /\ f \notin bitmap /\ f \notin DOMAIN tables
         /\ f \notin pmm!BootOwned(memory_map) /\ \A g \in Nat : g < f => g \in bitmap
         /\ PmmPart' /\ StagePart' /\ WalkPart'
<1>1. /\ stage = "ports" /\ stage' = "ports" /\ i' = i + 1 /\ calls = <<>> /\ pmm!RequestPage
      /\ UNCHANGED <<pml_4, cr3, tables, calls, astray, fb_size, stacks, buffer, donated>>
      /\ UNCHANGED <<config, walk, usable_ports, found>>
  BY DEF ConfigurePorts, PciAt, At, Again, NoTables
<1>2. /\ f \in Memory /\ f \in Nat /\ f \notin bitmap /\ f + 1 \in Memory
      /\ \A g \in Nat : g < f => g \in bitmap
      /\ bitmap' = bitmap \cup {f} /\ held' = held \cup {f}
      /\ UNCHANGED <<initialized, memory_map>> /\ Memory' = Memory
      /\ f \notin pmm!BootOwned(memory_map) /\ f \notin DOMAIN tables /\ PmmPart'
  BY <1>1, Asked
<1>3. StagePart /\ WalkPart
  BY DEF Basic
<1>4. StagePart'
  <2>1. FramebufferPages' = FramebufferPages /\ BufferPages' = BufferPages
    BY <1>1 DEF FramebufferPages, BufferPages
  <2> QED
    BY <1>1, <1>2, <1>3, <2>1 DEF StagePart, Early, NoCr3, PciStages, UserStages, Buffered, Stages
<1>5. WalkPart'
  BY <1>1, <1>3 DEF WalkPart, PciStages
<1> QED
  BY <1>1, <1>2, <1>4, <1>5

-----------------------------------------------------------------------------
(* The steps of the boot: calls and tables.                                *)

\* Nothing is wrong with no calls.
LEMMA NoCalls ==
  ASSUME calls' = <<>>
  PROVE  CallPart'
BY DEF CallPart

\* A call of map_memory begins at the root.
LEMMA OneCall ==
  ASSUME Basic, calls = <<>>, stage \notin Early, stage' \notin Early \cup UserStages,
         NEW v \in VirtualPages, NEW p \in Nat, NEW pat \in BOOLEAN, JustMaps(v, p, pat)
  PROVE  CallPart' /\ tables' = tables /\ pml_4' = pml_4
<1> DEFINE c == NewCall(v, p, pat)
<1>1. tables' = tables /\ pml_4' = pml_4 /\ calls' = Append(calls, c)
  BY DEF JustMaps, MapMemory
<1>2. pml_4 \in Nat
  BY DEF Basic, TreePart
<1>3. c \in CallRecords /\ c.level = 0 /\ c.at = pml_4
  BY <1>2, NewCallFields
<1> HIDE DEF c
<1>4. calls' = <<c>>
  BY <1>1
<1>5. OnItsWay(tables', pml_4', c)
  BY <1>1, <1>3 DEF OnItsWay, Reaches, Node
<1>6. calls' \in Seq(CallRecords) /\ \A n \in DOMAIN calls' : calls'[n] = c
  BY <1>3, <1>4
<1> QED
  BY <1>1, <1>5, <1>6 DEF CallPart

\* The tables stay, while more of memory may be taken.
LEMMA TreeStays ==
  ASSUME Basic, UNCHANGED <<tables, pml_4, memory_map>>, bitmap \subseteq bitmap',
         stage \notin Early, stage' \notin Early
  PROVE  TreePart'
<1>1. TreePart /\ Memory' = Memory
  BY DEF Basic, Memory
<1> QED
  BY <1>1 DEF TreePart

\* So does the tree when a page is donated.
LEMMA DonatedTree ==
  ASSUME Basic, stage \notin Early, stage' \notin Early, NEW v, DonateToUserspace(v),
         UNCHANGED <<pml_4, memory_map>>, bitmap \subseteq bitmap'
  PROVE  TreePart' /\ FlagsOnly(tables, tables')
<1>1. TreePart /\ Memory' = Memory /\ Tree(tables, pml_4) /\ Entries \in Nat \ {0}
  BY PagingAssumption DEF Basic, Memory, TreePart
<1>2. FlagsOnly(tables, tables')
  BY <1>1, DonateFlags
<1>3. DOMAIN tables' = DOMAIN tables /\ Typed(tables')
  BY <1>2 DEF FlagsOnly
<1>4. Tree(tables', pml_4)
  BY <1>1, <1>2, <1>3, FlagsSet, TreeKept
<1> QED
  BY <1>1, <1>2, <1>3, <1>4 DEF TreePart

\* The manager's state stays.
LEMMA PmmStays ==
  ASSUME Basic, UNCHANGED <<initialized, memory_map, bitmap>>, stage # "pmm", stage' # "pmm"
  PROVE  PmmPart'
BY DEF Basic, PmmPart

\* A page below one that exists exists.
LEMMA PagesBelow ==
  ASSUME NEW v \in Nat, NEW w \in VirtualPages, v <= w
  PROVE  v \in VirtualPages
<1> DEFINE N == Entries * Entries * Entries * Entries
<1>1. N \in Nat /\ w \in 0 .. N - 1
  BY PagingAssumption DEF VirtualPages
<1> HIDE DEF N
<1>2. v \in 0 .. N - 1
  BY <1>1
<1> QED
  BY <1>2 DEF VirtualPages, N

\* The pages the boot maps exist: those of the framebuffer,
LEMMA FramebufferExists ==
  ASSUME StagePart, i < FramebufferPages
  PROVE  FramebufferPage + i \in VirtualPages
<1> DEFINE v == FramebufferPage + i
           w == FramebufferPage + FramebufferPages
<1>1. FramebufferPages \in Nat /\ fb_size \in FramebufferSizes /\ i \in Nat
  BY PageCounts DEF StagePart
<1>2. w \in VirtualPages /\ FramebufferPage \in Nat
  BY <1>1, BootAssumption DEF FramebufferPages
<1>3. v \in Nat /\ v <= w
  BY <1>1, <1>2
<1> HIDE DEF v, w
<1>4. v \in VirtualPages
  BY <1>2, <1>3, PagesBelow
<1> QED
  BY <1>4 DEF v

\* the interrupt stacks,
LEMMA StackExists ==
  ASSUME PmmPart, StagePart, stage = "tss", i \in 3 .. 5
  PROVE  stacks[i - 2] \in VirtualPages
<1>1. stacks \in Seq(Memory) /\ Len(stacks) = 3
  BY DEF StagePart
<1>2. stacks[i - 2] \in Memory
  BY <1>1
<1> QED
  BY <1>2, MemoryIsMappable

\* and the addresses that request_pages runs through.
LEMMA BufferExists ==
  ASSUME PmmPart, StagePart, stage = "buffer", i < BufferPages
  PROVE  buffer + i \in VirtualPages
<1> DEFINE v == buffer + i
           w == pmm!TotalPages[memory_map] + (fb_size \div PageSize) + 1
<1>1. fb_size \in FramebufferSizes /\ i \in Nat /\ BufferPages \in Nat
  BY PageCounts DEF StagePart
<1>2. buffer \in Memory /\ memory_map \in MemoryMaps
  BY DEF StagePart, PmmPart
<1>3. buffer \in 0 .. pmm!TotalPages[memory_map] - 1 /\ pmm!TotalPages[memory_map] \in Nat
  BY <1>2, MapFacts DEF Memory
<1>4. w \in VirtualPages
  BY <1>1, <1>2, BootAssumption
<1>5. w = pmm!TotalPages[memory_map] + BufferPages
  BY <1>3, PageCounts DEF BufferPages
<1>6. v \in Nat /\ v <= w
  BY <1>1, <1>3, <1>5
<1> HIDE DEF v, w
<1>7. v \in VirtualPages
  BY <1>4, <1>6, PagesBelow
<1> QED
  BY <1>7 DEF v

\* A root table alone is a tree.
LEMMA RootAlone ==
  ASSUME NEW f \in Nat, NEW t, t = [g \in {f} |-> EmptyTable]
  PROVE  Tree(t, f)
<1>1. EmptyTable \in [Places -> EntryRecords] /\ \A e \in Places : EmptyTable[e] = Absent
  BY DEF EmptyTable, Absent, EntryRecords, Places
<1>2. \A g, e : e \in Places => Ent(t, g, e) = Absent
  BY <1>1 DEF Ent
<1>3. \A S, g : g \notin Under(t, S)
  BY <1>2, UnderMember DEF Absent
<1>4. Level(t, f, 0) = {f} /\ \A k \in 0 .. 2 : Level(t, f, k + 1) = {}
  BY <1>3, NextLevel
<1>5. Level(t, f, 1) = {} /\ Level(t, f, 2) = {} /\ Level(t, f, 3) = {}
  <2>1. 0 + 1 = 1 /\ 1 + 1 = 2 /\ 2 + 1 = 3 /\ 0 \in 0 .. 2 /\ 1 \in 0 .. 2 /\ 2 \in 0 .. 2
    OBVIOUS
  <2> QED
    BY <1>4, <2>1
<1>6. Typed(t) /\ DOMAIN t = {f}
  BY <1>1 DEF Typed
<1>7. Covered(t, f) /\ Apart(t, f)
  BY <1>4, <1>5, <1>6 DEF Covered, Apart, Levels
<1>8. OneParent(t, f)
  BY <1>2 DEF OneParent, Absent
<1> QED
  BY <1>6, <1>7, <1>8 DEF Tree

\* The parts of the invariant that say what is in memory.
Held == PmmPart /\ CallPart /\ TreePart

\* pmm::initialize.
LEMMA ConfigurePmmHeld ==
  ASSUME Basic, ConfigurePmm
  PROVE  Held'
<1>1. PICK mm \in MemoryMaps : pmm!Initialize(mm)
  BY DEF ConfigurePmm
<1>2. stage = "pmm" /\ stage' = "root" /\ calls' = <<>> /\ UNCHANGED <<pml_4, tables>>
  BY DEF ConfigurePmm, At, Goto, NoTables
<1>3. initialized' = TRUE /\ memory_map' = mm /\ bitmap' = pmm!BootOwned(mm)
  BY <1>1 DEF pmm!Initialize
<1>4. PmmPart'
  BY <1>2, <1>3, MapFacts DEF PmmPart
<1>5. TreePart'
  BY <1>2 DEF Basic, TreePart, Early
<1> QED
  BY <1>2, <1>4, <1>5, NoCalls DEF Held

\* The root table.
LEMMA RootTableHeld ==
  ASSUME Basic, MemoryLasts, RootTable
  PROVE  Held'
<1> DEFINE f == pmm!RequestedFrame
           c == [NewCall(f, f, FALSE) EXCEPT !.at = f]
<1>1. /\ stage = "root" /\ pmm!RequestPage /\ pml_4' = f /\ tables' = [g \in {f} |-> EmptyTable]
      /\ calls' = <<c>> /\ stage' = "identity"
  BY DEF RootTable, At, Goto
<1>2. /\ f \in Memory /\ f \in Nat /\ f \in VirtualPages /\ f \notin bitmap
      /\ bitmap' = bitmap \cup {f} /\ UNCHANGED memory_map /\ Memory' = Memory
      /\ f \notin pmm!BootOwned(memory_map) /\ PmmPart'
  BY <1>1, Asked
<1>3. TreePart'
  <2>1. Tree(tables', f) /\ DOMAIN tables' = {f}
    BY <1>1, <1>2, RootAlone
  <2> QED
    BY <1>1, <1>2, <2>1 DEF TreePart, Early
<1>4. c \in CallRecords /\ c.level = 0 /\ c.at = f
  <2> DEFINE d == NewCall(f, f, FALSE)
  <2>1. pml_4 \in Nat
    BY DEF Basic, TreePart
  <2>2. d \in CallRecords /\ d.level = 0
    BY <1>2, <2>1, NewCallFields
  <2>3. c = [d EXCEPT !.at = f]
    OBVIOUS
  <2> HIDE DEF c, d
  <2> QED
    BY <1>2, <2>2, <2>3 DEF CallRecords
<1> HIDE DEF c
<1>5. OnItsWay(tables', pml_4', c)
  BY <1>1, <1>4 DEF OnItsWay, Reaches, Node
<1>6. calls' \in Seq(CallRecords) /\ \A n \in DOMAIN calls' : calls'[n] = c
  BY <1>1, <1>4
<1>7. CallPart'
  BY <1>1, <1>5, <1>6 DEF CallPart, Early, UserStages
<1> QED
  BY <1>2, <1>3, <1>7 DEF Held

\* A step that only calls map_memory, for a page of its own or one it requests.
LEMMA JustMapsHeld ==
  ASSUME Basic, MemoryLasts, calls = <<>>, stage \notin Early \cup UserStages,
         stage' \notin Early \cup UserStages,
         NEW v \in VirtualPages, NEW p \in Nat, NEW pat \in BOOLEAN, JustMaps(v, p, pat),
         UNCHANGED pmmVars \/ pmm!RequestPage
  PROVE  Held'
<1>1. CallPart' /\ tables' = tables /\ pml_4' = pml_4
  BY OneCall
<1>2. stage # "pmm" /\ stage' # "pmm" /\ stage # "user"
  BY DEF Early, UserStages
<1>3. PmmPart' /\ UNCHANGED memory_map /\ bitmap \subseteq bitmap'
  <2>1. CASE UNCHANGED pmmVars
    BY <1>2, <2>1, PmmStays DEF pmmVars
  <2>2. CASE pmm!RequestPage
    BY <1>2, <2>2, Asked
  <2> QED
    BY <2>1, <2>2
<1>4. TreePart'
  BY <1>1, <1>3, TreeStays
<1> QED
  BY <1>1, <1>3, <1>4 DEF Held

\* A step that leaves the tables alone.
LEMMA NoTablesHeld ==
  ASSUME Basic, MemoryLasts, calls = <<>>, NoTables, stage \notin Early, stage' \notin Early,
         UNCHANGED pmmVars \/ (stage # "user" /\ pmm!RequestPage)
  PROVE  Held'
<1>1. calls' = <<>> /\ tables' = tables /\ pml_4' = pml_4
  BY DEF NoTables
<1>2. stage # "pmm" /\ stage' # "pmm"
  BY DEF Early
<1>3. PmmPart' /\ UNCHANGED memory_map /\ bitmap \subseteq bitmap'
  <2>1. CASE UNCHANGED pmmVars
    BY <1>2, <2>1, PmmStays DEF pmmVars
  <2>2. CASE stage # "user" /\ pmm!RequestPage
    BY <1>2, <2>2, Asked
  <2> QED
    BY <2>1, <2>2
<1>4. TreePart'
  BY <1>1, <1>3, TreeStays
<1> QED
  BY <1>1, <1>3, <1>4, NoCalls DEF Held

\* A page is donated.
LEMMA DonatesHeld ==
  ASSUME Basic, MemoryLasts, calls = <<>>, calls' = <<>>, pml_4' = pml_4,
         stage \notin Early, stage' \notin Early, NEW v, DonateToUserspace(v),
         UNCHANGED pmmVars \/ (pmm!RequestPage /\ (stage = "user" => i < MaxUserPages))
  PROVE  Held'
<1>1. stage # "pmm" /\ stage' # "pmm"
  BY DEF Early
<1>2. PmmPart' /\ UNCHANGED memory_map /\ bitmap \subseteq bitmap'
  <2>1. CASE UNCHANGED pmmVars
    BY <1>1, <2>1, PmmStays DEF pmmVars
  <2>2. CASE pmm!RequestPage /\ (stage = "user" => i < MaxUserPages)
    BY <1>1, <2>2, Asked
  <2> QED
    BY <2>1, <2>2
<1>3. TreePart'
  BY <1>2, DonatedTree
<1> QED
  BY <1>2, <1>3, NoCalls DEF Held

\* Each step of module Boot but those of map_memory.
LEMMA NextHeld ==
  ASSUME Basic, MemoryLasts, Next, ~(MapStep /\ UNCHANGED bootVars)
  PROVE  Held'
<1>1. StagePart /\ PmmPart /\ calls \in Seq(CallRecords)
  BY DEF Basic, CallPart
<1>2. FramebufferPages \in Nat /\ BufferPages \in Nat \ {0} /\ fb_size \in FramebufferSizes /\ i \in Nat
  BY <1>1, PageCounts DEF StagePart
<1>3. CASE ConfigurePmm
  BY <1>3, ConfigurePmmHeld
<1>4. CASE RootTable
  BY <1>4, RootTableHeld
<1>5. CASE IdentityMap
  <2>1. /\ stage = "identity" /\ stage' = "identity" /\ i < pmm!TotalPages[memory_map]
        /\ JustMaps(i, i, FALSE) /\ UNCHANGED pmmVars /\ calls = <<>>
    BY <1>5 DEF IdentityMap, At, Again
  <2>2. i \in VirtualPages
    BY <1>1, <1>2, <2>1, MemoryIsMappable
  <2> QED
    BY <1>2, <2>1, <2>2, JustMapsHeld DEF Early, UserStages
<1>6. CASE MapFramebuffer
  <2> DEFINE v == FramebufferPage + i
  <2>1. /\ stage = "framebuffer" /\ stage' = "framebuffer" /\ i < FramebufferPages
        /\ JustMaps(v, v, TRUE) /\ UNCHANGED pmmVars /\ calls = <<>>
    BY <1>6 DEF MapFramebuffer, At, Again
  <2>2. v \in VirtualPages /\ v \in Nat
    BY <1>1, <2>1, FramebufferExists DEF VirtualPages
  <2> HIDE DEF v
  <2> QED
    BY <2>1, <2>2, JustMapsHeld DEF Early, UserStages
<1>7. CASE MapHeap
  <2> DEFINE f == pmm!RequestedFrame
  <2>1. /\ stage = "heap" /\ stage' = "heap" /\ pmm!RequestPage
        /\ JustMaps(HeapPage, f, FALSE) /\ calls = <<>>
    BY <1>7 DEF MapHeap, At, Again
  <2>2. f \in Nat
    BY <2>1, Asked
  <2>3. HeapPage \in VirtualPages
    BY BootAssumption
  <2> QED
    BY <2>1, <2>2, <2>3, JustMapsHeld DEF Early, UserStages
<1>8. CASE MapStack
  <2> DEFINE v == stacks[i - 2]
  <2>1. /\ stage = "tss" /\ stage' = "tss" /\ i \in 3 .. 5 /\ JustMaps(v, v, FALSE)
        /\ UNCHANGED pmmVars /\ calls = <<>>
    BY <1>8 DEF MapStack, At, Again
  <2>2. v \in VirtualPages /\ v \in Nat
    BY <1>1, <2>1, StackExists DEF VirtualPages
  <2> HIDE DEF v
  <2> QED
    BY <2>1, <2>2, JustMapsHeld DEF Early, UserStages
<1>9. CASE FirstBufferPage
  <2> DEFINE f == pmm!RequestedFrame
  <2>1. /\ stage = "graphics" /\ stage' = "buffer" /\ pmm!RequestPage
        /\ JustMaps(f, f, FALSE) /\ calls = <<>>
    BY <1>9 DEF FirstBufferPage, At
  <2>2. f \in Nat /\ f \in VirtualPages
    BY <2>1, Asked
  <2> QED
    BY <2>1, <2>2, JustMapsHeld DEF Early, UserStages
<1>10. CASE NextBufferPage
  <2> DEFINE f == pmm!RequestedFrame
             v == buffer + i
  <2>1. /\ stage = "buffer" /\ stage' = "buffer" /\ pmm!RequestPage /\ i < BufferPages
        /\ JustMaps(v, f, FALSE) /\ calls = <<>>
    BY <1>10 DEF NextBufferPage, At, Again
  <2>2. f \in Nat /\ v \in VirtualPages
    BY <1>1, <2>1, Asked, BufferExists
  <2> HIDE DEF f, v
  <2>3. JustMaps(v, f, FALSE) /\ pmm!RequestPage /\ stage = "buffer" /\ stage' = "buffer" /\ calls = <<>>
    BY <2>1
  <2> QED
    BY <2>2, <2>3, JustMapsHeld DEF Early, UserStages
<1>11. CASE \/ LoopEnds("identity", pmm!TotalPages[memory_map], "framebuffer")
            \/ LoopEnds("framebuffer", FramebufferPages, "cr3")
            \/ LoopEnds("heap", HeapLoop, "tss")
            \/ LoopEnds("tss", 6, "graphics") \/ LoopEnds("buffer", BufferPages, "text")
  <2>1. /\ NoTables /\ UNCHANGED pmmVars /\ calls = <<>>
        /\ stage \notin Early /\ stage' \notin Early
    BY <1>11 DEF LoopEnds, At, Goto, Early
  <2> QED
    BY <2>1, NoTablesHeld
<1>12. CASE NoBuffer
  <2>1. /\ NoTables /\ UNCHANGED pmmVars /\ calls = <<>>
        /\ stage \notin Early /\ stage' \notin Early
    BY <1>12 DEF NoBuffer, At, Goto, Early
  <2> QED
    BY <2>1, NoTablesHeld
<1>13. CASE RequestStack \/ TextBuffer
  <2>1. /\ NoTables /\ pmm!RequestPage /\ calls = <<>> /\ stage # "user"
        /\ stage \notin Early /\ stage' \notin Early
    BY <1>13 DEF RequestStack, TextBuffer, At, Goto, Again, Early
  <2> QED
    BY <2>1, NoTablesHeld
<1>14. CASE LoadCr3
  <2>1. /\ UNCHANGED <<pmmVars, pml_4, tables, calls>> /\ calls = <<>> /\ stage = "cr3" /\ stage' = "heap"
    BY <1>14 DEF LoadCr3, At, Goto
  <2>2. TreePart' /\ PmmPart'
    BY <2>1, TreeStays, PmmStays DEF pmmVars, Early
  <2> QED
    BY <2>1, <2>2, NoCalls DEF Held
<1>15. CASE DonateEntry
  <2>1. /\ calls = <<>> /\ calls' = <<>> /\ pml_4' = pml_4 /\ UNCHANGED pmmVars
        /\ stage = "entry" /\ stage' = "stack" /\ DonateToUserspace(UserEntry)
    BY <1>15 DEF DonateEntry, At, Goto
  <2> QED
    BY <2>1, DonatesHeld DEF Early
<1>16. CASE UserStack \/ SysAllocatePage
  <2>1. /\ calls = <<>> /\ calls' = <<>> /\ pml_4' = pml_4 /\ pmm!RequestPage
        /\ stage \notin Early /\ stage' \notin Early /\ (stage = "user" => i < MaxUserPages)
        /\ DonateToUserspace(pmm!RequestedFrame)
    BY <1>16 DEF UserStack, SysAllocatePage, RequestAndDonate, At, Goto, Again, Early
  <2> QED
    BY <2>1, DonatesHeld
<1> QED
  BY <1>3, <1>4, <1>5, <1>6, <1>7, <1>8, <1>9, <1>10, <1>11, <1>12, <1>13, <1>14, <1>15, <1>16 DEF Next

-----------------------------------------------------------------------------
(* The steps of the enumeration: calls and tables.                         *)

\* A product of naturals.
LEMMA Product ==
  ASSUME NEW a \in Nat, NEW b \in Nat
  PROVE  a * b \in Nat
OBVIOUS

\* A digit below q on top of a number below b stays below b * q.
LEMMA Digit ==
  ASSUME NEW a \in Nat, NEW b \in Nat, NEW q \in Nat, NEW r \in Nat, a < b, r < q
  PROVE  (a * q) + r < b * q
<1>1. (a + 1) * q <= b * q
  <2>1. PICK d \in Nat : b = a + 1 + d
    <3>1. b - (a + 1) \in Nat /\ b = a + 1 + (b - (a + 1))
      OBVIOUS
    <3> QED
      BY <3>1
  <2>2. b * q = ((a + 1) * q) + (d * q) /\ d * q \in Nat
    BY <2>1
  <2>3. (a + 1) * q \in Nat
    OBVIOUS
  <2> QED
    BY <2>2, <2>3
<1>2. (a + 1) * q = (a * q) + q /\ a * q \in Nat /\ b * q \in Nat
  OBVIOUS
<1> QED
  BY <1>1, <1>2

\* A sequence of zeros.
LEMMA Zeros ==
  ASSUME NEW n \in Nat
  PROVE  LET z == [k \in 1 .. n |-> 0]
         IN  z \in Seq(Nat) /\ Len(z) = n /\ \A k \in 1 .. n : z[k] = 0
<1> DEFINE z == [k \in 1 .. n |-> 0]
<1>1. z \in [1 .. n -> Nat] /\ DOMAIN z = 1 .. n /\ \A k \in 1 .. n : z[k] = 0
  OBVIOUS
<1> HIDE DEF z
<1>2. z \in Seq(Nat)
  BY <1>1, SeqDef
<1>3. Len(z) = n
  BY <1>1, <1>2, LenProperties
<1> QED
  BY <1>1, <1>2, <1>3 DEF z

\* The numbers of the first function.
LEMMA FirstFunctionFields ==
  ASSUME NEW w \in Seq(Nat), Len(w) = 2 \/ Len(w) = 3 \/ Len(w) = 4
  PROVE  LET f == FirstFunction(w)
         IN  /\ f[1] = w[1] /\ f[2] = w[2]
             /\ f[3] = IF Len(w) = 2 THEN 0 ELSE w[3]
             /\ f[4] = IF Len(w) = 4 THEN w[4] ELSE 0
<1> DEFINE z == [k \in 1 .. 4 - Len(w) |-> 0]
<1>1. Len(w) \in Nat /\ 4 - Len(w) \in Nat
  <2>1. Len(w) \in Nat
    BY LenProperties
  <2>2. CASE Len(w) = 2
    BY <2>1, <2>2
  <2>3. CASE Len(w) = 3
    BY <2>1, <2>3
  <2>4. CASE Len(w) = 4
    BY <2>1, <2>4
  <2> QED
    BY <2>1, <2>2, <2>3, <2>4
<1>2. z \in Seq(Nat) /\ Len(z) = 4 - Len(w) /\ \A k \in 1 .. 4 - Len(w) : z[k] = 0
  BY <1>1, Zeros
<1> HIDE DEF z
<1>3. /\ \A k \in 1 .. Len(w) : (w \o z)[k] = w[k]
      /\ \A k \in 1 .. Len(z) : (w \o z)[Len(w) + k] = z[k]
  <2>1. \A k \in 1 .. Len(w) + Len(z) : (w \o z)[k] = IF k <= Len(w) THEN w[k] ELSE z[k - Len(w)]
    BY <1>2, ConcatProperties
  <2>2. \A k \in 1 .. Len(w) : k \in 1 .. Len(w) + Len(z) /\ k <= Len(w)
    BY <1>1, <1>2
  <2>3. \A k \in 1 .. Len(z) : /\ Len(w) + k \in 1 .. Len(w) + Len(z)
                               /\ ~(Len(w) + k <= Len(w)) /\ (Len(w) + k) - Len(w) = k
    BY <1>1, <1>2
  <2> QED
    BY <2>1, <2>2, <2>3
<1>4. FirstFunction(w) = w \o z
  BY DEF FirstFunction, z
<1>5. CASE Len(w) = 2
  <2>1. (w \o z)[1] = w[1] /\ (w \o z)[2] = w[2]
    <3>1. 1 \in 1 .. Len(w) /\ 2 \in 1 .. Len(w)
      BY <1>5
    <3> QED
      BY <1>3, <3>1
  <2>2. Len(z) = 2
    <3>1. 4 - Len(w) = 2
      BY <1>5
    <3> QED
      BY <1>2, <3>1
  <2>3. (w \o z)[3] = z[1] /\ (w \o z)[4] = z[2]
    <3>1. Len(w) + 1 = 3 /\ Len(w) + 2 = 4 /\ 1 \in 1 .. Len(z) /\ 2 \in 1 .. Len(z)
      BY <1>5, <2>2
    <3> QED
      BY <1>3, <3>1
  <2>4. z[1] = 0 /\ z[2] = 0
    <3>1. 1 \in 1 .. 4 - Len(w) /\ 2 \in 1 .. 4 - Len(w)
      BY <1>5
    <3> QED
      BY <1>2, <3>1
  <2> QED
    BY <1>4, <1>5, <2>1, <2>3, <2>4
<1>6. CASE Len(w) = 3
  <2>1. (w \o z)[1] = w[1] /\ (w \o z)[2] = w[2] /\ (w \o z)[3] = w[3]
    <3>1. 1 \in 1 .. Len(w) /\ 2 \in 1 .. Len(w) /\ 3 \in 1 .. Len(w)
      BY <1>6
    <3> QED
      BY <1>3, <3>1
  <2>2. Len(z) = 1
    <3>1. 4 - Len(w) = 1
      BY <1>6
    <3> QED
      BY <1>2, <3>1
  <2>3. (w \o z)[4] = z[1]
    <3>1. Len(w) + 1 = 4 /\ 1 \in 1 .. Len(z)
      BY <1>6, <2>2
    <3> QED
      BY <1>3, <3>1
  <2>4. z[1] = 0
    <3>1. 1 \in 1 .. 4 - Len(w)
      BY <1>6
    <3> QED
      BY <1>2, <3>1
  <2> QED
    BY <1>4, <1>6, <2>1, <2>3, <2>4
<1>7. CASE Len(w) = 4
  <2>1. (w \o z)[1] = w[1] /\ (w \o z)[2] = w[2] /\ (w \o z)[3] = w[3] /\ (w \o z)[4] = w[4]
    <3>1. 1 \in 1 .. Len(w) /\ 2 \in 1 .. Len(w) /\ 3 \in 1 .. Len(w) /\ 4 \in 1 .. Len(w)
      BY <1>7
    <3> QED
      BY <1>3, <3>1
  <2> QED
    BY <1>4, <1>7, <2>1
<1> QED
  BY <1>5, <1>6, <1>7

\* A function within the loops is at an address that exists.
LEMMA AddressExists ==
  ASSUME NEW w \in Seq(Nat), Len(w) = 2 \/ Len(w) = 3 \/ Len(w) = 4,
         w[1] \in 1 .. Len(Mcfg), w[2] < Mcfg[w[1]].end_bus,
         Len(w) # 2 => w[3] < Devices, Len(w) = 4 => w[4] < Functions
  PROVE  Address(w) \in VirtualPages
<1> DEFINE m == Mcfg[w[1]]
           e == m.end_bus
           d == IF Len(w) = 2 THEN 0 ELSE w[3]
           g == IF Len(w) = 4 THEN w[4] ELSE 0
           at == (w[2] * Devices) + d
           last == (e * Devices) * Functions
<1>1. /\ Devices \in Nat /\ Functions \in Nat
      /\ w[1] \in DOMAIN Mcfg /\ m \in [base : Nat, start_bus : Nat, end_bus : Nat]
      /\ m.base + (e * Devices * Functions) \in VirtualPages
  <2> DEFINE R == [base : Nat, start_bus : Nat, end_bus : Nat]
  <2>1. Mcfg \in Seq(R)
    BY PciAssumption
  <2> HIDE DEF R
  <2>2. m \in R /\ DOMAIN Mcfg = 1 .. Len(Mcfg)
    BY <2>1, ElementOfSeq, LenProperties
  <2> QED
    BY <2>2, PciAssumption DEF R
<1>2. e \in Nat /\ m.base \in Nat
  BY <1>1
<1>3. w[2] \in Nat /\ d \in Nat /\ g \in Nat
  <2>1. 2 \in 1 .. Len(w) /\ (Len(w) # 2 => 3 \in 1 .. Len(w)) /\ (Len(w) = 4 => 4 \in 1 .. Len(w))
    <3>1. CASE Len(w) = 2
      BY <3>1
    <3>2. CASE Len(w) = 3
      BY <3>2
    <3>3. CASE Len(w) = 4
      BY <3>3
    <3> QED
      BY <3>1, <3>2, <3>3
  <2>2. \A k \in 1 .. Len(w) : w[k] \in Nat
    BY ElementOfSeq
  <2> QED
    BY <2>1, <2>2
<1>4. Address(w) = m.base + (at * Functions) + g
  <2> DEFINE f == FirstFunction(w)
  <2>1. f[1] = w[1] /\ f[2] = w[2] /\ f[3] = d /\ f[4] = g
    BY FirstFunctionFields
  <2>2. Address(w) = Mcfg[f[1]].base + ((f[2] * Devices) + f[3]) * Functions + f[4]
    BY DEF Address
  <2> QED
    BY <2>1, <2>2
<1>5. w[2] < e
  OBVIOUS
<1>6. (Len(w) # 2 => d < Devices) /\ (Len(w) = 2 => d = 0)
      /\ (Len(w) = 4 => g < Functions) /\ (Len(w) # 4 => g = 0)
  OBVIOUS
<1> HIDE DEF m, e, d, g
<1>7. at \in Nat /\ at <= e * Devices /\ (Len(w) # 2 => at < e * Devices)
  <2>1. w[2] * Devices \in Nat /\ e * Devices \in Nat
    BY <1>1, <1>2, <1>3, Product
  <2>2. CASE Len(w) = 2
    <3>1. at = w[2] * Devices
      BY <1>6, <2>1, <2>2
    <3>2. CASE Devices = 0
      BY <1>2, <1>3, <3>1, <3>2, <2>2
    <3>3. CASE Devices # 0
      <4>1. (w[2] * Devices) + 0 < e * Devices
        BY <1>1, <1>2, <1>3, <1>5, <3>3, Digit
      <4> QED
        BY <2>1, <2>2, <3>1, <4>1
    <3> QED
      BY <3>2, <3>3
  <2>3. CASE Len(w) # 2
    <3>1. at < e * Devices
      BY <1>1, <1>2, <1>3, <1>5, <1>6, <2>3, Digit
    <3> QED
      BY <1>3, <2>1, <2>3, <3>1
  <2> QED
    BY <2>2, <2>3
<1>8. e * Devices \in Nat
  BY <1>1, <1>2
<1> HIDE DEF at
<1>9. last \in Nat /\ at * Functions \in Nat /\ last = e * Devices * Functions
  BY <1>1, <1>7, <1>8, Product
<1>10. (at * Functions) + g <= last
  <2>1. CASE Len(w) = 4
    <3>1. at < e * Devices /\ g < Functions
      BY <1>6, <1>7, <2>1
    <3> DEFINE b == e * Devices
    <3>2. b \in Nat /\ at < b
      BY <1>8, <3>1
    <3> HIDE DEF b
    <3>3. (at * Functions) + g < b * Functions
      BY <1>1, <1>3, <1>7, <3>1, <3>2, Digit
    <3> QED
      BY <1>3, <1>9, <3>3 DEF b
  <2>2. CASE Len(w) # 4
    <3> DEFINE b == e * Devices
    <3>1. b \in Nat /\ at \in Nat /\ at <= b /\ Functions \in Nat /\ g = 0
      BY <1>1, <1>6, <1>7, <1>8, <2>2
    <3> HIDE DEF b
    <3>2. PICK n \in Nat : b = at + n
      <4>1. b - at \in Nat /\ b = at + (b - at)
        BY <3>1
      <4> QED
        BY <4>1
    <3>3. b * Functions = (at * Functions) + (n * Functions) /\ n * Functions \in Nat
      BY <3>1, <3>2
    <3> QED
      BY <1>9, <3>1, <3>3 DEF b
  <2> QED
    BY <2>1, <2>2
<1>11. m.base + last \in VirtualPages
  BY <1>1, <1>9
<1> HIDE DEF last
<1>12. Address(w) \in Nat /\ Address(w) <= m.base + last
  <2> DEFINE x == at * Functions
             y == m.base
  <2>1. x \in Nat /\ y \in Nat /\ g \in Nat /\ last \in Nat /\ x + g <= last /\ Address(w) = y + x + g
    BY <1>2, <1>3, <1>4, <1>9, <1>10
  <2> HIDE DEF x, y
  <2>2. Address(w) \in Nat /\ Address(w) <= y + last
    BY <2>1
  <2> QED
    BY <2>2 DEF y
<1> QED
  BY <1>11, <1>12, PagesBelow

\* So is the function whose header is read or about to be mapped.
LEMMA WalkAddress ==
  ASSUME Basic, stage = "header" \/ (stage = "pci" /\ Len(walk) > 1 /\ Last(walk) < Bound(walk))
  PROVE  Address(walk) \in VirtualPages
<1>1. WalkPart
  BY DEF Basic
<1>2. walk \in Seq(Nat) /\ Len(walk) \in Nat /\ Len(walk) <= 4 /\ Len(walk) > 1
  <2>1. walk \in Seq(Nat)
    BY <1>1 DEF WalkPart
  <2>2. Len(walk) \in Nat
    BY <2>1, LenProperties
  <2> QED
    BY <1>1, <2>1, <2>2 DEF WalkPart
<1>3. Len(walk) = 2 \/ Len(walk) = 3 \/ Len(walk) = 4
  <2> DEFINE n == Len(walk)
  <2>1. n \in Nat /\ n <= 4 /\ n > 1
    BY <1>2
  <2> HIDE DEF n
  <2>2. n = 2 \/ n = 3 \/ n = 4
    BY <2>1
  <2> QED
    BY <2>2 DEF n
<1>4. /\ Len(walk) = 2 => Bound(walk) = Mcfg[walk[1]].end_bus
      /\ Len(walk) = 3 => Bound(walk) = Devices
      /\ Len(walk) = 4 => Bound(walk) = Functions
  <2>1. CASE Len(walk) = 2
    BY <2>1 DEF Bound
  <2>2. CASE Len(walk) = 3
    BY <2>2 DEF Bound
  <2>3. CASE Len(walk) = 4
    BY <2>3 DEF Bound
  <2> QED
    BY <1>3, <2>1, <2>2, <2>3
<1>5. walk[1] \in 1 .. Len(Mcfg)
  BY <1>1, <1>2 DEF WalkPart
<1>6. CASE Len(walk) = 2
  BY <1>1, <1>2, <1>4, <1>5, <1>6, AddressExists DEF WalkPart, Last
<1>7. CASE Len(walk) = 3
  BY <1>1, <1>2, <1>4, <1>5, <1>7, AddressExists DEF WalkPart, Last
<1>8. CASE Len(walk) = 4
  BY <1>1, <1>2, <1>4, <1>5, <1>8, AddressExists DEF WalkPart, Last
<1> QED
  BY <1>3, <1>6, <1>7, <1>8

\* The registers of a controller are at an address that exists.
LEMMA ControllerExists ==
  ASSUME Basic, IsAhci(walk)
  PROVE  Header(walk).abar \in VirtualPages
<1>1. AllOnes.class # <<1, 6, 1>>
  BY DEF AllOnes
<1>2. /\ FirstFunction(walk) \in DOMAIN config
      /\ Header(walk).abar = config[FirstFunction(walk)].abar
  BY <1>1 DEF IsAhci, Header
<1>3. config \in ConfigSpaces
  BY DEF Basic, WalkPart
<1> QED
  BY <1>2, <1>3, PciAssumption

\* Each step of module Pci.
LEMMA PciHeld ==
  ASSUME Basic, MemoryLasts, Walks
  PROVE  Held'
<1>1. /\ stage \in PciStages /\ stage' \in PciStages \cup {"entry"} /\ UNCHANGED pmmVars
      /\ stage \notin Early \cup UserStages /\ stage' \notin Early \cup UserStages
  BY PciStage DEF PciStages, Early, UserStages
<1>2. CASE Enumerate
  <2>1. /\ At("pci") /\ Len(walk) > 1 /\ Last(walk) < Bound(walk)
        /\ JustMaps(Address(walk), Address(walk), FALSE)
    BY <1>2 DEF Enumerate, PciAt
  <2>2. Address(walk) \in VirtualPages
    BY <2>1, WalkAddress DEF At
  <2>3. Address(walk) \in Nat
    BY <2>2 DEF VirtualPages
  <2> QED
    BY <1>1, <2>1, <2>2, <2>3, JustMapsHeld DEF At
<1>3. CASE InitializeController
  <2> DEFINE page == Header(walk).abar
  <2>1. calls = <<>> /\ JustMaps(page, page, FALSE) /\ IsAhci(walk)
    BY <1>3 DEF InitializeController, ReadsHeader, At, PciAt
  <2>2. page \in VirtualPages
    BY <2>1, ControllerExists
  <2> HIDE DEF page
  <2>3. page \in Nat
    BY <2>2 DEF VirtualPages
  <2> QED
    BY <1>1, <2>1, <2>2, <2>3, JustMapsHeld
<1>4. CASE \/ FindMcfg \/ NextConfiguration \/ SkipFunction \/ EnterLoop \/ LoopReturns
           \/ EnumerationEnds \/ ProbePorts \/ PortsDone
  <2>1. calls = <<>> /\ NoTables
    BY <1>4 DEF FindMcfg, NextConfiguration, SkipFunction, EnterLoop, LoopReturns, EnumerationEnds,
                ProbePorts, PortsDone, ReadsHeader, Computes, At, PciAt
  <2> QED
    BY <1>1, <2>1, NoTablesHeld
<1> QED
  BY <1>2, <1>3, <1>4 DEF Walks

-----------------------------------------------------------------------------
(* The invariant.                                                          *)

\* The parts of the invariant that speak of places hold at the start,
LEMMA BasicInit == PciInit => Basic
<1> SUFFICES ASSUME PciInit PROVE Basic
  OBVIOUS
<1>1. /\ pmm!Init /\ pml_4 = 0 /\ cr3 = FALSE /\ tables = <<>> /\ calls = <<>> /\ stage = "pmm" /\ i = 0
      /\ fb_size \in FramebufferSizes /\ stacks = <<>> /\ buffer = 0
      /\ config \in ConfigSpaces /\ walk = <<>>
  BY DEF PciInit, Init
<1>2. PmmPart
  BY <1>1 DEF PmmPart, pmm!Init
<1>3. StagePart
  BY <1>1 DEF StagePart, Stages, NoCr3, Early, Buffered, PciStages, UserStages
<1>4. WalkPart
  <2>1. walk \in Seq(Nat) /\ Len(walk) = 0
    BY <1>1
  <2> QED
    BY <1>1, <2>1 DEF WalkPart
<1>5. CallPart /\ TreePart
  BY <1>1 DEF CallPart, TreePart, Early
<1> QED
  BY <1>2, <1>3, <1>4, <1>5 DEF Basic

\* and every step keeps them.
LEMMA BasicNext == Basic /\ MemoryLasts /\ [PciNext]_everyVar => Basic'
<1> SUFFICES ASSUME Basic, MemoryLasts, [PciNext]_everyVar PROVE Basic'
  OBVIOUS
<1>1. CASE Walks
  BY <1>1, PciStage, PciWalk, PciHeld DEF Basic, Held
<1>4. CASE ConfigurePorts
  <2>1. StagePart' /\ WalkPart' /\ stage = "ports" /\ stage' = "ports" /\ calls = <<>> /\ pmm!RequestPage
    BY <1>4, PortStep
  <2>2. NoTables /\ stage \notin Early /\ stage' \notin Early /\ stage # "user"
    BY <1>4, <2>1 DEF ConfigurePorts, Early
  <2>3. Held'
    BY <2>1, <2>2, NoTablesHeld
  <2> QED
    BY <2>1, <2>3 DEF Basic, Held
<1>2. CASE Next /\ UNCHANGED pciVars
  <2>1. CASE MapStep /\ UNCHANGED bootVars
    BY <1>2, <2>1, MapStepBasic DEF bootVars, pciVars
  <2>2. CASE ~(MapStep /\ UNCHANGED bootVars)
    <3>1. StagePart' /\ Held'
      BY <1>2, <2>2, NextStage, NextHeld
    <3>2. WalkPart'
      BY <1>2, NextStages DEF Basic, WalkPart, pciVars
    <3> QED
      BY <3>1, <3>2 DEF Basic, Held
  <2> QED
    BY <2>1, <2>2
<1>3. CASE UNCHANGED everyVar
  <2>1. UNCHANGED <<initialized, memory_map, bitmap, pml_4, cr3, tables, calls, stage, i, fb_size,
                    stacks, buffer, config, walk>>
    BY <1>3 DEF everyVar, vars, pmmVars, tableVars, bootVars, pciVars
  <2>2. PmmPart'
    BY <2>1 DEF Basic, PmmPart
  <2>3. StagePart'
    BY <2>1 DEF Basic, StagePart, FramebufferPages, BufferPages, Memory
  <2>4. WalkPart'
    BY <2>1 DEF Basic, WalkPart
  <2>5. CallPart'
    BY <2>1 DEF Basic, CallPart
  <2>6. TreePart'
    BY <2>1 DEF Basic, TreePart, Memory
  <2> QED
    BY <2>2, <2>3, <2>4, <2>5, <2>6 DEF Basic
<1> QED
  BY <1>1, <1>2, <1>3, <1>4 DEF PciNext, Walks

\* In all behaviours in which memory lasts.
LEMMA BasicAlways == PciSpec /\ []MemoryLasts => []Basic
BY BasicInit, BasicNext, PTL DEF PciSpec

-----------------------------------------------------------------------------
(* The tree of tables.                                                     *)

\* The entries of a set of tables, as property TableTree counts them.
LEMMA SlotsAreUnder ==
  ASSUME NEW S
  PROVE  /\ Slots(S) = {x \in S \X Places : Ent(tables, x[1], x[2]).present}
         /\ Below(S) = Under(tables, S)
BY EntryIsEnt DEF Slots, Below, Under, Places

\* As many entries as tables below them, when no two point to the same.
LEMMA OneSlotEach ==
  ASSUME Tree(tables, pml_4), IsFiniteSet(DOMAIN tables), NEW k \in 0 .. 2,
         NEW S, S = Level(tables, pml_4, k), NEW T, T = Level(tables, pml_4, k + 1)
  PROVE  Cardinality(Slots(S)) = Cardinality(T)
<1> DEFINE P == Slots(S)
           b == [x \in P |-> Ent(tables, x[1], x[2]).frame]
<1>1. P = {x \in S \X Places : Ent(tables, x[1], x[2]).present}
  BY SlotsAreUnder
<1>2. T = Under(tables, S)
  BY NextLevel
<1>3. T = {Ent(tables, x[1], x[2]).frame : x \in P}
  BY <1>1, <1>2 DEF Under
<1>4. \A x, y \in P : b[x] = b[y] => x = y
  <2> SUFFICES ASSUME NEW x \in P, NEW y \in P, b[x] = b[y] PROVE x = y
    OBVIOUS
  <2>1. /\ x \in S \X Places /\ y \in S \X Places
        /\ Ent(tables, x[1], x[2]).present /\ Ent(tables, y[1], y[2]).present
        /\ Ent(tables, x[1], x[2]).frame = Ent(tables, y[1], y[2]).frame
    BY <1>1
  <2>2. x[1] = y[1] /\ x[2] = y[2]
    BY <2>1 DEF Tree, OneParent
  <2> QED
    BY <2>1, <2>2
<1> HIDE DEF P
<1>5. /\ b \in [P -> T] /\ \A t \in T : \E x \in P : b[x] = t
  BY <1>3
<1> HIDE DEF b
<1>6. b \in Bijection(P, T)
  BY <1>4, <1>5, Fun_IsBij
<1>7. ExistsBijection(T, P)
  BY <1>6, Fun_ExistsBij, Fun_ExistsBijSymmetric
<1>8. IsFiniteSet(T)
  <2>1. k + 1 \in Levels
    BY DEF Levels
  <2>2. T \subseteq DOMAIN tables
    BY <2>1 DEF Tree, Covered
  <2> QED
    BY <2>2, FS_Subset
<1> QED
  BY <1>7, <1>8, FS_Bijection DEF P

\* The invariant says that the tables are a tree.
LEMMA TreeOfTables == Basic => TableTree
<1> SUFFICES ASSUME Basic, tables # <<>>
             PROVE  /\ UNION {ByLevel[k] : k \in 1 .. 4} = DOMAIN tables
                    /\ \A k, l \in 1 .. 4 : k # l => ByLevel[k] \cap ByLevel[l] = {}
                    /\ \A k \in 1 .. 3 : Cardinality(Slots(ByLevel[k])) = Cardinality(ByLevel[k + 1])
  BY DEF TableTree
<1> DEFINE L(k) == Level(tables, pml_4, k)
<1>1. Tree(tables, pml_4) /\ DOMAIN tables \subseteq Memory /\ stage \notin Early /\ PmmPart
  BY DEF Basic, TreePart
<1>2. IsFiniteSet(DOMAIN tables)
  <2>1. Memory = 0 .. pmm!TotalPages[memory_map] - 1 /\ pmm!TotalPages[memory_map] \in Nat
    BY <1>1, MemoryIsMappable DEF Early
  <2>2. IsFiniteSet(Memory)
    BY <2>1, FS_Interval
  <2> QED
    BY <1>1, <2>2, FS_Subset
<1>3. ByLevel = <<L(0), L(1), L(2), L(3)>>
  BY SlotsAreUnder DEF ByLevel, Level
<1>4. \A k \in 1 .. 4 : ByLevel[k] = L(k - 1)
  <2>1. ByLevel[1] = L(0) /\ ByLevel[2] = L(1) /\ ByLevel[3] = L(2) /\ ByLevel[4] = L(3)
    BY <1>3
  <2> QED
    BY <2>1
<1> HIDE DEF L
<1>5. ASSUME NEW k \in 1 .. 3
      PROVE  Cardinality(Slots(ByLevel[k])) = Cardinality(ByLevel[k + 1])
  <2>1. ByLevel[k] = L(k - 1) /\ ByLevel[k + 1] = L(k - 1 + 1) /\ k - 1 \in 0 .. 2
    BY <1>4
  <2> QED
    BY <1>1, <1>2, <2>1, OneSlotEach DEF L
<1>6. UNION {ByLevel[k] : k \in 1 .. 4} = DOMAIN tables
  <2>1. ASSUME NEW f \in DOMAIN tables PROVE \E k \in 1 .. 4 : f \in ByLevel[k]
    <3>1. PICK k \in Levels : f \in L(k)
      BY <1>1 DEF Tree, Covered, L
    <3>2. k + 1 \in 1 .. 4 /\ (k + 1) - 1 = k
      BY DEF Levels
    <3> QED
      BY <1>4, <3>1, <3>2
  <2>2. ASSUME NEW k \in 1 .. 4 PROVE ByLevel[k] \subseteq DOMAIN tables
    <3>1. k - 1 \in Levels
      BY DEF Levels
    <3> QED
      BY <1>1, <1>4, <3>1 DEF Tree, Covered, L
  <2> QED
    BY <2>1, <2>2
<1>7. ASSUME NEW k \in 1 .. 4, NEW l \in 1 .. 4, k # l PROVE ByLevel[k] \cap ByLevel[l] = {}
  <2>1. k - 1 \in Levels /\ l - 1 \in Levels /\ k - 1 # l - 1
    BY <1>7 DEF Levels
  <2> QED
    BY <1>1, <1>4, <2>1 DEF Tree, Apart, L
<1> QED
  BY <1>5, <1>6, <1>7

\* As long as memory lasts the page tables form a tree of four levels in which
\* every table is entered by exactly one entry of the level above, also while
\* nested calls of map_memory are building it.
THEOREM TablesFormATree == PciSpec /\ []MemoryLasts => []TableTree
BY BasicAlways, TreeOfTables, PTL

-----------------------------------------------------------------------------
(* Translations.                                                           *)

\* What a page is translated to after a step.
LEMMA TranslateIsLeafAfter ==
  ASSUME NEW v
  PROVE  Translate(v)' = LET e == On(tables', pml_4', v, 3) IN IF e.present THEN e.frame ELSE Unmapped
<1>1. \A f, e : Entry(f, e)' = Ent(tables', f, e)
  BY DEF Entry, Ent
<1>2. Path(v)' = Way(tables', pml_4', v)
  BY DEF Path, Way, Entry, Ent
<1> QED
  BY <1>2 DEF Translate, On, Unmapped

\* Tables that know no page.
LEMMA NothingMapped ==
  ASSUME NEW t, NEW r, NEW v, \A f, e : e \in Places => Ent(t, f, e) = Absent, v \in Nat
  PROVE  ~On(t, r, v, 3).present
<1> SUFFICES ASSUME On(t, r, v, 3).present PROVE FALSE
  OBVIOUS
<1>1. 3 \in Levels /\ Entries \in Nat \ {0}
  BY PagingAssumption DEF Levels
<1>2. Reaches(t, r, v, 3)
  BY <1>1, PresentIsReached
<1>3. On(t, r, v, 3) = Ent(t, Node(t, r, v, 3), Index(v, 3)) /\ Index(v, 3) \in Places
  BY <1>1, <1>2, EntryOfNode, IndexInTable
<1> QED
  BY <1>3 DEF Absent

\* The entry of the last level of a page, before a step and after it, says the same.
SameLeaf(v) ==
  LET e == On(tables, pml_4, v, 3)
      d == On(tables', pml_4', v, 3)
  IN  (d.present <=> e.present) /\ (e.present => d.frame = e.frame)

\* What steps do to the tables.
TablesChange ==
  \/ UNCHANGED <<pml_4, tables>>
  \/ RootTable
  \/ NewTable
  \/ WriteLeaf
  \/ \E w \in Nat : DonateToUserspace(w) /\ pml_4' = pml_4 /\ stage \notin Early

\* Nothing else happens to them.
LEMMA OnlyTheseChanges ==
  ASSUME Basic, MemoryLasts, [PciNext]_everyVar
  PROVE  TablesChange
<1>1. CASE UNCHANGED everyVar
  BY <1>1 DEF everyVar, vars, tableVars, TablesChange
<1>2. CASE Walks \/ ConfigurePorts
  BY <1>2, PciStage, PortStep DEF TablesChange
<1>3. CASE MapStep
  BY <1>3 DEF MapStep, Descend, TablesChange
<1>4. CASE DonateEntry
  <2>1. stage \notin Early /\ pml_4' = pml_4 /\ DonateToUserspace(UserEntry)
    BY <1>4 DEF DonateEntry, At, Early
  <2>2. UserEntry \in Nat
    <3>1. UserEntry \in pmm!KernelFrames
      BY BootAssumption
    <3>2. KernelStart \in Nat /\ KernelSize \in Nat /\ PageSize \in Nat \ {0}
      BY PagingAssumption DEF pmm!LayoutAssumption
    <3>3. KernelStart \div PageSize \in Nat
      BY <3>2
    <3> QED
      BY <3>1, <3>3 DEF pmm!KernelFrames, pmm!Pages, pmm!FrameOf
  <2> QED
    BY <2>1, <2>2 DEF TablesChange
<1>5. CASE UserStack \/ SysAllocatePage
  <2>1. /\ stage # "pmm" /\ stage \notin Early /\ pml_4' = pml_4 /\ (stage = "user" => i < MaxUserPages)
        /\ pmm!RequestPage /\ DonateToUserspace(pmm!RequestedFrame)
    BY <1>5 DEF UserStack, SysAllocatePage, RequestAndDonate, At, Early
  <2>2. pmm!RequestedFrame \in Nat
    BY <2>1, Asked
  <2> QED
    BY <2>1, <2>2 DEF TablesChange
<1>6. CASE \/ ConfigurePmm \/ RequestStack \/ NoBuffer \/ TextBuffer
           \/ LoopEnds("identity", pmm!TotalPages[memory_map], "framebuffer")
           \/ LoopEnds("framebuffer", FramebufferPages, "cr3")
           \/ LoopEnds("heap", HeapLoop, "tss")
           \/ LoopEnds("tss", 6, "graphics") \/ LoopEnds("buffer", BufferPages, "text")
  BY <1>6 DEF ConfigurePmm, RequestStack, NoBuffer, TextBuffer, LoopEnds, NoTables, TablesChange
<1>7. CASE \/ IdentityMap \/ MapFramebuffer \/ MapHeap \/ MapStack \/ FirstBufferPage \/ NextBufferPage
  BY <1>7 DEF IdentityMap, MapFramebuffer, MapHeap, MapStack, FirstBufferPage, NextBufferPage,
              JustMaps, TablesChange
<1>8. CASE RootTable \/ LoadCr3
  BY <1>8 DEF LoadCr3, TablesChange
<1> QED
  BY <1>1, <1>2, <1>3, <1>4, <1>5, <1>6, <1>7, <1>8 DEF PciNext, Walks, Next

\* An entry of the last level changes only when its page is written.
LEMMA LeafStep ==
  ASSUME Basic, MemoryLasts, [PciNext]_everyVar, NEW v \in VirtualPages
  PROVE  \/ SameLeaf(v)
         \/ /\ WriteLeaf /\ Top.v = v /\ Top.level = 3 /\ calls # <<>>
            /\ On(tables', pml_4', v, 3).present /\ On(tables', pml_4', v, 3).frame = Top.p
<1>1. v \in Nat /\ Entries \in Nat \ {0} /\ 3 \in Levels
  BY PagingAssumption DEF VirtualPages, Levels
<1>2. CASE UNCHANGED <<pml_4, tables>>
  BY <1>2 DEF SameLeaf
<1>3. CASE RootTable
  <2>1. tables = <<>>
    BY <1>3 DEF RootTable, At, Basic, TreePart, Early
  <2>2. \A f, e : e \in Places => Ent(tables, f, e) = Absent
    BY <2>1 DEF Ent
  <2>3. tables' = [g \in {pmm!RequestedFrame} |-> EmptyTable]
    BY <1>3 DEF RootTable
  <2>4. \A f, e : e \in Places => Ent(tables', f, e) = Absent
    BY <2>3 DEF Ent, EmptyTable, Places
  <2> QED
    BY <1>1, <2>2, <2>4, NothingMapped DEF SameLeaf
<1>4. CASE NewTable
  <2>1. /\ Grown(tables, tables', pml_4, Top.level, Top.at, Slot, pmm!RequestedFrame)
        /\ pml_4' = pml_4 /\ calls # <<>>
    BY <1>4, NewTableFrame
  <2>2. Tree(tables, pml_4)
    BY <2>1, TopFacts DEF Basic
  <2>3. /\ On(tables', pml_4, v, 3).present <=> On(tables, pml_4, v, 3).present
        /\ On(tables, pml_4, v, 3).present => \A j \in Levels : On(tables', pml_4, v, j) = On(tables, pml_4, v, j)
    BY <1>1, <2>1, <2>2, LeavesGrown
  <2> QED
    BY <1>1, <2>1, <2>3 DEF SameLeaf
<1>5. CASE WriteLeaf
  <2> DEFINE w == Top.v
  <2>1. /\ w \in VirtualPages /\ Top.level = 3 /\ Reaches(tables, pml_4, w, 3)
        /\ Written(tables, tables', Node(tables, pml_4, w, 3), Index(w, 3), Leaf)
        /\ Leaf \in EntryRecords /\ Leaf.present /\ Leaf.frame = Top.p
        /\ Tree(tables, pml_4) /\ pml_4' = pml_4 /\ calls # <<>>
    BY <1>5, WriteLeafFacts
  <2>2. /\ On(tables', pml_4, w, 3) = Leaf
        /\ \A x \in VirtualPages : \A k \in Levels :
             x # w \/ k # 3 => \/ On(tables', pml_4, x, k) = On(tables, pml_4, x, k)
                               \/ ~Reaches(tables, pml_4, x, k) /\ ~Reaches(tables', pml_4, x, k)
    BY <1>1, <2>1, OnePageWritten
  <2>3. CASE v = w
    BY <1>5, <2>1, <2>2, <2>3
  <2>4. CASE v # w
    <3>1. CASE On(tables', pml_4, v, 3) = On(tables, pml_4, v, 3)
      BY <2>1, <3>1 DEF SameLeaf
    <3>2. CASE ~Reaches(tables, pml_4, v, 3) /\ ~Reaches(tables', pml_4, v, 3)
      <4>1. ~On(tables, pml_4, v, 3).present /\ ~On(tables', pml_4, v, 3).present
        BY <1>1, <3>2, PresentIsReached
      <4> QED
        BY <2>1, <4>1 DEF SameLeaf
    <3> QED
      BY <1>1, <2>2, <2>4, <3>1, <3>2
  <2> QED
    BY <2>3, <2>4
<1>6. ASSUME NEW w \in Nat, DonateToUserspace(w), pml_4' = pml_4, stage \notin Early
      PROVE  SameLeaf(v)
  <2>1. Tree(tables, pml_4)
    BY <1>6 DEF Basic, TreePart
  <2>2. FlagsOnly(tables, tables')
    BY <1>6, <2>1, DonateFlags
  <2>3. CASE Reaches(tables, pml_4, v, 3)
    BY <1>1, <1>6, <2>2, <2>3, FlagsSet DEF SameLeaf
  <2>4. CASE ~Reaches(tables, pml_4, v, 3)
    <3>1. ~Reaches(tables', pml_4, v, 3)
      BY <1>1, <2>2, <2>4, FlagsSet, WalksKept
    <3>2. ~On(tables, pml_4, v, 3).present /\ ~On(tables', pml_4, v, 3).present
      BY <1>1, <2>4, <3>1, PresentIsReached
    <3> QED
      BY <1>6, <3>2 DEF SameLeaf
  <2> QED
    BY <2>3, <2>4
<1> QED
  BY <1>2, <1>3, <1>4, <1>5, <1>6, OnlyTheseChanges DEF TablesChange

\* A step changes the translation of no page but the one whose map_memory call is
\* at its last level, and that one becomes what the call asked for.
LEMMA OneTranslation ==
  Basic /\ MemoryLasts /\ [PciNext]_everyVar =>
    [\A v \in VirtualPages :
        Translate(v)' # Translate(v) =>
          calls # <<>> /\ Top.level = 3 /\ Top.v = v /\ Translate(v)' = Top.p]_vars
<1> SUFFICES ASSUME Basic, MemoryLasts, [PciNext]_everyVar, NEW v \in VirtualPages,
                    Translate(v)' # Translate(v)
             PROVE  calls # <<>> /\ Top.level = 3 /\ Top.v = v /\ Translate(v)' = Top.p
  OBVIOUS
<1>1. Translate(v) = LET e == On(tables, pml_4, v, 3) IN IF e.present THEN e.frame ELSE Unmapped
  BY TranslateIsLeaf
<1>2. Translate(v)' = LET e == On(tables', pml_4', v, 3) IN IF e.present THEN e.frame ELSE Unmapped
  BY TranslateIsLeafAfter
<1>3. ~SameLeaf(v)
  BY <1>1, <1>2 DEF SameLeaf
<1> QED
  BY <1>2, <1>3, LeafStep

\* Writing one translation never changes another: what TableTree is for, and what
\* the recursion of map_memory could spoil.
THEOREM OnePageAtATime == PciSpec /\ []MemoryLasts => OnlyTheRequestedPage
<1>1. PciSpec /\ []MemoryLasts => []Basic
  BY BasicAlways
<1> QED
  BY <1>1, OneTranslation, PTL DEF PciSpec, OnlyTheRequestedPage

-----------------------------------------------------------------------------
(* What stays reachable at its own address.                                *)

\* The addresses that request_pages mapped to whatever frames it got.
Moved ==
  IF stage = "buffer" THEN buffer + 1 .. buffer + i - 1
  ELSE IF stage \in Buffered THEN buffer + 1 .. buffer + BufferPages - 1 ELSE {}

LastEntry(v) == On(tables, pml_4, v, 3)

\* A page is mapped at its own address, or a call that will map it is in progress.
Promised(v) ==
  \/ LastEntry(v).present /\ LastEntry(v).frame = v
  \/ \E n \in DOMAIN calls : calls[n].v = v /\ calls[n].p = v

\* Tables are where first fit had come to: no clear frame is below one.
FirstFitPart == \A f \in DOMAIN tables : \A g \in 0 .. f : g \in bitmap

\* setup_paging maps memory page by page.
IdentityPart ==
  stage = "identity" => /\ \A v \in 0 .. i - 1 : Promised(v)
                        /\ \A n \in DOMAIN calls : calls[n].p = calls[n].v

\* Then all of memory is mapped, and at its own addresses but for those moved.
MappedPart ==
  stage \notin Early \cup {"identity"} =>
    /\ \A v \in Memory : LastEntry(v).present /\ (v \notin Moved => LastEntry(v).frame = v)
    /\ \A n \in DOMAIN calls : calls[n].v \in Memory \ Moved => calls[n].p = calls[n].v

\* The addresses moved are of frames taken, and of no table: while request_pages
\* is at work, new tables are allocated only for addresses beyond memory.
MovedPart ==
  /\ \A g \in Moved : (g \in Memory => g \in bitmap) /\ g \notin DOMAIN tables
  /\ stage = "buffer" =>
       /\ \A g \in Memory : g < buffer + i => g \in bitmap
       /\ \A n \in DOMAIN calls : calls[n].v \in Memory \/ calls[n].v = buffer + i - 1
       /\ (\A f \in DOMAIN tables : f < buffer) \/ buffer + i > pmm!TotalPages[memory_map]

Reachable == FirstFitPart /\ IdentityPart /\ MappedPart /\ MovedPart /\ ~astray

\* What steps do to memory: nothing, or they take its first clear frame.
LEMMA MemoryStep ==
  ASSUME Basic, MemoryLasts, [PciNext]_everyVar, stage # "pmm"
  PROVE  /\ Memory' = Memory /\ memory_map' = memory_map /\ held \subseteq held'
         /\ \/ bitmap' = bitmap
            \/ LET f == pmm!RequestedFrame
               IN  /\ f \in Memory /\ f \in Nat /\ f \notin bitmap /\ f \notin DOMAIN tables
                   /\ \A g \in Nat : g < f => g \in bitmap
                   /\ bitmap' = bitmap \cup {f}
                   /\ f \notin pmm!BootOwned(memory_map)
<1>1. CASE UNCHANGED pmmVars
  BY <1>1 DEF pmmVars, Memory
<1>2. CASE pmm!RequestPage /\ (stage = "user" => i < MaxUserPages)
  BY <1>2, Asked
<1>3. CASE UNCHANGED everyVar
  BY <1>1, <1>3 DEF everyVar, vars
<1>4. CASE Walks
  BY <1>1, <1>4, PciStage
<1>5. CASE Descend \/ WriteLeaf
  BY <1>1, <1>5 DEF Descend, WriteLeaf
<1>6. CASE NewTable /\ UNCHANGED bootVars
  <2>1. calls # <<>> /\ pmm!RequestPage
    BY <1>6 DEF NewTable
  <2>2. stage \notin Early \cup UserStages
    BY <2>1 DEF Basic, CallPart
  <2> QED
    BY <1>2, <2>1, <2>2 DEF UserStages
<1>7. CASE \/ RootTable \/ MapHeap \/ RequestStack \/ FirstBufferPage \/ NextBufferPage \/ TextBuffer
           \/ UserStack \/ SysAllocatePage
  <2>1. pmm!RequestPage /\ (stage = "user" => i < MaxUserPages)
    BY <1>7 DEF RootTable, MapHeap, RequestStack, FirstBufferPage, NextBufferPage, TextBuffer,
                UserStack, SysAllocatePage, RequestAndDonate, At
  <2> QED
    BY <1>2, <2>1
<1>8. CASE \/ IdentityMap \/ MapFramebuffer \/ LoadCr3 \/ MapStack \/ NoBuffer \/ DonateEntry
           \/ LoopEnds("identity", pmm!TotalPages[memory_map], "framebuffer")
           \/ LoopEnds("framebuffer", FramebufferPages, "cr3")
           \/ LoopEnds("heap", HeapLoop, "tss")
           \/ LoopEnds("tss", 6, "graphics") \/ LoopEnds("buffer", BufferPages, "text")
  <2>1. UNCHANGED pmmVars
    BY <1>8 DEF IdentityMap, MapFramebuffer, LoadCr3, MapStack, NoBuffer, DonateEntry, LoopEnds
  <2> QED
    BY <1>1, <2>1
<1>9. CASE ConfigurePmm
  BY <1>9 DEF ConfigurePmm, At
<1>10. CASE ConfigurePorts
  BY <1>10, PortStep
<1> QED
  BY <1>3, <1>4, <1>5, <1>6, <1>7, <1>8, <1>9, <1>10 DEF PciNext, Walks, Next, MapStep

\* The addresses moved change when request_pages goes on.
LEMMA MovedStep ==
  ASSUME Basic, MemoryLasts, [PciNext]_everyVar
  PROVE  Moved' = Moved \/ NextBufferPage
<1>1. StagePart /\ BufferPages \in Nat \ {0} /\ i \in Nat /\ buffer \in Nat
  BY PageCounts DEF Basic, StagePart
<1>2. ASSUME UNCHANGED <<fb_size, buffer>>, stage # "buffer", stage' # "buffer",
             stage \in Buffered <=> stage' \in Buffered
      PROVE  Moved' = Moved
  BY <1>2 DEF Moved, BufferPages
<1>3. CASE UNCHANGED <<stage, i, fb_size, buffer>>
  BY <1>3 DEF Moved, BufferPages
<1>4. CASE UNCHANGED everyVar \/ (MapStep /\ UNCHANGED bootVars)
  BY <1>3, <1>4 DEF everyVar, vars, bootVars
<1>5. CASE Walks
  BY <1>2, <1>5, PciStage DEF PciStages, Buffered
<1>13. CASE ConfigurePorts
  BY <1>2, <1>13, PortStep
<1>6. CASE ConfigurePmm \/ RootTable \/ LoadCr3
  <2>1. UNCHANGED <<fb_size, buffer>> /\ stage \in NoCr3 /\ stage' \in NoCr3 \cup {"heap"}
    BY <1>6 DEF ConfigurePmm, RootTable, LoadCr3, At, Goto, NoCr3, Early
  <2> QED
    BY <1>2, <2>1 DEF NoCr3, Early, Buffered, PciStages, UserStages
<1>7. CASE \/ IdentityMap \/ MapFramebuffer \/ MapHeap \/ RequestStack \/ MapStack \/ SysAllocatePage
  <2>1. UNCHANGED <<stage, fb_size, buffer>> /\ stage # "buffer"
    BY <1>7 DEF IdentityMap, MapFramebuffer, MapHeap, RequestStack, MapStack, SysAllocatePage,
                RequestAndDonate, At, Again
  <2> QED
    BY <1>2, <2>1
<1>8. CASE \/ LoopEnds("identity", pmm!TotalPages[memory_map], "framebuffer")
           \/ LoopEnds("framebuffer", FramebufferPages, "cr3")
           \/ LoopEnds("heap", HeapLoop, "tss")
           \/ LoopEnds("tss", 6, "graphics")
  <2>1. /\ UNCHANGED <<fb_size, buffer>> /\ stage \in {"identity", "framebuffer", "heap", "tss"}
        /\ stage' \in {"framebuffer", "cr3", "tss", "graphics"}
    BY <1>8 DEF LoopEnds, At, Goto
  <2> QED
    BY <1>2, <2>1 DEF Buffered, PciStages, UserStages
<1>9. CASE LoopEnds("buffer", BufferPages, "text")
  <2>1. UNCHANGED <<fb_size, buffer>> /\ stage = "buffer" /\ stage' = "text" /\ i = BufferPages
    BY <1>9 DEF LoopEnds, At, Goto
  <2> QED
    BY <2>1 DEF Moved, Buffered, BufferPages
<1>10. CASE NoBuffer
  <2>1. UNCHANGED <<fb_size, buffer>> /\ stage = "graphics" /\ stage' = "text" /\ BufferPages <= 1
    BY <1>10 DEF NoBuffer, At, Goto
  <2>2. Moved = {} /\ BufferPages = 1 /\ BufferPages' = BufferPages
    BY <1>1, <2>1 DEF Moved, Buffered, PciStages, UserStages, BufferPages
  <2>3. Moved' = buffer + 1 .. buffer + 1 - 1
    BY <2>1, <2>2 DEF Moved, Buffered
  <2> QED
    BY <1>1, <2>2, <2>3
<1>11. CASE FirstBufferPage
  <2> DEFINE f == pmm!RequestedFrame
  <2>1. stage = "graphics" /\ stage' = "buffer" /\ i' = 1 /\ buffer' = f /\ pmm!RequestPage
    BY <1>11 DEF FirstBufferPage, At
  <2>2. f \in Nat
    BY <2>1, Asked
  <2>3. Moved = {} /\ Moved' = f + 1 .. f + 1 - 1
    BY <2>1 DEF Moved, Buffered, PciStages, UserStages
  <2> QED
    BY <2>2, <2>3
<1>12. CASE TextBuffer \/ DonateEntry \/ UserStack
  <2>1. /\ UNCHANGED <<fb_size, buffer>> /\ stage \in {"text", "entry", "stack"}
        /\ stage' \in {"pci", "stack", "user"}
    BY <1>12 DEF TextBuffer, DonateEntry, UserStack, RequestAndDonate, At, Goto
  <2> QED
    BY <1>2, <2>1 DEF Buffered, PciStages, UserStages
<1> QED
  BY <1>4, <1>5, <1>6, <1>7, <1>8, <1>9, <1>10, <1>11, <1>12, <1>13 DEF PciNext, Walks, Next

\* Then there is one more.
LEMMA MovedOn ==
  ASSUME Basic, NextBufferPage
  PROVE  Moved' = Moved \cup {buffer + i}
<1>1. stage = "buffer" /\ stage' = "buffer" /\ i' = i + 1 /\ buffer' = buffer
  BY DEF NextBufferPage, At, Again
<1>2. Moved = buffer + 1 .. buffer + i - 1 /\ Moved' = buffer + 1 .. buffer + (i + 1) - 1
  BY <1>1 DEF Moved
<1>3. i \in Nat \ {0} /\ buffer \in Nat
  BY <1>1 DEF Basic, StagePart
<1> QED
  BY <1>2, <1>3

\* The calls in progress after a step of map_memory are those before it, but for
\* one that returns, and one for a new table at its own address.
LEMMA MapStepCalls ==
  ASSUME Basic, MemoryLasts, MapStep
  PROVE  /\ \A n \in DOMAIN calls' :
              \/ \E m \in DOMAIN calls : calls'[n].v = calls[m].v /\ calls'[n].p = calls[m].p
              \/ calls'[n].v \in Memory /\ calls'[n].p = calls'[n].v
         /\ \A m \in DOMAIN calls :
              \/ \E n \in DOMAIN calls' : calls'[n].v = calls[m].v /\ calls'[n].p = calls[m].p
              \/ WriteLeaf /\ calls[m] = Top
<1> DEFINE N == Len(calls)
<1>1. CallPart /\ TreePart /\ calls # <<>>
  BY DEF Basic, MapStep, Descend, NewTable, WriteLeaf
<1>2. N \in Nat \ {0} /\ DOMAIN calls = 1 .. N /\ Top = calls[N] /\ Top \in CallRecords /\ N \in DOMAIN calls
  BY <1>1, TopFacts
<1>3. CASE Descend
  <2>1. /\ calls' \in Seq(CallRecords) /\ Len(calls') = N /\ Found.frame \in Nat
        /\ calls'[N] = Deeper(Found.frame)
        /\ \A n \in 1 .. N - 1 : calls'[n] = calls[n]
    BY <1>1, <1>3, DescendCalls
  <2>2. Deeper(Found.frame).v = Top.v /\ Deeper(Found.frame).p = Top.p
    BY <1>2, <1>3, <2>1, DeeperFields DEF Descend
  <2>3. DOMAIN calls' = 1 .. N
    BY <2>1
  <2> HIDE DEF N
  <2>4. \A n \in 1 .. N : calls'[n].v = calls[n].v /\ calls'[n].p = calls[n].p
    <3> SUFFICES ASSUME NEW n \in 1 .. N PROVE calls'[n].v = calls[n].v /\ calls'[n].p = calls[n].p
      OBVIOUS
    <3>1. CASE n = N
      BY <1>2, <2>1, <2>2, <3>1
    <3>2. CASE n # N
      <4>1. n \in 1 .. N - 1
        BY <1>2, <3>2
      <4> QED
        BY <2>1, <4>1
    <3> QED
      BY <3>1, <3>2
  <2> QED
    BY <1>2, <2>3, <2>4
<1>4. CASE NewTable
  <2> DEFINE f == pmm!RequestedFrame
             c == NewCall(f, f, FALSE)
  <2>1. f \in Memory /\ f \in Nat /\ f \in VirtualPages /\ Top.level < 3 /\ pml_4 \in Nat
    BY <1>1, <1>4, NewTableFrame DEF TreePart
  <2>2. /\ calls' \in Seq(CallRecords) /\ Len(calls') = N + 1
        /\ calls'[N] = Deeper(f) /\ calls'[N + 1] = c
        /\ \A n \in 1 .. N - 1 : calls'[n] = calls[n]
    BY <1>1, <1>4, <2>1, NewTableCalls
  <2>3. Deeper(f).v = Top.v /\ Deeper(f).p = Top.p
    BY <1>2, <2>1, DeeperFields
  <2>4. c.v = f /\ c.p = f
    BY <2>1, NewCallFields
  <2> HIDE DEF c
  <2>5. DOMAIN calls' = 1 .. N + 1
    BY <2>2
  <2> HIDE DEF N
  <2>6. \A n \in 1 .. N : n \in 1 .. N + 1 /\ calls'[n].v = calls[n].v /\ calls'[n].p = calls[n].p
    <3> SUFFICES ASSUME NEW n \in 1 .. N PROVE calls'[n].v = calls[n].v /\ calls'[n].p = calls[n].p
      BY <1>2
    <3>1. CASE n = N
      BY <1>2, <2>2, <2>3, <3>1
    <3>2. CASE n # N
      <4>1. n \in 1 .. N - 1
        BY <1>2, <3>2
      <4> QED
        BY <2>2, <4>1
    <3> QED
      BY <3>1, <3>2
  <2>7. \A n \in 1 .. N + 1 : n \in 1 .. N \/ n = N + 1
    BY <1>2
  <2>8. calls'[N + 1].v \in Memory /\ calls'[N + 1].p = calls'[N + 1].v
    BY <2>1, <2>2, <2>4
  <2> QED
    BY <1>2, <2>5, <2>6, <2>7, <2>8
<1>5. CASE WriteLeaf
  <2>1. /\ calls' \in Seq(CallRecords) /\ Len(calls') = N - 1
        /\ \A n \in 1 .. N - 1 : calls'[n] = calls[n]
    BY <1>1, <1>5, WriteLeafCalls
  <2>2. DOMAIN calls' = 1 .. N - 1
    BY <2>1
  <2> HIDE DEF N
  <2>3. \A n \in 1 .. N : n \in 1 .. N - 1 \/ n = N
    BY <1>2
  <2>4. \A n \in 1 .. N - 1 : n \in 1 .. N
    BY <1>2
  <2> QED
    BY <1>2, <1>5, <2>1, <2>2, <2>3, <2>4
<1> QED
  BY <1>3, <1>4, <1>5 DEF MapStep

\* The call that JustMaps makes.
LEMMA MapsOne ==
  ASSUME Basic, calls = <<>>, NEW v \in VirtualPages, NEW p \in Nat, NEW pat \in BOOLEAN,
         JustMaps(v, p, pat)
  PROVE  DOMAIN calls' = {1} /\ calls'[1].v = v /\ calls'[1].p = p
<1> DEFINE c == NewCall(v, p, pat)
<1>1. calls' = Append(calls, c) /\ pml_4 \in Nat
  BY DEF JustMaps, MapMemory, Basic, TreePart
<1>2. c.v = v /\ c.p = p
  BY <1>1, NewCallFields
<1> HIDE DEF c
<1>3. calls' = <<c>>
  BY <1>1
<1> QED
  BY <1>2, <1>3

\* What the calls after a step are for.
LEMMA CallsStep ==
  ASSUME Basic, MemoryLasts, [PciNext]_everyVar, stage \notin Early, NEW n \in DOMAIN calls'
  PROVE  \/ /\ \E m \in DOMAIN calls : calls'[n].v = calls[m].v /\ calls'[n].p = calls[m].p
            /\ UNCHANGED <<stage, i, buffer>>
         \/ calls'[n].p = calls'[n].v /\ (stage' = "buffer" => calls'[n].v \in Memory)
         \/ MapHeap /\ calls'[n].v = HeapPage
         \/ NextBufferPage /\ calls'[n].v = buffer + i
<1>1. CASE UNCHANGED everyVar
  BY <1>1 DEF everyVar, vars, bootVars, tableVars
<1>2. CASE MapStep /\ UNCHANGED bootVars
  BY <1>2, MapStepCalls DEF bootVars
<1>3. ASSUME calls' = <<>> PROVE FALSE
  BY <1>3
<1>4. CASE \/ FindMcfg \/ NextConfiguration \/ SkipFunction \/ EnterLoop \/ LoopReturns
           \/ EnumerationEnds \/ ProbePorts \/ ConfigurePorts \/ PortsDone
  <2>1. calls' = <<>>
    BY <1>4 DEF FindMcfg, NextConfiguration, SkipFunction, EnterLoop, LoopReturns, EnumerationEnds,
                ProbePorts, ConfigurePorts, PortsDone, ReadsHeader, Computes, NoTables, At, PciAt
  <2> QED
    BY <1>3, <2>1
<1>5. CASE \/ ConfigurePmm \/ LoadCr3 \/ RequestStack \/ NoBuffer \/ TextBuffer
           \/ DonateEntry \/ UserStack \/ SysAllocatePage
           \/ LoopEnds("identity", pmm!TotalPages[memory_map], "framebuffer")
           \/ LoopEnds("framebuffer", FramebufferPages, "cr3")
           \/ LoopEnds("heap", HeapLoop, "tss")
           \/ LoopEnds("tss", 6, "graphics") \/ LoopEnds("buffer", BufferPages, "text")
  <2>1. calls' = <<>>
    BY <1>5 DEF ConfigurePmm, LoadCr3, RequestStack, NoBuffer, TextBuffer, DonateEntry, UserStack,
                SysAllocatePage, RequestAndDonate, LoopEnds, NoTables, At
  <2> QED
    BY <1>3, <2>1
<1>6. CASE RootTable
  BY <1>6 DEF RootTable, At, Early
<1>7. StagePart /\ PmmPart /\ i \in Nat /\ FramebufferPages \in Nat /\ BufferPages \in Nat \ {0}
  BY PageCounts DEF Basic, StagePart
<1>8. CASE Enumerate
  <2> DEFINE v == Address(walk)
  <2>1. /\ calls = <<>> /\ JustMaps(v, v, FALSE) /\ stage' = "header"
        /\ stage = "pci" /\ Len(walk) > 1 /\ Last(walk) < Bound(walk)
    BY <1>8 DEF Enumerate, At, PciAt
  <2>2. v \in VirtualPages /\ v \in Nat
    BY <2>1, WalkAddress DEF VirtualPages
  <2> HIDE DEF v
  <2>3. DOMAIN calls' = {1} /\ calls'[1].v = v /\ calls'[1].p = v
    BY <2>1, <2>2, MapsOne
  <2> QED
    BY <2>1, <2>3
<1>9. CASE InitializeController
  <2> DEFINE v == Header(walk).abar
  <2>1. calls = <<>> /\ JustMaps(v, v, FALSE) /\ stage' = "probe" /\ IsAhci(walk)
    BY <1>9 DEF InitializeController, ReadsHeader, At, PciAt
  <2>2. v \in VirtualPages
    BY <2>1, ControllerExists
  <2> HIDE DEF v
  <2>3. v \in Nat
    BY <2>2 DEF VirtualPages
  <2>4. DOMAIN calls' = {1} /\ calls'[1].v = v /\ calls'[1].p = v
    BY <2>1, <2>2, <2>3, MapsOne
  <2> QED
    BY <2>1, <2>4
<1>10. CASE IdentityMap
  <2>1. /\ stage = "identity" /\ stage' = "identity" /\ i < pmm!TotalPages[memory_map]
        /\ JustMaps(i, i, FALSE) /\ calls = <<>>
    BY <1>10 DEF IdentityMap, At, Again
  <2>2. i \in VirtualPages
    BY <1>7, <2>1, MemoryIsMappable
  <2>3. DOMAIN calls' = {1} /\ calls'[1].v = i /\ calls'[1].p = i
    BY <1>7, <2>1, <2>2, MapsOne
  <2> QED
    BY <2>1, <2>3
<1>11. CASE MapFramebuffer
  <2> DEFINE v == FramebufferPage + i
  <2>1. /\ stage' = "framebuffer" /\ i < FramebufferPages /\ JustMaps(v, v, TRUE) /\ calls = <<>>
    BY <1>11 DEF MapFramebuffer, At, Again
  <2>2. v \in VirtualPages /\ v \in Nat
    BY <1>7, <2>1, FramebufferExists DEF VirtualPages
  <2> HIDE DEF v
  <2>3. DOMAIN calls' = {1} /\ calls'[1].v = v /\ calls'[1].p = v
    BY <2>1, <2>2, MapsOne
  <2> QED
    BY <2>1, <2>3
<1>12. CASE MapHeap
  <2> DEFINE f == pmm!RequestedFrame
  <2>1. stage = "heap" /\ pmm!RequestPage /\ JustMaps(HeapPage, f, FALSE) /\ calls = <<>>
    BY <1>12 DEF MapHeap, At
  <2>2. f \in Nat /\ HeapPage \in VirtualPages
    BY <2>1, Asked, BootAssumption
  <2> HIDE DEF f
  <2>3. DOMAIN calls' = {1} /\ calls'[1].v = HeapPage
    BY <2>1, <2>2, MapsOne
  <2> QED
    BY <1>12, <2>3
<1>13. CASE MapStack
  <2> DEFINE v == stacks[i - 2]
  <2>1. stage = "tss" /\ stage' = "tss" /\ i \in 3 .. 5 /\ JustMaps(v, v, FALSE) /\ calls = <<>>
    BY <1>13 DEF MapStack, At, Again
  <2>2. v \in VirtualPages /\ v \in Nat
    BY <1>7, <2>1, StackExists DEF VirtualPages
  <2> HIDE DEF v
  <2>3. DOMAIN calls' = {1} /\ calls'[1].v = v /\ calls'[1].p = v
    BY <2>1, <2>2, MapsOne
  <2> QED
    BY <2>1, <2>3
<1>14. CASE FirstBufferPage
  <2> DEFINE f == pmm!RequestedFrame
  <2>1. stage = "graphics" /\ pmm!RequestPage /\ JustMaps(f, f, FALSE) /\ calls = <<>>
    BY <1>14 DEF FirstBufferPage, At
  <2>2. f \in Nat /\ f \in VirtualPages /\ f \in Memory
    BY <2>1, Asked
  <2> HIDE DEF f
  <2>3. DOMAIN calls' = {1} /\ calls'[1].v = f /\ calls'[1].p = f
    BY <2>1, <2>2, MapsOne
  <2> QED
    BY <2>2, <2>3
<1>15. CASE NextBufferPage
  <2> DEFINE f == pmm!RequestedFrame
             v == buffer + i
  <2>1. stage = "buffer" /\ i < BufferPages /\ pmm!RequestPage /\ JustMaps(v, f, FALSE) /\ calls = <<>>
    BY <1>15 DEF NextBufferPage, At
  <2>2. f \in Nat /\ v \in VirtualPages
    BY <1>7, <2>1, Asked, BufferExists
  <2> HIDE DEF f, v
  <2>3. DOMAIN calls' = {1} /\ calls'[1].v = v
    BY <2>1, <2>2, MapsOne
  <2> QED
    BY <1>15, <2>3 DEF v
<1> QED
  BY <1>1, <1>2, <1>4, <1>5, <1>6, <1>8, <1>9, <1>10, <1>11, <1>12, <1>13, <1>14, <1>15 DEF PciNext, Next

\* The leaf that is written.
LEMMA LeafAfterWrite ==
  ASSUME Basic, WriteLeaf
  PROVE  /\ On(tables', pml_4', Top.v, 3).present /\ On(tables', pml_4', Top.v, 3).frame = Top.p
         /\ On(tables', pml_4', Top.v, 3) = Leaf /\ Top.v \in VirtualPages /\ Top \in CallRecords
         /\ Len(calls) \in DOMAIN calls /\ Top = calls[Len(calls)]
<1> DEFINE w == Top.v
<1>1. /\ w \in VirtualPages /\ Reaches(tables, pml_4, w, 3)
      /\ Written(tables, tables', Node(tables, pml_4, w, 3), Index(w, 3), Leaf)
      /\ Leaf \in EntryRecords /\ Leaf.present /\ Leaf.frame = Top.p
      /\ Tree(tables, pml_4) /\ pml_4' = pml_4 /\ calls # <<>>
  BY WriteLeafFacts
<1>2. Top \in CallRecords /\ Len(calls) \in DOMAIN calls /\ Top = calls[Len(calls)]
  BY <1>1, TopFacts DEF Basic
<1>3. On(tables', pml_4, w, 3) = Leaf
  BY <1>1, PagingAssumption, OnePageWritten
<1> QED
  BY <1>1, <1>2, <1>3

\* How the identity map begins, goes on and ends.
LEMMA IdentitySteps ==
  ASSUME [PciNext]_everyVar
  PROVE  /\ stage \in Early \cup {"identity"} /\ stage' \notin Early \cup {"identity"} =>
              LoopEnds("identity", pmm!TotalPages[memory_map], "framebuffer")
         /\ stage' = "identity" => \/ RootTable \/ IdentityMap \/ (MapStep /\ UNCHANGED bootVars)
                                   \/ UNCHANGED everyVar
         /\ stage' = "buffer" => \/ FirstBufferPage \/ NextBufferPage \/ (MapStep /\ UNCHANGED bootVars)
                                 \/ UNCHANGED everyVar
<1> USE DEF Early
<1>1. CASE UNCHANGED everyVar \/ (MapStep /\ UNCHANGED bootVars)
  BY <1>1 DEF everyVar, vars, bootVars
<1>2. CASE \/ FindMcfg \/ NextConfiguration \/ Enumerate \/ LoopReturns \/ EnumerationEnds
           \/ ProbePorts \/ ConfigurePorts \/ PortsDone
  BY <1>2 DEF FindMcfg, NextConfiguration, Enumerate, LoopReturns, EnumerationEnds, ProbePorts,
              ConfigurePorts, PortsDone, At, PciAt, Goto, Again
<1>3. CASE SkipFunction \/ EnterLoop \/ InitializeController
  BY <1>3 DEF SkipFunction, EnterLoop, InitializeController, ReadsHeader, At, PciAt
<1>4. CASE ConfigurePmm \/ LoadCr3 \/ NoBuffer \/ TextBuffer
  BY <1>4 DEF ConfigurePmm, LoadCr3, NoBuffer, TextBuffer, At, Goto
<1>5. CASE \/ LoopEnds("identity", pmm!TotalPages[memory_map], "framebuffer")
           \/ LoopEnds("framebuffer", FramebufferPages, "cr3") \/ LoopEnds("heap", HeapLoop, "tss")
           \/ LoopEnds("tss", 6, "graphics") \/ LoopEnds("buffer", BufferPages, "text")
  BY <1>5 DEF LoopEnds, At, Goto
<1>6. CASE MapFramebuffer \/ MapHeap \/ RequestStack \/ MapStack
  <2>1. stage' = stage /\ stage \in {"framebuffer", "heap", "tss"}
    BY <1>6 DEF MapFramebuffer, MapHeap, RequestStack, MapStack, At, Again
  <2> QED
    BY <2>1
<1>8. CASE RootTable
  <2>1. stage = "root" /\ stage' = "identity"
    BY <1>8 DEF RootTable, At, Goto
  <2> QED
    BY <1>8, <2>1
<1>9. CASE IdentityMap
  <2>1. stage = "identity" /\ stage' = "identity"
    BY <1>9 DEF IdentityMap, At, Again
  <2> QED
    BY <1>9, <2>1
<1>10. CASE FirstBufferPage
  <2>1. stage = "graphics" /\ stage' = "buffer"
    BY <1>10 DEF FirstBufferPage, At
  <2> QED
    BY <1>10, <2>1
<1>11. CASE NextBufferPage
  <2>1. stage = "buffer" /\ stage' = "buffer"
    BY <1>11 DEF NextBufferPage, At, Again
  <2> QED
    BY <1>11, <2>1
<1>7. CASE DonateEntry \/ UserStack \/ SysAllocatePage
  BY <1>7 DEF DonateEntry, UserStack, SysAllocatePage, At, Goto, Again
<1> QED
  BY <1>1, <1>2, <1>3, <1>4, <1>5, <1>6, <1>7, <1>8, <1>9, <1>10, <1>11 DEF PciNext, Next

\* First fit goes on.
LEMMA FirstFitKept ==
  ASSUME Basic, MemoryLasts, [PciNext]_everyVar, FirstFitPart
  PROVE  FirstFitPart'
<1>1. CASE stage = "pmm"
  <2>1. tables = <<>> /\ calls = <<>>
    BY <1>1 DEF Basic, TreePart, CallPart, Early
  <2>2. tables' = tables
    BY <1>1, <2>1, OnlyTheseChanges DEF TablesChange, RootTable, NewTable, WriteLeaf, At, Early
  <2> QED
    BY <2>1, <2>2 DEF FirstFitPart
<1>2. CASE stage # "pmm"
  <2> DEFINE f == pmm!RequestedFrame
  <2>1. bitmap \subseteq bitmap'
    BY <1>2, MemoryStep
  <2>2. CASE DOMAIN tables' \subseteq DOMAIN tables
    BY <2>1, <2>2 DEF FirstFitPart
  <2>3. CASE /\ DOMAIN tables' \subseteq (DOMAIN tables) \cup {f}
             /\ f \in Nat /\ \A g \in Nat : g < f => g \in bitmap
             /\ bitmap' = bitmap \cup {f}
    <3> HIDE DEF f
    <3> SUFFICES ASSUME NEW h \in DOMAIN tables', NEW g \in 0 .. h PROVE g \in bitmap'
      BY DEF FirstFitPart
    <3>1. CASE h \in DOMAIN tables
      BY <2>1, <3>1 DEF FirstFitPart
    <3>2. CASE h = f
      BY <2>3, <3>2
    <3> QED
      BY <2>3, <3>1, <3>2
  <2>4. CASE RootTable
    <3>1. pmm!RequestPage /\ tables' = [g \in {f} |-> EmptyTable] /\ stage = "root"
      BY <2>4 DEF RootTable, At
    <3>2. f \in Nat /\ (\A g \in Nat : g < f => g \in bitmap) /\ bitmap' = bitmap \cup {f}
      BY <3>1, Asked
    <3> QED
      BY <2>3, <3>1, <3>2
  <2>5. CASE NewTable
    <3>1. /\ f \in Nat /\ (\A g \in Nat : g < f => g \in bitmap) /\ bitmap' = bitmap \cup {f}
          /\ Grown(tables, tables', pml_4, Top.level, Top.at, Slot, f)
      BY <2>5, NewTableFrame
    <3>2. DOMAIN tables' = (DOMAIN tables) \cup {f}
      BY <3>1 DEF Grown
    <3> QED
      BY <2>3, <3>1, <3>2
  <2>6. CASE WriteLeaf
    BY <2>2, <2>6, WriteLeafFacts
  <2>7. ASSUME NEW w \in Nat, DonateToUserspace(w) PROVE DOMAIN tables' = DOMAIN tables
    BY <2>7 DEF DonateToUserspace
  <2> QED
    BY <2>2, <2>4, <2>5, <2>6, <2>7, OnlyTheseChanges DEF TablesChange
<1> QED
  BY <1>1, <1>2

\* Memory stays mapped, and at its own addresses but for those moved.
LEMMA MappedKept ==
  ASSUME Basic, MemoryLasts, [PciNext]_everyVar, IdentityPart, MappedPart
  PROVE  MappedPart'
<1>1. CASE stage \notin Early \cup {"identity"}
  <2>1. /\ PmmPart /\ stage # "pmm" /\ stage \notin Early
        /\ Memory \subseteq VirtualPages /\ Memory = 0 .. pmm!TotalPages[memory_map] - 1
        /\ pmm!TotalPages[memory_map] \in Nat /\ memory_map \in MemoryMaps
    BY <1>1, MemoryIsMappable DEF Basic, Early
  <2>2. Memory' = Memory
    BY <2>1, MemoryStep
  <2>3. Moved \subseteq Moved'
    BY MovedStep, MovedOn
  <2>4. ASSUME NEW v \in Memory
        PROVE  /\ On(tables', pml_4', v, 3).present
               /\ v \notin Moved' => On(tables', pml_4', v, 3).frame = v
    <3>1. On(tables, pml_4, v, 3).present /\ (v \notin Moved => On(tables, pml_4, v, 3).frame = v)
      BY <1>1, <2>4 DEF MappedPart, LastEntry
    <3>2. CASE SameLeaf(v)
      BY <2>3, <3>1, <3>2 DEF SameLeaf
    <3>3. CASE /\ WriteLeaf /\ Top.v = v
               /\ On(tables', pml_4', v, 3).present /\ On(tables', pml_4', v, 3).frame = Top.p
      <4>1. Len(calls) \in DOMAIN calls /\ Top = calls[Len(calls)]
        BY <3>3, LeafAfterWrite
      <4>2. v \notin Moved => Top.p = v
        BY <1>1, <2>4, <3>3, <4>1 DEF MappedPart
      <4> QED
        BY <2>3, <3>3, <4>2
    <3> QED
      BY <2>1, <3>2, <3>3, LeafStep
  <2>5. ASSUME NEW n \in DOMAIN calls', calls'[n].v \in Memory \ Moved'
        PROVE  calls'[n].p = calls'[n].v
    <3>1. CASE \E m \in DOMAIN calls : calls'[n].v = calls[m].v /\ calls'[n].p = calls[m].p
      BY <1>1, <2>3, <2>5, <3>1 DEF MappedPart
    <3>2. CASE calls'[n].v = HeapPage
      <4>1. HeapPage \in Nat /\ pmm!TotalPages[memory_map] <= HeapPage
        BY <2>1, BootAssumption DEF VirtualPages
      <4> QED
        BY <2>1, <2>5, <3>2, <4>1
    <3>3. CASE NextBufferPage /\ calls'[n].v = buffer + i
      BY <2>5, <3>3, MovedOn
    <3> QED
      BY <2>1, <2>5, <3>1, <3>2, <3>3, CallsStep
  <2> QED
    BY <2>2, <2>4, <2>5 DEF MappedPart, LastEntry
<1>2. CASE stage \in Early \cup {"identity"} /\ stage' \notin Early \cup {"identity"}
  <2>1. LoopEnds("identity", pmm!TotalPages[memory_map], "framebuffer")
    BY <1>2, IdentitySteps
  <2>2. /\ stage = "identity" /\ calls = <<>> /\ i = pmm!TotalPages[memory_map]
        /\ UNCHANGED <<tables, pml_4, calls, memory_map>>
    BY <2>1 DEF LoopEnds, At, NoTables, pmmVars
  <2>3. Memory' = 0 .. i - 1
    BY <2>2, MemoryIsMappable DEF Basic, Memory
  <2>4. \A v \in 0 .. i - 1 : On(tables, pml_4, v, 3).present /\ On(tables, pml_4, v, 3).frame = v
    BY <2>2 DEF IdentityPart, Promised, LastEntry
  <2> QED
    BY <2>2, <2>3, <2>4 DEF MappedPart, LastEntry
<1>3. CASE stage' \in Early \cup {"identity"}
  BY <1>3 DEF MappedPart
<1> QED
  BY <1>1, <1>2, <1>3

\* setup_paging's loop over memory keeps its promise.
LEMMA IdentityKept ==
  ASSUME Basic, MemoryLasts, [PciNext]_everyVar, IdentityPart
  PROVE  IdentityPart'
<1> SUFFICES ASSUME stage' = "identity"
             PROVE  /\ \A v \in 0 .. i' - 1 : Promised(v)'
                    /\ \A n \in DOMAIN calls' : calls'[n].p = calls'[n].v
  BY DEF IdentityPart
<1>1. CASE UNCHANGED everyVar
  BY <1>1 DEF everyVar, vars, tableVars, bootVars, IdentityPart, Promised, LastEntry
<1>2. CASE RootTable
  <2> DEFINE f == pmm!RequestedFrame
             c == NewCall(f, f, FALSE)
             d == [c EXCEPT !.at = f]
  <2>1. /\ stage = "root" /\ pmm!RequestPage /\ calls' = <<d>> /\ i' = 0
    BY <1>2 DEF RootTable, At, Goto
  <2>2. f \in Nat /\ f \in VirtualPages /\ pml_4 \in Nat
    BY <2>1, Asked DEF Basic, TreePart
  <2>3. c \in CallRecords /\ c.v = f /\ c.p = f
    BY <2>2, NewCallFields
  <2> HIDE DEF c
  <2>4. d.v = f /\ d.p = f
    BY <2>3 DEF CallRecords
  <2> HIDE DEF d
  <2>5. DOMAIN calls' = {1} /\ calls'[1] = d
    BY <2>1
  <2> QED
    BY <2>1, <2>4, <2>5
<1>3. CASE IdentityMap
  <2>1. /\ stage = "identity" /\ calls = <<>> /\ i < pmm!TotalPages[memory_map]
        /\ JustMaps(i, i, FALSE) /\ i' = i + 1 /\ UNCHANGED <<tables, pml_4>>
    BY <1>3 DEF IdentityMap, At, Again, JustMaps
  <2>2. i \in Nat /\ i \in VirtualPages
    BY <2>1, MemoryIsMappable DEF Basic, StagePart
  <2>3. DOMAIN calls' = {1} /\ calls'[1].v = i /\ calls'[1].p = i
    BY <2>1, <2>2, MapsOne
  <2>4. ASSUME NEW v \in 0 .. i' - 1 PROVE Promised(v)'
    <3>1. CASE v = i
      BY <2>3, <3>1 DEF Promised
    <3>2. CASE v # i
      <4>1. v \in 0 .. i - 1
        BY <2>1, <2>2, <3>2
      <4>2. On(tables, pml_4, v, 3).present /\ On(tables, pml_4, v, 3).frame = v
        BY <2>1, <4>1 DEF IdentityPart, Promised, LastEntry
      <4> QED
        BY <2>1, <4>2 DEF Promised, LastEntry
    <3> QED
      BY <3>1, <3>2
  <2> QED
    BY <2>3, <2>4
<1>4. CASE MapStep /\ UNCHANGED bootVars
  <2>1. stage = "identity" /\ i' = i /\ i \in Nat
    BY <1>4 DEF bootVars, Basic, StagePart
  <2>2. \A n \in DOMAIN calls' : calls'[n].p = calls'[n].v
    BY <1>4, <2>1, MapStepCalls DEF IdentityPart
  <2>3. i <= pmm!TotalPages[memory_map] /\ Memory \subseteq VirtualPages
        /\ Memory = 0 .. pmm!TotalPages[memory_map] - 1 /\ pmm!TotalPages[memory_map] \in Nat
    BY <2>1, MemoryIsMappable DEF Basic, StagePart
  <2>4. ASSUME NEW v \in 0 .. i - 1 PROVE Promised(v)'
    <3>1. v \in VirtualPages
      BY <2>1, <2>3
    <3>2. Promised(v)
      BY <2>1 DEF IdentityPart
    <3>3. CASE On(tables, pml_4, v, 3).present /\ On(tables, pml_4, v, 3).frame = v
      <4>1. CASE SameLeaf(v)
        BY <3>3, <4>1 DEF SameLeaf, Promised, LastEntry
      <4>2. CASE /\ WriteLeaf /\ Top.v = v
                 /\ On(tables', pml_4', v, 3).present /\ On(tables', pml_4', v, 3).frame = Top.p
        <5>1. Len(calls) \in DOMAIN calls /\ Top = calls[Len(calls)]
          BY <4>2, LeafAfterWrite
        <5>2. Top.p = v
          BY <2>1, <4>2, <5>1 DEF IdentityPart
        <5> QED
          BY <4>2, <5>2 DEF Promised, LastEntry
      <4> QED
        BY <3>1, <4>1, <4>2, LeafStep
    <3>4. ASSUME NEW m \in DOMAIN calls, calls[m].v = v, calls[m].p = v PROVE Promised(v)'
      <4>1. CASE \E n \in DOMAIN calls' : calls'[n].v = calls[m].v /\ calls'[n].p = calls[m].p
        BY <3>4, <4>1 DEF Promised
      <4>2. CASE WriteLeaf /\ calls[m] = Top
        <5>1. On(tables', pml_4', v, 3).present /\ On(tables', pml_4', v, 3).frame = v
          BY <3>4, <4>2, LeafAfterWrite
        <5> QED
          BY <5>1 DEF Promised, LastEntry
      <4> QED
        BY <1>4, <3>4, <4>1, <4>2, MapStepCalls
    <3> QED
      BY <3>2, <3>3, <3>4 DEF Promised, LastEntry
  <2> QED
    BY <2>1, <2>2, <2>4
<1> QED
  BY <1>1, <1>2, <1>3, <1>4, IdentitySteps

\* A table that a step adds is in a frame that was free.
LEMMA TableAdded ==
  ASSUME Basic, MemoryLasts, [PciNext]_everyVar, NEW h \in DOMAIN tables', h \notin DOMAIN tables
  PROVE  /\ RootTable \/ NewTable
         /\ h \in Memory /\ h \in Nat /\ h \notin bitmap
         /\ h = pmm!RequestedFrame /\ pmm!RequestPage
         /\ \A g \in Nat : g < h => g \in bitmap
<1>1. CASE RootTable
  <2>1. h = pmm!RequestedFrame /\ pmm!RequestPage /\ stage = "root"
    BY <1>1 DEF RootTable, At
  <2> QED
    BY <1>1, <2>1, Asked
<1>2. CASE NewTable
  <2>1. Grown(tables, tables', pml_4, Top.level, Top.at, Slot, pmm!RequestedFrame)
    BY <1>2, NewTableFrame
  <2>2. h = pmm!RequestedFrame /\ pmm!RequestPage
    BY <1>2, <2>1 DEF Grown, NewTable
  <2> QED
    BY <1>2, <2>2, NewTableFrame
<1>3. CASE WriteLeaf
  BY <1>3, WriteLeafFacts
<1>4. ASSUME NEW w \in Nat, DonateToUserspace(w) PROVE FALSE
  BY <1>4 DEF DonateToUserspace
<1> QED
  BY <1>1, <1>2, <1>3, <1>4, OnlyTheseChanges DEF TablesChange

\* A table is taken in the middle of request_pages only for an address beyond memory.
LEMMA TableForAddress ==
  ASSUME Basic, MemoryLasts, NewTable, MappedPart, MovedPart, stage = "buffer"
  PROVE  buffer + i > pmm!TotalPages[memory_map]
<1>1. Top.level < 3 /\ ~Found.present /\ calls # <<>>
  BY NewTableFrame
<1>2. /\ Len(calls) \in DOMAIN calls /\ Top = calls[Len(calls)] /\ Top \in CallRecords
      /\ Top.level \in Levels /\ Found = On(tables, pml_4, Top.v, Top.level)
  BY <1>1, TopFacts DEF Basic
<1>3. Top.v \notin Memory
  <2> SUFFICES ASSUME Top.v \in Memory PROVE FALSE
    OBVIOUS
  <2>1. On(tables, pml_4, Top.v, 3).present
    BY DEF MappedPart, LastEntry, Early
  <2>2. Reaches(tables, pml_4, Top.v, 3)
    BY <2>1, PresentIsReached DEF Levels
  <2> DEFINE k == Top.level + 1
  <2>3. k \in Levels /\ k # 0 /\ k - 1 = Top.level
    BY <1>1, <1>2 DEF Levels
  <2> HIDE DEF k
  <2>4. Reaches(tables, pml_4, Top.v, k)
    BY <2>2, <2>3, ReachesAll
  <2>5. On(tables, pml_4, Top.v, k - 1).present
    BY <2>3, <2>4 DEF Reaches
  <2> QED
    BY <1>1, <1>2, <2>3, <2>5
<1>4. Top.v = buffer + i - 1
  BY <1>2, <1>3 DEF MovedPart
<1>5. buffer \in Nat /\ i \in Nat /\ i >= 1 /\ BufferPages \in Nat
  BY PageCounts DEF Basic, StagePart
<1>6. Memory = 0 .. pmm!TotalPages[memory_map] - 1 /\ pmm!TotalPages[memory_map] \in Nat
  BY MemoryIsMappable DEF Basic
<1> QED
  BY <1>3, <1>4, <1>5, <1>6

\* The address that request_pages maps next is of a frame taken, and of no table.
LEMMA NextAddress ==
  ASSUME Basic, MemoryLasts, NextBufferPage, MovedPart
  PROVE  /\ buffer + i \in Memory => buffer + i \in bitmap'
         /\ buffer + i \notin DOMAIN tables
         /\ \A g \in Memory : g < buffer + i => g \in bitmap'
<1> DEFINE f == pmm!RequestedFrame
           a == buffer + i
<1>1. stage = "buffer" /\ pmm!RequestPage
  BY DEF NextBufferPage, At
<1>2. f \in Memory /\ f \in Nat /\ (\A g \in Nat : g < f => g \in bitmap) /\ f \notin bitmap
      /\ bitmap' = bitmap \cup {f}
  BY <1>1, Asked
<1>3. buffer \in Nat /\ i \in Nat /\ i >= 1 /\ BufferPages \in Nat
  BY <1>1, PageCounts DEF Basic, StagePart
<1>4. /\ Memory = 0 .. pmm!TotalPages[memory_map] - 1 /\ pmm!TotalPages[memory_map] \in Nat
      /\ DOMAIN tables \subseteq Memory
  BY <1>1, MemoryIsMappable DEF Basic, TreePart, Early
<1>5. /\ \A g \in Memory : g < a => g \in bitmap
      /\ (\A h \in DOMAIN tables : h < buffer) \/ a > pmm!TotalPages[memory_map]
  BY <1>1 DEF MovedPart
<1> HIDE DEF f
<1>6. f >= a
  BY <1>2, <1>3, <1>5
<1>7. a \in Memory => a \in bitmap'
  BY <1>2, <1>3, <1>6
<1>8. a \notin DOMAIN tables
  BY <1>3, <1>4, <1>5
<1> QED
  BY <1>2, <1>5, <1>7, <1>8

\* The addresses moved stay those of frames taken, and of no table.
LEMMA MovedKept ==
  ASSUME Basic, MemoryLasts, [PciNext]_everyVar, FirstFitPart, MappedPart, MovedPart
  PROVE  MovedPart'
<1>1. CASE stage = "pmm"
  <2>1. Moved' = Moved /\ Moved = {}
    BY <1>1, MovedStep DEF Moved, Buffered, PciStages, UserStages, NextBufferPage, At
  <2>2. stage' # "buffer"
    <3> SUFFICES ASSUME stage' = "buffer" PROVE FALSE
      OBVIOUS
    <3>1. MapStep => calls # <<>>
      BY DEF MapStep, Descend, NewTable, WriteLeaf
    <3>2. calls = <<>>
      BY <1>1 DEF Basic, CallPart, Early
    <3> QED
      BY <1>1, <3>1, <3>2, IdentitySteps
         DEF FirstBufferPage, NextBufferPage, At, everyVar, vars, bootVars
  <2> QED
    BY <2>1, <2>2 DEF MovedPart
<1>2. CASE stage # "pmm"
  <2>1. /\ Memory' = Memory /\ memory_map' = memory_map /\ bitmap \subseteq bitmap'
    BY <1>2, MemoryStep
  <2>2. ASSUME NEW g \in Moved PROVE (g \in Memory => g \in bitmap') /\ g \notin DOMAIN tables'
    <3>1. (g \in Memory => g \in bitmap) /\ g \notin DOMAIN tables
      BY <2>2 DEF MovedPart
    <3> QED
      BY <2>1, <3>1, TableAdded
  <2>3. ASSUME NextBufferPage
        PROVE  (buffer + i \in Memory => buffer + i \in bitmap') /\ buffer + i \notin DOMAIN tables'
    <3>1. tables' = tables
      BY <2>3 DEF NextBufferPage, JustMaps
    <3> QED
      BY <2>3, <3>1, NextAddress
  <2>4. ASSUME NEW g \in Moved' PROVE (g \in Memory => g \in bitmap') /\ g \notin DOMAIN tables'
    <3>1. g \in Moved \/ (NextBufferPage /\ g = buffer + i)
      BY <2>4, MovedStep, MovedOn
    <3> QED
      BY <2>2, <2>3, <3>1
  <2>5. buffer \in Nat /\ i \in Nat /\ BufferPages \in Nat
    BY PageCounts DEF Basic, StagePart
  <2>6. ASSUME stage' = "buffer"
        PROVE  /\ \A g \in Memory : g < buffer' + i' => g \in bitmap'
               /\ \A n \in DOMAIN calls' : calls'[n].v \in Memory \/ calls'[n].v = buffer' + i' - 1
               /\ (\A f \in DOMAIN tables' : f < buffer') \/ buffer' + i' > pmm!TotalPages[memory_map]
    <3>1. CASE UNCHANGED everyVar
      <4>1. UNCHANGED <<stage, buffer, i, bitmap, calls, tables>>
        BY <3>1 DEF everyVar, vars, pmmVars, tableVars, bootVars
      <4> QED
        BY <2>6, <4>1 DEF MovedPart
    <3>2. CASE FirstBufferPage
      <4> DEFINE f == pmm!RequestedFrame
      <4>1. /\ stage = "graphics" /\ calls = <<>> /\ pmm!RequestPage /\ buffer' = f
            /\ JustMaps(f, f, FALSE) /\ i' = 1 /\ tables' = tables
        BY <3>2 DEF FirstBufferPage, At, JustMaps
      <4>2. /\ f \in Memory /\ f \in Nat /\ f \in VirtualPages /\ f \notin bitmap
            /\ (\A g \in Nat : g < f => g \in bitmap) /\ bitmap' = bitmap \cup {f}
        BY <4>1, Asked
      <4>3. DOMAIN calls' = {1} /\ calls'[1].v = f
        BY <4>1, <4>2, MapsOne
      <4> HIDE DEF f
      <4>4. Memory \subseteq Nat /\ DOMAIN tables \subseteq Memory
        BY <1>2, <4>1, MemoryIsMappable DEF Basic, TreePart, Early
      <4>5. ASSUME NEW h \in DOMAIN tables PROVE h < f
        <5>1. h \in Nat /\ f \notin 0 .. h
          BY <4>2, <4>4 DEF FirstFitPart
        <5> QED
          BY <4>2, <5>1
      <4> QED
        BY <4>1, <4>2, <4>3, <4>4, <4>5
    <3>3. CASE NextBufferPage
      <4> DEFINE f == pmm!RequestedFrame
      <4>1. /\ stage = "buffer" /\ calls = <<>> /\ i < BufferPages /\ pmm!RequestPage /\ buffer' = buffer
            /\ JustMaps(buffer + i, f, FALSE) /\ i' = i + 1 /\ tables' = tables
        BY <3>3 DEF NextBufferPage, At, Again, JustMaps
      <4>2. f \in Nat /\ buffer + i \in VirtualPages
        BY <4>1, Asked, BufferExists DEF Basic
      <4>3. DOMAIN calls' = {1} /\ calls'[1].v = buffer + i
        BY <4>1, <4>2, MapsOne
      <4>4. Memory \subseteq Nat /\ pmm!TotalPages[memory_map] \in Nat
        BY <1>2, MemoryIsMappable DEF Basic
      <4>5. \A g \in Memory : g < buffer + (i + 1) => g \in bitmap'
        BY <2>5, <3>3, <4>4, NextAddress
      <4>6. (\A h \in DOMAIN tables : h < buffer) \/ buffer + i > pmm!TotalPages[memory_map]
        BY <4>1 DEF MovedPart
      <4>7. buffer + i > pmm!TotalPages[memory_map] => buffer + (i + 1) > pmm!TotalPages[memory_map]
        BY <2>5, <4>4
      <4>8. buffer + i = buffer + (i + 1) - 1
        BY <2>5
      <4> QED
        BY <4>1, <4>3, <4>5, <4>6, <4>7, <4>8
    <3>4. CASE MapStep /\ UNCHANGED bootVars
      <4>1. stage = "buffer" /\ buffer' = buffer /\ i' = i
        BY <2>6, <3>4 DEF bootVars
      <4>2. \A g \in Memory : g < buffer + i => g \in bitmap'
        BY <2>1, <4>1 DEF MovedPart
      <4>3. ASSUME NEW n \in DOMAIN calls'
            PROVE  calls'[n].v \in Memory \/ calls'[n].v = buffer + i - 1
        BY <3>4, <4>1, <4>3, MapStepCalls DEF MovedPart
      <4>4. CASE NewTable
        BY <4>1, <4>2, <4>3, <4>4, TableForAddress
      <4>5. CASE ~NewTable
        <5>1. DOMAIN tables' \subseteq DOMAIN tables
          BY <4>1, <4>5, TableAdded DEF RootTable, At
        <5>2. (\A h \in DOMAIN tables : h < buffer) \/ buffer + i > pmm!TotalPages[memory_map]
          BY <4>1 DEF MovedPart
        <5> QED
          BY <4>1, <4>2, <4>3, <5>1, <5>2
      <4> QED
        BY <4>4, <4>5
    <3> QED
      BY <2>6, <3>1, <3>2, <3>3, <3>4, IdentitySteps
  <2> QED
    BY <2>1, <2>4, <2>6 DEF MovedPart
<1> QED
  BY <1>1, <1>2

\* Once the tables are the CPU's, what is in memory and was not moved is where it
\* seems to be: every table, and every page that is requested.
LEMMA Landing ==
  ASSUME Basic, MappedPart, MovedPart
  PROVE  /\ cr3 => \A f \in Memory \ Moved : Translate(f) = f
         /\ \A f \in Memory \ Moved : Lands(f)
         /\ stage \notin Early => DOMAIN tables \subseteq Memory \ Moved
         /\ \A f \in Memory : f \notin bitmap => f \notin Moved
<1>1. ASSUME cr3, NEW f \in Memory \ Moved PROVE Translate(f) = f
  <2>1. stage \notin Early \cup {"identity"}
    BY <1>1 DEF Basic, StagePart, NoCr3
  <2>2. On(tables, pml_4, f, 3).present /\ On(tables, pml_4, f, 3).frame = f
    BY <1>1, <2>1 DEF MappedPart, LastEntry
  <2> QED
    BY <2>2, TranslateIsLeaf
<1>2. \A f \in Memory \ Moved : Lands(f)
  BY <1>1 DEF Lands
<1>3. stage \notin Early => DOMAIN tables \subseteq Memory \ Moved
  BY DEF MovedPart, Basic, TreePart
<1> QED
  BY <1>1, <1>2, <1>3 DEF MovedPart

\* donate_to_userspace follows the tables of the page.
LEMMA PathNodes ==
  ASSUME NEW v, NEW k \in Levels
  PROVE  (IF k = 0 THEN pml_4 ELSE Path(v)[k].frame) = Node(tables, pml_4, v, k)
<1>1. CASE k = 0
  BY <1>1 DEF Node
<1>2. CASE k # 0
  <2>1. k - 1 + 1 = k /\ k \in Nat
    BY DEF Levels
  <2>2. Path(v)[k] = On(tables, pml_4, v, k - 1)
    BY <2>1, PathIsWay DEF On
  <2> QED
    BY <1>2, <2>2 DEF Node
<1> QED
  BY <1>1, <1>2

\* donate_to_userspace finds the tables of a page of memory.
LEMMA DonateLands ==
  ASSUME Basic, MappedPart, MovedPart, ~astray, stage \notin Early \cup {"identity"},
         NEW v \in Memory, DonateToUserspace(v)
  PROVE  ~astray'
<1> DEFINE at(k) == IF k = 0 THEN pml_4 ELSE Path(v)[k].frame
<1>1. v \in Nat /\ Entries \in Nat \ {0} /\ Tree(tables, pml_4) /\ stage \notin Early
  BY MemoryIsMappable, PagingAssumption DEF Basic, TreePart, Early
<1>2. Reaches(tables, pml_4, v, 3)
  <2>1. On(tables, pml_4, v, 3).present
    BY DEF MappedPart, LastEntry
  <2> QED
    BY <2>1, PresentIsReached DEF Levels
<1>3. ASSUME NEW k \in Levels PROVE at(k) \in DOMAIN tables /\ Lands(at(k))
  <2>1. at(k) = Node(tables, pml_4, v, k)
    BY <1>3, PathNodes
  <2>2. Node(tables, pml_4, v, k) \in Level(tables, pml_4, k)
    BY <1>1, <1>2, <1>3, ReachesAll, NodeInLevel
  <2>3. Node(tables, pml_4, v, k) \in DOMAIN tables
    BY <1>1, <1>3, <2>2 DEF Tree, Covered
  <2> HIDE DEF at
  <2> QED
    BY <1>1, <2>1, <2>3, Landing
<1>4. astray' = (astray \/ \E k \in Levels : at(k) \notin DOMAIN tables \/ ~Lands(at(k)))
  BY DEF DonateToUserspace
<1> HIDE DEF at
<1> QED
  BY <1>3, <1>4

\* No table is accessed at an address that is not its own.
LEMMA NeverAstray ==
  ASSUME Basic, MemoryLasts, [PciNext]_everyVar, MappedPart, MovedPart, ~astray
  PROVE  ~astray'
<1>1. CASE UNCHANGED everyVar
  BY <1>1 DEF everyVar, vars, tableVars
<1>2. CASE Walks
  BY <1>2, PciStage
<1>8. CASE ConfigurePorts
  BY <1>8, PortStep
<1>3. CASE MapStep
  <2>1. calls # <<>>
    BY <1>3 DEF MapStep, Descend, NewTable, WriteLeaf
  <2>2. Top.at \in DOMAIN tables /\ stage \notin Early
    BY <2>1, TopFacts DEF Basic
  <2>3. Lands(Top.at)
    BY <2>2, Landing
  <2>4. CASE NewTable
    <3>1. pmm!RequestedFrame \in Memory /\ pmm!RequestedFrame \notin bitmap
      BY <2>4, NewTableFrame
    <3>2. Lands(pmm!RequestedFrame)
      BY <3>1, Landing
    <3> QED
      BY <2>3, <2>4, <3>2 DEF NewTable
  <2>5. CASE Descend \/ WriteLeaf
    BY <2>3, <2>5 DEF Descend, WriteLeaf
  <2> QED
    BY <1>3, <2>4, <2>5 DEF MapStep
<1>4. CASE DonateEntry
  <2>1. stage = "entry" /\ DonateToUserspace(UserEntry)
    BY <1>4 DEF DonateEntry, At
  <2>2. UserEntry \in Memory
    <3>1. memory_map \in MemoryMaps
      BY <2>1 DEF Basic, PmmPart
    <3> QED
      BY <3>1, BootAssumption DEF Memory
  <2> QED
    BY <2>1, <2>2, DonateLands DEF Early
<1>5. CASE UserStack \/ SysAllocatePage
  <2>1. /\ stage \in UserStages /\ (stage = "user" => i < MaxUserPages)
        /\ pmm!RequestPage /\ DonateToUserspace(pmm!RequestedFrame)
    BY <1>5 DEF UserStack, SysAllocatePage, RequestAndDonate, At, UserStages
  <2>2. stage # "pmm" /\ stage \notin Early \cup {"identity"}
    BY <2>1 DEF UserStages, Early
  <2>3. pmm!RequestedFrame \in Memory
    BY <2>1, <2>2, Asked
  <2> QED
    BY <2>1, <2>2, <2>3, DonateLands
<1>6. CASE \/ ConfigurePmm \/ RootTable \/ LoadCr3 \/ RequestStack \/ NoBuffer \/ TextBuffer
           \/ LoopEnds("identity", pmm!TotalPages[memory_map], "framebuffer")
           \/ LoopEnds("framebuffer", FramebufferPages, "cr3")
           \/ LoopEnds("heap", HeapLoop, "tss")
           \/ LoopEnds("tss", 6, "graphics") \/ LoopEnds("buffer", BufferPages, "text")
  BY <1>6 DEF ConfigurePmm, RootTable, LoadCr3, RequestStack, NoBuffer, TextBuffer, LoopEnds, NoTables
<1>7. CASE \/ IdentityMap \/ MapFramebuffer \/ MapHeap \/ MapStack \/ FirstBufferPage \/ NextBufferPage
  BY <1>7 DEF IdentityMap, MapFramebuffer, MapHeap, MapStack, FirstBufferPage, NextBufferPage, JustMaps
<1> QED
  BY <1>1, <1>2, <1>3, <1>4, <1>5, <1>6, <1>7, <1>8 DEF PciNext, Walks, Next

\* At first there is nothing to reach.
LEMMA ReachableInit == PciInit => Reachable
<1> SUFFICES ASSUME PciInit PROVE Reachable
  OBVIOUS
<1>1. tables = <<>> /\ calls = <<>> /\ stage = "pmm" /\ astray = FALSE
  BY DEF PciInit, Init
<1>2. Moved = {}
  BY <1>1 DEF Moved, Buffered, PciStages, UserStages
<1> QED
  BY <1>1, <1>2 DEF Reachable, FirstFitPart, IdentityPart, MappedPart, MovedPart, Early

\* The invariant of reachable tables is inductive, with Basic.
LEMMA ReachableNext ==
  Basic /\ MemoryLasts /\ Reachable /\ [PciNext]_everyVar => Reachable'
BY FirstFitKept, IdentityKept, MappedKept, MovedKept, NeverAstray DEF Reachable

\* What it says.
LEMMA ReachableTables == Basic /\ Reachable => TablesReachable
<1> SUFFICES ASSUME Basic, Reachable PROVE TablesReachable
  OBVIOUS
<1>1. cr3 => stage \notin Early
  BY DEF Basic, StagePart, NoCr3
<1>2. cr3 => \A f \in DOMAIN tables : Translate(f) = f
  BY <1>1, Landing DEF Reachable
<1> QED
  BY <1>2 DEF Reachable, TablesReachable

\* Both hold for ever.
LEMMA ReachableAlways == PciSpec /\ []MemoryLasts => [](Basic /\ Reachable)
BY BasicAlways, ReachableInit, ReachableNext, PTL DEF PciSpec

\* Once cr3 is loaded the kernel reaches every page table at its own address, and
\* never reads or writes one elsewhere: although request_pages maps addresses to
\* whatever frames it gets, and the tables are allocated as they are needed.
THEOREM TablesStayReachable == PciSpec /\ []MemoryLasts => []TablesReachable
BY ReachableAlways, ReachableTables, PTL

-----------------------------------------------------------------------------
(* What request_pages moves.                                               *)

\* Pages are donated near the end of the boot, when no map_memory call is left.
LEMMA DonatedStep ==
  ASSUME Basic, [PciNext]_everyVar
  PROVE  \/ DonateEntry \/ UserStack \/ SysAllocatePage \/ UNCHANGED everyVar
         \/ /\ donated' = donated /\ stage \notin UserStages
            /\ UNCHANGED <<tables, pml_4>> \/ RootTable \/ NewTable \/ WriteLeaf
<1>1. CASE MapStep /\ UNCHANGED bootVars
  <2>1. calls # <<>>
    BY <1>1 DEF MapStep, Descend, NewTable, WriteLeaf
  <2>2. stage \notin UserStages
    BY <2>1 DEF Basic, CallPart
  <2> QED
    BY <1>1, <2>2 DEF MapStep, Descend, bootVars
<1>2. CASE Walks
  BY <1>2, PciStage DEF PciStages, UserStages
<1>6. CASE ConfigurePorts
  BY <1>6 DEF ConfigurePorts, PciAt, At, NoTables, UserStages
<1>3. CASE \/ ConfigurePmm \/ LoadCr3 \/ RequestStack \/ NoBuffer \/ TextBuffer
           \/ LoopEnds("identity", pmm!TotalPages[memory_map], "framebuffer")
           \/ LoopEnds("framebuffer", FramebufferPages, "cr3")
           \/ LoopEnds("heap", HeapLoop, "tss")
           \/ LoopEnds("tss", 6, "graphics") \/ LoopEnds("buffer", BufferPages, "text")
  <2>1. UNCHANGED <<tables, pml_4, donated>>
    BY <1>3 DEF ConfigurePmm, LoadCr3, RequestStack, NoBuffer, TextBuffer, LoopEnds, NoTables
  <2>2. stage \notin UserStages
    BY <1>3 DEF ConfigurePmm, LoadCr3, RequestStack, NoBuffer, TextBuffer, LoopEnds, At, UserStages
  <2> QED
    BY <2>1, <2>2
<1>4. CASE \/ IdentityMap \/ MapFramebuffer \/ MapHeap \/ MapStack \/ FirstBufferPage \/ NextBufferPage
  <2>1. UNCHANGED <<tables, pml_4, donated>>
    BY <1>4 DEF IdentityMap, MapFramebuffer, MapHeap, MapStack, FirstBufferPage, NextBufferPage, JustMaps
  <2>2. stage \notin UserStages
    BY <1>4 DEF IdentityMap, MapFramebuffer, MapHeap, MapStack, FirstBufferPage, NextBufferPage, At, UserStages
  <2> QED
    BY <2>1, <2>2
<1>5. CASE RootTable
  <2>1. donated' = donated /\ stage \notin UserStages
    BY <1>5 DEF RootTable, At, UserStages
  <2> QED
    BY <1>5, <2>1
<1> QED
  BY <1>1, <1>2, <1>3, <1>4, <1>5, <1>6 DEF PciNext, Walks, Next

\* The graphics buffer begins where its first page was requested, and its size stays.
LEMMA BufferStep ==
  ASSUME Basic, MemoryLasts, [PciNext]_everyVar
  PROVE  /\ buffer' = buffer \/ FirstBufferPage
         /\ fb_size' = fb_size
<1>1. CASE UNCHANGED everyVar \/ (MapStep /\ UNCHANGED bootVars)
  BY <1>1 DEF everyVar, vars, bootVars
<1>2. CASE Walks
  BY <1>2, PciStage
<1>3. CASE ConfigurePorts
  BY <1>3, PortStep
<1>4. CASE \/ ConfigurePmm \/ RootTable \/ IdentityMap \/ MapFramebuffer \/ LoadCr3 \/ MapHeap
           \/ RequestStack \/ MapStack \/ NoBuffer \/ NextBufferPage
  BY <1>4 DEF ConfigurePmm, RootTable, IdentityMap, MapFramebuffer, LoadCr3, MapHeap, RequestStack,
              MapStack, NoBuffer, NextBufferPage
<1>6. CASE FirstBufferPage
  BY <1>6 DEF FirstBufferPage
<1>5. CASE \/ TextBuffer \/ DonateEntry \/ UserStack \/ SysAllocatePage
           \/ LoopEnds("identity", pmm!TotalPages[memory_map], "framebuffer")
           \/ LoopEnds("framebuffer", FramebufferPages, "cr3")
           \/ LoopEnds("heap", HeapLoop, "tss")
           \/ LoopEnds("tss", 6, "graphics") \/ LoopEnds("buffer", BufferPages, "text")
  BY <1>5 DEF TextBuffer, DonateEntry, UserStack, SysAllocatePage, RequestAndDonate, LoopEnds
<1> QED
  BY <1>1, <1>2, <1>3, <1>4, <1>5, <1>6 DEF PciNext, Walks, Next

\* A frame that is the buffer's alone: handed out, no table, not donated, not the boot's.
BufferFrame(f) ==
  /\ f \in Memory \cap bitmap \cap held
  /\ f \notin DOMAIN tables \cup donated \cup pmm!BootOwned(memory_map)

\* Where the pages of memory that are moved get to, once their calls are done.
BufferPart ==
  /\ stage \notin Early \cup {"identity"} =>
       \A v \in Memory \cap Moved : LastEntry(v).frame = v \/ BufferFrame(LastEntry(v).frame)
  /\ \A n \in DOMAIN calls :
       calls[n].v \in Memory \cap Moved => calls[n].p = calls[n].v \/ BufferFrame(calls[n].p)
  /\ buffer = 0 \/ buffer \in bitmap
  /\ stage \notin UserStages => donated = {}

\* Before user mode has a page it has none.
LEMMA NoneDonated ==
  ASSUME Basic, [PciNext]_everyVar, stage \notin UserStages => donated = {}
  PROVE  stage' \notin UserStages => donated' = {}
<1> SUFFICES ASSUME stage' \notin UserStages PROVE donated' = {}
  OBVIOUS
<1>1. CASE DonateEntry \/ UserStack \/ SysAllocatePage
  BY <1>1 DEF DonateEntry, UserStack, SysAllocatePage, At, Goto, Again, UserStages
<1>2. CASE UNCHANGED everyVar
  BY <1>2 DEF everyVar, vars, bootVars
<1>3. CASE donated' = donated /\ stage \notin UserStages
  BY <1>3
<1> QED
  BY <1>1, <1>2, <1>3, DonatedStep

\* Every address that is moved follows the first one of the buffer.
LEMMA MovedInRun ==
  ASSUME Basic
  PROVE  Moved \subseteq BufferRun
<1>1. StagePart /\ BufferPages \in Nat \ {0} /\ i \in Nat /\ buffer \in Nat
  BY PageCounts DEF Basic, StagePart
<1>2. CASE stage = "buffer"
  <2>1. i <= BufferPages /\ buffer # 0
    BY <1>1, <1>2 DEF StagePart
  <2> QED
    BY <1>1, <1>2, <2>1 DEF Moved, BufferRun
<1>3. CASE stage # "buffer" /\ stage \in Buffered
  <2>1. BufferPages > 1 => buffer # 0
    BY <1>1, <1>3 DEF StagePart
  <2>2. BufferPages = 1 => buffer + 1 .. buffer + BufferPages - 1 = {}
    BY <1>1
  <2> QED
    BY <1>1, <1>3, <2>1, <2>2 DEF Moved, BufferRun
<1>4. CASE stage # "buffer" /\ stage \notin Buffered
  BY <1>4 DEF Moved
<1> QED
  BY <1>2, <1>3, <1>4

\* A frame of the buffer stays one.
LEMMA BufferFrameStays ==
  ASSUME Basic, MemoryLasts, [PciNext]_everyVar, stage # "pmm", NEW f, BufferFrame(f)
  PROVE  BufferFrame(f)'
<1>1. /\ Memory' = Memory /\ memory_map' = memory_map
      /\ held \subseteq held' /\ bitmap \subseteq bitmap'
  BY MemoryStep
<1>2. f \notin DOMAIN tables'
  BY TableAdded DEF BufferFrame
<1>3. f \notin donated'
  <2>1. CASE UNCHANGED everyVar
    BY <2>1 DEF everyVar, vars, bootVars, BufferFrame
  <2>2. CASE DonateEntry
    <3>1. donated' = donated \cup {UserEntry} /\ stage = "entry"
      BY <2>2 DEF DonateEntry, At
    <3>2. UserEntry \in pmm!BootOwned(memory_map)
      BY <3>1, BootAssumption DEF Basic, PmmPart, pmm!BootOwned, pmm!BootLocked, pmm!BootReserved
    <3> QED
      BY <3>1, <3>2 DEF BufferFrame
  <2>3. CASE UserStack \/ SysAllocatePage
    <3>1. /\ stage \in UserStages /\ (stage = "user" => i < MaxUserPages) /\ pmm!RequestPage
          /\ donated' = donated \cup {pmm!RequestedFrame}
      BY <2>3 DEF UserStack, SysAllocatePage, RequestAndDonate, At, UserStages
    <3>2. pmm!RequestedFrame \notin bitmap
      BY <3>1, Asked
    <3> QED
      BY <3>1, <3>2 DEF BufferFrame
  <2>4. CASE donated' = donated
    BY <2>4 DEF BufferFrame
  <2> QED
    BY <2>1, <2>2, <2>3, <2>4, DonatedStep
<1> QED
  BY <1>1, <1>2, <1>3 DEF BufferFrame

\* What request_pages maps next is a frame that is the buffer's alone.
LEMMA NextBufferFrame ==
  ASSUME Basic, MemoryLasts, BufferPart, NextBufferPage
  PROVE  /\ DOMAIN calls' = {1} /\ calls'[1].v = buffer + i
         /\ \E f : calls'[1].p = f /\ BufferFrame(f)'
         /\ UNCHANGED <<tables, pml_4, buffer>> /\ stage = "buffer"
<1> DEFINE f == pmm!RequestedFrame
           v == buffer + i
<1>1. /\ stage = "buffer" /\ i < BufferPages /\ pmm!RequestPage /\ JustMaps(v, f, FALSE)
      /\ calls = <<>> /\ UNCHANGED <<tables, pml_4, buffer, donated>>
  BY DEF NextBufferPage, At, JustMaps
<1>2. /\ f \in Memory /\ f \in Nat /\ f \notin DOMAIN tables /\ f \notin pmm!BootOwned(memory_map)
      /\ bitmap' = bitmap \cup {f} /\ held' = held \cup {f} /\ Memory' = Memory
      /\ memory_map' = memory_map
  BY <1>1, Asked
<1>3. v \in VirtualPages
  BY <1>1, BufferExists DEF Basic
<1>4. f \notin donated
  BY <1>1 DEF BufferPart, UserStages
<1> HIDE DEF f, v
<1>5. DOMAIN calls' = {1} /\ calls'[1].v = v /\ calls'[1].p = f
  BY <1>1, <1>2, <1>3, MapsOne
<1>6. \A g : g = f => BufferFrame(g)'
  BY <1>1, <1>2, <1>4 DEF BufferFrame
<1> QED
  BY <1>1, <1>5, <1>6 DEF v

\* A step adds no other address than the one that request_pages maps.
LEMMA BufferKept ==
  ASSUME Basic, MemoryLasts, [PciNext]_everyVar, Reachable, BufferPart
  PROVE  BufferPart'
<1>1. CASE stage \in Early \cup {"identity"}
  <2>1. Moved = {} /\ ~NextBufferPage
    BY <1>1 DEF Moved, Buffered, PciStages, UserStages, Early, NextBufferPage, At
  <2>2. Moved' = {}
    BY <2>1, MovedStep
  <2>3. buffer' = buffer /\ buffer = 0
    BY <1>1, BufferStep DEF FirstBufferPage, At, Early, NoCr3, Basic, StagePart
  <2> QED
    BY <2>2, <2>3, NoneDonated DEF BufferPart
<1>2. CASE stage \notin Early \cup {"identity"}
  <2>1. stage # "pmm" /\ stage \notin Early
    BY <1>2 DEF Early
  <2>2. Memory' = Memory /\ bitmap \subseteq bitmap' /\ memory_map' = memory_map
    BY <2>1, MemoryStep
  <2>3. \A f : BufferFrame(f) => BufferFrame(f)'
    BY <2>1, BufferFrameStays
  <2>4. Memory \subseteq VirtualPages /\ Memory = 0 .. pmm!TotalPages[memory_map] - 1
        /\ pmm!TotalPages[memory_map] \in Nat /\ memory_map \in MemoryMaps
    BY <2>1, MemoryIsMappable DEF Basic
  <2>5. ASSUME NEW v \in Memory \cap Moved'
        PROVE  LastEntry(v).frame' = v \/ \E f : LastEntry(v).frame' = f /\ BufferFrame(f)'
    <3>1. LastEntry(v).frame = v \/ BufferFrame(LastEntry(v).frame)
      <4>1. CASE v \in Moved
        BY <1>2, <2>5, <4>1 DEF BufferPart
      <4>2. CASE v \notin Moved
        BY <1>2, <2>5, <4>2 DEF Reachable, MappedPart
      <4> QED
        BY <4>1, <4>2
    <3>2. CASE SameLeaf(v)
      <4>1. LastEntry(v).frame' = LastEntry(v).frame
        BY <2>5, <3>1, <3>2, <1>2 DEF SameLeaf, LastEntry, Reachable, MappedPart
      <4> QED
        BY <2>3, <3>1, <4>1
    <3>3. CASE /\ WriteLeaf /\ Top.v = v
               /\ On(tables', pml_4', v, 3).present /\ On(tables', pml_4', v, 3).frame = Top.p
      <4>1. Len(calls) \in DOMAIN calls /\ Top = calls[Len(calls)]
        BY <3>3, LeafAfterWrite
      <4>2. v \in Moved
        <5>1. NextBufferPage => calls = <<>>
          BY DEF NextBufferPage, At
        <5>2. calls # <<>>
          BY <4>1
        <5> QED
          BY <2>5, <5>1, <5>2, MovedStep
      <4>3. Top.p = v \/ BufferFrame(Top.p)
        BY <2>5, <3>3, <4>1, <4>2 DEF BufferPart
      <4>4. LastEntry(v).frame' = Top.p
        BY <3>3 DEF LastEntry
      <4> QED
        BY <2>3, <4>3, <4>4
    <3> QED
      BY <2>1, <2>4, <2>5, <3>2, <3>3, LeafStep
  <2>6. ASSUME NEW n \in DOMAIN calls', calls'[n].v \in Memory \cap Moved'
        PROVE  calls'[n].p = calls'[n].v \/ \E f : calls'[n].p = f /\ BufferFrame(f)'
    <3>1. CASE \E m \in DOMAIN calls : calls'[n].v = calls[m].v /\ calls'[n].p = calls[m].p
      <4>1. PICK m \in DOMAIN calls : calls'[n].v = calls[m].v /\ calls'[n].p = calls[m].p
        BY <3>1
      <4>2. calls # <<>> /\ ~NextBufferPage
        <5>1. NextBufferPage => calls = <<>>
          BY DEF NextBufferPage, At
        <5>2. calls # <<>>
          BY <4>1
        <5> QED
          BY <5>1, <5>2
      <4>3. calls[m].v \in Memory \cap Moved
        BY <2>6, <4>1, <4>2, MovedStep
      <4> QED
        BY <2>3, <4>1, <4>3 DEF BufferPart
    <3>2. CASE calls'[n].v = HeapPage
      <4>1. HeapPage \in Nat /\ pmm!TotalPages[memory_map] <= HeapPage
        BY <2>4, BootAssumption DEF VirtualPages
      <4> QED
        BY <2>4, <2>6, <3>2, <4>1
    <3>3. CASE NextBufferPage
      BY <2>6, <3>3, NextBufferFrame
    <3> QED
      BY <2>1, <2>6, <3>1, <3>2, <3>3, CallsStep
  <2>7. buffer' = 0 \/ buffer' \in bitmap'
    <3>1. CASE FirstBufferPage
      <4>1. stage = "graphics" /\ pmm!RequestPage /\ buffer' = pmm!RequestedFrame
        BY <3>1 DEF FirstBufferPage, At
      <4> QED
        BY <4>1, Asked
    <3> QED
      BY <2>2, <3>1, BufferStep DEF BufferPart
  <2>8. stage' \notin UserStages => donated' = {}
    BY NoneDonated DEF BufferPart
  <2> QED
    BY <2>2, <2>5, <2>6, <2>7, <2>8 DEF BufferPart, BufferFrame
<1> QED
  BY <1>1, <1>2

\* Before the boot nothing is moved.
LEMMA BufferInit == PciInit => BufferPart
BY DEF PciInit, Init, BufferPart, Moved, Buffered, PciStages, UserStages, Early

\* Both hold for ever, with the invariant of reachable tables.
LEMMA BufferAlways == PciSpec /\ []MemoryLasts => [](Basic /\ Reachable /\ BufferPart)
<1>1. Basic /\ MemoryLasts /\ Reachable /\ BufferPart /\ [PciNext]_everyVar => BufferPart'
  BY BufferKept
<1> QED
  BY <1>1, ReachableAlways, BufferInit, PTL DEF PciSpec

\* The end of a walk through the tables of the CPU.
LEMMA BehindMemory ==
  ASSUME Basic, Reachable, BufferPart, cr3, NEW v \in Memory, Translate(v) # v
  PROVE  v \in Moved /\ BufferFrame(Translate(v))
<1>1. stage \notin Early \cup {"identity"} /\ MappedPart /\ MovedPart
  BY DEF Reachable, Basic, StagePart, NoCr3
<1>2. v \in Moved
  BY <1>1, Landing
<1>3. LastEntry(v).present /\ Translate(v) = LastEntry(v).frame
  BY <1>1, TranslateIsLeaf DEF MappedPart, LastEntry
<1> QED
  BY <1>1, <1>2, <1>3 DEF BufferPart

\* The kernel's pages are among memory's.
LEMMA KernelOrBuffer == Basic /\ Reachable /\ BufferPart => KernelLostOnlyToBuffer
<1> SUFFICES ASSUME Basic, Reachable, BufferPart, cr3, NEW f \in pmm!KernelFrames, Translate(f) # f
             PROVE  f \in BufferRun /\ Translate(f) \in held \ (DOMAIN tables \cup donated)
  BY DEF KernelLostOnlyToBuffer
<1>1. memory_map \in MemoryMaps
  BY DEF Basic, StagePart, PmmPart, NoCr3, Early
<1>2. f \in Memory
  BY <1>1, BootAssumption DEF Memory
<1> QED
  BY <1>2, BehindMemory, MovedInRun DEF BufferFrame

\* Wherever the kernel is loaded, each of its pages keeps its address or lies on the
\* run of addresses that request_pages maps for the graphics buffer; what is then
\* mapped there is a page of the buffer, not a page table or one of user mode.
THEOREM KernelLostToBuffer == PciSpec /\ []MemoryLasts => []KernelLostOnlyToBuffer
BY BufferAlways, KernelOrBuffer, PTL

-----------------------------------------------------------------------------
(* What user mode reaches.                                                 *)

\* The user flags are those that donating the pages of S has set.
Marked(t, r, S) ==
  \A f \in DOMAIN t, e \in Places :
    t[f][e].user <=> \E v \in S, k \in Levels : f = Node(t, r, v, k) /\ e = Index(v, k)

\* The pages donated are pages of memory, of no table; but for the page of uentry they
\* are not the boot's, and at their own addresses.
UserPart ==
  /\ stage \notin UserStages => donated = {}
  /\ \A v \in donated : /\ v \in Memory /\ v \notin DOMAIN tables
                        /\ v \in Moved \cup pmm!BootOwned(memory_map) => v = UserEntry
  /\ Marked(tables, pml_4, donated)

\* Before the first page is donated nothing is marked.
LEMMA NothingMarked ==
  ASSUME Basic, MemoryLasts, Marked(tables, pml_4, {}),
         UNCHANGED <<tables, pml_4>> \/ RootTable \/ NewTable \/ WriteLeaf
  PROVE  Marked(tables', pml_4', {})
<1>1. \A f, e : e \in Places /\ f \in DOMAIN tables => ~tables[f][e].user
  BY DEF Marked
<1> SUFFICES ASSUME NEW f \in DOMAIN tables', NEW e \in Places PROVE ~tables'[f][e].user
  BY DEF Marked
<1>2. CASE UNCHANGED tables
  BY <1>1, <1>2
<1>3. CASE RootTable
  <2>1. tables' = [g \in {pmm!RequestedFrame} |-> EmptyTable]
    BY <1>3 DEF RootTable
  <2> QED
    BY <2>1 DEF EmptyTable, Places, Absent
<1>4. \A g, d : d \in Places => ~Ent(tables, g, d).user
  BY <1>1 DEF Ent, Absent
<1>5. CASE NewTable
  <2> DEFINE h == pmm!RequestedFrame
  <2>1. /\ Grown(tables, tables', pml_4, Top.level, Top.at, Slot, h)
        /\ h \in Nat /\ h \notin DOMAIN tables
    BY <1>5, NewTableFrame
  <2>2. Ent(tables', Top.at, Slot).user = Ent(tables, Top.at, Slot).user
    BY <1>5, <2>1, NewTableGrows DEF Basic
  <2> HIDE DEF h
  <2>3. ~Ent(tables', f, e).user
    BY <1>4, <2>1, <2>2 DEF Grown
  <2> QED
    BY <2>3 DEF Ent
<1>6. CASE WriteLeaf
  <2> DEFINE a == Node(tables, pml_4, Top.v, 3)
             s == Index(Top.v, 3)
  <2>1. /\ Top.v \in VirtualPages /\ Reaches(tables, pml_4, Top.v, 3) /\ Tree(tables, pml_4)
        /\ Written(tables, tables', a, s, Leaf) /\ Leaf \in EntryRecords /\ Leaf.user = Found.user
        /\ calls # <<>> /\ Top.level = 3
    BY <1>6, WriteLeafFacts
  <2>2. a \in Level(tables, pml_4, 3) /\ s \in Places
    BY <2>1, PagingAssumption, NodeInLevel, IndexInTable DEF VirtualPages, Levels
  <2>3. Found = Ent(tables, Top.at, Slot) /\ Slot \in Places
    BY <2>1, TopFacts DEF Basic
  <2>4. ~Leaf.user
    BY <1>4, <2>1, <2>3
  <2>5. /\ Ent(tables', a, s) = Leaf
        /\ \A g, d : d \in Places /\ (g # a \/ d # s) => Ent(tables', g, d) = Ent(tables, g, d)
    BY <2>1, <2>2, LeafWritten
  <2> HIDE DEF a, s
  <2>6. ~Ent(tables', f, e).user
    BY <1>4, <2>4, <2>5
  <2> QED
    BY <2>6 DEF Ent
<1> QED
  BY <1>2, <1>3, <1>5, <1>6

\* donate_to_userspace marks the entries of its page, and nothing else.
LEMMA DonateMarks ==
  ASSUME Tree(tables, pml_4), NEW v \in Nat, DonateToUserspace(v), pml_4' = pml_4,
         NEW S, v \in S, S \subseteq Nat, \A w \in S : Reaches(tables, pml_4, w, 3),
         NEW R, S = R \cup {v}, Marked(tables, pml_4, R)
  PROVE  Marked(tables', pml_4', S)
<1>1. Entries \in Nat \ {0}
  BY PagingAssumption
<1>2. FlagsOnly(tables, tables')
  BY DonateFlags
<1>3. SameLinks(tables, tables', pml_4)
  BY <1>1, <1>2, FlagsSet
<1>4. ASSUME NEW w \in S, NEW k \in Levels
      PROVE  Node(tables', pml_4, w, k) = Node(tables, pml_4, w, k)
  <2>1. Reaches(tables, pml_4, w, k)
    BY ReachesAll
  <2> QED
    BY <1>1, <1>3, <2>1, WalksKept
<1> DEFINE at(k) == IF k = 0 THEN pml_4 ELSE Path(v)[k].frame
           onPath(f, e) == \E k \in Levels : f = at(k) /\ e = Index(v, k)
<1>5. tables' = [f \in DOMAIN tables |-> [e \in 0 .. Entries - 1 |->
                   IF onPath(f, e) THEN [tables[f][e] EXCEPT !.user = TRUE] ELSE tables[f][e]]]
  BY DEF DonateToUserspace
<1>6. \A f, e : onPath(f, e) <=> \E k \in Levels : f = Node(tables, pml_4, v, k) /\ e = Index(v, k)
  BY PathNodes
<1> HIDE DEF onPath
<1> SUFFICES ASSUME NEW f \in DOMAIN tables', NEW e \in Places
             PROVE  tables'[f][e].user <=>
                      \E w \in S, k \in Levels : f = Node(tables, pml_4, w, k) /\ e = Index(w, k)
  BY <1>4 DEF Marked
<1>7. f \in DOMAIN tables /\ tables[f][e] \in EntryRecords
  BY <1>5 DEF Tree, Typed
<1>8. tables'[f][e] = IF onPath(f, e) THEN [tables[f][e] EXCEPT !.user = TRUE] ELSE tables[f][e]
  BY <1>5, <1>7 DEF Places
<1>9. tables'[f][e].user <=> onPath(f, e) \/ tables[f][e].user
  BY <1>7, <1>8 DEF EntryRecords
<1>10. tables[f][e].user <=>
         \E w \in R, k \in Levels : f = Node(tables, pml_4, w, k) /\ e = Index(w, k)
  BY <1>7 DEF Marked
<1> QED
  BY <1>6, <1>9, <1>10

\* One more page is donated.
LEMMA OneMoreDonated ==
  ASSUME Basic, MemoryLasts, [PciNext]_everyVar, MappedPart, MovedPart, UserPart,
         stage \notin Early \cup {"identity", "buffer"}, pml_4' = pml_4, stage' \in UserStages,
         NEW v \in Memory, v \notin DOMAIN tables,
         v \in Moved \cup pmm!BootOwned(memory_map) => v = UserEntry,
         DonateToUserspace(v), donated' = donated \cup {v}
  PROVE  UserPart'
<1>1. PmmPart /\ stage # "pmm" /\ Tree(tables, pml_4)
  BY DEF Basic, TreePart, Early
<1>2. Memory' = Memory /\ memory_map' = memory_map
  BY <1>1, MemoryStep
<1>3. Moved' = Moved
  BY MovedStep DEF NextBufferPage, At
<1>4. DOMAIN tables' = DOMAIN tables
  BY DEF DonateToUserspace
<1>5. Memory \subseteq Nat
  BY <1>1, MemoryIsMappable
<1> DEFINE S == donated \cup {v}
<1>6. S \subseteq Memory /\ S \cap DOMAIN tables = {}
      /\ S \cap (Moved \cup pmm!BootOwned(memory_map)) \subseteq {UserEntry}
  BY DEF UserPart
<1>7. ASSUME NEW w \in S PROVE Reaches(tables, pml_4, w, 3)
  <2>1. On(tables, pml_4, w, 3).present
    BY <1>6 DEF MappedPart, LastEntry
  <2> QED
    BY <2>1, PresentIsReached DEF Levels
<1>8. v \in S /\ S \subseteq Nat /\ v \in Nat
  BY <1>5, <1>6
<1>9. S = donated \cup {v} /\ Marked(tables, pml_4, donated)
  BY DEF UserPart
<1> HIDE DEF S
<1>10. Marked(tables', pml_4', S)
  BY <1>1, <1>7, <1>8, <1>9, DonateMarks
<1>11. donated' = S
  BY <1>9
<1> QED
  BY <1>2, <1>3, <1>4, <1>6, <1>10, <1>11 DEF UserPart

\* The pages donated stay what they are.
LEMMA UserKept ==
  ASSUME Basic, MemoryLasts, [PciNext]_everyVar, Reachable, UserPart
  PROVE  UserPart'
<1>1. MappedPart /\ MovedPart
  BY DEF Reachable
<1>2. CASE UNCHANGED everyVar
  <2>1. UNCHANGED <<stage, i, fb_size, buffer, donated, tables, pml_4, memory_map>>
    BY <1>2 DEF everyVar, vars, pmmVars, tableVars, bootVars
  <2>2. Moved' = Moved /\ Memory' = Memory
    BY <2>1 DEF Moved, Memory, BufferPages
  <2> QED
    BY <2>1, <2>2 DEF UserPart
<1>3. CASE DonateEntry
  <2>1. /\ stage = "entry" /\ stage' = "stack" /\ pml_4' = pml_4
        /\ DonateToUserspace(UserEntry) /\ donated' = donated \cup {UserEntry}
    BY <1>3 DEF DonateEntry, At, Goto
  <2>2. memory_map \in MemoryMaps /\ UserEntry \in pmm!KernelFrames
    BY <2>1, BootAssumption DEF Basic, PmmPart
  <2>3. UserEntry \in Memory
    BY <2>2, BootAssumption DEF Memory
  <2>4. UserEntry \in pmm!BootOwned(memory_map)
    BY <2>2 DEF pmm!BootOwned, pmm!BootLocked, pmm!BootReserved
  <2>5. UserEntry \notin DOMAIN tables
    BY <2>1, <2>4 DEF Basic, TreePart, Early
  <2> QED
    BY <1>1, <2>1, <2>3, <2>5, OneMoreDonated DEF Early, UserStages
<1>4. CASE UserStack \/ SysAllocatePage
  <2> DEFINE f == pmm!RequestedFrame
  <2>1. /\ stage \in UserStages /\ stage' \in UserStages /\ pml_4' = pml_4
        /\ (stage = "user" => i < MaxUserPages) /\ pmm!RequestPage
        /\ DonateToUserspace(f) /\ donated' = donated \cup {f}
    BY <1>4 DEF UserStack, SysAllocatePage, RequestAndDonate, At, Goto, Again, UserStages
  <2>2. stage # "pmm" /\ stage \notin Early \cup {"identity", "buffer"}
    BY <2>1 DEF UserStages, Early
  <2>3. f \in Memory /\ f \notin bitmap /\ f \notin pmm!BootOwned(memory_map) /\ f \notin DOMAIN tables
    BY <2>1, <2>2, Asked
  <2>4. f \notin Moved
    BY <2>3 DEF MovedPart, Reachable
  <2> HIDE DEF f
  <2> QED
    BY <1>1, <2>1, <2>2, <2>3, <2>4, OneMoreDonated
<1>5. CASE /\ donated' = donated /\ stage \notin UserStages
           /\ UNCHANGED <<tables, pml_4>> \/ RootTable \/ NewTable \/ WriteLeaf
  <2>1. donated = {} /\ donated' = {}
    BY <1>5 DEF UserPart
  <2>2. Marked(tables', pml_4', {})
    BY <1>5, <2>1, NothingMarked DEF UserPart
  <2> QED
    BY <2>1, <2>2 DEF UserPart
<1> QED
  BY <1>2, <1>3, <1>4, <1>5, DonatedStep

\* Before the boot user mode has nothing.
LEMMA UserInit == PciInit => UserPart
BY DEF PciInit, Init, UserPart, Marked

PP == INSTANCE PmmProofs

\* Whatever holds bytes of something is the boot's.
LEMMA PreciousIsBootOwned ==
  ASSUME NEW mm \in MemoryMaps
  PROVE  pmm!MemoryFrames(mm) \cap pmm!Precious[mm] \subseteq pmm!BootOwned(mm)
<1> USE DEF PP!Firmware, pmm!Firmware, PP!TotalBytes, pmm!TotalBytes, PP!Conventional,
            pmm!Conventional, PP!FrameOf, pmm!FrameOf, PP!BitmapBase, pmm!BitmapBase,
            PP!BitmapBytes, pmm!BitmapBytes, PP!TotalPages, pmm!TotalPages, PP!Null, pmm!Null,
            PP!BitFrames, pmm!BitFrames
<1>1. PP!WrapAssumption /\ PP!LayoutAssumption
  BY PagingAssumption DEF PP!WrapAssumption, pmm!WrapAssumption, PP!LayoutAssumption,
                          pmm!LayoutAssumption, PP!Aligned, pmm!Aligned
<1>2. \A m : PP!BootOwned(m) = pmm!BootOwned(m)
  BY SMTT(60) DEF PP!BootOwned, pmm!BootOwned, PP!BootLocked, pmm!BootLocked, PP!BootReserved,
         pmm!BootReserved, PP!EntryFrames, pmm!EntryFrames, PP!Pages, pmm!Pages, PP!LowFrames,
         pmm!LowFrames, PP!KernelFrames, pmm!KernelFrames, PP!BitmapFrames, pmm!BitmapFrames
<1>3. PP!MapsAssumption
  BY <1>2, PagingAssumption DEF PP!MapsAssumption, pmm!MapsAssumption
<1>4. PP!Precious = pmm!Precious
  BY SMTT(60) DEF PP!Precious, pmm!Precious, PP!Touched, pmm!Touched, PP!AllBits, pmm!AllBits
<1>5. PP!MemoryFrames(mm) \cap PP!Precious[mm] \subseteq PP!BootOwned(mm)
  BY <1>1, <1>3, PP!PreciousIsOwned
<1>6. PP!MemoryFrames(mm) = pmm!MemoryFrames(mm)
  BY DEF PP!MemoryFrames, pmm!MemoryFrames
<1> QED
  BY <1>2, <1>4, <1>5, <1>6, SMTT(60)

\* The pages that user mode reaches.
LEMMA ReachedIsDonated ==
  ASSUME Basic, MappedPart, UserPart
  PROVE  {v \in VirtualPages : UserCanReach(v)} = donated
<1>1. Entries \in Nat \ {0} /\ VirtualPages \subseteq Nat /\ 3 \in Levels
  BY PagingAssumption DEF VirtualPages, Levels
<1>2. \A v : UserCanReach(v) <=> /\ On(tables, pml_4, v, 3).present
                                 /\ \A k \in Levels : On(tables, pml_4, v, k).user
  <2> SUFFICES ASSUME NEW v
               PROVE  UserCanReach(v) <=> /\ On(tables, pml_4, v, 3).present
                                          /\ \A k \in Levels : On(tables, pml_4, v, k).user
    OBVIOUS
  <2>1. Path(v) = Way(tables, pml_4, v)
    BY PathIsWay
  <2>2. (\A k \in 1 .. 4 : Way(tables, pml_4, v)[k].user) <=>
        (\A k \in Levels : Way(tables, pml_4, v)[k + 1].user)
    <3>1. \A k \in 1 .. 4 : k - 1 \in Levels /\ k - 1 + 1 = k
      BY DEF Levels
    <3>2. \A k \in Levels : k + 1 \in 1 .. 4
      BY DEF Levels
    <3> QED
      BY <3>1, <3>2
  <2> QED
    BY <2>1, <2>2 DEF UserCanReach, On
<1>3. ASSUME NEW v \in VirtualPages, UserCanReach(v) PROVE v \in donated
  <2>1. On(tables, pml_4, v, 3).present /\ On(tables, pml_4, v, 3).user
    BY <1>1, <1>2, <1>3
  <2>2. Reaches(tables, pml_4, v, 3)
    BY <1>1, <2>1, PresentIsReached
  <2> DEFINE f == Node(tables, pml_4, v, 3)
             e == Index(v, 3)
  <2>3. On(tables, pml_4, v, 3) = Ent(tables, f, e) /\ e \in Places
    BY <1>1, <2>2, EntryOfNode, IndexInTable
  <2>4. f \in DOMAIN tables /\ tables[f][e].user
    BY <2>1, <2>3 DEF Ent, Absent
  <2>5. PICK w \in donated, k \in Levels : f = Node(tables, pml_4, w, k) /\ e = Index(w, k)
    BY <2>3, <2>4 DEF UserPart, Marked
  <2>6. stage \notin Early
    BY <2>5 DEF UserPart, UserStages, Early
  <2>7. /\ Tree(tables, pml_4) /\ Memory \subseteq VirtualPages /\ w \in Memory
    BY <2>6, MemoryIsMappable DEF Basic, TreePart, UserPart, Early
  <2>8. Reaches(tables, pml_4, w, 3)
    <3>1. stage \notin Early \cup {"identity"}
      BY <2>5 DEF UserPart, UserStages, Early
    <3>2. On(tables, pml_4, w, 3).present
      BY <2>7, <3>1 DEF MappedPart, LastEntry
    <3> QED
      BY <1>1, <3>2, PresentIsReached
  <2>9. f \in Level(tables, pml_4, 3) /\ f \in Level(tables, pml_4, k)
    <3>1. Reaches(tables, pml_4, w, k)
      BY <2>5, <2>8, ReachesAll
    <3> QED
      BY <1>1, <2>2, <2>5, <2>7, <3>1, NodeInLevel
  <2>10. k = 3
    BY <1>1, <2>5, <2>7, <2>9 DEF Tree, Apart
  <2> HIDE DEF f, e
  <2>11. Node(tables, pml_4, v, 3) = Node(tables, pml_4, w, 3) /\ Index(v, 3) = Index(w, 3)
    BY <2>5, <2>10 DEF f, e
  <2>12. v = w
    BY <1>1, <2>2, <2>7, <2>8, <2>11, OnePage DEF Tree
  <2> QED
    BY <2>5, <2>12
<1>4. ASSUME NEW v \in donated PROVE v \in VirtualPages /\ UserCanReach(v)
  <2>1. stage \notin Early \cup {"identity"} /\ stage # "pmm"
    BY <1>4 DEF UserPart, UserStages, Early
  <2>2. /\ Tree(tables, pml_4) /\ Memory \subseteq VirtualPages /\ v \in Memory
    BY <2>1, MemoryIsMappable DEF Basic, TreePart, UserPart
  <2>3. On(tables, pml_4, v, 3).present
    BY <2>1, <2>2 DEF MappedPart, LastEntry
  <2>4. Reaches(tables, pml_4, v, 3)
    BY <1>1, <2>3, PresentIsReached
  <2>5. ASSUME NEW k \in Levels PROVE On(tables, pml_4, v, k).user
    <3>1. Reaches(tables, pml_4, v, k)
      BY <2>4, ReachesAll
    <3> DEFINE f == Node(tables, pml_4, v, k)
               e == Index(v, k)
    <3>2. /\ On(tables, pml_4, v, k) = Ent(tables, f, e) /\ e \in Places
          /\ f \in Level(tables, pml_4, k)
      BY <1>1, <2>2, <3>1, EntryOfNode, IndexInTable, NodeInLevel
    <3>3. f \in DOMAIN tables
      BY <2>2, <3>2 DEF Tree, Covered
    <3>4. tables[f][e].user
      BY <1>4, <3>2, <3>3 DEF UserPart, Marked
    <3> QED
      BY <3>2, <3>3, <3>4 DEF Ent
  <2> QED
    BY <1>2, <2>2, <2>3, <2>5
<1> QED
  BY <1>3, <1>4

\* What it reaches through them.
LEMMA OnlyDonated ==
  Basic /\ Reachable /\ BufferPart /\ UserPart => UserReachesOnlyDonated
<1> SUFFICES ASSUME Basic, Reachable, BufferPart, UserPart PROVE UserReachesOnlyDonated
  OBVIOUS
<1>1. MappedPart /\ MovedPart
  BY DEF Reachable
<1> DEFINE reached == {v \in VirtualPages : UserCanReach(v)}
           behind  == {Translate(v) : v \in reached}
<1>2. reached = donated
  BY <1>1, ReachedIsDonated
<1>3. donated # {} => cr3 /\ memory_map \in MemoryMaps
  BY DEF Basic, PmmPart, StagePart, UserPart, UserStages, NoCr3, Early
<1>4. \A v \in donated : Translate(v) = v \/ BufferFrame(Translate(v))
  BY <1>3, BehindMemory DEF UserPart
<1>5. \A x \in behind : x \in donated \/ BufferFrame(x)
  BY <1>2, <1>4
<1> HIDE DEF reached, behind
<1>6. behind \cap DOMAIN tables = {}
  BY <1>5 DEF UserPart, BufferFrame
<1>7. ASSUME NEW x \in behind, x \in pmm!Precious[memory_map] PROVE x = UserEntry
  <2>1. memory_map \in MemoryMaps
    BY <1>2, <1>3, <1>7 DEF behind
  <2>2. x \in Memory /\ (x \in pmm!BootOwned(memory_map) => x = UserEntry)
    BY <1>5 DEF UserPart, BufferFrame
  <2> QED
    BY <1>7, <2>1, <2>2, PreciousIsBootOwned DEF Memory
<1> QED
  BY <1>2, <1>6, <1>7 DEF UserReachesOnlyDonated, reached, behind

\* User mode reaches exactly the pages donated to it, and through them no page table
\* and nothing the boot reserved but the page of uentry, wherever the kernel is loaded:
\* the user flags that donate_to_userspace leaves in tables of all levels open no other
\* page, and where request_pages has moved the page of uentry, user mode gets a page of
\* the graphics buffer in its place.
THEOREM UserKeptOut == PciSpec /\ []MemoryLasts => []UserReachesOnlyDonated
<1>1. Basic /\ MemoryLasts /\ Reachable /\ UserPart /\ [PciNext]_everyVar => UserPart'
  BY UserKept
<1> QED
  BY <1>1, BufferAlways, UserInit, OnlyDonated, PTL DEF PciSpec

-----------------------------------------------------------------------------
(* What the enumeration of devices reads.                                  *)

DeviceStages == PciStages \cup UserStages \cup {"entry"}

Registers(c, w) ==
  (IF FirstFunction(w) \in DOMAIN c THEN c[FirstFunction(w)] ELSE AllOnes).abar

\* Where ACPI's structures may be lost to the kernel.
Excused == AcpiPages \cap (BufferRun \cup (VirtualPages \ Memory))

\* Each header and the registers of each controller are mapped, or being mapped,
\* and the calls of the enumeration map pages at their own addresses only.
DevicePart ==
  /\ stage \in DeviceStages => \A n \in DOMAIN calls : calls[n].p = calls[n].v
  /\ stage = "header" => \A v \in {Address(walk)} : Promised(v)
  /\ \A k \in DOMAIN found : \A v \in {Registers(config, found[k])} : Promised(v)
  /\ found # <<>> => stage \in DeviceStages
  /\ stage \in {"probe", "ports"} => found # <<>>
  /\ found \in Seq(Seq(Nat))
  /\ walk # <<>> => get_table(Acpi(memory_map).tables, "MCFG") # 0
  /\ stage \notin DeviceStages => strayed = {}
  /\ strayed \subseteq Excused

\* Either map_memory is at work, or no call is in progress.
LEMMA OneAtATime ==
  ASSUME [PciNext]_everyVar
  PROVE  UNCHANGED everyVar \/ (MapStep /\ UNCHANGED <<bootVars, pciVars>>) \/ calls = <<>>
<1>1. CASE \/ FindMcfg \/ NextConfiguration \/ Enumerate \/ LoopReturns \/ EnumerationEnds
           \/ SkipFunction \/ EnterLoop \/ InitializeController
           \/ ProbePorts \/ ConfigurePorts \/ PortsDone
  BY <1>1 DEF FindMcfg, NextConfiguration, Enumerate, LoopReturns, EnumerationEnds,
              SkipFunction, EnterLoop, InitializeController, ProbePorts, ConfigurePorts, PortsDone,
              ReadsHeader, At, PciAt
<1>2. CASE \/ ConfigurePmm \/ RootTable \/ IdentityMap \/ MapFramebuffer \/ LoadCr3 \/ MapHeap
           \/ RequestStack \/ MapStack \/ NoBuffer \/ FirstBufferPage \/ NextBufferPage
  BY <1>2 DEF ConfigurePmm, RootTable, IdentityMap, MapFramebuffer, LoadCr3, MapHeap,
              RequestStack, MapStack, NoBuffer, FirstBufferPage, NextBufferPage, At
<1>3. CASE \/ TextBuffer \/ DonateEntry \/ UserStack \/ SysAllocatePage
           \/ LoopEnds("identity", pmm!TotalPages[memory_map], "framebuffer")
           \/ LoopEnds("framebuffer", FramebufferPages, "cr3")
           \/ LoopEnds("heap", HeapLoop, "tss")
           \/ LoopEnds("tss", 6, "graphics") \/ LoopEnds("buffer", BufferPages, "text")
  BY <1>3 DEF TextBuffer, DonateEntry, UserStack, SysAllocatePage, LoopEnds, At
<1> QED
  BY <1>1, <1>2, <1>3 DEF PciNext, Next

\* A promise is kept as long as pages are mapped at their own addresses.
LEMMA PromiseKept ==
  ASSUME Basic, MemoryLasts, [PciNext]_everyVar, \A n \in DOMAIN calls : calls[n].p = calls[n].v,
         NEW v \in VirtualPages, Promised(v)
  PROVE  Promised(v)'
<1>1. ASSUME On(tables, pml_4, v, 3).present, On(tables, pml_4, v, 3).frame = v
      PROVE  Promised(v)'
  <2>1. CASE SameLeaf(v)
    BY <1>1, <2>1 DEF SameLeaf, Promised, LastEntry
  <2>2. CASE /\ WriteLeaf /\ Top.v = v
             /\ On(tables', pml_4', v, 3).present /\ On(tables', pml_4', v, 3).frame = Top.p
    <3>1. Len(calls) \in DOMAIN calls /\ Top = calls[Len(calls)]
      BY <2>2, LeafAfterWrite
    <3>2. Top.p = v
      BY <2>2, <3>1
    <3> QED
      BY <2>2, <3>2 DEF Promised, LastEntry
  <2> QED
    BY <2>1, <2>2, LeafStep
<1>2. ASSUME NEW m \in DOMAIN calls, calls[m].v = v, calls[m].p = v
      PROVE  Promised(v)'
  <2>1. calls # <<>>
    BY <1>2
  <2>2. CASE UNCHANGED everyVar
    <3>1. calls' = calls
      BY <2>2 DEF everyVar, vars, tableVars
    <3> QED
      BY <1>2, <3>1 DEF Promised
  <2>3. CASE MapStep
    <3>1. CASE \E n \in DOMAIN calls' : calls'[n].v = calls[m].v /\ calls'[n].p = calls[m].p
      BY <1>2, <3>1 DEF Promised
    <3>2. CASE WriteLeaf /\ calls[m] = Top
      <4>1. On(tables', pml_4', v, 3).present /\ On(tables', pml_4', v, 3).frame = v
        BY <1>2, <3>2, LeafAfterWrite
      <4> QED
        BY <4>1 DEF Promised, LastEntry
    <3> QED
      BY <1>2, <2>3, <3>1, <3>2, MapStepCalls
  <2> QED
    BY <2>1, <2>2, <2>3, OneAtATime
<1> QED
  BY <1>1, <1>2 DEF Promised, LastEntry

\* Page 0 exists.
LEMMA RegistersExist ==
  ASSUME Basic, NEW w
  PROVE  Registers(config, w) \in VirtualPages /\ Registers(config, w) = Header(w).abar
<1>1. 0 \in VirtualPages
  BY BootAssumption, PagesBelow DEF VirtualPages
<1>2. config \in ConfigSpaces
  BY DEF Basic, WalkPart
<1> QED
  BY <1>1, <1>2, PciAssumption DEF Header, Registers, AllOnes

\* A promise that no call is left to keep has been kept.
LEMMA Kept ==
  ASSUME NEW v, calls = <<>>, Promised(v)
  PROVE  MapsItself(v)
<1>1. On(tables, pml_4, v, 3).present /\ On(tables, pml_4, v, 3).frame = v
  BY DEF Promised, LastEntry
<1> QED
  BY <1>1, TranslateIsLeaf DEF MapsItself

\* get_table returns one of the tables.
LEMMA TableFound ==
  ASSUME NEW T, NEW xsdt \in Seq(T), NEW signature
  PROVE  get_table(xsdt, signature) \in 0 .. Len(xsdt)
<1> DEFINE I == {k \in 1 .. Len(xsdt) : xsdt[k].signature = signature}
<1>1. get_table(xsdt, signature) = IF I # {} THEN Min(I) ELSE 0
  BY DEF get_table, SelectInSeq
<1>2. Len(xsdt) \in Nat
  OBVIOUS
<1>3. ASSUME I # {} PROVE Min(I) \in I
  <2>1. I \subseteq Nat
    BY <1>2
  <2>2. \E x \in I : \A y \in I : x <= y
    BY <1>3, <2>1, LeastElement
  <2> HIDE DEF I
  <2> QED
    BY <2>2 DEF Min
<1> QED
  BY <1>1, <1>2, <1>3

\* The functions found, and the stages of the enumeration.
LEMMA FoundStep ==
  ASSUME Basic, MemoryLasts, [PciNext]_everyVar
  PROVE  /\ config' = config
         /\ found' = found \/ InitializeController
         /\ stage \in DeviceStages => stage' \in DeviceStages
         /\ stage' = "header" => \/ Enumerate
                                 \/ stage = "header" /\ walk' = walk
         /\ stage' \in {"probe", "ports"} => InitializeController \/ stage \in {"probe", "ports"}
         /\ walk' # <<>> => FindMcfg \/ walk # <<>>
<1>1. CASE UNCHANGED everyVar
  BY <1>1 DEF everyVar, vars, bootVars, pciVars
<1>2. CASE Next /\ UNCHANGED pciVars
  BY <1>2, NextStages DEF pciVars, DeviceStages
<1> USE DEF At, PciAt, Goto, pciVars
<1>3. CASE FindMcfg \/ NextConfiguration \/ LoopReturns \/ EnumerationEnds
  <2>1. /\ found' = found /\ stage' \notin {"header", "probe", "ports"}
        /\ walk' # <<>> => FindMcfg \/ walk # <<>>
    BY <1>3 DEF FindMcfg, NextConfiguration, LoopReturns, EnumerationEnds
  <2> QED
    BY <1>3, <2>1, PciStage DEF Walks, DeviceStages
<1>4. CASE SkipFunction \/ EnterLoop
  <2>1. found' = found /\ stage' = "pci" /\ stage = "header"
    BY <1>4 DEF SkipFunction, EnterLoop, ReadsHeader
  <2> QED
    BY <1>4, <2>1, PciStage DEF Walks, DeviceStages, PciStages, Basic, WalkPart
<1>5. CASE InitializeController
  <2>1. stage' = "probe" /\ stage = "header"
    BY <1>5 DEF InitializeController, ReadsHeader
  <2> QED
    BY <1>5, <2>1, PciStage DEF Walks, DeviceStages, PciStages, Basic, WalkPart
<1>6. CASE Enumerate
  <2>1. found' = found /\ walk' = walk /\ stage' = "header"
    BY <1>6 DEF Enumerate
  <2> QED
    BY <1>6, <2>1, PciStage DEF Walks, DeviceStages
<1>7. CASE ProbePorts \/ PortsDone
  <2>1. /\ found' = found /\ walk' = walk /\ stage' # "header" /\ stage \in {"probe", "ports"}
    BY <1>7 DEF ProbePorts, PortsDone
  <2> QED
    BY <1>7, <2>1, PciStage DEF Walks, DeviceStages
<1>8. CASE ConfigurePorts
  BY <1>8, PortStep DEF DeviceStages, PciStages
<1> QED
  BY <1>1, <1>2, <1>3, <1>4, <1>5, <1>6, <1>7, <1>8 DEF PciNext

\* ACPI's structures, and the tables up to one that get_table finds.
LEMMA AcpiListed ==
  ASSUME memory_map \in MemoryMaps, NEW at, at = get_table(Acpi(memory_map).tables, "MCFG")
  PROVE  /\ AcpiPages \subseteq VirtualPages
         /\ Acpi(memory_map).rsdp \cup Acpi(memory_map).xsdt \subseteq AcpiPages
         /\ at \in Nat /\ \A k \in 1 .. at : Acpi(memory_map).tables[k].pages \subseteq AcpiPages
<1> DEFINE tables1 == Acpi(memory_map).tables
           T == [signature : STRING, pages : SUBSET VirtualPages]
<1>1. /\ tables1 \in Seq(T)
      /\ Acpi(memory_map).rsdp \cup Acpi(memory_map).xsdt \subseteq VirtualPages
  BY PciAssumption
<1>2. at \in 0 .. Len(tables1) /\ Len(tables1) \in Nat
  BY <1>1, TableFound
<1>3. AcpiPages = Acpi(memory_map).rsdp \cup Acpi(memory_map).xsdt
                  \cup UNION {table.pages : table \in ToSet(tables1)}
  BY DEF AcpiPages
<1> HIDE DEF tables1, T
<1>4. \A k \in 1 .. Len(tables1) : tables1[k] \in T /\ tables1[k] \in ToSet(tables1)
  BY <1>1 DEF ToSet
<1>5. \A table \in ToSet(tables1) : table \in T
  BY <1>1, <1>4 DEF ToSet
<1>6. \A k \in 1 .. at : k \in 1 .. Len(tables1)
  BY <1>2
<1>7. AcpiPages \subseteq VirtualPages
  BY <1>1, <1>3, <1>5 DEF T
<1>8. \A k \in 1 .. at : tables1[k].pages \subseteq AcpiPages
  BY <1>3, <1>4, <1>6
<1> QED
  BY <1>2, <1>3, <1>7, <1>8 DEF tables1

\* Memory that request_pages has not moved is at its own addresses.
LEMMA InMemory ==
  ASSUME Basic, Reachable, stage \in DeviceStages, NEW page \in Memory \ Moved
  PROVE  MapsItself(page)
<1>1. cr3
  BY DEF Basic, StagePart, DeviceStages, PciStages, UserStages, NoCr3, Early
<1> QED
  BY <1>1, Landing DEF Reachable, MapsItself

\* The frame after one that is requested was not moved either: the run of addresses
\* begins in a frame that is taken.
LEMMA NextInMemory ==
  ASSUME Basic, Reachable, BufferPart, stage \in DeviceStages, NEW f \in Memory, f \notin bitmap,
         NEW g \in {f, f + 1}, g \in Memory
  PROVE  MapsItself(g)
<1>1. f \notin Moved
  BY DEF Reachable, MovedPart
<1>2. Moved = buffer + 1 .. buffer + BufferPages - 1
  BY DEF Moved, DeviceStages, PciStages, UserStages, Buffered
<1>3. /\ buffer \in Nat /\ BufferPages \in Nat /\ f \in Nat
      /\ 0 \in bitmap
  <2>1. PmmPart /\ stage # "pmm"
    BY DEF Basic, DeviceStages, PciStages, UserStages
  <2>2. 0 \in bitmap /\ Memory \subseteq Nat
    BY <2>1, FrameZero, MemoryIsMappable DEF PmmPart
  <2> QED
    BY <2>2, PageCounts DEF Basic, StagePart
<1>4. f # buffer
  BY <1>3 DEF BufferPart
<1>5. g \notin Moved
  BY <1>1, <1>2, <1>3, <1>4
<1> QED
  BY <1>5, InMemory

\* The registers of the controllers found are mapped when no call is in progress.
LEMMA RegistersMapped ==
  ASSUME Basic, DevicePart, calls = <<>>, NEW k \in DOMAIN found
  PROVE  MapsItself(Header(found[k]).abar)
<1>1. Registers(config, found[k]) = Header(found[k]).abar
  BY RegistersExist
<1> QED
  BY <1>1, Kept DEF DevicePart

\* What is used of ACPI and of what is mapped.
LEMMA UseExcused ==
  ASSUME Basic, Reachable, DevicePart, stage \in DeviceStages,
         NEW S, Uses(S), \A page \in S : page \in AcpiPages \/ MapsItself(page)
  PROVE  strayed' \subseteq Excused
<1> SUFFICES ASSUME NEW page \in S, ~MapsItself(page) PROVE page \in Excused
  BY DEF Uses, DevicePart
<1>1. memory_map \in MemoryMaps
  BY DEF Basic, PmmPart, DeviceStages, PciStages, UserStages
<1>2. page \in AcpiPages /\ page \in VirtualPages
  BY <1>1, AcpiListed
<1>3. page \in Memory => page \in BufferRun
  BY InMemory, MovedInRun
<1> QED
  BY <1>2, <1>3 DEF Excused

\* The page that configure_port writes to is the one it requested, or the next.
LEMMA WritesNear ==
  ASSUME Basic, NEW f \in Nat
  PROVE  WritesTo(f) \in {f, f + 1}
<1> DEFINE P == PortPages
           k == i % P
           T == TablesPerPage
<1>1. i \in Nat /\ T \in Nat \ {0} /\ CommandSlots \in Nat /\ CommandSlots <= T + T /\ P \in Nat \ {0}
      /\ P = 2 + CommandSlots
  BY PciAssumption DEF Basic, StagePart, PortPages
<1>2. WritesTo(f) = IF k < 2 THEN f ELSE f + ((k - 2) \div T)
  BY DEF WritesTo
<1> HIDE DEF P, T
<1>3. k \in Nat /\ k < P
  BY <1>1
<1> HIDE DEF k
<1>4. ASSUME k >= 2 PROVE (k - 2) \div T \in {0, 1}
  <2> DEFINE q == (k - 2) \div T
  <2>1. k - 2 \in Nat /\ k - 2 < T + T
    BY <1>1, <1>3, <1>4
  <2>2. q \in Nat /\ q * T <= k - 2
    BY <1>1, <2>1, SMT
  <2> HIDE DEF q
  <2>3. q >= 2 => q * T >= T + T
    BY <1>1, <2>2, SMT
  <2> QED
    BY <1>1, <2>1, <2>2, <2>3 DEF q
<1> QED
  BY <1>2, <1>3, <1>4

\* What is used is where it seems to be, or it is ACPI's and excused.
LEMMA StraysExcused ==
  ASSUME Basic, MemoryLasts, [PciNext]_everyVar, Reachable, BufferPart, DevicePart
  PROVE  /\ strayed' \subseteq Excused'
         /\ stage' \notin DeviceStages => strayed' = {}
<1>1. ASSUME stage \in DeviceStages PROVE Excused' = Excused /\ memory_map' = memory_map
  <2>1. stage # "pmm" /\ ~FirstBufferPage
    BY <1>1 DEF DeviceStages, PciStages, UserStages, FirstBufferPage, At
  <2>2. memory_map' = memory_map /\ Memory' = Memory /\ buffer' = buffer /\ fb_size' = fb_size
    BY <2>1, MemoryStep, BufferStep
  <2> QED
    BY <2>2 DEF Excused, AcpiPages, BufferRun, BufferPages
<1>2. CASE UNCHANGED everyVar \/ (Next /\ UNCHANGED pciVars)
  <2>1. strayed' = strayed
    BY <1>2 DEF everyVar, pciVars
  <2> QED
    BY <1>1, <2>1, FoundStep DEF DevicePart
<1> SUFFICES ASSUME PciNext, ~(Next /\ UNCHANGED pciVars)
             PROVE  stage \in DeviceStages /\ strayed' \subseteq Excused
  BY <1>1, <1>2, FoundStep
<1>3. stage \in DeviceStages
  BY PciStage, PortStep DEF PciNext, Walks, DeviceStages, PciStages
<1>4. memory_map \in MemoryMaps
  BY <1>3 DEF Basic, PmmPart, DeviceStages, PciStages, UserStages
<1>5. CASE FindMcfg
  <2> DEFINE acpi == Acpi(memory_map)
             at   == get_table(acpi.tables, "MCFG")
             S    == acpi.rsdp \cup acpi.xsdt \cup UNION {acpi.tables[k].pages : k \in 1 .. at}
  <2>1. Uses(S)
    BY <1>5 DEF FindMcfg
  <2>2. S \subseteq AcpiPages
    BY <1>4, AcpiListed
  <2> HIDE DEF S
  <2> QED
    BY <1>3, <2>1, <2>2, UseExcused
<1>6. CASE NextConfiguration \/ Enumerate \/ LoopReturns
  <2> DEFINE S == IF Len(walk) <= 2 THEN McfgPages(memory_map) ELSE {}
  <2>1. Uses(S) /\ Len(walk) >= 1
    <3>1. CASE NextConfiguration
      BY <3>1 DEF NextConfiguration, ReadsMcfg
    <3>2. CASE Enumerate
      <4>1. Uses(S) /\ Len(walk) > 1
        BY <3>2 DEF Enumerate, ReadsMcfg
      <4> QED
        BY <4>1 DEF Basic, WalkPart
    <3>3. CASE LoopReturns
      <4>1. Uses(S) /\ Len(walk) > 1
        BY <3>3 DEF LoopReturns, ReadsMcfg
      <4> QED
        BY <4>1 DEF Basic, WalkPart
    <3> QED
      BY <1>6, <3>1, <3>2, <3>3
  <2>2. McfgPages(memory_map) \subseteq AcpiPages
    <3> DEFINE at == get_table(Acpi(memory_map).tables, "MCFG")
    <3>1. at # 0
      <4>1. walk # <<>>
        BY <2>1
      <4> QED
        BY <4>1 DEF DevicePart
    <3>2. at \in Nat /\ \A k \in 1 .. at : Acpi(memory_map).tables[k].pages \subseteq AcpiPages
      BY <1>4, AcpiListed
    <3>3. McfgPages(memory_map) = Acpi(memory_map).tables[at].pages
      BY DEF McfgPages
    <3> HIDE DEF at
    <3>4. at \in 1 .. at
      BY <3>1, <3>2
    <3> QED
      BY <3>2, <3>3, <3>4
  <2>3. S \subseteq AcpiPages
    BY <2>2
  <2> HIDE DEF S
  <2> QED
    BY <1>3, <2>1, <2>3, UseExcused
<1>7. CASE SkipFunction \/ EnterLoop \/ InitializeController
  <2>1. stage = "header" /\ calls = <<>> /\ Uses({Address(walk)})
    BY <1>7 DEF SkipFunction, EnterLoop, InitializeController, ReadsHeader, At, PciAt
  <2>2. MapsItself(Address(walk))
    BY <2>1, Kept DEF DevicePart
  <2> QED
    BY <1>3, <2>1, <2>2, UseExcused
<1>8. CASE ProbePorts
  <2>1. stage = "probe" /\ calls = <<>> /\ Uses({Header(Last(found)).abar})
    BY <1>8 DEF ProbePorts, At, PciAt
  <2>2. Len(found) \in DOMAIN found /\ Last(found) = found[Len(found)]
    BY <2>1 DEF DevicePart, Last
  <2>3. MapsItself(Header(Last(found)).abar)
    BY <2>1, <2>2, RegistersMapped
  <2> QED
    BY <1>3, <2>1, <2>3, UseExcused
<1>9. CASE ConfigurePorts
  <2> DEFINE f == pmm!RequestedFrame
             S == {WritesTo(f)} \cup {Header(found[k]).abar : k \in DOMAIN found}
  <2>1. Uses(S)
    BY <1>9 DEF ConfigurePorts
  <2>2. /\ calls = <<>> /\ f \in Memory /\ f + 1 \in Memory /\ f \in Nat /\ f \notin bitmap
    BY <1>9, PortStep
  <2> HIDE DEF f
  <2>3. MapsItself(WritesTo(f))
    <3>1. WritesTo(f) \in {f, f + 1}
      BY <2>2, WritesNear
    <3> QED
      BY <1>3, <2>2, <3>1, NextInMemory
  <2>4. \A page \in S : MapsItself(page)
    BY <2>2, <2>3, RegistersMapped
  <2> HIDE DEF S
  <2> QED
    BY <1>3, <2>1, <2>4, UseExcused
<1>10. CASE PortsDone \/ EnumerationEnds
  BY <1>3, <1>10 DEF PortsDone, EnumerationEnds, pciVars, DevicePart
<1> QED
  BY <1>3, <1>5, <1>6, <1>7, <1>8, <1>9, <1>10 DEF PciNext

\* What is mapped stays mapped.
LEMMA DeviceKept ==
  ASSUME Basic, MemoryLasts, [PciNext]_everyVar, Reachable, BufferPart, DevicePart
  PROVE  DevicePart'
<1>1. ASSUME stage' \in DeviceStages, NEW n \in DOMAIN calls' PROVE calls'[n].p = calls'[n].v
  <2>1. stage \notin Early
    <3> SUFFICES ASSUME stage \in Early PROVE FALSE
      OBVIOUS
    <3>1. stage' \notin Early \cup {"identity"}
      BY <1>1 DEF DeviceStages, PciStages, UserStages, Early
    <3> QED
      BY <3>1, IdentitySteps DEF LoopEnds, At, Early
  <2>2. CASE /\ \E m \in DOMAIN calls : calls'[n].v = calls[m].v /\ calls'[n].p = calls[m].p
             /\ UNCHANGED <<stage, i, buffer>>
    BY <1>1, <2>2 DEF DevicePart
  <2>3. stage' # "heap" /\ stage' # "buffer"
    BY <1>1 DEF DeviceStages, PciStages, UserStages
  <2>4. ~MapHeap /\ ~NextBufferPage
    BY <2>3 DEF MapHeap, NextBufferPage, At, Again
  <2> QED
    BY <1>1, <2>1, <2>2, <2>4, CallsStep
<1>2. ASSUME stage' = "header", NEW v, v = Address(walk') PROVE Promised(v)'
  <2>1. CASE Enumerate
    <3>1. /\ calls = <<>> /\ JustMaps(Address(walk), Address(walk), FALSE) /\ walk' = walk
          /\ stage = "pci" /\ Len(walk) > 1 /\ Last(walk) < Bound(walk)
      BY <2>1 DEF Enumerate, At, PciAt, pciVars
    <3>2. v = Address(walk)
      BY <1>2, <3>1
    <3>3. v \in VirtualPages /\ v \in Nat
      BY <3>1, <3>2, WalkAddress DEF VirtualPages
    <3>4. DOMAIN calls' = {1} /\ calls'[1].v = v /\ calls'[1].p = v
      BY <3>1, <3>2, <3>3, MapsOne
    <3> QED
      BY <3>4 DEF Promised
  <2>2. CASE stage = "header" /\ walk' = walk
    <3>1. v = Address(walk) /\ v \in VirtualPages
      BY <1>2, <2>2, WalkAddress
    <3>2. Promised(v) /\ \A n \in DOMAIN calls : calls[n].p = calls[n].v
      BY <2>2, <3>1 DEF DevicePart, DeviceStages, PciStages
    <3> QED
      BY <3>1, <3>2, PromiseKept
  <2> QED
    BY <1>2, <2>1, <2>2, FoundStep
<1>3. found' \in Seq(Seq(Nat)) /\ \A k \in DOMAIN found' :
         \/ k \in DOMAIN found /\ found'[k] = found[k]
         \/ InitializeController /\ found'[k] = walk
  <2>1. found \in Seq(Seq(Nat)) /\ walk \in Seq(Nat)
    BY DEF DevicePart, Basic, WalkPart
  <2>2. CASE found' = found
    BY <2>1, <2>2
  <2>3. CASE InitializeController
    <3>1. found' = Append(found, walk)
      BY <2>3 DEF InitializeController
    <3> QED
      BY <2>1, <2>3, <3>1
  <2> QED
    BY <2>2, <2>3, FoundStep
<1>4. ASSUME NEW k \in DOMAIN found', NEW v, v = Registers(config', found'[k]) PROVE Promised(v)'
  <2>1. config' = config
    BY FoundStep
  <2>2. CASE k \in DOMAIN found /\ found'[k] = found[k]
    <3>1. v = Registers(config, found[k])
      BY <1>4, <2>1, <2>2
    <3>2. v \in VirtualPages
      BY <3>1, RegistersExist
    <3>3. found # <<>>
      BY <2>2
    <3>4. Promised(v) /\ \A n \in DOMAIN calls : calls[n].p = calls[n].v
      BY <2>2, <3>1, <3>3 DEF DevicePart
    <3> QED
      BY <3>2, <3>4, PromiseKept
  <2>3. CASE InitializeController /\ found'[k] = walk
    <3>1. v = Registers(config, walk)
      BY <1>4, <2>1, <2>3
    <3>2. v = Header(walk).abar /\ v \in VirtualPages /\ v \in Nat
      BY <3>1, RegistersExist DEF VirtualPages
    <3>3. calls = <<>> /\ JustMaps(v, v, FALSE)
      BY <2>3, <3>2 DEF InitializeController, ReadsHeader, At, PciAt
    <3>4. DOMAIN calls' = {1} /\ calls'[1].v = v /\ calls'[1].p = v
      BY <3>2, <3>3, MapsOne
    <3> QED
      BY <3>4 DEF Promised
  <2> QED
    BY <1>3, <1>4, <2>2, <2>3
<1>5. found' # <<>> => stage' \in DeviceStages
  <2>1. CASE found' = found
    BY <2>1, FoundStep DEF DevicePart
  <2>2. CASE InitializeController
    BY <2>2, PciStage DEF Walks, DeviceStages
  <2> QED
    BY <2>1, <2>2, FoundStep
<1>6. stage' \in {"probe", "ports"} => found' # <<>>
  <2>1. InitializeController => found' # <<>>
    BY DEF InitializeController, DevicePart
  <2>2. found' = found \/ InitializeController
    BY FoundStep
  <2> QED
    BY <2>1, <2>2, FoundStep DEF DevicePart
<1>7. walk' # <<>> => get_table(Acpi(memory_map').tables, "MCFG") # 0
  <2>1. CASE FindMcfg
    BY <2>1 DEF FindMcfg, Computes, NotBoot, pmmVars
  <2>2. CASE walk # <<>>
    <3>1. stage # "pmm"
      BY <2>2 DEF Basic, WalkPart, PciStages, UserStages
    <3>2. memory_map' = memory_map
      BY <3>1, MemoryStep
    <3> QED
      BY <2>2, <3>2 DEF DevicePart
  <2> QED
    BY <2>1, <2>2, FoundStep
<1>8. strayed' \subseteq Excused' /\ (stage' \notin DeviceStages => strayed' = {})
  BY StraysExcused
<1> QED
  BY <1>1, <1>2, <1>3, <1>4, <1>5, <1>6, <1>7, <1>8 DEF DevicePart

\* Before the boot nothing is read.
LEMMA DeviceInit == PciInit => DevicePart
BY DEF PciInit, Init, DevicePart, DeviceStages, PciStages, UserStages

\* What it says.
LEMMA DevicesMapped == Basic /\ DevicePart => DevicesReachable
BY RegistersMapped DEF DevicesReachable, DevicePart, Excused, Memory

\* Every ACPI structure, configuration header and register page, and every page a port
\* is given, is mapped at its own address when the kernel uses it, and the controllers'
\* registers stay mapped; but for ACPI's where the firmware has put them past the end of
\* memory or request_pages has mapped the graphics buffer.
THEOREM DevicesStayReachable == PciSpec /\ []MemoryLasts => []DevicesReachable
<1>1. Basic /\ MemoryLasts /\ Reachable /\ BufferPart /\ DevicePart /\ [PciNext]_everyVar
        => DevicePart'
  BY DeviceKept
<1> QED
  BY <1>1, BufferAlways, DeviceInit, DevicesMapped, PTL DEF PciSpec

-----------------------------------------------------------------------------
(* The order of the controllers.                                           *)

\* A function is under the counters of a walk, and the walk has passed it.
Agrees(f, w) == \A m \in 1 .. Len(w) : f[m] = w[m]
Passed(f, w) == \E n \in 1 .. Len(w) : f[n] < w[n] /\ \A m \in 1 .. n - 1 : f[m] = w[m]

\* One counter more.
LEMMA PassedFurther ==
  ASSUME NEW w \in Seq(Nat), NEW x \in Nat, NEW f
  PROVE  /\ Passed(f, Append(w, x)) <=> Passed(f, w) \/ (Agrees(f, w) /\ f[Len(w) + 1] < x)
         /\ Agrees(f, Append(w, x)) <=> Agrees(f, w) /\ f[Len(w) + 1] = x
<1> DEFINE l == Len(w)
           a == Append(w, x)
<1>1. l \in Nat /\ Len(a) = l + 1 /\ a[l + 1] = x /\ \A n \in 1 .. l : a[n] = w[n]
  BY Counted, LenProperties
<1> HIDE DEF a, l
<1>2. \A m \in 1 .. l + 1 : m \in 1 .. l \/ m = l + 1
  BY <1>1
<1>3. \A m \in 1 .. l : m \in 1 .. l + 1 /\ \A o \in 1 .. m - 1 : o \in 1 .. l
  BY <1>1
<1>4. l + 1 \in 1 .. l + 1 /\ l + 1 - 1 = l
  BY <1>1
<1>5. Agrees(f, a) <=> Agrees(f, w) /\ f[l + 1] = x
  BY <1>1, <1>2, <1>3, <1>4 DEF Agrees, l
<1>6. ASSUME Passed(f, a) PROVE Passed(f, w) \/ (Agrees(f, w) /\ f[l + 1] < x)
  <2>1. PICK n \in 1 .. l + 1 : f[n] < a[n] /\ \A m \in 1 .. n - 1 : f[m] = a[m]
    BY <1>1, <1>6 DEF Passed
  <2>2. CASE n \in 1 .. l
    BY <1>1, <1>3, <2>1, <2>2 DEF Passed, l
  <2>3. CASE n = l + 1
    BY <1>1, <1>4, <2>1, <2>3 DEF Agrees, l
  <2> QED
    BY <1>2, <2>1, <2>2, <2>3
<1>7. ASSUME Passed(f, w) PROVE Passed(f, a)
  <2>1. PICK n \in 1 .. l : f[n] < w[n] /\ \A m \in 1 .. n - 1 : f[m] = w[m]
    BY <1>7 DEF Passed, l
  <2>2. n \in 1 .. Len(a) /\ f[n] < a[n] /\ \A m \in 1 .. n - 1 : f[m] = a[m]
    BY <1>1, <1>3, <2>1
  <2> QED
    BY <2>2 DEF Passed
<1>8. ASSUME Agrees(f, w), f[l + 1] < x PROVE Passed(f, a)
  <2> DEFINE k == l + 1
  <2>1. k \in 1 .. Len(a) /\ f[k] < a[k] /\ \A m \in 1 .. k - 1 : f[m] = a[m]
    BY <1>1, <1>4, <1>8 DEF Agrees, l
  <2> HIDE DEF k
  <2> QED
    BY <2>1 DEF Passed
<1> QED
  BY <1>5, <1>6, <1>7, <1>8 DEF a, l

\* The counter goes on: the walk passes what is under it.
LEMMA PassedSibling ==
  ASSUME NEW w \in Seq(Nat), Len(w) \in Nat \ {0}, NEW f, f[Len(w)] \in Nat
  PROVE  /\ Passed(f, Sibling(w)) <=> Passed(f, w) \/ Agrees(f, w)
         /\ Passed(f, w) <=> Passed(f, Front(w)) \/ (Agrees(f, Front(w)) /\ f[Len(w)] < Last(w))
<1> DEFINE u == Front(w)
           x == Last(w)
           g == f[Len(w)]
<1>1. u \in Seq(Nat) /\ Len(u) = Len(w) - 1 /\ \A n \in 1 .. Len(w) - 1 : u[n] = w[n]
  BY Outer
<1>2. x \in Nat /\ x + 1 \in Nat /\ x = w[Len(w)]
  BY DEF Last
<1>3. Sibling(w) = Append(u, x + 1)
  BY DEF Sibling
<1>4. w = Append(u, x)
  <2> DEFINE a == Append(u, x)
  <2>1. a \in Seq(Nat) /\ Len(a) = Len(u) + 1 /\ a[Len(u) + 1] = x /\ \A n \in 1 .. Len(u) : a[n] = u[n]
    BY <1>1, <1>2, Counted
  <2> HIDE DEF a, u, x
  <2>2. Len(a) = Len(w) /\ \A n \in 1 .. Len(w) : a[n] = w[n]
    <3> DEFINE l == Len(w)
    <3>1. l \in Nat \ {0} /\ Len(u) = l - 1
      BY <1>1
    <3> HIDE DEF l
    <3>2. l - 1 + 1 = l /\ \A n \in 1 .. l : n \in 1 .. l - 1 \/ n = l
      BY <3>1
    <3> QED
      BY <1>1, <1>2, <2>1, <3>1, <3>2 DEF l
  <2> QED
    BY <2>1, <2>2, SeqEqual DEF a
<1>5. Len(u) + 1 = Len(w)
  BY <1>1
<1> HIDE DEF u, x
<1>6. /\ Passed(f, Append(u, x)) <=> Passed(f, u) \/ (Agrees(f, u) /\ g < x)
      /\ Agrees(f, Append(u, x)) <=> Agrees(f, u) /\ g = x
      /\ Passed(f, Append(u, x + 1)) <=> Passed(f, u) \/ (Agrees(f, u) /\ g < x + 1)
  BY <1>1, <1>2, <1>5, PassedFurther
<1>7. g < x + 1 <=> g < x \/ g = x
  BY <1>2
<1> QED
  BY <1>3, <1>4, <1>6, <1>7 DEF u, x

\* The functions plugged in, by their four numbers.
LEMMA PluggedIn ==
  ASSUME NEW c \in ConfigSpaces, NEW w \in DOMAIN c
  PROVE  /\ w \in Seq(Nat) /\ Len(w) = 4 /\ w[1] \in Nat /\ w[2] \in Nat
         /\ w[3] \in Nat /\ w[3] < Devices /\ w[4] \in Nat /\ w[4] < Functions
<1>1. w \in Nat \X Nat \X (0 .. Devices - 1) \X (0 .. Functions - 1)
  BY PciAssumption
<1>2. Devices \in Nat /\ Functions \in Nat
  BY PciAssumption
<1>3. PICK a \in Nat, b \in Nat, d \in 0 .. Devices - 1, g \in 0 .. Functions - 1 : w = <<a, b, d, g>>
  BY <1>1
<1> QED
  BY <1>2, <1>3

\* A whole function is its own first one.
LEMMA WholeFunction ==
  ASSUME NEW w \in Seq(Nat), Len(w) = 4
  PROVE  FirstFunction(w) = w
<1> DEFINE z == [k \in 1 .. 4 - Len(w) |-> 0]
<1>1. z = <<>>
  OBVIOUS
<1>2. FirstFunction(w) = w \o z
  BY DEF FirstFunction
<1> QED
  BY <1>1, <1>2, ConcatEmptySeq

\* What is passed comes before what is not.
LEMMA PassedBefore ==
  ASSUME NEW v \in Seq(Nat), NEW w \in Seq(Nat), NEW x \in Seq(Nat),
         Len(v) = 4, Len(w) = 4, Len(x) <= 4, Passed(v, x), ~Passed(w, x)
  PROVE  Passed(v, w)
<1>1. PICK n \in 1 .. Len(x) : v[n] < x[n] /\ \A m \in 1 .. n - 1 : v[m] = x[m]
  BY DEF Passed
<1>2. Len(x) \in Nat /\ \A m \in 1 .. n : m \in 1 .. Len(x) /\ m \in 1 .. 4
  <2>1. Len(x) \in Nat
    BY LenProperties
  <2> QED
    BY <2>1
<1>3. \A m \in 1 .. n : v[m] \in Nat /\ w[m] \in Nat /\ x[m] \in Nat
  BY <1>2, ElementOfSeq
<1> DEFINE D == {m \in 1 .. n : w[m] # x[m]}
<1>4. CASE D = {}
  <2>1. \A m \in 1 .. n : w[m] = x[m]
    BY <1>4
  <2>2. v[n] < w[n] /\ \A m \in 1 .. n - 1 : v[m] = w[m]
    BY <1>1, <2>1
  <2>3. n \in 1 .. Len(w)
    BY <1>2
  <2> QED
    BY <2>2, <2>3 DEF Passed
<1>5. CASE D # {}
  <2>1. PICK k \in D : \A m \in D : k <= m
    <3>1. D \subseteq Nat
      OBVIOUS
    <3> HIDE DEF D
    <3> QED
      BY <1>5, <3>1, LeastElement
  <2>2. k \in 1 .. n /\ w[k] # x[k] /\ \A m \in 1 .. k - 1 : m \in 1 .. n /\ m \in 1 .. n - 1 /\ w[m] = x[m]
    <3>1. k \in 1 .. n /\ w[k] # x[k] /\ n \in Nat
      BY <1>2, <2>1
    <3>2. ASSUME NEW m \in 1 .. k - 1 PROVE m \in 1 .. n /\ m \in 1 .. n - 1 /\ ~(k <= m)
      <4>1. k \in Nat /\ 1 <= k /\ k <= n /\ m \in Nat /\ 1 <= m /\ m <= k - 1
        BY <3>1, SMTT(30)
      <4> QED
        BY <3>1, <4>1, SMTT(30)
    <3>3. ASSUME NEW m \in 1 .. k - 1 PROVE w[m] = x[m]
      BY <2>1, <3>2
    <3> QED
      BY <3>1, <3>2, <3>3
  <2>3. ~(w[k] < x[k])
    BY <1>2, <2>2 DEF Passed
  <2>4. x[k] < w[k] /\ v[k] <= x[k]
    <3>1. v[k] = x[k] \/ v[k] < x[k]
      <4>1. k \in 1 .. n - 1 \/ k = n
        BY <2>2
      <4> QED
        BY <1>1, <4>1
    <3> QED
      BY <1>3, <2>2, <2>3, <3>1, SMTT(60)
  <2>5. v[k] < w[k] /\ \A m \in 1 .. k - 1 : v[m] = w[m]
    <3>1. v[k] < w[k]
      <4>1. v[k] \in Nat /\ w[k] \in Nat /\ x[k] \in Nat
        BY <1>3, <2>2
      <4> QED
        BY <2>4, <4>1
    <3> QED
      BY <1>1, <2>2, <3>1
  <2>6. k \in 1 .. Len(w)
    BY <1>2, <2>2
  <2> QED
    BY <2>5, <2>6 DEF Passed
<1> QED
  BY <1>4, <1>5

\* Lower numbers, lower addresses.
LEMMA AddressOrder ==
  ASSUME NEW v \in Seq(Nat), NEW w \in Seq(Nat), Len(v) = 4, Len(w) = 4,
         v[1] \in DOMAIN Mcfg, v[3] < Devices, v[4] < Functions, w[4] < Functions,
         Passed(v, w)
  PROVE  Precedes(v, w)
<1> DEFINE F == Functions
           D == Devices
           base == Mcfg[v[1]].base
           a == v[2] * D + v[3]
           b == w[2] * D + w[3]
<1>1. PICK n \in 1 .. 4 : v[n] < w[n] /\ \A m \in 1 .. n - 1 : v[m] = w[m]
  BY DEF Passed
<1>2. v[2] \in Nat /\ v[3] \in Nat /\ v[4] \in Nat /\ w[2] \in Nat /\ w[3] \in Nat /\ w[4] \in Nat
  <2>1. \A m \in 1 .. 4 : v[m] \in Nat /\ w[m] \in Nat
    BY ElementOfSeq
  <2>2. 2 \in 1 .. 4 /\ 3 \in 1 .. 4 /\ 4 \in 1 .. 4
    OBVIOUS
  <2> QED
    BY <2>1, <2>2
<1>3. F \in Nat /\ D \in Nat
  BY PciAssumption
<1>4. base \in Nat
  <2> DEFINE R == [base : Nat, start_bus : Nat, end_bus : Nat]
  <2>1. Mcfg \in Seq(R)
    BY PciAssumption
  <2> HIDE DEF R
  <2>2. Mcfg[v[1]] \in R
    BY <2>1, ElementOfSeq
  <2> QED
    BY <2>2 DEF R
<1>5. n = 1 \/ (n # 1 /\ v[1] = w[1])
  BY <1>1
<1>6. n = 1 \/ n = 2 \/ n = 3 \/ n = 4
  BY <1>1
<1>7. a \in Nat /\ b \in Nat
  <2>1. v[2] * D \in Nat /\ w[2] * D \in Nat
    BY <1>2, <1>3, Product
  <2> QED
    BY <1>2, <2>1
<1>8. /\ v[1] = w[1] => Address(w) = base + b * F + w[4]
      /\ Address(v) = base + a * F + v[4]
  <2>1. /\ FirstFunction(v)[1] = v[1] /\ FirstFunction(v)[2] = v[2]
        /\ FirstFunction(v)[3] = v[3] /\ FirstFunction(v)[4] = v[4]
    BY WholeFunction
  <2>2. /\ FirstFunction(w)[1] = w[1] /\ FirstFunction(w)[2] = w[2]
        /\ FirstFunction(w)[3] = w[3] /\ FirstFunction(w)[4] = w[4]
    BY WholeFunction
  <2> QED
    BY <2>1, <2>2 DEF Address
<1>9. CASE n = 1
  BY <1>1, <1>9 DEF Precedes
<1>10. CASE n = 2 \/ n = 3
  <2>1. a < b
    <3>1. CASE n = 2
      <4>1. v[2] < w[2]
        BY <1>1, <3>1
      <4>2. v[2] * D + v[3] < w[2] * D
        BY <1>2, <1>3, <4>1, Digit
      <4>3. w[2] * D \in Nat
        BY <1>2, <1>3, Product
      <4>4. v[2] * D \in Nat
        BY <1>2, <1>3, Product
      <4> DEFINE p == v[2] * D
                 q == w[2] * D
      <4> HIDE DEF p, q
      <4>5. p \in Nat /\ q \in Nat /\ p + v[3] < q
        BY <4>2, <4>3, <4>4 DEF p, q
      <4>6. p + v[3] < q + w[3]
        BY <1>2, <4>5
      <4> QED
        BY <4>6 DEF p, q
    <3>2. CASE n = 3
      <4>1. v[3] < w[3] /\ v[2] = w[2]
        BY <1>1, <3>2
      <4> DEFINE p == v[2] * D
      <4>2. p \in Nat
        BY <1>2, <1>3, Product
      <4> HIDE DEF p
      <4>3. p + v[3] < p + w[3]
        BY <1>2, <4>1, <4>2
      <4> QED
        BY <4>1, <4>3 DEF p
    <3> QED
      BY <1>10, <3>1, <3>2
  <2> HIDE DEF a, b
  <2>2. a * F + v[4] < b * F
    BY <1>2, <1>3, <1>7, <2>1, Digit
  <2>3. a * F \in Nat /\ b * F \in Nat
    BY <1>3, <1>7, Product
  <2> DEFINE p == a * F
             q == b * F
  <2> HIDE DEF p, q, base
  <2>4. p \in Nat /\ q \in Nat /\ p + v[4] < q
    BY <2>2, <2>3 DEF p, q
  <2>5. base + p + v[4] < base + q + w[4]
    BY <1>2, <1>4, <2>4, SMTT(60)
  <2>6. v[1] = w[1]
    BY <1>5, <1>10
  <2>7. Address(v) < Address(w)
    BY <1>8, <2>5, <2>6 DEF p, q
  <2> QED
    BY <2>6, <2>7 DEF Precedes
<1>11. CASE n = 4
  <2>1. v[4] < w[4] /\ v[2] = w[2] /\ v[3] = w[3] /\ v[1] = w[1]
    BY <1>1, <1>11
  <2>2. a = b
    BY <2>1
  <2> HIDE DEF a, b
  <2> DEFINE p == a * F
  <2>3. p \in Nat
    BY <1>3, <1>7, Product
  <2>4. Address(v) = base + p + v[4] /\ Address(w) = base + p + w[4]
    BY <1>8, <2>1, <2>2
  <2> HIDE DEF p, base
  <2>5. Address(v) < Address(w)
    BY <1>2, <1>4, <2>1, <2>3, <2>4
  <2> QED
    BY <2>1, <2>5 DEF Precedes
<1> QED
  BY <1>6, <1>9, <1>10, <1>11

\* The controllers found are those passed, in order.
FoundPart ==
  /\ found \in Seq(Seq(Nat))
  /\ \A k \in DOMAIN found : found[k] \in Visible /\ Passed(found[k], walk)
  /\ \A w \in Visible : Passed(w, walk) => \E k \in DOMAIN found : found[k] = w
  /\ \A j, k \in DOMAIN found : j < k => Precedes(found[j], found[k])

\* The loops are entered for what answers, and left when all is passed.
EntryStages == UserStages \cup {"entry"}

LoopPart ==
  /\ Len(walk) > 1 => walk[2] >= Mcfg[walk[1]].start_bus
  /\ Len(walk) > 2 => IsPresent(<<walk[1], walk[2]>>)
  /\ Len(walk) > 3 => IsPresent(<<walk[1], walk[2], walk[3]>>)
  /\ stage \in EntryStages => Len(walk) = 1 /\ walk[1] > Len(Mcfg)

\* A configuration, and its buses.
LEMMA Configuration ==
  ASSUME NEW n \in DOMAIN Mcfg
  PROVE  n \in 1 .. Len(Mcfg) /\ Len(Mcfg) \in Nat /\ Mcfg[n].start_bus \in Nat /\ Mcfg[n].end_bus \in Nat
<1> DEFINE R == [base : Nat, start_bus : Nat, end_bus : Nat]
<1>1. Mcfg \in Seq(R)
  BY PciAssumption
<1> HIDE DEF R
<1>2. n \in 1 .. Len(Mcfg) /\ Len(Mcfg) \in Nat
  BY <1>1, LenProperties
<1>3. Mcfg[n] \in R
  BY <1>1, <1>2, ElementOfSeq
<1> QED
  BY <1>2, <1>3 DEF R

\* What the kernel is to find is a function of a configuration.
LEMMA VisibleFields ==
  ASSUME WalkPart, NEW w \in Visible
  PROVE  /\ w \in Seq(Nat) /\ Len(w) = 4 /\ \A n \in 1 .. 4 : w[n] \in Nat
         /\ w[1] \in DOMAIN Mcfg /\ w[2] >= Mcfg[w[1]].start_bus /\ w[2] < Mcfg[w[1]].end_bus
         /\ w[3] < Devices /\ w[4] < Functions
<1>1. w \in DOMAIN config /\ config \in ConfigSpaces /\ w[1] \in DOMAIN Mcfg
  BY DEF Visible, WalkPart
<1>2. /\ w \in Seq(Nat) /\ Len(w) = 4 /\ w[1] \in Nat /\ w[2] \in Nat
      /\ w[3] \in Nat /\ w[3] < Devices /\ w[4] \in Nat /\ w[4] < Functions
  BY <1>1, PluggedIn
<1>3. w[2] \in Mcfg[w[1]].start_bus .. Mcfg[w[1]].end_bus - 1
  BY DEF Visible
<1>4. Mcfg[w[1]].start_bus \in Nat /\ Mcfg[w[1]].end_bus \in Nat
  BY <1>1, Configuration
<1>5. w[2] >= Mcfg[w[1]].start_bus /\ w[2] < Mcfg[w[1]].end_bus
  BY <1>2, <1>3, <1>4
<1>6. \A n \in 1 .. 4 : w[n] \in Nat
  BY <1>2, ElementOfSeq
<1> QED
  BY <1>1, <1>2, <1>5, <1>6

\* Of two of them, the one passed first is the lower one.
LEMMA PassedPrecedes ==
  ASSUME WalkPart, NEW v \in Visible, NEW w \in Visible, Passed(v, walk), ~Passed(w, walk)
  PROVE  Precedes(v, w)
<1>1. walk \in Seq(Nat) /\ Len(walk) <= 4
  BY DEF WalkPart
<1>2. v \in Seq(Nat) /\ w \in Seq(Nat) /\ Len(v) = 4 /\ Len(w) = 4
  BY VisibleFields
<1>3. Passed(v, w)
  BY <1>1, <1>2, PassedBefore
<1> QED
  BY <1>2, <1>3, VisibleFields, AddressOrder

\* The walk goes on without passing any.
LEMMA NoneFound ==
  ASSUME FoundPart, UNCHANGED <<config, found>>,
         \A w \in Visible : Passed(w, walk') <=> Passed(w, walk)
  PROVE  FoundPart'
<1>1. Visible' = Visible
  BY DEF Visible, IsPresent, IsAhci, Header
<1>2. \A w : Passed(w, walk)' <=> Passed(w, walk')
  BY DEF Passed
<1>3. \A v, w : Precedes(v, w)' <=> Precedes(v, w)
  BY DEF Precedes
<1> QED
  BY <1>1, <1>2, <1>3 DEF FoundPart

\* It passes one, and that is added.
LEMMA OneFound ==
  ASSUME WalkPart, FoundPart, config' = config, found' = Append(found, walk), walk \in Visible,
         \A w \in Visible : Passed(w, walk') <=> Passed(w, walk) \/ w = walk
  PROVE  FoundPart'
<1>1. Visible' = Visible
  BY DEF Visible, IsPresent, IsAhci, Header
<1>2. \A w : Passed(w, walk)' <=> Passed(w, walk')
  BY DEF Passed
<1>3. \A v, w : Precedes(v, w)' <=> Precedes(v, w)
  BY DEF Precedes
<1>4. walk \in Seq(Nat) /\ found \in Seq(Seq(Nat)) /\ ~Passed(walk, walk)
  <2>1. walk \in Seq(Nat) /\ found \in Seq(Seq(Nat))
    BY DEF WalkPart, FoundPart
  <2>2. ASSUME Passed(walk, walk) PROVE FALSE
    <3>1. PICK n \in 1 .. Len(walk) : walk[n] < walk[n]
      BY <2>2 DEF Passed
    <3>2. walk[n] \in Nat
      BY <2>1, <3>1, ElementOfSeq
    <3> QED
      BY <3>1, <3>2
  <2> QED
    BY <2>1, <2>2
<1> DEFINE S == Seq(Nat)
           l == Len(found)
           new == l + 1
<1>5. /\ found' \in Seq(S) /\ DOMAIN found' = 1 .. new /\ DOMAIN found = 1 .. l /\ l \in Nat
      /\ found'[new] = walk /\ \A k \in 1 .. l : found'[k] = found[k]
  <2>1. found \in Seq(S) /\ walk \in S
    BY <1>4
  <2> HIDE DEF S
  <2> QED
    BY <2>1, AppendProperties, LenProperties
<1>6. /\ new \in 1 .. new /\ new \notin 1 .. l
      /\ \A k \in 1 .. new : k \in 1 .. l \/ k = new
      /\ \A k \in 1 .. l : k \in 1 .. new
      /\ \A j, k \in 1 .. new : j < k => j \in 1 .. l
  BY <1>5
<1> HIDE DEF new, l, S
<1>7. ASSUME NEW k \in DOMAIN found' PROVE found'[k] \in Visible /\ Passed(found'[k], walk')
  <2>1. CASE k \in 1 .. l
    BY <1>5, <2>1 DEF FoundPart
  <2>2. CASE k = new
    BY <1>5, <2>2
  <2> QED
    BY <1>5, <1>6, <2>1, <2>2
<1>8. ASSUME NEW w \in Visible, Passed(w, walk') PROVE \E k \in DOMAIN found' : found'[k] = w
  <2>1. CASE Passed(w, walk)
    <3>1. PICK k \in 1 .. l : found[k] = w
      BY <1>5, <2>1 DEF FoundPart
    <3> QED
      BY <1>5, <1>6, <3>1
  <2>2. CASE w = walk
    BY <1>5, <1>6, <2>2
  <2> QED
    BY <1>8, <2>1, <2>2
<1>9. ASSUME NEW j \in DOMAIN found', NEW k \in DOMAIN found', j < k PROVE Precedes(found'[j], found'[k])
  <2>1. j \in 1 .. l /\ found'[j] = found[j]
    BY <1>5, <1>6, <1>9
  <2>2. CASE k \in 1 .. l
    BY <1>5, <1>9, <2>1, <2>2 DEF FoundPart
  <2>3. CASE k = new
    <3>1. found[j] \in Visible /\ Passed(found[j], walk)
      BY <1>5, <2>1 DEF FoundPart
    <3>2. Precedes(found[j], walk)
      BY <1>4, <3>1, PassedPrecedes
    <3> QED
      BY <1>5, <2>1, <2>3, <3>2
  <2> QED
    BY <1>5, <1>6, <2>2, <2>3
<1>10. found' \in Seq(Seq(Nat))
  BY <1>5 DEF S
<1> QED
  BY <1>1, <1>2, <1>3, <1>7, <1>8, <1>9, <1>10 DEF FoundPart

\* A function under the counters is the walk's, as far as they go.
LEMMA UnderWalk ==
  ASSUME WalkPart, NEW w \in Visible, Agrees(w, walk)
  PROVE  /\ \A n \in 1 .. Len(walk) : w[n] = walk[n]
         /\ Len(walk) = 2 => walk = <<w[1], w[2]>>
         /\ Len(walk) = 3 => walk = <<w[1], w[2], w[3]>>
         /\ Len(walk) = 4 => walk = w
<1>1. walk \in Seq(Nat) /\ w \in Seq(Nat) /\ Len(w) = 4 /\ \A n \in 1 .. 4 : w[n] \in Nat
  BY VisibleFields DEF WalkPart
<1>2. \A n \in 1 .. Len(walk) : w[n] = walk[n]
  BY DEF Agrees
<1>3. ASSUME Len(walk) = 2 PROVE walk = <<w[1], w[2]>>
  <2> DEFINE u == <<w[1], w[2]>>
  <2>1. u \in Seq(Nat) /\ Len(u) = 2 /\ u[1] = w[1] /\ u[2] = w[2]
    BY <1>1
  <2> HIDE DEF u
  <2>2. \A n \in 1 .. 2 : walk[n] = u[n]
    BY <1>2, <1>3, <2>1
  <2> QED
    BY <1>1, <1>3, <2>1, <2>2, SeqEqual DEF u
<1>4. ASSUME Len(walk) = 3 PROVE walk = <<w[1], w[2], w[3]>>
  <2> DEFINE u == <<w[1], w[2], w[3]>>
  <2>1. u \in Seq(Nat) /\ Len(u) = 3 /\ u[1] = w[1] /\ u[2] = w[2] /\ u[3] = w[3]
    BY <1>1
  <2> HIDE DEF u
  <2>2. \A n \in 1 .. 3 : walk[n] = u[n]
    BY <1>2, <1>4, <2>1
  <2> QED
    BY <1>1, <1>4, <2>1, <2>2, SeqEqual DEF u
<1>5. ASSUME Len(walk) = 4 PROVE walk = w
  BY <1>1, <1>2, <1>5, SeqEqual
<1> QED
  BY <1>2, <1>3, <1>4, <1>5

\* Module Boot starts no enumeration over, and leaves none unfinished.
LEMMA NextEntry == ASSUME Next PROVE stage' \in EntryStages => stage \in EntryStages
<1> USE DEF EntryStages, UserStages, At, Goto, Again
<1>1. CASE ConfigurePmm \/ RootTable \/ LoadCr3 \/ NoBuffer \/ FirstBufferPage \/ TextBuffer
  BY <1>1 DEF ConfigurePmm, RootTable, LoadCr3, NoBuffer, FirstBufferPage, TextBuffer
<1>2. CASE \/ LoopEnds("identity", pmm!TotalPages[memory_map], "framebuffer")
           \/ LoopEnds("framebuffer", FramebufferPages, "cr3") \/ LoopEnds("heap", HeapLoop, "tss")
           \/ LoopEnds("tss", 6, "graphics") \/ LoopEnds("buffer", BufferPages, "text")
  BY <1>2 DEF LoopEnds
<1>3. CASE \/ IdentityMap \/ MapFramebuffer \/ MapHeap \/ RequestStack \/ MapStack \/ NextBufferPage
  BY <1>3 DEF IdentityMap, MapFramebuffer, MapHeap, RequestStack, MapStack, NextBufferPage
<1>4. CASE DonateEntry \/ UserStack \/ SysAllocatePage
  BY <1>4 DEF DonateEntry, UserStack, SysAllocatePage
<1>5. CASE MapStep /\ UNCHANGED bootVars
  BY <1>5 DEF bootVars
<1> QED
  BY <1>1, <1>2, <1>3, <1>4, <1>5 DEF Next

\* A loop that is not left keeps its counters.
LEMMA SameLoops ==
  ASSUME LoopPart, UNCHANGED <<config, walk>>,
         stage' \in EntryStages => stage \in EntryStages \/ (Len(walk) = 1 /\ walk[1] > Len(Mcfg))
  PROVE  LoopPart'
BY DEF LoopPart, IsPresent, Header

\* Before the MCFG is found and after the last counter, the walk stays.
LEMMA OtherSteps ==
  ASSUME Basic, FoundPart, LoopPart,
         \/ UNCHANGED everyVar \/ (Next /\ UNCHANGED pciVars) \/ Enumerate \/ EnumerationEnds
         \/ ProbePorts \/ ConfigurePorts \/ PortsDone
  PROVE  FoundPart' /\ LoopPart'
<1>1. UNCHANGED <<config, walk, found>>
  BY DEF everyVar, pciVars, Enumerate, EnumerationEnds, ProbePorts, ConfigurePorts, PortsDone
<1>2. FoundPart'
  BY <1>1, NoneFound
<1>3. stage' \in EntryStages => stage \in EntryStages \/ (Len(walk) = 1 /\ walk[1] > Len(Mcfg))
  <2>1. CASE UNCHANGED everyVar
    BY <2>1 DEF everyVar, vars, bootVars
  <2>2. CASE Next
    BY <2>2, NextEntry
  <2>3. CASE Enumerate
    BY <2>3 DEF Enumerate, EntryStages, UserStages
  <2>4. CASE EnumerationEnds
    BY <2>4 DEF EnumerationEnds
  <2>5. CASE ProbePorts \/ ConfigurePorts \/ PortsDone
    BY <2>5 DEF ProbePorts, ConfigurePorts, PortsDone, PciAt, At, Again, Goto, EntryStages, UserStages
  <2> QED
    BY <2>1, <2>2, <2>3, <2>4, <2>5
<1> QED
  BY <1>1, <1>2, <1>3, SameLoops

\* The first configuration: nothing is below it.
LEMMA FindsFirst ==
  ASSUME Basic, FoundPart, LoopPart, FindMcfg
  PROVE  FoundPart' /\ LoopPart'
<1>1. walk = <<>> /\ walk' = <<1>> /\ UNCHANGED <<config, found>> /\ stage' = "pci"
  BY DEF FindMcfg, At, PciAt
<1>2. WalkPart
  BY DEF Basic
<1>3. ASSUME NEW w \in Visible PROVE Passed(w, walk') <=> Passed(w, walk)
  <2>1. w[1] \in DOMAIN Mcfg
    BY <1>2, VisibleFields
  <2>2. w[1] \in 1 .. Len(Mcfg) /\ Len(Mcfg) \in Nat
    BY <2>1, Configuration
  <2>3. ~(w[1] < 1)
    BY <2>2
  <2>4. ~Passed(w, walk')
    BY <1>1, <2>3 DEF Passed
  <2>5. ~Passed(w, walk)
    BY <1>1 DEF Passed
  <2> QED
    BY <2>4, <2>5
<1>4. LoopPart'
  BY <1>1 DEF LoopPart, EntryStages, UserStages
<1> QED
  BY <1>1, <1>3, <1>4, NoneFound

\* A loop begins with the lowest counter.
LEMMA LoopBegins ==
  ASSUME Basic, FoundPart, LoopPart, NextConfiguration \/ EnterLoop
  PROVE  FoundPart' /\ LoopPart'
<1> DEFINE x == IF Len(walk) = 1 THEN Mcfg[walk[1]].start_bus ELSE 0
           l == Len(walk)
<1>1. WalkPart
  BY DEF Basic
<1>2. /\ walk \in Seq(Nat) /\ (l = 1 \/ l = 2 \/ l = 3)
      /\ walk' = Append(walk, x) /\ UNCHANGED <<config, found>> /\ stage' = "pci"
      /\ l = 1 => walk[1] <= Len(Mcfg)
      /\ l # 1 => IsPresent(walk)
  <2>1. walk \in Seq(Nat) /\ Len(walk) \in Nat /\ Len(walk) <= 4
    BY <1>1, LenProperties DEF WalkPart
  <2>2. CASE NextConfiguration
    BY <2>1, <2>2 DEF NextConfiguration, At, PciAt
  <2>3. CASE EnterLoop
    <3>1. Len(walk) < 4 /\ stage = "header"
      BY <2>3 DEF EnterLoop, ReadsHeader, At, PciAt
    <3>2. Len(walk) > 1
      BY <1>1, <3>1 DEF WalkPart
    <3>3. Len(walk) # 1 /\ (Len(walk) = 2 \/ Len(walk) = 3)
      <4>1. l \in Nat /\ l < 4 /\ l > 1
        BY <2>1, <3>1, <3>2
      <4> HIDE DEF l
      <4>2. l # 1 /\ (l = 2 \/ l = 3)
        BY <4>1
      <4> QED
        BY <4>2 DEF l
    <3> QED
      BY <2>1, <2>3, <3>3 DEF EnterLoop, ReadsHeader
  <2> QED
    BY <2>2, <2>3
<1>3. l = 1 => walk[1] \in DOMAIN Mcfg
  <2>1. l = 1 => walk[1] \in 1 .. Len(Mcfg) + 1
    BY <1>1 DEF WalkPart
  <2>2. Mcfg \in Seq([base : Nat, start_bus : Nat, end_bus : Nat])
    BY PciAssumption
  <2>3. DOMAIN Mcfg = 1 .. Len(Mcfg) /\ Len(Mcfg) \in Nat
    BY <2>2, LenProperties
  <2> QED
    BY <1>2, <2>1, <2>3
<1>4. x \in Nat
  BY <1>3, Configuration
<1>5. Len(walk') = l + 1 /\ walk'[l + 1] = x /\ \A n \in 1 .. l : walk'[n] = walk[n]
  BY <1>2, <1>4, Counted
<1>6. ASSUME NEW w \in Visible PROVE Passed(w, walk') <=> Passed(w, walk)
  <2>1. Passed(w, walk') <=> Passed(w, walk) \/ (Agrees(w, walk) /\ w[l + 1] < x)
    <3> HIDE DEF x
    <3> QED
      BY <1>2, <1>4, PassedFurther
  <2>2. ASSUME Agrees(w, walk) PROVE ~(w[l + 1] < x)
    <3>1. CASE l = 1
      <4>1. w[1] = walk[1] /\ l + 1 = 2 /\ x = Mcfg[walk[1]].start_bus
        BY <2>2, <3>1 DEF Agrees
      <4>2. w[2] >= Mcfg[w[1]].start_bus /\ w[2] \in Nat
        BY <1>1, VisibleFields
      <4> HIDE DEF x, l
      <4>3. w[2] >= x
        BY <4>1, <4>2
      <4> QED
        BY <1>4, <4>1, <4>2, <4>3
    <3>2. CASE l # 1
      <4>1. x = 0 /\ l + 1 \in 1 .. 4
        BY <1>2, <3>2, SMTT(60)
      <4>2. w[l + 1] \in Nat
        BY <1>1, <4>1, VisibleFields
      <4> QED
        BY <4>1, <4>2
    <3> QED
      BY <3>1, <3>2
  <2> QED
    BY <2>1, <2>2
<1>7. FoundPart'
  BY <1>2, <1>6, NoneFound
<1> HIDE DEF x
<1>8. CASE l = 1
  <2>1. walk'[2] = x /\ walk'[1] = walk[1] /\ Len(walk') = 2 /\ x = Mcfg[walk[1]].start_bus
    BY <1>5, <1>8 DEF x
  <2>2. walk'[2] >= Mcfg[walk'[1]].start_bus
    BY <1>4, <2>1
  <2> QED
    BY <1>2, <1>7, <2>1, <2>2 DEF LoopPart, EntryStages, UserStages
<1>9. \A w : IsPresent(w)' <=> IsPresent(w)
  BY <1>2 DEF IsPresent, Header
<1>10. CASE l = 2
  <2>1. walk'[1] = walk[1] /\ walk'[2] = walk[2] /\ Len(walk') = 3
    BY <1>5, <1>10
  <2>2. walk = <<walk[1], walk[2]>>
    BY <1>2, <1>10
  <2>3. IsPresent(<<walk'[1], walk'[2]>>)
    BY <1>2, <1>10, <2>1, <2>2
  <2>4. walk'[2] >= Mcfg[walk'[1]].start_bus
    BY <1>10, <2>1 DEF LoopPart
  <2> QED
    BY <1>2, <1>7, <1>9, <2>1, <2>3, <2>4 DEF LoopPart, EntryStages, UserStages
<1>11. CASE l = 3
  <2>1. walk'[1] = walk[1] /\ walk'[2] = walk[2] /\ walk'[3] = walk[3] /\ Len(walk') = 4
    BY <1>5, <1>11
  <2>2. walk = <<walk[1], walk[2], walk[3]>>
    BY <1>2, <1>11
  <2>3. IsPresent(<<walk'[1], walk'[2], walk'[3]>>) /\ IsPresent(<<walk'[1], walk'[2]>>)
    BY <1>2, <1>11, <2>1, <2>2, SMTT(60) DEF LoopPart
  <2>4. walk'[2] >= Mcfg[walk'[1]].start_bus
    BY <1>11, <2>1 DEF LoopPart
  <2> QED
    BY <1>2, <1>7, <1>9, <2>1, <2>3, <2>4 DEF LoopPart, EntryStages, UserStages
<1> QED
  BY <1>2, <1>8, <1>10, <1>11

\* The counters before the last stay.
LEMMA SiblingLoops ==
  ASSUME LoopPart, NEW w \in Seq(Nat), Len(w) \in {1, 2, 3, 4}, Len(walk) \in Nat, Len(w) <= Len(walk),
         \A n \in 1 .. Len(w) : w[n] = walk[n],
         walk' = Sibling(w), config' = config, stage' \notin EntryStages,
         Len(w) > 1 => w[1] \in DOMAIN Mcfg
  PROVE  LoopPart'
<1> DEFINE l == Len(w)
           u == Sibling(w)
<1>1. Len(u) = l /\ u[l] = w[l] + 1 /\ \A n \in 1 .. l - 1 : u[n] = w[n]
  <2>1. l = 1 \/ l = 2 \/ l = 3 \/ l = 4
    OBVIOUS
  <2>2. l \in Nat \ {0}
    <3> HIDE DEF l
    <3> QED
      BY <2>1
  <2> QED
    BY <2>2, SiblingFacts
<1>2. l = 1 \/ l = 2 \/ l = 3 \/ l = 4
  OBVIOUS
<1>3. l <= Len(walk) /\ Len(walk) \in Nat
  OBVIOUS
<1>7. l > 1 => w[1] \in DOMAIN Mcfg
  OBVIOUS
<1>8. \A n \in 1 .. l : w[n] = walk[n] /\ w[n] \in Nat
  BY ElementOfSeq
<1>9. walk' = u /\ stage' \notin EntryStages
  OBVIOUS
<1> HIDE DEF u, l
<1>4. \A x : IsPresent(x)' <=> IsPresent(x)
  BY DEF IsPresent, Header
<1>5. CASE l = 1
  <2>1. Len(walk') = 1
    BY <1>1, <1>5, <1>9
  <2> QED
    BY <1>9, <2>1 DEF LoopPart
<1>6. CASE l # 1
  <2>1. 1 \in 1 .. l - 1 /\ 1 \in 1 .. l /\ 2 \in 1 .. l
    BY <1>2, <1>6
  <2>2. u[1] = w[1] /\ w[1] = walk[1] /\ w[2] = walk[2]
    BY <1>1, <1>8, <2>1
  <2>3. Len(walk) > 1
    BY <1>2, <1>3, <1>6
  <2>4. w[2] >= Mcfg[w[1]].start_bus /\ w[2] \in Nat
    <3>1. w[2] \in Nat
      BY <1>8, <2>1
    <3> QED
      BY <2>2, <2>3, <3>1 DEF LoopPart
  <2>5. Mcfg[w[1]].start_bus \in Nat
    <3>1. l > 1
      BY <1>2, <1>6
    <3> QED
      BY <1>7, <3>1, Configuration
  <2>6. CASE l = 2
    <3>1. u[2] = w[2] + 1
      BY <1>1, <2>6
    <3>2. u[2] >= Mcfg[u[1]].start_bus
      BY <2>2, <2>4, <2>5, <3>1
    <3> QED
      <4>1. Len(walk') = 2
        BY <1>1, <1>9, <2>6
      <4> QED
        BY <1>9, <3>2, <4>1 DEF LoopPart
  <2>7. CASE l = 3 \/ l = 4
    <3>1. 2 \in 1 .. l - 1 /\ (l = 4 => 3 \in 1 .. l - 1 /\ 3 \in 1 .. l)
      BY <2>7
    <3>2. u[2] = w[2] /\ (l = 4 => u[3] = w[3] /\ w[3] = walk[3])
      BY <1>1, <1>8, <3>1
    <3>3. Len(walk) > 2 /\ (l = 4 => Len(walk) > 3)
      BY <1>3, <2>7
    <3>4. u[2] >= Mcfg[u[1]].start_bus
      BY <2>2, <2>4, <3>2
    <3>5. IsPresent(<<u[1], u[2]>>) /\ (l = 4 => IsPresent(<<u[1], u[2], u[3]>>))
      BY <2>2, <3>2, <3>3 DEF LoopPart
    <3> QED
      BY <1>1, <1>4, <1>9, <2>7, <3>4, <3>5 DEF LoopPart
  <2> QED
    BY <1>2, <1>6, <2>6, <2>7
<1> QED
  BY <1>5, <1>6

\* A header has been read: the walk goes on behind it.
LEMMA HeaderPassed ==
  ASSUME Basic, FoundPart, LoopPart, SkipFunction \/ InitializeController
  PROVE  FoundPart' /\ LoopPart'
<1>1. WalkPart
  BY DEF Basic
<1>2. /\ stage = "header" /\ walk' = Sibling(walk) /\ config' = config
      /\ stage' \in {"pci", "probe"}
  BY DEF SkipFunction, InitializeController, ReadsHeader, At, PciAt
<1>3. walk \in Seq(Nat) /\ (Len(walk) = 2 \/ Len(walk) = 3 \/ Len(walk) = 4)
  <2>1. walk \in Seq(Nat) /\ Len(walk) \in Nat /\ Len(walk) <= 4 /\ Len(walk) > 1
    BY <1>1, <1>2, LenProperties DEF WalkPart
  <2> DEFINE l == Len(walk)
  <2>2. l \in Nat /\ l <= 4 /\ l > 1
    BY <2>1
  <2> HIDE DEF l
  <2>3. l = 2 \/ l = 3 \/ l = 4
    BY <2>2
  <2> QED
    BY <2>1, <2>3 DEF l
<1>4. /\ walk[1] \in 1 .. Len(Mcfg) /\ walk[2] < Mcfg[walk[1]].end_bus
      /\ Len(walk) = 4 => walk[3] < Devices /\ walk[4] < Functions
  BY <1>1, <1>2, <1>3 DEF WalkPart
<1>5. walk[1] \in DOMAIN Mcfg
  <2>1. Mcfg \in Seq([base : Nat, start_bus : Nat, end_bus : Nat])
    BY PciAssumption
  <2>2. DOMAIN Mcfg = 1 .. Len(Mcfg)
    BY <2>1, LenProperties
  <2> QED
    BY <1>4, <2>2
<1>6. LoopPart'
  BY <1>2, <1>3, <1>5, SiblingLoops DEF EntryStages, UserStages
<1>7. ASSUME NEW w \in Visible PROVE Passed(w, walk') <=> Passed(w, walk) \/ Agrees(w, walk)
  <2>1. \A n \in 1 .. 4 : w[n] \in Nat
    BY <1>1, VisibleFields
  <2>2. Len(walk) \in 1 .. 4 /\ Len(walk) \in Nat \ {0}
    <3> DEFINE l == Len(walk)
    <3>1. l = 2 \/ l = 3 \/ l = 4
      BY <1>3
    <3> HIDE DEF l
    <3>2. l \in 1 .. 4 /\ l \in Nat \ {0}
      BY <3>1
    <3> QED
      BY <3>2 DEF l
  <2>3. w[Len(walk)] \in Nat
    BY <2>1, <2>2
  <2> QED
    BY <1>2, <1>3, <2>2, <2>3, PassedSibling
<1>8. CASE SkipFunction
  <2>1. found' = found /\ (~IsPresent(walk) \/ (Len(walk) = 4 /\ ~IsAhci(walk)))
    BY <1>8 DEF SkipFunction
  <2>2. ASSUME NEW w \in Visible, Agrees(w, walk) PROVE FALSE
    <3>1. /\ IsPresent(<<w[1], w[2]>>) /\ IsPresent(<<w[1], w[2], w[3]>>)
          /\ IsPresent(w) /\ IsAhci(w)
      BY DEF Visible
    <3>2. /\ Len(walk) = 2 => walk = <<w[1], w[2]>>
          /\ Len(walk) = 3 => walk = <<w[1], w[2], w[3]>>
          /\ Len(walk) = 4 => walk = w
      BY <1>1, <2>2, UnderWalk
    <3>3. CASE Len(walk) = 2
      BY <2>1, <3>1, <3>2, <3>3
    <3>4. CASE Len(walk) = 3
      BY <2>1, <3>1, <3>2, <3>4
    <3>5. CASE Len(walk) = 4
      BY <2>1, <3>1, <3>2, <3>5
    <3> QED
      BY <1>3, <3>3, <3>4, <3>5
  <2>3. FoundPart'
    BY <1>2, <1>7, <2>1, <2>2, NoneFound
  <2> QED
    BY <1>6, <2>3
<1>9. CASE InitializeController
  <2>1. found' = Append(found, walk) /\ IsPresent(walk) /\ Len(walk) = 4 /\ IsAhci(walk)
    BY <1>9 DEF InitializeController
  <2>2. walk \in DOMAIN config
    <3>1. FirstFunction(walk) = walk
      BY <1>3, <2>1, WholeFunction
    <3>2. Header(walk).class = <<1, 6, 1>>
      BY <2>1 DEF IsAhci
    <3>3. AllOnes.class # <<1, 6, 1>>
      BY DEF AllOnes
    <3>4. Header(walk) # AllOnes
      BY <3>2, <3>3
    <3> QED
      BY <3>1, <3>4 DEF Header
  <2>3. walk[2] \in Mcfg[walk[1]].start_bus .. Mcfg[walk[1]].end_bus - 1
    <3>1. walk[2] \in Nat
      <4>1. 2 \in 1 .. Len(walk)
        BY <2>1
      <4> QED
        BY <1>3, <4>1, ElementOfSeq
    <3>2. walk[2] >= Mcfg[walk[1]].start_bus
      BY <2>1 DEF LoopPart
    <3>3. Mcfg[walk[1]].start_bus \in Nat /\ Mcfg[walk[1]].end_bus \in Nat
      BY <1>5, Configuration
    <3> QED
      BY <1>4, <3>1, <3>2, <3>3
  <2>4. IsPresent(<<walk[1], walk[2]>>) /\ IsPresent(<<walk[1], walk[2], walk[3]>>)
    BY <2>1 DEF LoopPart
  <2>5. walk \in Visible
    BY <1>5, <2>1, <2>2, <2>3, <2>4 DEF Visible
  <2>6. ASSUME NEW w \in Visible PROVE Agrees(w, walk) <=> w = walk
    <3>1. ASSUME Agrees(w, walk) PROVE w = walk
      BY <1>1, <2>1, <3>1, UnderWalk
    <3>2. Agrees(walk, walk)
      BY DEF Agrees
    <3> QED
      BY <3>1, <3>2
  <2>7. FoundPart'
    BY <1>1, <1>2, <1>7, <2>1, <2>5, <2>6, OneFound
  <2> QED
    BY <1>6, <2>7
<1> QED
  BY <1>8, <1>9

\* A loop ends when all below its bound has been passed.
LEMMA LoopEnded ==
  ASSUME Basic, FoundPart, LoopPart, LoopReturns
  PROVE  FoundPart' /\ LoopPart'
<1> DEFINE u == Front(walk)
           l == Len(walk)
<1>1. WalkPart
  BY DEF Basic
<1>2. /\ walk' = Sibling(u) /\ UNCHANGED <<config, found>> /\ stage' = "pci"
      /\ l > 1 /\ Last(walk) >= Bound(walk)
  BY DEF LoopReturns, Computes, At, PciAt
<1>3. walk \in Seq(Nat) /\ (l = 2 \/ l = 3 \/ l = 4)
  <2>1. walk \in Seq(Nat) /\ l \in Nat /\ l <= 4 /\ l > 1
    BY <1>1, <1>2, LenProperties DEF WalkPart
  <2> HIDE DEF l
  <2>2. l = 2 \/ l = 3 \/ l = 4
    BY <2>1
  <2> QED
    BY <2>1, <2>2
<1>10. /\ l \in Nat \ {0} /\ 1 \in 1 .. l - 1
       /\ l \in 1 .. 4 /\ l - 1 \in 1 .. 4 /\ l - 1 \in Nat \ {0}
  <2> HIDE DEF l
  <2> QED
    BY <1>3
<1>4. u \in Seq(Nat) /\ Len(u) = l - 1 /\ \A n \in 1 .. l - 1 : u[n] = walk[n]
  BY <1>3, <1>10, Outer
<1>5. walk[1] \in 1 .. Len(Mcfg) /\ walk[1] = u[1]
  <2>1. walk[1] = u[1]
    BY <1>4, <1>10
  <2> QED
    BY <1>1, <1>2, <2>1 DEF WalkPart
<1>6. walk[1] \in DOMAIN Mcfg
  <2>1. Mcfg \in Seq([base : Nat, start_bus : Nat, end_bus : Nat])
    BY PciAssumption
  <2>2. DOMAIN Mcfg = 1 .. Len(Mcfg)
    BY <2>1, LenProperties
  <2> QED
    BY <1>5, <2>2
<1> HIDE DEF u
<1>7. LoopPart'
  <2>1. Len(u) \in {1, 2, 3, 4} /\ Len(u) <= Len(walk)
    BY <1>3, <1>4
  <2>2. \A n \in 1 .. Len(u) : u[n] = walk[n]
    BY <1>4
  <2>3. Len(walk) \in Nat
    BY <1>10
  <2>4. stage' \notin EntryStages
    BY <1>2 DEF EntryStages, UserStages
  <2>5. u[1] \in DOMAIN Mcfg
    BY <1>5, <1>6
  <2>6. walk' = Sibling(u) /\ config' = config
    BY <1>2
  <2> QED
    BY <1>4, <2>1, <2>2, <2>3, <2>4, <2>5, <2>6, SiblingLoops
<1>8. ASSUME NEW w \in Visible PROVE Passed(w, walk') <=> Passed(w, walk)
  <2>1. \A n \in 1 .. 4 : w[n] \in Nat
    BY <1>1, VisibleFields
  <2>2. l \in 1 .. 4 /\ l - 1 \in 1 .. 4 /\ Len(walk) \in Nat \ {0} /\ Len(u) \in Nat \ {0}
    BY <1>4, <1>10
  <2>3. w[l] \in Nat /\ w[Len(u)] \in Nat
    BY <1>4, <2>1, <2>2
  <2>4. Passed(w, walk') <=> Passed(w, u) \/ Agrees(w, u)
    BY <1>2, <1>4, <2>2, <2>3, PassedSibling
  <2>5. Passed(w, walk) <=> Passed(w, u) \/ (Agrees(w, u) /\ w[l] < Last(walk))
    BY <1>3, <2>2, <2>3, PassedSibling DEF u
  <2>6. ASSUME Agrees(w, u) PROVE w[l] < Last(walk)
    <3>1. Last(walk) \in Nat
      <4>1. walk[Len(walk)] \in Nat
        BY <1>3, <2>2, ElementOfSeq
      <4> QED
        BY <4>1 DEF Last
    <3>2. w[1] = walk[1]
      <4>1. 1 \in 1 .. Len(u)
        BY <2>2
      <4> QED
        BY <1>5, <2>6, <4>1 DEF Agrees
    <3>3. /\ l = 2 => Bound(walk) = Mcfg[walk[1]].end_bus
          /\ l = 3 => Bound(walk) = Devices
          /\ l = 4 => Bound(walk) = Functions
      BY DEF Bound
    <3>4. w[2] < Mcfg[w[1]].end_bus /\ w[3] < Devices /\ w[4] < Functions
      BY <1>1, VisibleFields
    <3>5. w[l] < Bound(walk) /\ Bound(walk) \in Nat
      <4>1. Mcfg[walk[1]].end_bus \in Nat /\ Devices \in Nat /\ Functions \in Nat
        BY <1>6, Configuration, PciAssumption
      <4> QED
        BY <1>3, <3>2, <3>3, <3>4, <4>1
    <3> DEFINE b == Bound(walk)
               z == Last(walk)
               y == w[l]
    <3>6. y \in Nat /\ b \in Nat /\ z \in Nat /\ y < b /\ z >= b
      BY <1>2, <2>3, <3>1, <3>5
    <3> HIDE DEF b, z, y
    <3>7. y < z
      BY <3>6
    <3> QED
      BY <3>7 DEF y, z
  <2> QED
    BY <2>4, <2>5, <2>6
<1>9. FoundPart'
  BY <1>2, <1>8, NoneFound
<1> QED
  BY <1>7, <1>9

\* The walk and what it has found, step by step.
LEMMA OrderNext ==
  ASSUME Basic, FoundPart, LoopPart, [PciNext]_everyVar
  PROVE  FoundPart' /\ LoopPart'
<1>1. CASE \/ UNCHANGED everyVar \/ (Next /\ UNCHANGED pciVars) \/ Enumerate \/ EnumerationEnds
           \/ ProbePorts \/ ConfigurePorts \/ PortsDone
  BY <1>1, OtherSteps
<1>2. CASE FindMcfg
  BY <1>2, FindsFirst
<1>3. CASE NextConfiguration \/ EnterLoop
  BY <1>3, LoopBegins
<1>4. CASE SkipFunction \/ InitializeController
  BY <1>4, HeaderPassed
<1>5. CASE LoopReturns
  BY <1>5, LoopEnded
<1> QED
  BY <1>1, <1>2, <1>3, <1>4, <1>5 DEF PciNext

\* At the start nothing is passed and nothing found.
LEMMA OrderInit == PciInit => FoundPart /\ LoopPart
<1> SUFFICES ASSUME PciInit PROVE FoundPart /\ LoopPart
  OBVIOUS
<1>1. walk = <<>> /\ found = <<>> /\ stage = "pmm"
  BY DEF PciInit, Init
<1>2. \A w : ~Passed(w, walk)
  BY <1>1 DEF Passed
<1> QED
  BY <1>1, <1>2 DEF FoundPart, LoopPart, EntryStages, UserStages

\* So they are found once each, in order, and all of them in the end.
LEMMA InOrder == Basic /\ FoundPart /\ LoopPart => ControllersInOrder
<1> SUFFICES ASSUME Basic, FoundPart, LoopPart PROVE ControllersInOrder
  OBVIOUS
<1>1. WalkPart
  BY DEF Basic
<1>2. ToSet(found) = {found[k] : k \in DOMAIN found}
  BY DEF ToSet
<1>3. ToSet(found) \subseteq Visible
  BY <1>2 DEF FoundPart
<1>4. \A j, k \in DOMAIN found : j < k => Precedes(found[j], found[k])
  BY DEF FoundPart
<1>5. ASSUME NEW v \in ToSet(found), NEW w \in Visible \ ToSet(found) PROVE Precedes(v, w)
  <2>1. v \in Visible /\ Passed(v, walk)
    BY <1>2 DEF FoundPart
  <2>2. ~Passed(w, walk)
    BY <1>2 DEF FoundPart
  <2> QED
    BY <1>1, <2>1, <2>2, PassedPrecedes
<1>6. ASSUME stage \in {"entry", "stack", "user"} PROVE Visible \subseteq ToSet(found)
  <2> SUFFICES ASSUME NEW w \in Visible PROVE w \in ToSet(found)
    OBVIOUS
  <2>1. Len(walk) = 1 /\ walk[1] > Len(Mcfg)
    BY <1>6 DEF LoopPart, EntryStages, UserStages
  <2>2. w[1] \in 1 .. Len(Mcfg) /\ Len(Mcfg) \in Nat
    <3>1. w[1] \in DOMAIN Mcfg
      BY <1>1, VisibleFields
    <3> QED
      BY <3>1, Configuration
  <2>3. walk[1] \in Nat
    BY <1>1, <2>1 DEF WalkPart
  <2>4. w[1] < walk[1]
    BY <2>1, <2>2, <2>3
  <2>5. Passed(w, walk)
    BY <2>1, <2>4 DEF Passed
  <2> QED
    BY <1>2, <2>5 DEF FoundPart
<1> QED
  BY <1>3, <1>4, <1>5, <1>6 DEF ControllersInOrder

\* enumerate_pci initializes each controller that answers, below an answering
\* device of an answering bus, once, in the order of the configurations and their
\* addresses, whatever is plugged in.
THEOREM ControllersOrdered == PciSpec /\ []MemoryLasts => []ControllersInOrder
<1>1. Basic /\ FoundPart /\ LoopPart /\ [PciNext]_everyVar => (FoundPart /\ LoopPart)'
  BY OrderNext
<1> QED
  BY <1>1, BasicAlways, OrderInit, InOrder, PTL DEF PciSpec

-----------------------------------------------------------------------------
(* How deep map_memory nests.                                              *)

\* The tables from frame a on: those of the nested calls, when a is the one the
\* outermost call has come to.
From(t, a) == {g \in DOMAIN t : a <= g}

\* Each of them but the first was entered on the way to one of them.
Chained(t, r, a) ==
  \A f \in From(t, a) \ {a} :
    \E v \in From(t, a), level \in 1 .. 3 : Reaches(t, r, v, level) /\ f = Node(t, r, v, level)

\* Walks to pages of one region pass the same table.
LEMMA SameRegion ==
  ASSUME NEW t, NEW r, NEW v, NEW w, NEW level \in 1 .. 3, Region(v, level) = Region(w, level)
  PROVE  Node(t, r, v, level) = Node(t, r, w, level)
<1>1. level = 1 \/ level = 2 \/ level = 3
  OBVIOUS
<1>2. \A k \in 0 .. level - 1 : Index(v, k) = Index(w, k)
  <2>1. CASE level = 1
    <3>1. Index(v, 0) = Index(w, 0)
      BY <2>1 DEF Region, Index
    <3> QED
      BY <2>1, <3>1
  <2>2. CASE level = 2
    <3>1. Index(v, 0) = Index(w, 0) /\ Index(v, 1) = Index(w, 1)
      BY <2>2 DEF Region, Index
    <3> QED
      BY <2>2, <3>1
  <2>3. CASE level = 3
    <3>1. Index(v, 0) = Index(w, 0) /\ Index(v, 1) = Index(w, 1) /\ Index(v, 2) = Index(w, 2)
      BY <2>3 DEF Region, Index
    <3> QED
      BY <2>3, <3>1
  <2> QED
    BY <1>1, <2>1, <2>2, <2>3
<1>3. /\ 0 \in 0 .. level - 1
      /\ level > 1 => 1 \in 0 .. level - 1
      /\ level > 2 => 2 \in 0 .. level - 1
  OBVIOUS
<1>4. On(t, r, v, 0) = On(t, r, w, 0)
  BY <1>2, <1>3, WalkStep
<1>5. level > 1 => On(t, r, v, 1) = On(t, r, w, 1)
  <2>1. 0 \in 0 .. 2 /\ 0 + 1 = 1
    OBVIOUS
  <2> QED
    BY <1>2, <1>3, <1>4, <2>1, WalkStep
<1>6. level > 2 => On(t, r, v, 2) = On(t, r, w, 2)
  <2>1. 1 \in 0 .. 2 /\ 1 + 1 = 2
    OBVIOUS
  <2> QED
    BY <1>2, <1>3, <1>5, <2>1, WalkStep
<1> QED
  BY <1>1, <1>4, <1>5, <1>6 DEF Node

\* The tables that translate finitely many pages are finitely many.
LEMMA FewTables ==
  ASSUME NEW S, IsFiniteSet(S)
  PROVE  IsFiniteSet(TablesFor(S)) /\ Cardinality(TablesFor(S)) \in Nat
<1> DEFINE f == [x \in (1 .. 3) \X S |-> <<x[1], Region(x[2], x[1])>>]
<1>1. f \in Surjection((1 .. 3) \X S, TablesFor(S))
  <2>1. \A x \in (1 .. 3) \X S : f[x] \in TablesFor(S)
    BY DEF TablesFor
  <2>2. ASSUME NEW y \in TablesFor(S) PROVE \E x \in (1 .. 3) \X S : f[x] = y
    <3>1. PICK level \in 1 .. 3, v \in S : y = <<level, Region(v, level)>>
      BY DEF TablesFor
    <3>2. <<level, v>> \in (1 .. 3) \X S /\ f[<<level, v>>] = y
      BY <3>1
    <3> QED
      BY <3>2
  <2>3. f \in [(1 .. 3) \X S -> TablesFor(S)]
    BY <2>1
  <2> QED
    BY <2>2, <2>3 DEF Surjection
<1>2. IsFiniteSet((1 .. 3) \X S)
  <2>1. 1 \in Int /\ 3 \in Int
    OBVIOUS
  <2>2. IsFiniteSet(1 .. 3)
    BY <2>1, FS_Interval, Zenon
  <2> QED
    BY <2>2, FS_Product
<1> HIDE DEF f
<1>3. IsFiniteSet(TablesFor(S))
  BY <1>1, <1>2, FS_Surjection
<1> QED
  BY <1>3, FS_CardinalityType

\* Tables chained from a and without a gap are never as many as the stack has room
\* for calls: so many frames would need fewer tables.
LEMMA TooFewToFill ==
  ASSUME FramesLieClose, NEW mm \in MemoryMaps, NEW t, NEW r, NEW a,
         a \in DOMAIN t, DOMAIN t \subseteq Allocatable(mm), Chained(t, r, a),
         NEW b \in DOMAIN t, \A g \in DOMAIN t : g <= b,
         \A g \in Allocatable(mm) : a <= g /\ g <= b => g \in DOMAIN t
  PROVE  Cardinality(From(t, a)) # StackCalls
<1> DEFINE A == From(t, a)
<1>1. Allocatable(mm) \subseteq pmm!MemoryFrames(mm) /\ pmm!TotalPages[mm] \in Nat
      /\ pmm!MemoryFrames(mm) = 0 .. pmm!TotalPages[mm] - 1
  BY MapFacts DEF Allocatable
<1>2. A = {f \in Allocatable(mm) : a <= f /\ f <= b}
  BY DEF From
<1>3. IsFiniteSet(A) /\ Cardinality(A) \in Nat
  <2>1. IsFiniteSet(0 .. pmm!TotalPages[mm] - 1)
    <3>1. 0 \in Int /\ pmm!TotalPages[mm] - 1 \in Int
      BY <1>1
    <3> QED
      BY <3>1, FS_Interval, Zenon
  <2>2. A \in SUBSET (0 .. pmm!TotalPages[mm] - 1)
    BY <1>1, <1>2
  <2> HIDE DEF A
  <2> QED
    BY <2>1, <2>2, FS_Subset, FS_CardinalityType
<1>4. a \in Int /\ a \in A
  BY <1>1 DEF From
<1>5. IsFiniteSet(TablesFor(A)) /\ Cardinality(TablesFor(A)) \in Nat
  BY <1>3, FewTables
<1> DEFINE way(f, x) == \E v \in A, level \in 1 .. 3 : x = <<level, Region(v, level)>>
                                                     /\ f = Node(t, r, v, level)
           p == [f \in A \ {a} |-> CHOOSE x \in TablesFor(A) : way(f, x)]
<1>6. ASSUME NEW f \in A \ {a} PROVE \E x \in TablesFor(A) : way(f, x)
  <2>1. PICK v \in A, level \in 1 .. 3 : f = Node(t, r, v, level)
    BY DEF Chained
  <2>2. <<level, Region(v, level)>> \in TablesFor(A)
    BY DEF TablesFor
  <2> QED
    BY <2>1, <2>2
<1>7. ASSUME NEW f, NEW g, NEW x, way(f, x), way(g, x) PROVE f = g
  <2>1. PICK v \in A, k \in 1 .. 3 : x = <<k, Region(v, k)>> /\ f = Node(t, r, v, k)
    BY <1>7
  <2>2. PICK w \in A, l \in 1 .. 3 : x = <<l, Region(w, l)>> /\ g = Node(t, r, w, l)
    BY <1>7
  <2>3. k = l /\ Region(v, k) = Region(w, k)
    BY <2>1, <2>2
  <2> QED
    BY <2>1, <2>2, <2>3, SameRegion
<1> HIDE DEF way
<1>8. \A f \in A \ {a} : p[f] \in TablesFor(A) /\ way(f, p[f])
  BY <1>6
<1>9. p \in Injection(A \ {a}, TablesFor(A))
  <2>1. p \in [A \ {a} -> TablesFor(A)]
    BY <1>8
  <2> HIDE DEF p, A
  <2>2. \A f, g \in A \ {a} : p[f] = p[g] => f = g
    BY <1>7, <1>8
  <2> QED
    BY <2>1, <2>2 DEF Injection, IsInjective
<1> HIDE DEF p
<1>10. Cardinality(A) - 1 <= Cardinality(TablesFor(A))
  <2> HIDE DEF A
  <2>1. Cardinality(A \ {a}) = Cardinality(A) - 1
    BY <1>3, <1>4, FS_RemoveElement
  <2>2. Cardinality(A \ {a}) <= Cardinality(TablesFor(A))
    BY <1>5, <1>9, FS_Injection
  <2> QED
    BY <2>1, <2>2
<1>11. Cardinality(A) = StackCalls => Cardinality(TablesFor(A)) < StackCalls - 1
  BY <1>2 DEF FramesLieClose
<1> QED
  BY <1>3, <1>5, <1>10, <1>11 DEF FramesLieClose

\* The nested calls map different tables of those from a on,
MapTables(cs, t, a) ==
  \A n \in 2 .. Len(cs) :
    cs[n].v \in From(t, a) /\ \A m \in 2 .. Len(cs) : m # n => cs[m].v # cs[n].v

\* and from there on memory was taken for tables only.
TakenForTables(bm, mm, t, a) == \A g \in bm \ pmm!BootOwned(mm) : a <= g => g \in DOMAIN t

\* What is requested comes before what is clear.
FilledPart ==
  stage # "pmm" => \A g \in bitmap \ pmm!BootOwned(memory_map), x \in Nat \ bitmap : g < x

\* While map_memory is nested.
NestPart ==
  Len(calls) > 1 =>
    LET a == calls[1].at
    IN  /\ a \in DOMAIN tables
        /\ MapTables(calls, tables, a)
        /\ Chained(tables, pml_4, a)
        /\ TakenForTables(bitmap, memory_map, tables, a)
        /\ Cardinality(From(tables, a)) < StackCalls

\* The boot begins with the memory map.
LEMMA BootBegins ==
  ASSUME Basic, [PciNext]_everyVar, stage = "pmm"
  PROVE  (stage' = "pmm" /\ calls' = calls) \/ ConfigurePmm
<1>1. calls = <<>> /\ stage # "root"
  BY DEF Basic, CallPart, Early
<1>2. CASE UNCHANGED everyVar
  BY <1>2 DEF everyVar, vars, bootVars, tableVars
<1>3. ASSUME NEW s, s # "pmm", At(s) PROVE FALSE
  BY <1>3 DEF At
<1>4. CASE Walks \/ ConfigurePorts
  <2>1. ~Walks
    BY PciStage DEF PciStages
  <2> QED
    BY <1>3, <1>4, <2>1 DEF ConfigurePorts, PciAt
<1>5. CASE MapStep
  BY <1>1, <1>5 DEF MapStep, Descend, NewTable, WriteLeaf
<1>6. CASE \/ RootTable \/ MapHeap \/ RequestStack \/ FirstBufferPage \/ NextBufferPage \/ TextBuffer
           \/ UserStack \/ SysAllocatePage \/ IdentityMap \/ MapFramebuffer \/ LoadCr3 \/ MapStack
           \/ NoBuffer \/ DonateEntry
  BY <1>3, <1>6 DEF RootTable, MapHeap, RequestStack, FirstBufferPage, NextBufferPage, TextBuffer,
                    UserStack, SysAllocatePage, IdentityMap, MapFramebuffer, LoadCr3, MapStack,
                    NoBuffer, DonateEntry
<1>7. CASE \/ LoopEnds("identity", pmm!TotalPages[memory_map], "framebuffer")
           \/ LoopEnds("framebuffer", FramebufferPages, "cr3")
           \/ LoopEnds("heap", HeapLoop, "tss")
           \/ LoopEnds("tss", 6, "graphics") \/ LoopEnds("buffer", BufferPages, "text")
  BY <1>3, <1>7 DEF LoopEnds
<1> QED
  BY <1>2, <1>4, <1>5, <1>6, <1>7 DEF PciNext, Walks, Next

\* First fit fills memory from below.
LEMMA FilledKept ==
  ASSUME Basic, MemoryLasts, [PciNext]_everyVar, FilledPart
  PROVE  FilledPart'
<1>1. CASE stage = "pmm"
  <2>1. CASE stage' = "pmm"
    BY <2>1 DEF FilledPart
  <2>2. CASE ConfigurePmm
    <3>1. bitmap' = pmm!BootOwned(memory_map')
      BY <2>2 DEF ConfigurePmm, pmm!Initialize
    <3> QED
      BY <3>1 DEF FilledPart
  <2> QED
    BY <1>1, <2>1, <2>2, BootBegins
<1>2. CASE stage # "pmm"
  <2>1. memory_map' = memory_map
    BY <1>2, MemoryStep
  <2>2. CASE bitmap' = bitmap
    BY <1>2, <2>1, <2>2 DEF FilledPart
  <2>3. CASE bitmap' # bitmap
    <3>1. PICK f \in Nat : bitmap' = bitmap \cup {f} /\ \A g \in Nat : g < f => g \in bitmap
      BY <1>2, <2>3, MemoryStep
    <3> SUFFICES ASSUME NEW g \in bitmap' \ pmm!BootOwned(memory_map), NEW x \in Nat \ bitmap'
                 PROVE  g < x
      BY <2>1 DEF FilledPart
    <3>2. CASE g \in bitmap
      BY <1>2, <3>1, <3>2 DEF FilledPart
    <3>3. CASE g = f
      BY <3>1, <3>3
    <3> QED
      BY <3>1, <3>2, <3>3
  <2> QED
    BY <2>2, <2>3
<1> QED
  BY <1>1, <1>2

\* A chain of tables stays one when a table is added,
LEMMA ChainGrown ==
  ASSUME NEW t, NEW u, NEW r, NEW k, NEW b, NEW s, NEW f, Grown(t, u, r, k, b, s, f), Tree(t, r),
         DOMAIN t \subseteq Nat, NEW a, Chained(t, r, a), NEW h \in From(t, a) \ {a}
  PROVE  \E v \in From(u, a), level \in 1 .. 3 : Reaches(u, r, v, level) /\ h = Node(u, r, v, level)
<1>1. PICK v \in From(t, a), level \in 1 .. 3 : Reaches(t, r, v, level) /\ h = Node(t, r, v, level)
  BY DEF Chained
<1>2. v \in Nat /\ v \in From(u, a)
  BY DEF From, Grown
<1>3. Entries \in Nat \ {0} /\ level \in Levels
  BY PagingAssumption DEF Levels
<1>4. Reaches(u, r, v, level) /\ Node(u, r, v, level) = Node(t, r, v, level)
  BY <1>1, <1>2, <1>3, WalksGrown
<1> QED
  BY <1>1, <1>2, <1>4

\* and when none is and links are kept.
LEMMA ChainKept ==
  ASSUME NEW t, NEW u, NEW r, SameLinks(t, u, r), DOMAIN u = DOMAIN t, DOMAIN t \subseteq Nat,
         NEW a, Chained(t, r, a)
  PROVE  Chained(u, r, a)
<1> SUFFICES ASSUME NEW h \in From(u, a) \ {a}
             PROVE  \E v \in From(u, a), level \in 1 .. 3 :
                      Reaches(u, r, v, level) /\ h = Node(u, r, v, level)
  BY DEF Chained
<1>1. From(u, a) = From(t, a)
  BY DEF From
<1>2. PICK v \in From(t, a), level \in 1 .. 3 : Reaches(t, r, v, level) /\ h = Node(t, r, v, level)
  BY <1>1 DEF Chained
<1>3. v \in Nat
  BY DEF From
<1>4. Entries \in Nat \ {0} /\ level \in Levels
  BY PagingAssumption DEF Levels
<1>5. Reaches(u, r, v, level) /\ Node(u, r, v, level) = Node(t, r, v, level)
  BY <1>2, <1>3, <1>4, WalksKept
<1> QED
  BY <1>1, <1>2, <1>5

\* A table is added to a chain, and mapped.
LEMMA NewTableNests ==
  ASSUME FramesLieClose, Basic, FirstFitPart, MemoryLasts, NewTable, UNCHANGED bootVars,
         FilledPart, NestPart
  PROVE  NestPart'
<1> DEFINE f == pmm!RequestedFrame
           N == Len(calls)
           a == IF N = 1 THEN f ELSE calls[1].at
           u == tables'
           owned == pmm!BootOwned(memory_map)
<1>1. /\ f \in Memory /\ f \in Nat /\ f \in VirtualPages /\ f \notin bitmap /\ f \notin DOMAIN tables
      /\ \A g \in Nat : g < f => g \in bitmap
      /\ bitmap' = bitmap \cup {f} /\ memory_map' = memory_map
      /\ Grown(tables, u, pml_4, Top.level, Top.at, Slot, f)
      /\ calls # <<>> /\ Top.level < 3 /\ pml_4' = pml_4
  BY NewTableFrame
<1>2. CallPart /\ TreePart /\ PmmPart /\ CallPart'
  BY NewTableKeeps DEF Basic
<1>3. /\ N \in Nat \ {0} /\ Top = calls[N] /\ Top \in CallRecords /\ Top.level \in Levels
      /\ stage \notin Early /\ Tree(tables, pml_4)
  BY <1>1, <1>2, TopFacts
<1>4. /\ Len(calls') = N + 1 /\ calls'[N] = Deeper(f) /\ calls'[N + 1] = NewCall(f, f, FALSE)
      /\ \A n \in 1 .. N - 1 : calls'[n] = calls[n]
  BY <1>1, <1>2, NewTableCalls
<1>5. /\ Deeper(f).v = Top.v /\ Deeper(f).level = Top.level + 1 /\ Deeper(f).at = f
      /\ NewCall(f, f, FALSE).v = f
  BY <1>1, <1>2, <1>3, DeeperFields, NewCallFields DEF TreePart
<1>6. OnItsWay(u, pml_4, Deeper(f))
  <2>1. N \in DOMAIN calls'
    BY <1>2, <1>3, <1>4 DEF CallPart
  <2> QED
    BY <1>1, <1>2, <1>4, <2>1 DEF CallPart
<1>7. /\ DOMAIN u = (DOMAIN tables) \cup {f}
      /\ DOMAIN tables \subseteq Memory /\ Memory \subseteq Nat /\ DOMAIN tables \subseteq bitmap
      /\ DOMAIN tables \cap owned = {} /\ owned \subseteq bitmap /\ memory_map \in MemoryMaps
      /\ stage # "pmm"
  BY <1>1, <1>2, <1>3, MemoryIsMappable DEF Grown, TreePart, PmmPart, Early
<1> HIDE DEF f, N, a, u, owned
<1>8. \A g \in DOMAIN tables : g < f
  <2> SUFFICES ASSUME NEW g \in DOMAIN tables, ~ (g < f) PROVE FALSE
    OBVIOUS
  <2>1. f \in Nat /\ g \in Nat
    BY <1>1, <1>7
  <2>2. f \in 0 .. g
    BY <2>1
  <2> QED
    BY <1>1, <2>2 DEF FirstFitPart
<1>9. calls'[1].at = a
  <2>1. CASE N = 1
    BY <1>4, <1>5, <2>1 DEF a
  <2>2. CASE N # 1
    <3>1. 1 \in 1 .. N - 1
      BY <1>3, <2>2
    <3> QED
      BY <1>4, <2>2, <3>1 DEF a
  <2> QED
    BY <2>1, <2>2
<1>10. N > 1 => /\ a \in DOMAIN tables /\ MapTables(calls, tables, a)
                /\ Chained(tables, pml_4, a) /\ TakenForTables(bitmap, memory_map, tables, a)
                /\ Cardinality(From(tables, a)) < StackCalls
  <2> SUFFICES ASSUME N > 1
               PROVE  /\ a \in DOMAIN tables /\ MapTables(calls, tables, a)
                      /\ Chained(tables, pml_4, a) /\ TakenForTables(bitmap, memory_map, tables, a)
                      /\ Cardinality(From(tables, a)) < StackCalls
    OBVIOUS
  <2>1. a = calls[1].at
    BY <1>3 DEF a
  <2> QED
    BY <2>1 DEF NestPart, N
<1>11. /\ a \in DOMAIN u /\ a \in Nat /\ a <= f
       /\ N = 1 => a = f /\ From(u, a) = {f}
       /\ N > 1 => From(u, a) = From(tables, a) \cup {f}
  <2>1. CASE N = 1
    <3>1. a = f
      BY <2>1 DEF a
    <3> QED
      BY <1>1, <1>7, <1>8, <2>1, <3>1 DEF From
  <2>2. CASE N # 1
    <3>1. N > 1
      BY <1>3, <2>2
    <3>2. a \in DOMAIN tables /\ a \in Nat
      BY <1>7, <1>10, <3>1
    <3> QED
      BY <1>1, <1>7, <1>8, <2>2, <3>1, <3>2 DEF From
  <2> QED
    BY <2>1, <2>2
<1>12. MapTables(calls', u, a)
  <2>1. f \in From(u, a)
    BY <1>7, <1>11 DEF From
  <2>2. CASE N = 1
    <3> DEFINE c == NewCall(f, f, FALSE)
    <3>3. calls'[N + 1] = c /\ c.v = f /\ Len(calls') = N + 1
      BY <1>4, <1>5
    <3> HIDE DEF c
    <3>1. Len(calls') = 2 /\ calls'[2].v = f
      BY <2>2, <3>3
    <3>2. \A n \in 2 .. 2 : n = 2
      OBVIOUS
    <3> QED
      BY <2>1, <3>1, <3>2 DEF MapTables
  <2>3. CASE N > 1
    <3>1. \A n \in 2 .. N : calls'[n].v = calls[n].v
      <4> SUFFICES ASSUME NEW n \in 2 .. N PROVE calls'[n].v = calls[n].v
        OBVIOUS
      <4>1. CASE n = N
        BY <1>3, <1>4, <1>5, <4>1
      <4>2. CASE n # N
        <5>1. n \in 1 .. N - 1
          BY <1>3, <4>2
        <5> QED
          BY <1>4, <5>1
      <4> QED
        BY <4>1, <4>2
    <3>2. \A n \in 2 .. N : /\ calls[n].v \in From(tables, a)
                            /\ \A m \in 2 .. N : m # n => calls[m].v # calls[n].v
      BY <1>10, <2>3 DEF MapTables, N
    <3>3. f \notin From(tables, a)
      BY <1>1 DEF From
    <3>4. Len(calls') = N + 1 /\ \A n \in 2 .. N + 1 : n = N + 1 \/ n \in 2 .. N
      BY <1>3, <1>4
    <3>5. calls'[N + 1].v = f
      BY <1>4, <1>5
    <3> SUFFICES ASSUME NEW n \in 2 .. N + 1
                 PROVE  /\ calls'[n].v \in From(u, a)
                        /\ \A m \in 2 .. N + 1 : m # n => calls'[m].v # calls'[n].v
      BY <3>4 DEF MapTables
    <3>6. CASE n = N + 1
      BY <2>1, <3>1, <3>2, <3>3, <3>4, <3>5, <3>6
    <3>7. CASE n \in 2 .. N
      BY <1>11, <2>3, <3>1, <3>2, <3>3, <3>4, <3>5, <3>7
    <3> QED
      BY <3>4, <3>6, <3>7
  <2> QED
    BY <1>3, <2>2, <2>3
<1>13. Chained(u, pml_4, a)
  <2>1. CASE N = 1
    BY <1>11, <2>1 DEF Chained
  <2>2. CASE N > 1
    <3> SUFFICES ASSUME NEW h \in From(u, a) \ {a}
                 PROVE  \E v \in From(u, a), level \in 1 .. 3 :
                          Reaches(u, pml_4, v, level) /\ h = Node(u, pml_4, v, level)
      BY DEF Chained
    <3>1. CASE h = f
      <4>1. Top.v \in From(tables, a)
        <5>1. N \in 2 .. Len(calls)
          BY <1>3, <2>2 DEF N
        <5> QED
          BY <1>3, <1>10, <2>2, <5>1 DEF MapTables
      <4>2. Top.v \in From(u, a) /\ Top.level + 1 \in 1 .. 3
        BY <1>1, <1>3, <1>11, <2>2, <4>1 DEF Levels
      <4>3. /\ Reaches(u, pml_4, Top.v, Top.level + 1)
            /\ f = Node(u, pml_4, Top.v, Top.level + 1)
        BY <1>5, <1>6 DEF OnItsWay
      <4> QED
        BY <3>1, <4>2, <4>3
    <3>2. CASE h # f
      <4>1. h \in From(tables, a) \ {a}
        BY <1>11, <2>2, <3>2
      <4>2. DOMAIN tables \subseteq Nat
        BY <1>7
      <4> QED
        BY <1>1, <1>3, <1>10, <2>2, <4>1, <4>2, ChainGrown
    <3> QED
      BY <3>1, <3>2
  <2> QED
    BY <1>3, <2>1, <2>2
<1>14. TakenForTables(bitmap', memory_map, u, a)
  <2> SUFFICES ASSUME NEW g \in bitmap' \ owned, a <= g, g # f PROVE g \in DOMAIN tables
    BY <1>1, <1>7 DEF TakenForTables, owned
  <2>1. g \in bitmap \ owned
    BY <1>1
  <2>2. CASE N = 1
    <3>1. g < f /\ a = f
      BY <1>1, <1>7, <1>11, <2>1, <2>2 DEF FilledPart, owned
    <3>2. g \in Nat
      BY <1>2, <1>7, <2>1, MapFacts DEF PmmPart
    <3> QED
      BY <1>1, <3>1, <3>2
  <2>3. CASE N > 1
    BY <1>10, <2>1, <2>3 DEF TakenForTables, owned
  <2> QED
    BY <1>3, <2>2, <2>3
<1>15. DOMAIN u \subseteq Allocatable(memory_map)
  BY <1>1, <1>7 DEF Allocatable, Memory, owned
<1>16. Cardinality(From(u, a)) # StackCalls
  <2>1. f \in DOMAIN u /\ \A g \in DOMAIN u : g <= f
    <3>1. \A g \in DOMAIN u : g = f \/ (g \in Nat /\ g < f)
      BY <1>7, <1>8
    <3> QED
      BY <1>1, <1>7, <3>1
  <2>2. ASSUME NEW g \in Allocatable(memory_map), a <= g, g <= f PROVE g \in DOMAIN u
    <3>1. g \in Memory /\ g \notin owned /\ g \in Nat
      BY <1>7, <2>2 DEF Allocatable, Memory, owned
    <3>2. CASE g = f
      BY <2>1, <3>2
    <3>3. CASE g # f
      <4>1. g \in bitmap'
        BY <1>1, <2>2, <3>1, <3>3
      <4> QED
        BY <1>14, <2>2, <3>1, <4>1 DEF TakenForTables, owned
    <3> QED
      BY <3>2, <3>3
  <2> QED
    BY <1>7, <1>11, <1>13, <1>15, <2>1, <2>2, TooFewToFill
<1>17. Cardinality(From(u, a)) < StackCalls
  <2>1. StackCalls \in Nat \ {0}
    BY DEF FramesLieClose
  <2>2. CASE N = 1
    <3>1. Cardinality({f}) = 1
      BY FS_Singleton
    <3> QED
      BY <1>11, <1>16, <2>1, <2>2, <3>1
  <2>3. CASE N > 1
    <3>1. IsFiniteSet(From(tables, a))
      <4>1. \A g \in From(tables, a) : g \in Nat /\ g <= f
        BY <1>1, <1>7, <1>8 DEF From
      <4>2. From(tables, a) \in SUBSET Nat /\ \A g \in From(tables, a) : g <= f
        BY <4>1
      <4> QED
        BY <1>1, <4>2, FS_BoundedSetOfNaturals
    <3>2. f \notin From(tables, a)
      BY <1>1 DEF From
    <3>3. Cardinality(From(u, a)) = Cardinality(From(tables, a)) + 1
      BY <1>11, <2>3, <3>1, <3>2, FS_AddElement
    <3>4. Cardinality(From(tables, a)) \in Nat
      BY <3>1, FS_CardinalityType
    <3> QED
      BY <1>10, <1>16, <2>1, <2>3, <3>3, <3>4
  <2> QED
    BY <1>3, <2>2, <2>3
<1> QED
  BY <1>1, <1>9, <1>11, <1>12, <1>13, <1>14, <1>17 DEF NestPart, u

\* Only map_memory itself nests.
LEMMA OneCallAtMost ==
  ASSUME [PciNext]_everyVar
  PROVE  UNCHANGED everyVar \/ (MapStep /\ UNCHANGED bootVars) \/ Len(calls') <= 1
<1>1. ASSUME NEW v, NEW p, NEW pat, JustMaps(v, p, pat), calls = <<>> PROVE Len(calls') <= 1
  <2> DEFINE c == NewCall(v, p, pat)
  <2>1. calls' = Append(<<>>, c)
    BY <1>1 DEF JustMaps, MapMemory
  <2> HIDE DEF c
  <2> QED
    BY <2>1
<1>2. ASSUME calls' = <<>> PROVE Len(calls') <= 1
  BY <1>2
<1>3. CASE \/ FindMcfg \/ NextConfiguration \/ SkipFunction \/ EnterLoop \/ LoopReturns
           \/ EnumerationEnds \/ ProbePorts \/ ConfigurePorts \/ PortsDone
  <2>1. calls' = <<>>
    BY <1>3 DEF FindMcfg, NextConfiguration, SkipFunction, EnterLoop, LoopReturns, EnumerationEnds,
                ProbePorts, ConfigurePorts, PortsDone, ReadsHeader, Computes, NoTables, At, PciAt
  <2> QED
    BY <1>2, <2>1
<1>4. CASE \/ ConfigurePmm \/ LoadCr3 \/ RequestStack \/ NoBuffer \/ TextBuffer
           \/ DonateEntry \/ UserStack \/ SysAllocatePage
           \/ LoopEnds("identity", pmm!TotalPages[memory_map], "framebuffer")
           \/ LoopEnds("framebuffer", FramebufferPages, "cr3")
           \/ LoopEnds("heap", HeapLoop, "tss")
           \/ LoopEnds("tss", 6, "graphics") \/ LoopEnds("buffer", BufferPages, "text")
  <2>1. calls' = <<>>
    BY <1>4 DEF ConfigurePmm, LoadCr3, RequestStack, NoBuffer, TextBuffer, DonateEntry, UserStack,
                SysAllocatePage, RequestAndDonate, LoopEnds, NoTables, At
  <2> QED
    BY <1>2, <2>1
<1>5. CASE RootTable
  <2> DEFINE c == [NewCall(pmm!RequestedFrame, pmm!RequestedFrame, FALSE) EXCEPT !.at = pmm!RequestedFrame]
  <2>1. calls' = <<c>>
    BY <1>5 DEF RootTable
  <2> HIDE DEF c
  <2> QED
    BY <2>1
<1>6. CASE Enumerate \/ InitializeController
  BY <1>1, <1>6 DEF Enumerate, InitializeController, ReadsHeader, At, PciAt
<1>7. CASE \/ IdentityMap \/ MapFramebuffer \/ MapHeap \/ MapStack \/ FirstBufferPage \/ NextBufferPage
  BY <1>1, <1>7 DEF IdentityMap, MapFramebuffer, MapHeap, MapStack, FirstBufferPage, NextBufferPage, At
<1> QED
  BY <1>3, <1>4, <1>5, <1>6, <1>7 DEF PciNext, Next

\* The other steps of map_memory: the outer calls stay, and the tables and their
\* links.
LEMMA OtherStepsNest ==
  ASSUME Basic, Descend \/ WriteLeaf, NestPart
  PROVE  NestPart'
<1> DEFINE N == Len(calls)
           a == calls[1].at
<1>1. CallPart /\ TreePart /\ calls # <<>>
  BY DEF Basic, Descend, WriteLeaf
<1>2. N \in Nat \ {0} /\ Top = calls[N] /\ Top \in CallRecords /\ stage \notin Early
  BY <1>1, TopFacts
<1>3. /\ UNCHANGED <<pml_4, bitmap, memory_map>> /\ DOMAIN tables' = DOMAIN tables
      /\ tables' = tables \/ SameLinks(tables, tables', pml_4)
  <2>1. CASE Descend
    BY <2>1 DEF Descend, pmmVars
  <2>2. CASE WriteLeaf
    BY <2>2, WriteLeafFacts DEF pmmVars
  <2> QED
    BY <2>1, <2>2
<1>4. /\ Len(calls') \in Nat /\ Len(calls') <= N
      /\ \A n \in 1 .. N - 1 : calls'[n] = calls[n]
      /\ \A n \in 1 .. Len(calls') : calls'[n].v = calls[n].v
  <2>1. CASE Descend
    <3>1. /\ calls' \in Seq(CallRecords) /\ Len(calls') = N /\ Found.frame \in Nat
          /\ calls'[N] = Deeper(Found.frame)
          /\ \A n \in 1 .. N - 1 : calls'[n] = calls[n]
      BY <1>1, <2>1, DescendCalls
    <3>2. Deeper(Found.frame).v = Top.v
      BY <1>2, <2>1, <3>1, DeeperFields DEF Descend
    <3> HIDE DEF N
    <3>3. \A n \in 1 .. N : n = N \/ n \in 1 .. N - 1
      BY <1>2
    <3> QED
      BY <1>2, <3>1, <3>2, <3>3
  <2>2. CASE WriteLeaf
    <3>1. /\ calls' \in Seq(CallRecords) /\ Len(calls') = N - 1
          /\ \A n \in 1 .. N - 1 : calls'[n] = calls[n]
      BY <1>1, <2>2, WriteLeafCalls
    <3> HIDE DEF N
    <3> QED
      BY <1>2, <3>1
  <2> QED
    BY <2>1, <2>2
<1> SUFFICES ASSUME Len(calls') > 1
             PROVE  /\ calls'[1].at \in DOMAIN tables'
                    /\ MapTables(calls', tables', calls'[1].at)
                    /\ Chained(tables', pml_4', calls'[1].at)
                    /\ TakenForTables(bitmap', memory_map', tables', calls'[1].at)
                    /\ Cardinality(From(tables', calls'[1].at)) < StackCalls
  BY DEF NestPart
<1> HIDE DEF N, a
<1>5. N > 1 /\ calls'[1].at = a
  <2>1. N > 1 /\ 1 \in 1 .. N - 1
    BY <1>2, <1>4
  <2> QED
    BY <1>4, <2>1 DEF a
<1>6. /\ a \in DOMAIN tables /\ MapTables(calls, tables, a)
      /\ Chained(tables, pml_4, a) /\ TakenForTables(bitmap, memory_map, tables, a)
      /\ Cardinality(From(tables, a)) < StackCalls
  BY <1>5 DEF NestPart, N, a
<1>7. From(tables', a) = From(tables, a)
  BY <1>3 DEF From
<1>8. MapTables(calls', tables', a)
  <2>1. \A n \in 2 .. Len(calls') : n \in 2 .. N /\ n \in 1 .. Len(calls')
    BY <1>2, <1>4
  <2>2. \A n \in 2 .. N : /\ calls[n].v \in From(tables, a)
                          /\ \A m \in 2 .. N : m # n => calls[m].v # calls[n].v
    BY <1>6 DEF MapTables, N
  <2> QED
    BY <1>4, <1>7, <2>1, <2>2 DEF MapTables
<1>9. Chained(tables', pml_4', a)
  <2>1. CASE tables' = tables
    BY <1>3, <1>6, <2>1
  <2>2. CASE SameLinks(tables, tables', pml_4)
    <3>1. DOMAIN tables \subseteq Nat
      BY <1>1, <1>2, MemoryIsMappable DEF TreePart, Basic, Early
    <3> QED
      BY <1>3, <1>6, <2>2, <3>1, ChainKept
  <2> QED
    BY <1>3, <2>1, <2>2
<1>10. TakenForTables(bitmap', memory_map', tables', a)
  BY <1>3, <1>6 DEF TakenForTables
<1> QED
  BY <1>3, <1>5, <1>6, <1>7, <1>8, <1>9, <1>10

\* The invariant of nesting is inductive, with those of the tables,
LEMMA NestNext ==
  ASSUME FramesLieClose, Basic, Reachable, MemoryLasts, FilledPart, NestPart, [PciNext]_everyVar
  PROVE  FilledPart' /\ NestPart'
<1>1. FilledPart'
  BY FilledKept
<1>2. CASE UNCHANGED everyVar
  BY <1>1, <1>2 DEF NestPart, everyVar, vars, pmmVars, tableVars
<1>3. CASE Len(calls') <= 1
  <2>1. ~ (Len(calls') > 1)
    <3>1. Len(calls') \in Nat
      BY BasicNext DEF Basic, CallPart
    <3> QED
      BY <1>3, <3>1
  <2> QED
    BY <1>1, <2>1 DEF NestPart
<1>4. CASE MapStep /\ UNCHANGED bootVars
  BY <1>1, <1>4, OtherStepsNest, NewTableNests DEF MapStep, Reachable
<1> QED
  BY <1>1, <1>2, <1>3, <1>4, OneCallAtMost

\* and bounds the calls: each but the first is for another table.
LEMMA NestBound == ASSUME FramesLieClose, Basic, NestPart PROVE NestingBounded
<1> DEFINE N == Len(calls)
           A == From(tables, calls[1].at)
<1>1. N \in Nat /\ StackCalls \in Nat \ {0}
  BY DEF Basic, CallPart, FramesLieClose
<1>2. CASE N <= 1
  BY <1>1, <1>2 DEF NestingBounded
<1>3. CASE N > 1
  <2>1. /\ Cardinality(A) < StackCalls
        /\ \A n \in 2 .. N : calls[n].v \in A /\ \A m \in 2 .. N : m # n => calls[m].v # calls[n].v
    BY <1>3 DEF NestPart, MapTables
  <2>2. IsFiniteSet(A)
    <3>1. calls # <<>>
      BY <1>3
    <3>2. stage \notin Early /\ TreePart /\ PmmPart
      BY <3>1, TopFacts DEF Basic
    <3>3. /\ DOMAIN tables \subseteq 0 .. pmm!TotalPages[memory_map] - 1
          /\ pmm!TotalPages[memory_map] \in Nat
      BY <3>2, MemoryIsMappable DEF TreePart, Early
    <3>4. 0 \in Int /\ pmm!TotalPages[memory_map] - 1 \in Int
      BY <3>3
    <3>5. IsFiniteSet(0 .. pmm!TotalPages[memory_map] - 1)
      BY <3>4, FS_Interval, Zenon
    <3>6. A \in SUBSET (0 .. pmm!TotalPages[memory_map] - 1)
      BY <3>3 DEF From
    <3> HIDE DEF A
    <3> QED
      BY <3>5, <3>6, FS_Subset
  <2> HIDE DEF N, A
  <2> DEFINE p == [n \in 2 .. N |-> calls[n].v]
  <2>3. p \in Injection(2 .. N, A)
    <3>1. p \in [2 .. N -> A] /\ \A m, n \in 2 .. N : p[m] = p[n] => m = n
      BY <2>1
    <3> HIDE DEF p
    <3> QED
      BY <3>1 DEF Injection, IsInjective
  <2> HIDE DEF p
  <2>4. Cardinality(2 .. N) <= Cardinality(A)
    BY <2>2, <2>3, FS_Injection
  <2>5. Cardinality(2 .. N) = N - 1
    <3>1. 2 \in Int /\ N \in Int
      BY <1>1
    <3>2. Cardinality(2 .. N) = IF 2 > N THEN 0 ELSE N - 2 + 1
      BY <3>1, FS_Interval, Zenon
    <3> QED
      BY <1>1, <1>3, <3>2
  <2>6. Cardinality(A) \in Nat
    BY <2>2, FS_CardinalityType
  <2> QED
    BY <1>1, <2>1, <2>4, <2>5, <2>6 DEF NestingBounded, N
<1> QED
  BY <1>1, <1>2, <1>3

\* map_memory nests no deeper than the boot stack has room for, if the frames that
\* request_page gives lie close: each call that nests is for a new table, which lies
\* right behind the tables of the calls around it, so that the tables its own address
\* needs are mostly there.
THEOREM NestingStaysBounded ==
  ASSUME FramesLieClose
  PROVE  PciSpec /\ []MemoryLasts => []NestingBounded
<1>1. PciInit => FilledPart /\ NestPart
  <2> SUFFICES ASSUME PciInit PROVE FilledPart /\ NestPart
    OBVIOUS
  <2>1. stage = "pmm" /\ calls = <<>>
    BY DEF PciInit, Init
  <2> QED
    BY <2>1 DEF FilledPart, NestPart
<1>2. (Basic /\ Reachable) /\ MemoryLasts /\ (FilledPart /\ NestPart) /\ [PciNext]_everyVar
        => (FilledPart /\ NestPart)'
  BY NestNext
<1>3. (Basic /\ Reachable) /\ (FilledPart /\ NestPart) => NestingBounded
  BY NestBound
<1> QED
  BY <1>1, <1>2, <1>3, ReachableAlways, PTL DEF PciSpec

=============================================================================
