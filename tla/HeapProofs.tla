----------------------------- MODULE HeapProofs -----------------------------
(***************************************************************************)
(* Proofs about the heap and its client, for a heap of any length and      *)
(* requests of any sizes.                                                  *)
(*                                                                         *)
(* The lemmas speak of a memory m and the set S of its segments, and not of*)
(* the variables, so that they can be used of every memory between the     *)
(* stores of malloc and free.                                              *)
(***************************************************************************)
EXTENDS HeapClient, WellFoundedInduction, TLAPS

-----------------------------------------------------------------------------
(* Addresses.                                                              *)

\* A nonempty set of naturals has a least element.
LEMMA LeastNatural ==
  ASSUME NEW T, T \subseteq Nat, T # {}
  PROVE  \E x \in T : \A y \in T : x <= y
<1>1. PICK x \in T : \A y \in T : ~ (<<y, x>> \in OpToRel(<, Nat))
  BY WFMin, NatLessThanWellFounded
<1>2. \A y \in T : ~ (y < x)
  BY <1>1 DEF OpToRel
<1> QED
  BY <1>2

\* The words of a header that lies in the heap are words of the model.
LEMMA HeaderInWords ==
  ASSUME NEW a, InHeap(a)
  PROVE  /\ a \in Nat /\ a >= heap_start
         /\ Length(a) \in Words /\ NextOf(a) \in Words /\ LastOf(a) \in Words /\ Free(a) \in Words
<1>1. heap_end \in Nat /\ heap_end % 8 = 0 /\ heap_end = 8 * (heap_end \div 8)
  BY HeapAssumption DEF heap_end
<1> DEFINE k == heap_end \div 8
<1>2. k \in Nat /\ heap_end = 8 * k /\ Words = {8 * n : n \in 0 .. k - 1}
  BY <1>1 DEF Words
<1> HIDE DEF k
<1>3. PICK n \in 0 .. k - 1 : a = 8 * n
  BY <1>2 DEF InHeap
<1>4. n + 3 \in 0 .. k - 1
  BY <1>2, <1>3 DEF InHeap, HeaderSize
<1>5. a + 8 = 8 * (n + 1) /\ a + 16 = 8 * (n + 2) /\ a + 24 = 8 * (n + 3)
  BY <1>2, <1>3
<1>6. n + 1 \in 0 .. k - 1 /\ n + 2 \in 0 .. k - 1
  BY <1>2, <1>4
<1>7. a \in Nat /\ a >= heap_start /\ a \in Words
  BY <1>2, <1>3 DEF InHeap
<1>8. a + 8 \in Words /\ a + 16 \in Words /\ a + 24 \in Words
  BY <1>2, <1>4, <1>5, <1>6
<1> QED
  BY <1>7, <1>8 DEF Length, NextOf, LastOf, Free

Onward(m, a) == IF InHeap(a) THEN m[NextOf(a)] ELSE NULL

\* The walk of a list exists: what malloc's loop looks at, one segment after another.
LEMMA WalkUnfolds ==
  ASSUME NEW m
  PROVE  /\ Walk(m)[0] = heap_start
         /\ \A n \in 1 .. MaxSegments : Walk(m)[n] = Onward(m, Walk(m)[n - 1])
<1> DEFINE Goes(f, k) ==
             f = [n \in 0 .. k |-> IF n = 0 THEN heap_start
                                   ELSE IF InHeap(f[n - 1]) THEN m[NextOf(f[n - 1])] ELSE NULL]
           Lost == {k \in Nat : ~\E f : Goes(f, k)}
<1>1. Lost = {}
  <2> SUFFICES ASSUME Lost # {} PROVE FALSE
    OBVIOUS
  <2>1. PICK k \in Lost : \A l \in Lost : k <= l
    BY LeastNatural
  <2>2. k \in Nat /\ ~\E f : Goes(f, k)
    OBVIOUS
  <2>3. CASE k = 0
    <3> DEFINE f0 == [n \in 0 .. 0 |-> heap_start]
    <3>1. f0 = [n \in 0 .. 0 |-> IF n = 0 THEN heap_start
                                 ELSE IF InHeap(f0[n - 1]) THEN m[NextOf(f0[n - 1])] ELSE NULL]
      OBVIOUS
    <3> QED
      BY <2>2, <2>3, <3>1
  <2>4. CASE k # 0
    <3>1. k - 1 \in Nat /\ k - 1 \notin Lost
      BY <2>1, <2>2, <2>4
    <3>2. PICK f : Goes(f, k - 1)
      BY <3>1
    <3> DEFINE g == [n \in 0 .. k |-> IF n = 0 THEN heap_start
                                      ELSE IF InHeap(f[n - 1]) THEN m[NextOf(f[n - 1])] ELSE NULL]
    <3>3. \A n \in 0 .. k - 1 : g[n] = f[n]
      BY <2>2, <3>2
    <3>4. \A n \in 0 .. k : n # 0 => n - 1 \in 0 .. k - 1
      BY <2>2
    <3>5. Goes(g, k)
      <4>1. \A n \in 0 .. k : n # 0 => g[n - 1] = f[n - 1]
        BY <3>3, <3>4
      <4>2. g = [n \in 0 .. k |-> g[n]] /\ DOMAIN g = 0 .. k
        OBVIOUS
      <4>3. \A n \in 0 .. k : g[n] = IF n = 0 THEN heap_start
                                     ELSE IF InHeap(g[n - 1]) THEN m[NextOf(g[n - 1])] ELSE NULL
        BY <4>1
      <4> HIDE DEF g
      <4> QED
        BY <4>2, <4>3
    <3> QED
      BY <2>2, <3>5
  <2> QED
    BY <2>3, <2>4
<1>2. MaxSegments \in Nat
  BY HeapAssumption
<1>3. \E f : Goes(f, MaxSegments)
  BY <1>1, <1>2
<1>4. Goes(Walk(m), MaxSegments)
  BY <1>3 DEF Walk
<1>5. \A n \in 0 .. MaxSegments :
        Walk(m)[n] = IF n = 0 THEN heap_start
                     ELSE IF InHeap(Walk(m)[n - 1]) THEN m[NextOf(Walk(m)[n - 1])] ELSE NULL
  <2> DEFINE w == Walk(m)
  <2>1. w = [n \in 0 .. MaxSegments |-> IF n = 0 THEN heap_start
                   ELSE IF InHeap(w[n - 1]) THEN m[NextOf(w[n - 1])] ELSE NULL]
    BY <1>4
  <2> HIDE DEF w
  <2>2. \A n \in 0 .. MaxSegments : w[n] = IF n = 0 THEN heap_start
                   ELSE IF InHeap(w[n - 1]) THEN m[NextOf(w[n - 1])] ELSE NULL
    BY <2>1
  <2> QED
    BY <2>2 DEF w
<1>6. 0 \in 0 .. MaxSegments /\ \A n \in 1 .. MaxSegments : n \in 0 .. MaxSegments /\ n # 0
  BY <1>2
<1> QED
  BY <1>5, <1>6 DEF Onward


-----------------------------------------------------------------------------
(* The list.                                                               *)

\* S are the segments of one doubly linked list in address order that starts at
\* heap_start; they lie in the heap, headers included, and do not overlap.
Linked(m, S, s) ==
  IF m[s + 8] = NULL THEN \A t \in S : t <= s
  ELSE /\ m[s + 8] \in S /\ s + 32 + m[s] <= m[s + 8] /\ m[m[s + 8] + 16] = s
       /\ \A t \in S : t <= s \/ m[s + 8] <= t

List(m, S) ==
  /\ m \in [Words -> Nat]
  /\ heap_start \in S /\ m[heap_start + 16] = NULL
  /\ \A s \in S : InHeap(s) /\ s + 32 + m[s] <= heap_end
  /\ \A s \in S : Linked(m, S, s)
  /\ \A s \in S \ {heap_start} : m[s + 16] \in S /\ m[m[s + 16] + 8] = s

\* No two free segments follow each other.
Merged(m, S) ==
  \A s \in S : m[s + 24] # 0 /\ m[s + 8] # NULL => m[m[s + 8] + 24] = 0

\* The words of the header of a segment.
LEMMA Header ==
  ASSUME NEW m, NEW S, List(m, S), NEW s \in S
  PROVE  /\ s \in Nat /\ s >= heap_start /\ s >= 32 /\ heap_start \in Nat
         /\ s \in Words /\ s + 8 \in Words /\ s + 16 \in Words /\ s + 24 \in Words
         /\ m[s] \in Nat /\ m[s + 8] \in Nat /\ m[s + 16] \in Nat /\ m[s + 24] \in Nat
         /\ s + 32 + m[s] <= heap_end /\ heap_end \in Nat
<1>1. InHeap(s) /\ s + 32 + m[s] <= heap_end /\ m \in [Words -> Nat]
  BY DEF List
<1>2. heap_start \in Nat /\ heap_start >= 32 /\ heap_end \in Nat
  BY HeapAssumption DEF heap_end
<1>3. /\ s \in Nat /\ s >= heap_start
      /\ s \in Words /\ s + 8 \in Words /\ s + 16 \in Words /\ s + 24 \in Words
  BY <1>1, HeaderInWords DEF Length, NextOf, LastOf, Free
<1> QED
  BY <1>1, <1>2, <1>3

\* Two segments do not overlap.
LEMMA Spaced ==
  ASSUME NEW m, NEW S, List(m, S), NEW s \in S, NEW t \in S, s < t
  PROVE  s + 32 + m[s] <= t /\ m[s + 8] # NULL /\ m[s + 8] <= t
<1>1. s \in Nat /\ t \in Nat /\ m[s] \in Nat /\ m[s + 8] \in Nat
  BY Header
<1>2. Linked(m, S, s)
  BY DEF List
<1>3. m[s + 8] # NULL
  BY <1>1, <1>2 DEF Linked
<1>4. s + 32 + m[s] <= m[s + 8] /\ m[s + 8] <= t
  BY <1>1, <1>2, <1>3 DEF Linked
<1> QED
  BY <1>1, <1>3, <1>4

\* So the words of two headers are not the same.
LEMMA HeadersApart ==
  ASSUME NEW m, NEW S, List(m, S), NEW s \in S, NEW t \in S, s # t
  PROVE  s + 32 <= t \/ t + 32 <= s
<1>1. s \in Nat /\ t \in Nat /\ m[s] \in Nat /\ m[t] \in Nat
  BY Header
<1>2. CASE s < t
  BY <1>1, <1>2, Spaced
<1>3. CASE t < s
  BY <1>1, <1>3, Spaced
<1> QED
  BY <1>1, <1>2, <1>3

\* A list depends on the first three words of its headers.
LEMMA SameList ==
  ASSUME NEW m, NEW S, List(m, S), NEW r \in [Words -> Nat],
         \A s \in S : r[s] = m[s] /\ r[s + 8] = m[s + 8] /\ r[s + 16] = m[s + 16]
  PROVE  List(r, S)
<1>1. heap_start \in S /\ m[heap_start + 16] = NULL /\ r[heap_start + 16] = NULL
  BY DEF List
<1>2. ASSUME NEW s \in S PROVE Linked(r, S, s)
  <2>1. Linked(m, S, s)
    BY DEF List
  <2>2. r[s] = m[s] /\ r[s + 8] = m[s + 8]
    OBVIOUS
  <2>3. CASE m[s + 8] = NULL
    BY <2>1, <2>2, <2>3 DEF Linked
  <2>4. CASE m[s + 8] # NULL
    <3>1. m[s + 8] \in S /\ r[m[s + 8] + 16] = m[m[s + 8] + 16]
      BY <2>1, <2>4 DEF Linked
    <3> QED
      BY <2>1, <2>2, <2>4, <3>1 DEF Linked
  <2> QED
    BY <2>3, <2>4
<1>3. ASSUME NEW s \in S \ {heap_start} PROVE r[s + 16] \in S /\ r[r[s + 16] + 8] = s
  BY DEF List
<1>4. \A s \in S : InHeap(s) /\ s + 32 + r[s] <= heap_end
  BY DEF List
<1> QED
  BY <1>1, <1>2, <1>3, <1>4 DEF List

-----------------------------------------------------------------------------
(* split and combine_forward.                                              *)

\* The words split leaves: what it writes in the headers of s, of the segment after
\* it and of the new one, and that it leaves the other headers alone.
LEMMA SplitWords ==
  ASSUME NEW m, NEW S, List(m, S), NEW s \in S,
         NEW size \in Nat, size % 8 = 0, size >= 16, size + 80 <= m[s],
         NEW r, r = Split(m, s, size), NEW new, new = s + size + 32
  PROVE  /\ r \in [Words -> Nat]
         /\ InHeap(new) /\ new \notin S /\ new \in Nat
         /\ r[new] = m[s] - size - 64 /\ r[new + 8] = m[s + 8] /\ r[new + 16] = s
         /\ r[new + 24] = m[s + 24]
         /\ r[s] = size /\ r[s + 8] = new /\ r[s + 16] = m[s + 16] /\ r[s + 24] = m[s + 24]
         /\ \A x \in S \ {s} :
              /\ r[x] = m[x] /\ r[x + 8] = m[x + 8] /\ r[x + 24] = m[x + 24]
              /\ r[x + 16] = IF x = m[s + 8] THEN new ELSE m[x + 16]
<1> DEFINE b == m[s + 8]
           l == m[s] - size - 64
<1>1. /\ s \in Nat /\ s >= 32 /\ m[s] \in Nat /\ b \in Nat /\ m[s + 24] \in Nat
      /\ s \in Words /\ s + 8 \in Words /\ s + 16 \in Words /\ s + 24 \in Words
      /\ s + 32 + m[s] <= heap_end /\ heap_end \in Nat /\ heap_end < Wide /\ s >= heap_start
      /\ heap_start \in Nat
  BY Header, HeapAssumption DEF heap_end
<1>2. l \in Nat /\ l >= 16 /\ l < Wide /\ Wide \in Nat /\ new \in Nat
  BY <1>1, HeapAssumption
<1>3. SplitLength(m, s, size) = l
  <2>1. l % Wide = l
    BY <1>2
  <2> QED
    BY <2>1 DEF SplitLength, Length, HeaderSize
<1>4. InHeap(new)
  <2>1. new >= heap_start /\ new + 32 <= heap_end
    BY <1>1, <1>2
  <2>2. new \in Words
    <3>1. PICK n \in 0 .. heap_end \div 8 - 1 : s = 8 * n
      BY <1>1 DEF Words
    <3>2. size \div 8 \in Nat /\ size = 8 * (size \div 8)
      OBVIOUS
    <3> DEFINE k == size \div 8
    <3>3. k \in Nat /\ size = 8 * k
      BY <3>2
    <3> HIDE DEF k
    <3>4. new = 8 * (n + k + 4) /\ n + k + 4 \in Nat
      BY <3>1, <3>3
    <3>5. heap_end % 8 = 0
      BY HeapAssumption DEF heap_end
    <3>6. heap_end = 8 * (heap_end \div 8) /\ heap_end \div 8 \in Nat
      BY <1>1, <3>5
    <3>7. n + k + 4 <= heap_end \div 8 - 1
      BY <2>1, <3>4, <3>6
    <3> QED
      BY <3>4, <3>6, <3>7 DEF Words
  <2> QED
    BY <2>1, <2>2 DEF InHeap, HeaderSize
<1>5. new \in Words /\ new + 8 \in Words /\ new + 16 \in Words /\ new + 24 \in Words
  BY <1>4, HeaderInWords DEF Length, NextOf, LastOf, Free
\* No other segment lies between s and the one after it.
<1>6. \A x \in S : x \in Nat /\ x >= 32 /\ (x + 32 <= s \/ x = s \/ new + 32 <= x)
  <2> SUFFICES ASSUME NEW x \in S
               PROVE x \in Nat /\ x >= 32 /\ (x + 32 <= s \/ x = s \/ new + 32 <= x)
    OBVIOUS
  <2>1. x \in Nat /\ x >= 32 /\ m[x] \in Nat
    BY Header
  <2>2. x < s => x + 32 + m[x] <= s
    BY Spaced
  <2>3. s < x => s + 32 + m[s] <= x
    BY Spaced
  <2> QED
    BY <1>1, <1>2, <2>1, <2>2, <2>3
<1>7. b = 0 \/ (b \in S /\ new + 32 <= b)
  <2>1. Linked(m, S, s)
    BY DEF List
  <2>2. b # 0 => b \in S /\ s + 32 + m[s] <= b
    BY <2>1 DEF Linked, NULL
  <2> QED
    BY <1>1, <1>2, <2>2
<1>8. m \in [Words -> Nat]
  BY DEF List
<1>9. r = [m EXCEPT ![b + 16] = new, ![new + 8] = b, ![s + 8] = new, ![new + 16] = s,
                    ![new] = l, ![new + 24] = m[s + 24], ![s] = size]
  <2> DEFINE at == s + size + HeaderSize
  <2>1. r = [m EXCEPT ![LastOf(m[NextOf(s)])] = at, ![NextOf(at)] = m[NextOf(s)],
                      ![NextOf(s)] = at, ![LastOf(at)] = s, ![Length(at)] = SplitLength(m, s, size),
                      ![Free(at)] = m[Free(s)], ![Length(s)] = size]
    BY <1>2, <1>3 DEF Split
  <2>2. /\ at = new /\ NextOf(s) = s + 8 /\ m[NextOf(s)] = b /\ LastOf(b) = b + 16 /\ NextOf(new) = new + 8
        /\ LastOf(new) = new + 16 /\ Length(new) = new /\ Free(new) = new + 24 /\ Length(s) = s
        /\ Free(s) = s + 24
    BY DEF NextOf, LastOf, Length, Free, HeaderSize
  <2> HIDE DEF at, l, b
  <2> QED
    BY <1>3, <2>1, <2>2
<1> HIDE DEF b, l
<1>10. r \in [Words -> Nat]
  BY <1>1, <1>2, <1>8, <1>9
<1>11. r[s] = size /\ r[s + 8] = new /\ r[s + 16] = m[s + 16] /\ r[s + 24] = m[s + 24]
  BY <1>1, <1>2, <1>7, <1>8, <1>9
<1>12. r[new] = l /\ r[new + 8] = b /\ r[new + 16] = s /\ r[new + 24] = m[s + 24]
  BY <1>1, <1>2, <1>5, <1>7, <1>8, <1>9
<1>13. ASSUME NEW x \in S \ {s}
       PROVE /\ r[x] = m[x] /\ r[x + 8] = m[x + 8] /\ r[x + 24] = m[x + 24]
             /\ r[x + 16] = IF x = b THEN new ELSE m[x + 16]
  <2>1. /\ x \in Nat /\ x >= 32 /\ (x + 32 <= s \/ new + 32 <= x)
        /\ x \in Words /\ x + 8 \in Words /\ x + 16 \in Words /\ x + 24 \in Words
    BY <1>6, Header
  <2>2. b = 0 \/ b = x \/ b + 32 <= x \/ x + 32 <= b
    BY <1>7, HeadersApart
  <2>3. r[x] = m[x] /\ r[x + 8] = m[x + 8] /\ r[x + 24] = m[x + 24]
    BY <1>1, <1>2, <1>8, <1>9, <2>1, <2>2
  <2>4. r[x + 16] = IF x = b THEN new ELSE m[x + 16]
    BY <1>1, <1>2, <1>8, <1>9, <2>1, <2>2
  <2> QED
    BY <2>3, <2>4
<1>14. new \notin S
  BY <1>1, <1>2, <1>6
<1> QED
  BY <1>2, <1>4, <1>10, <1>11, <1>12, <1>13, <1>14 DEF b, l

\* After split the list has the new segment between s and the one after it.
LEMMA SplitList ==
  ASSUME NEW m, NEW S, List(m, S), NEW s \in S,
         NEW size \in Nat, size % 8 = 0, size >= 16, size + 80 <= m[s],
         NEW r, r = Split(m, s, size), NEW new, new = s + size + 32
  PROVE  List(r, S \cup {new})
<1> DEFINE T == S \cup {new}
           b == m[s + 8]
<1>1. /\ r \in [Words -> Nat] /\ InHeap(new) /\ new \notin S /\ new \in Nat
      /\ r[new] = m[s] - size - 64 /\ r[new + 8] = b /\ r[new + 16] = s
      /\ r[s] = size /\ r[s + 8] = new /\ r[s + 16] = m[s + 16]
      /\ \A x \in S \ {s} : /\ r[x] = m[x] /\ r[x + 8] = m[x + 8]
                            /\ r[x + 16] = IF x = b THEN new ELSE m[x + 16]
  BY SplitWords
<1>2. \A x \in S : x \in Nat /\ x >= 32 /\ x >= heap_start /\ m[x] \in Nat /\ x + 32 + m[x] <= heap_end
  BY Header
<1>3. heap_start \in S /\ heap_start \in Nat /\ heap_end \in Nat /\ m[heap_start + 16] = NULL
  BY HeapAssumption DEF List, heap_end
<1>4. Linked(m, S, s) /\ s < new /\ s \in Nat
  BY <1>2 DEF List
<1>5. b # NULL => b \in S /\ b \in Nat /\ s + 32 + m[s] <= b /\ new + 32 + r[new] <= b /\ b # s
  <2>1. b # NULL => b \in S /\ s + 32 + m[s] <= b
    BY <1>4 DEF Linked
  <2>2. new + 32 + r[new] = s + m[s] /\ m[s] \in Nat
    BY <1>1, <1>2, <1>4
  <2> HIDE DEF b
  <2>3. ASSUME b # NULL
        PROVE  b \in S /\ b \in Nat /\ s + 32 + m[s] <= b /\ s + m[s] <= b /\ b # s
    <3>1. b \in S /\ s + 32 + m[s] <= b
      BY <2>1, <2>3
    <3>2. b \in Nat /\ m[s] \in Nat /\ s \in Nat
      BY <1>2, <2>2, <3>1
    <3> QED
      BY <3>1, <3>2
  <2> QED
    BY <2>2, <2>3
<1>6. \A t \in S : t <= s \/ (b # NULL /\ b <= t /\ new < t)
  <2>1. b = NULL => \A t \in S : t <= s
    BY <1>4 DEF Linked
  <2>2. b # NULL => \A t \in S : t <= s \/ b <= t
    BY <1>4 DEF Linked
  <2>3. b # NULL => new < b
    BY <1>1, <1>2, <1>5
  <2> HIDE DEF b
  <2> QED
    BY <1>1, <1>2, <1>5, <2>1, <2>2, <2>3
<1> HIDE DEF b
<1>7. Linked(r, T, s)
  BY <1>1, <1>2, <1>4, <1>6 DEF Linked, NULL
<1>8. Linked(r, T, new)
  <2>1. CASE b = NULL
    BY <1>1, <1>2, <1>4, <1>6, <2>1 DEF Linked
  <2>2. CASE b # NULL
    <3>1. r[b + 16] = new /\ b \in T /\ new + 32 + r[new] <= b
      BY <1>1, <1>5, <2>2
    <3>2. \A t \in T : t <= new \/ b <= t
      BY <1>1, <1>2, <1>4, <1>6
    <3> QED
      BY <1>1, <2>2, <3>1, <3>2 DEF Linked
  <2> QED
    BY <2>1, <2>2
<1>9. ASSUME NEW x \in S \ {s} PROVE Linked(r, T, x)
  <2> DEFINE c == m[x + 8]
  <2>1. Linked(m, S, x) /\ r[x] = m[x] /\ r[x + 8] = c /\ x \in Nat
    BY <1>1, <1>2 DEF List
  <2>2. CASE c = NULL
    <3>1. \A t \in S : t <= x
      BY <2>1, <2>2 DEF Linked
    <3>2. new < x
      BY <1>2, <1>4, <1>6, <3>1
    <3>3. \A t \in T : t <= x
      BY <1>1, <3>1, <3>2, <2>1
    <3> QED
      BY <2>1, <2>2, <3>3 DEF Linked
  <2>3. CASE c # NULL
    <3>1. c \in S /\ x + 32 + m[x] <= c /\ m[c + 16] = x /\ \A t \in S : t <= x \/ c <= t
      BY <2>1, <2>3 DEF Linked
    <3> HIDE DEF c
    <3>2. r[c + 16] = x
      <4>1. CASE c = s
        BY <1>1, <3>1, <4>1
      <4>2. CASE c # s
        <5>1. c # b
          <6>1. b # NULL => m[b + 16] = s
            BY <1>4 DEF Linked, b
          <6> QED
            BY <2>3, <3>1, <6>1
        <5> QED
          BY <1>1, <3>1, <4>2, <5>1
      <4> QED
        BY <4>1, <4>2
    <3>3. new <= x \/ c <= new
      BY <1>1, <1>2, <1>4, <1>6, <3>1
    <3>4. \A t \in T : t <= x \/ c <= t
      BY <3>1, <3>3
    <3>5. r[x + 8] = c /\ c \in T
      BY <2>1, <3>1 DEF c
    <3> QED
      BY <2>1, <2>3, <3>1, <3>2, <3>4, <3>5 DEF Linked
  <2> QED
    BY <2>2, <2>3
<1>10. ASSUME NEW x \in T \ {heap_start} PROVE r[x + 16] \in T /\ r[r[x + 16] + 8] = x
  <2>1. CASE x = new
    BY <1>1, <2>1
  <2>2. CASE x = b /\ x \in S
    BY <1>1, <1>4, <1>5, <2>2, <1>2 DEF NULL
  <2>3. CASE x \in S /\ x # b
    <3> DEFINE p == m[x + 16]
    <3>1. p \in S /\ m[p + 8] = x
      BY <2>3 DEF List
    <3>2. r[x + 16] = p
      BY <1>1, <2>3
    <3>3. p # s
      BY <2>3, <3>1 DEF b
    <3> HIDE DEF p
    <3> QED
      BY <1>1, <3>1, <3>2, <3>3
  <2> QED
    BY <2>1, <2>2, <2>3
<1>11. r[heap_start + 16] = NULL
  <2>1. heap_start # b
    BY <1>2, <1>3, <1>4, <1>5 DEF NULL
  <2> QED
    BY <1>1, <1>3, <2>1
<1>12. \A x \in T : InHeap(x) /\ x + 32 + r[x] <= heap_end
  <2>1. \A x \in S : InHeap(x)
    BY DEF List
  <2>2. new + 32 + r[new] <= heap_end /\ s + 32 + r[s] <= heap_end
    BY <1>1, <1>2, <1>3
  <2> QED
    BY <1>1, <1>2, <2>1, <2>2
<1> QED
  BY <1>1, <1>3, <1>7, <1>8, <1>9, <1>10, <1>11, <1>12 DEF List

\* The words combine_forward leaves: s has taken over the segment n after it.
LEMMA CombineWords ==
  ASSUME NEW m, NEW S, List(m, S), NEW s \in S,
         NEW n, n = m[s + 8], n # NULL, m[n + 24] # 0, NEW r, r = CombineForward(m, s)
  PROVE  /\ n \in S /\ s + 32 + m[s] <= n
         /\ r \in [Words -> Nat]
         /\ r[s] = m[s] + m[n] + 32 /\ r[s + 8] = m[n + 8] /\ r[s + 16] = m[s + 16]
         /\ \A x \in S \ {s} : /\ r[x] = m[x] /\ r[x + 8] = m[x + 8]
                               /\ r[x + 16] = IF x = m[n + 8] THEN s ELSE m[x + 16]
         /\ \A x \in S : r[x + 24] = m[x + 24]
<1> DEFINE after == m[n + 8]
           linked == IF after # NULL THEN [m EXCEPT ![after + 16] = s] ELSE m
           sum == m[s] + m[n] + 32
<1>1. n \in S /\ s + 32 + m[s] <= n /\ Linked(m, S, n)
  BY DEF List, Linked
<1>2. /\ s \in Nat /\ n \in Nat /\ m[s] \in Nat /\ m[n] \in Nat /\ after \in Nat
      /\ s \in Words /\ s + 8 \in Words /\ s + 16 \in Words /\ n + 32 + m[n] <= heap_end
      /\ heap_end \in Nat
  BY <1>1, Header
<1>3. sum % Wide = sum /\ sum \in Nat
  <2>1. Wide \in Nat /\ heap_end < Wide
    BY HeapAssumption DEF heap_end
  <2>2. sum \in Nat /\ sum < Wide
    BY <1>1, <1>2, <2>1
  <2> HIDE DEF sum
  <2> QED
    BY <2>1, <2>2
<1>4. m \in [Words -> Nat]
  BY DEF List
<1>5. after # NULL => after \in S /\ n + 32 + m[n] <= after
  BY <1>1 DEF Linked
<1>6. r = [linked EXCEPT ![s] = sum, ![s + 8] = after]
  <2>1. /\ NextOf(s) = s + 8 /\ NextOf(n) = n + 8 /\ Free(n) = n + 24 /\ Length(s) = s /\ Length(n) = n
        /\ LastOf(after) = after + 16 /\ HeaderSize = 32
    BY DEF NextOf, Free, Length, LastOf, HeaderSize
  <2>2. IsFree(m, n)
    BY <2>1 DEF IsFree
  <2>3. m[NextOf(s)] = n /\ m[NextOf(n)] = after
    BY <2>1
  <2>4. (m[Length(s)] + m[Length(n)] + HeaderSize) % Wide = sum
    BY <1>3, <2>1
  <2>5. CombineForward(m, s) =
          [(IF after # NULL THEN [m EXCEPT ![LastOf(after)] = s] ELSE m) EXCEPT
              ![Length(s)] = (m[Length(s)] + m[Length(n)] + HeaderSize) % Wide,
              ![NextOf(s)] = after]
    <3> HIDE DEF after, sum, linked
    <3> QED
      BY <2>2, <2>3 DEF CombineForward
  <2> HIDE DEF after, sum
  <2> QED
    BY <2>1, <2>4, <2>5 DEF linked
<1>7. \A x \in S : /\ x \in Nat /\ x \in Words /\ x + 8 \in Words /\ x + 16 \in Words /\ x + 24 \in Words
                   /\ x # s => (s + 32 <= x \/ x + 32 <= s)
                   /\ after # NULL => (x = after \/ after + 32 <= x \/ x + 32 <= after)
  BY <1>5, Header, HeadersApart
<1> HIDE DEF after, sum
<1>8. linked \in [Words -> Nat]
  BY <1>2, <1>4
<1>9. \A w \in Words : linked[w] = IF after # NULL /\ w = after + 16 THEN s ELSE m[w]
  BY <1>4
<1> HIDE DEF linked
<1>10. r \in [Words -> Nat]
  BY <1>2, <1>3, <1>6, <1>8
<1>11. \A w \in Words : r[w] = IF w = s + 8 THEN after ELSE IF w = s THEN sum ELSE linked[w]
  BY <1>2, <1>6, <1>8
<1>12. r[s] = sum /\ r[s + 8] = after
  BY <1>2, <1>11
<1>13. r[s + 16] = m[s + 16]
  <2>1. s # after
    BY <1>1, <1>2, <1>5, Header DEF NULL
  <2>2. s + 16 # after + 16
    BY <1>2, <2>1
  <2> QED
    BY <1>2, <1>9, <1>11, <2>2
<1>14. ASSUME NEW x \in S \ {s}
       PROVE  /\ r[x] = m[x] /\ r[x + 8] = m[x + 8]
              /\ r[x + 16] = IF x = after THEN s ELSE m[x + 16]
  <2>1. /\ x \in Nat /\ x \in Words /\ x + 8 \in Words /\ x + 16 \in Words
        /\ (s + 32 <= x \/ x + 32 <= s)
        /\ after # NULL => (x = after \/ after + 32 <= x \/ x + 32 <= after)
    BY <1>7
  <2>2. x = after => after # NULL
    BY Header DEF NULL
  <2>3. r[x] = linked[x] /\ r[x + 8] = linked[x + 8] /\ r[x + 16] = linked[x + 16]
    BY <1>2, <1>11, <2>1
  <2>4. linked[x] = m[x] /\ linked[x + 8] = m[x + 8]
    BY <1>2, <1>9, <2>1
  <2>5. linked[x + 16] = IF x = after THEN s ELSE m[x + 16]
    BY <1>2, <1>9, <2>1, <2>2
  <2> QED
    BY <2>3, <2>4, <2>5
<1>15. ASSUME NEW x \in S PROVE r[x + 24] = m[x + 24]
  <2>1. /\ x \in Nat /\ x + 24 \in Words /\ (x = s \/ s + 32 <= x \/ x + 32 <= s)
        /\ after # NULL => (x = after \/ after + 32 <= x \/ x + 32 <= after)
    BY <1>7
  <2>2. r[x + 24] = linked[x + 24]
    BY <1>2, <1>11, <2>1
  <2> QED
    BY <1>2, <1>9, <2>1, <2>2
<1> QED
  BY <1>1, <1>10, <1>12, <1>13, <1>14, <1>15 DEF after, sum

\* After combine_forward the list is without the segment taken over.
LEMMA CombineList ==
  ASSUME NEW m, NEW S, List(m, S), NEW s \in S,
         NEW n, n = m[s + 8], n # NULL, m[n + 24] # 0, NEW r, r = CombineForward(m, s)
  PROVE  List(r, S \ {n})
<1> DEFINE T == S \ {n}
           after == m[n + 8]
<1>1. /\ n \in S /\ s + 32 + m[s] <= n /\ r \in [Words -> Nat]
      /\ r[s] = m[s] + m[n] + 32 /\ r[s + 8] = after /\ r[s + 16] = m[s + 16]
      /\ \A x \in S \ {s} : /\ r[x] = m[x] /\ r[x + 8] = m[x + 8]
                            /\ r[x + 16] = IF x = after THEN s ELSE m[x + 16]
  BY CombineWords
<1>2. \A x \in S : x \in Nat /\ x >= 32 /\ x >= heap_start /\ m[x] \in Nat /\ x + 32 + m[x] <= heap_end
  BY Header
<1>3. heap_start \in S /\ heap_start \in Nat /\ m[heap_start + 16] = NULL
  BY HeapAssumption DEF List
<1>4. /\ s \in Nat /\ n \in Nat /\ m[s] \in Nat /\ m[n] \in Nat /\ s < n /\ s \in T
      /\ m[n + 16] = s /\ \A t \in S : t <= s \/ n <= t
  <2>1. s \in Nat /\ n \in Nat /\ m[s] \in Nat /\ m[n] \in Nat /\ s < n
    BY <1>1, <1>2
  <2>2. Linked(m, S, s)
    BY DEF List
  <2> QED
    BY <2>1, <2>2 DEF Linked
<1>5. Linked(m, S, n)
  BY <1>1 DEF List
<1>6. ASSUME after # NULL
      PROVE  /\ after \in S /\ after \in Nat /\ n + 32 + m[n] <= after /\ n < after
             /\ m[after + 16] = n /\ \A t \in S : t <= n \/ after <= t
  <2>1. /\ after \in S /\ n + 32 + m[n] <= after /\ m[after + 16] = n
        /\ \A t \in S : t <= n \/ after <= t
    BY <1>5, <1>6 DEF Linked
  <2>2. after \in Nat
    BY <1>2, <2>1
  <2> HIDE DEF after
  <2> QED
    BY <1>4, <2>1, <2>2
<1>7. after = NULL => \A t \in S : t <= n
  BY <1>5 DEF Linked
<1> HIDE DEF after
<1>8. Linked(r, T, s)
  <2>1. CASE after = NULL
    <3>1. \A t \in T : t <= s
      BY <1>2, <1>4, <1>7, <2>1
    <3> QED
      BY <1>1, <2>1, <3>1 DEF Linked
  <2>2. CASE after # NULL
    <3>1. after \in T /\ s + 32 + r[s] <= after /\ r[after + 16] = s
      BY <1>1, <1>4, <1>6, <2>2
    <3>2. \A t \in T : t <= s \/ after <= t
      BY <1>2, <1>4, <1>6, <2>2
    <3> QED
      BY <1>1, <2>2, <3>1, <3>2 DEF Linked
  <2> QED
    BY <2>1, <2>2
<1>9. ASSUME NEW x \in T \ {s} PROVE Linked(r, T, x)
  <2> DEFINE c == m[x + 8]
  <2>1. Linked(m, S, x) /\ r[x] = m[x] /\ r[x + 8] = c
    BY <1>1 DEF List
  <2>2. CASE c = NULL
    BY <2>1, <2>2 DEF Linked
  <2>3. CASE c # NULL
    <3>1. c \in S /\ x + 32 + m[x] <= c /\ m[c + 16] = x /\ \A t \in S : t <= x \/ c <= t
      BY <2>1, <2>3 DEF Linked
    <3>2. c # n
      BY <1>4, <3>1
    <3> HIDE DEF c
    <3>3. c # after
      BY <1>6, <2>3, <3>1
    <3>4. r[c + 16] = x
      BY <1>1, <3>1, <3>3
    <3>5. r[x + 8] = c /\ r[x] = m[x]
      BY <2>1 DEF c
    <3> QED
      BY <2>3, <3>1, <3>2, <3>4, <3>5 DEF Linked
  <2> QED
    BY <2>2, <2>3
<1>10. ASSUME NEW x \in T \ {heap_start} PROVE r[x + 16] \in T /\ r[r[x + 16] + 8] = x
  <2> DEFINE p == m[x + 16]
  <2>1. p \in S /\ m[p + 8] = x
    BY DEF List
  <2>2. CASE x = after
    <3>1. r[x + 16] = s
      BY <1>1, <1>2, <1>4, <1>6, <2>2 DEF NULL
    <3> QED
      BY <1>1, <1>4, <2>2, <3>1
  <2>3. CASE x # after
    <3>1. r[x + 16] = p
      BY <1>1, <2>3
    <3>2. p # n /\ p # s
      BY <2>1, <2>3 DEF after
    <3> HIDE DEF p
    <3> QED
      BY <1>1, <2>1, <3>1, <3>2
  <2> QED
    BY <2>2, <2>3
<1>11. r[heap_start + 16] = NULL
  <2>1. heap_start # after
    BY <1>2, <1>3, <1>4, <1>6 DEF NULL
  <2> QED
    BY <1>1, <1>3, <2>1
<1>12. \A x \in T : InHeap(x) /\ x + 32 + r[x] <= heap_end
  <2>1. \A x \in S : InHeap(x)
    BY DEF List
  <2>2. s + 32 + r[s] <= heap_end
    <3>1. heap_end \in Nat
      BY HeapAssumption DEF heap_end
    <3>2. n + 32 + m[n] <= heap_end
      BY <1>1, <1>2
    <3> QED
      BY <1>1, <1>4, <3>1, <3>2
  <2> QED
    BY <1>1, <1>2, <2>1, <2>2
<1>13. heap_start \in T
  BY <1>2, <1>3, <1>4
<1> QED
  BY <1>1, <1>8, <1>9, <1>10, <1>11, <1>12, <1>13 DEF List

-----------------------------------------------------------------------------
(* The segments malloc sees.                                               *)

\* NULL is no segment, and heap_start is one of the addresses of the heap.
LEMMA NullOutside == ~InHeap(NULL)
<1>1. heap_start \in Nat /\ heap_start >= 32
  BY HeapAssumption
<1> QED
  BY <1>1 DEF InHeap, NULL

\* The bound of Walk cuts no list short: malloc sees every segment.
LEMMA WalkSeesAll ==
  ASSUME NEW m, NEW S, List(m, S)
  PROVE  {Walk(m)[n] : n \in 0 .. MaxSegments} \ {NULL} = S
<1>1. /\ MaxSegments \in Nat \ {0} /\ MaxSegments * 32 >= HeapLength /\ heap_start \in Nat
      /\ heap_end = heap_start + HeapLength /\ HeapLength \in Nat
  BY HeapAssumption, ClientAssumption DEF heap_end, HeaderSize
<1>2. ASSUME NEW n \in 0 .. MaxSegments PROVE Walk(m)[n] \in S \cup {NULL}
  <2> DEFINE Odd == {k \in 0 .. MaxSegments : Walk(m)[k] \notin S \cup {NULL}}
  <2> SUFFICES ASSUME Odd # {} PROVE FALSE
    OBVIOUS
  <2>1. Odd \subseteq Nat
    BY <1>1
  <2>2. PICK k \in Odd : \A l \in Odd : k <= l
    BY <2>1, LeastNatural
  <2>3. k # 0
    BY <2>2, WalkUnfolds DEF List
  <2>4. k \in 1 .. MaxSegments /\ k - 1 \in 0 .. MaxSegments /\ k - 1 \notin Odd
    BY <1>1, <2>1, <2>2, <2>3
  <2>5. Walk(m)[k - 1] \in S \cup {NULL} /\ Walk(m)[k] = Onward(m, Walk(m)[k - 1])
    BY <2>4, WalkUnfolds
  <2>6. \A a \in S \cup {NULL} : Onward(m, a) \in S \cup {NULL}
    BY NullOutside DEF Onward, List, Linked, NextOf
  <2> QED
    BY <2>2, <2>5, <2>6
<1>3. ASSUME NEW s \in S PROVE \E n \in 0 .. MaxSegments : Walk(m)[n] = s
  <2> DEFINE Seen(x) == \E n \in 0 .. MaxSegments : Walk(m)[n] = x /\ 32 * n <= x - heap_start
             Lost == {x \in S : ~Seen(x)}
  <2>1. Lost = {}
    <3> SUFFICES ASSUME Lost # {} PROVE FALSE
      OBVIOUS
    <3>1. Lost \subseteq Nat
      BY Header
    <3>2. PICK x \in Lost : \A y \in Lost : x <= y
      BY <3>1, LeastNatural
    <3>3. x # heap_start
      <4>1. 0 \in 0 .. MaxSegments /\ Walk(m)[0] = heap_start /\ 32 * 0 <= heap_start - heap_start
        BY <1>1, WalkUnfolds
      <4> QED
        BY <3>2, <4>1
    <3> DEFINE p == m[x + 16]
    <3>4. p \in S /\ m[p + 8] = x
      BY <3>2, <3>3 DEF List
    <3>5. x \in Nat /\ p \in Nat /\ m[p] \in Nat /\ x >= 32 /\ p >= heap_start
          /\ x + 32 + m[x] <= heap_end /\ m[x] \in Nat
      BY <3>2, <3>4, Header
    <3>6. p + 32 + m[p] <= x
      <4>1. Linked(m, S, p)
        BY <3>4 DEF List
      <4> QED
        BY <3>4, <3>5, <4>1 DEF Linked, NULL
    <3> HIDE DEF p
    <3>7. p \notin Lost
      BY <3>1, <3>2, <3>5, <3>6
    <3>8. PICK n \in 0 .. MaxSegments : Walk(m)[n] = p /\ 32 * n <= p - heap_start
      BY <3>4, <3>7
    <3>9. 32 * (n + 1) <= x - heap_start /\ n + 1 \in 1 .. MaxSegments
      BY <1>1, <3>5, <3>6, <3>8
    <3>10. InHeap(p)
      BY <3>4 DEF List
    <3>11. Walk(m)[n + 1] = x
      <4>1. (n + 1) - 1 = n
        BY <3>8
      <4>2. Walk(m)[n + 1] = Onward(m, Walk(m)[n])
        BY <3>9, <4>1, WalkUnfolds
      <4> QED
        BY <3>4, <3>8, <3>10, <4>2 DEF Onward, NextOf
    <3>12. n + 1 \in 0 .. MaxSegments
      BY <3>8, <3>9
    <3> QED
      BY <3>2, <3>9, <3>11, <3>12
  <2> QED
    BY <2>1
<1>4. \A s \in S : s # NULL
  BY Header DEF NULL
<1> QED
  BY <1>2, <1>3, <1>4

\* malloc returns a free segment of the list that is long enough, or NULL.
LEMMA ChosenFits ==
  ASSUME NEW m, NEW S, List(m, S), NEW size, Chosen(m, size) # NULL
  PROVE  Chosen(m, size) \in S /\ Fits(m, Chosen(m, size), size)
<1> DEFINE hits == {n \in 0 .. MaxSegments : Fits(m, Walk(m)[n], size)}
<1>1. hits # {}
  BY DEF Chosen
<1>2. hits \subseteq Nat
  BY HeapAssumption
<1>3. \E n \in hits : \A k \in hits : n <= k
  <2> HIDE DEF hits
  <2> QED
    BY <1>1, <1>2, LeastNatural
<1>4. PICK n \in hits : Chosen(m, size) = Walk(m)[n]
  BY <1>1, <1>3 DEF Chosen
<1> QED
  BY <1>4, WalkSeesAll

-----------------------------------------------------------------------------
(* malloc and free.                                                        *)

Taken(m, S) == {x \in S : m[x + 24] = 0}

\* A size is rounded to a multiple of 8 that is not too short for split.
LEMMA RoundedSize ==
  ASSUME NEW size \in Nat \ {0}, size % 8 = 0
  PROVE  Rounded(size) \in Nat /\ Rounded(size) % 8 = 0 /\ Rounded(size) >= 16
<1>1. CASE size % 16 = 0
  <2>1. size >= 16
    BY <1>1
  <2> QED
    BY <1>1, <2>1 DEF Rounded
<1>2. CASE size % 16 # 0
  <2>1. size % 16 = 8
    BY <1>2
  <2> QED
    BY <1>2, <2>1 DEF Rounded
<1> QED
  BY <1>1, <1>2

\* A store into one word.
OneStore(r, m, w, v) == r \in [Words -> Nat] /\ r[w] = v /\ \A x \in Words \ {w} : r[x] = m[x]

\* What EXCEPT does to a memory.
LEMMA ExceptStores ==
  ASSUME NEW m \in [Words -> Nat], NEW w \in Words, NEW v \in Nat
  PROVE  OneStore([m EXCEPT ![w] = v], m, w, v)
BY DEF OneStore

\* The store into the word free of a segment leaves the list.
LEMMA MarkList ==
  ASSUME NEW m, NEW S, List(m, S), NEW s \in S, NEW v \in Nat,
         NEW r, OneStore(r, m, s + 24, v)
  PROVE  /\ List(r, S) /\ r[s + 24] = v
         /\ \A x \in S : r[x + 8] = m[x + 8] /\ r[x + 16] = m[x + 16] /\ (x # s => r[x + 24] = m[x + 24])
<1>1. s \in Nat /\ s + 24 \in Words
  BY Header
<1>2. r \in [Words -> Nat] /\ r[s + 24] = v /\ \A w \in Words : w # s + 24 => r[w] = m[w]
  BY DEF OneStore
<1>3. ASSUME NEW x \in S
      PROVE  /\ r[x] = m[x] /\ r[x + 8] = m[x + 8] /\ r[x + 16] = m[x + 16]
             /\ x # s => r[x + 24] = m[x + 24]
  <2>1. /\ x \in Nat /\ x \in Words /\ x + 8 \in Words /\ x + 16 \in Words /\ x + 24 \in Words
        /\ (x = s \/ s + 32 <= x \/ x + 32 <= s)
    BY Header, HeadersApart
  <2>2. /\ x # s + 24 /\ x + 8 # s + 24 /\ x + 16 # s + 24
        /\ x # s => x + 24 # s + 24
    BY <1>1, <2>1
  <2> QED
    BY <1>2, <2>1, <2>2
<1>4. List(r, S)
  BY <1>2, <1>3, SameList
<1> QED
  BY <1>2, <1>3, <1>4

\* malloc takes one free segment and, when it is long enough, splits off the rest of
\* it as a free segment; the other segments stay as they are.
LEMMA MallocTakes ==
  ASSUME NEW m, NEW S, List(m, S), Merged(m, S),
         NEW size \in Nat \ {0}, size % 8 = 0,
         NEW s, s = Chosen(m, Rounded(size)), s # NULL,
         ~(m[Length(s)] > Rounded(size) /\ Wraps(m, s, Rounded(size))),
         NEW r, r = Malloc(m, size)
  PROVE  \E T \in SUBSET Words : List(r, T) /\ Merged(r, T) /\ Taken(r, T) = Taken(m, S) \cup {s}
<1> DEFINE need == Rounded(size)
           k == IF m[Length(s)] > need THEN Split(m, s, need) ELSE m
<1>1. need \in Nat /\ need % 8 = 0 /\ need >= 16
  BY RoundedSize
<1> HIDE DEF need
<1>2. s \in S /\ m[s + 24] # 0 /\ m[s] >= need
  BY ChosenFits DEF Fits, IsFree, Free, Length, need
<1>3. /\ s \in Nat /\ m[s] \in Nat /\ m[s + 24] \in Nat /\ m \in [Words -> Nat]
      /\ \A x \in S : x \in Words
  BY <1>2, Header DEF List
<1>4. r = [k EXCEPT ![s + 24] = 0]
  BY DEF Malloc, Free, need
<1>5. m[s] > need => m[s] >= need + 64
  BY <1>1, <1>3 DEF Wraps, Length, HeaderSize, need
<1>6. k = m \/ (k = Split(m, s, need) /\ need + 80 <= m[s])
  <2>1. CASE m[s] > need /\ m[s] < need + 80
    <3> DEFINE l == m[s] - need - 64
    <3>1. l \in Nat /\ l < 16
      BY <1>1, <1>3, <1>5, <2>1
    <3>2. Wide \in Nat /\ Wide > 64
      BY HeapAssumption
    <3>3. l % Wide = l
      BY <3>1, <3>2
    <3>4. SplitLength(m, s, need) = l
      BY <3>3 DEF SplitLength, Length, HeaderSize
    <3> HIDE DEF l
    <3>5. Split(m, s, need) = m
      BY <3>1, <3>4 DEF Split
    <3> QED
      BY <3>5
  <2> QED
    BY <1>1, <1>3, <2>1 DEF Length
<1> HIDE DEF k
<1>7. OneStore(r, k, s + 24, 0)
  <2>1. k \in [Words -> Nat] /\ s + 24 \in Words
    BY <1>1, <1>2, <1>3, <1>6, SplitWords, Header
  <2> QED
    BY <1>4, <2>1, ExceptStores
<1>8. CASE k = m
  <2>1. /\ List(r, S) /\ r[s + 24] = 0
        /\ \A x \in S : r[x + 8] = m[x + 8] /\ (x # s => r[x + 24] = m[x + 24])
    BY <1>2, <1>7, <1>8, MarkList
  <2>2. \A x \in S : m[x + 8] # NULL => m[x + 8] \in S
    BY DEF List, Linked
  <2>3. Merged(r, S)
    BY <2>1, <2>2 DEF Merged
  <2>4. Taken(r, S) = Taken(m, S) \cup {s}
    BY <1>2, <2>1 DEF Taken
  <2> QED
    BY <1>3, <2>1, <2>3, <2>4
<1>9. CASE k = Split(m, s, need) /\ need + 80 <= m[s]
  <2> DEFINE new == s + need + 32
             T == S \cup {new}
  <2>1. List(k, T)
    BY <1>1, <1>2, <1>9, SplitList
  <2>2. /\ InHeap(new) /\ new \notin S
        /\ k[new + 8] = m[s + 8] /\ k[new + 24] = m[s + 24]
        /\ k[s + 8] = new /\ k[s + 24] = m[s + 24]
        /\ \A x \in S \ {s} : k[x + 8] = m[x + 8] /\ k[x + 24] = m[x + 24]
    BY <1>1, <1>2, <1>9, SplitWords
  <2> HIDE DEF new
  <2>3. /\ List(r, T) /\ r[s + 24] = 0
        /\ \A x \in T : r[x + 8] = k[x + 8] /\ (x # s => r[x + 24] = k[x + 24])
    <3>1. s \in T
      BY <1>2
    <3> HIDE DEF T
    <3> QED
      BY <1>7, <2>1, <3>1, MarkList
  <2>4. \A x \in S : m[x + 8] # NULL => m[x + 8] \in S
    BY DEF List, Linked
  <2>5. Merged(r, T)
    <3> SUFFICES ASSUME NEW x \in T, r[x + 24] # 0, r[x + 8] # NULL PROVE r[r[x + 8] + 24] = 0
      BY DEF Merged
    <3>1. x # s
      BY <2>3
    <3>2. CASE x = new
      <4>1. r[x + 8] = m[s + 8]
        BY <2>2, <2>3, <3>2
      <4>2. m[m[s + 8] + 24] = 0 /\ m[s + 8] \in S
        BY <1>2, <2>4, <4>1 DEF Merged
      <4>3. m[s + 8] # s
        BY <1>2, <4>2
      <4> QED
        BY <2>2, <2>3, <4>1, <4>2, <4>3
    <3>3. CASE x \in S
      <4> DEFINE c == m[x + 8]
      <4>1. r[x + 8] = c /\ m[x + 24] # 0
        BY <2>2, <2>3, <3>1, <3>3
      <4>2. c \in S /\ m[c + 24] = 0
        BY <2>4, <3>3, <4>1 DEF Merged
      <4> HIDE DEF c
      <4>3. c # s
        BY <1>2, <4>2
      <4> QED
        BY <2>2, <2>3, <4>1, <4>2, <4>3
    <3> QED
      BY <3>2, <3>3
  <2>6. Taken(r, T) = Taken(m, S) \cup {s}
    <3>1. \A x \in S \ {s} : r[x + 24] = m[x + 24]
      BY <2>2, <2>3
    <3>2. r[new + 24] # 0 /\ new # s
      BY <1>2, <2>2, <2>3
    <3> QED
      BY <1>2, <2>3, <3>1, <3>2 DEF Taken
  <2>7. new \in Words
    BY <2>2 DEF InHeap
  <2> QED
    BY <1>3, <2>3, <2>5, <2>6, <2>7
<1> QED
  BY <1>6, <1>8, <1>9

\* Free segments follow each other at most where s is, and there not after it.
AlmostMerged(m, S, s) ==
  /\ s \in S /\ m[s + 24] # 0 /\ (m[s + 8] # NULL => m[m[s + 8] + 24] = 0)
  /\ \A x \in S \ {s} : m[x + 24] # 0 /\ m[x + 8] \notin {NULL, s} => m[m[x + 8] + 24] = 0

\* free marks the segment and takes over the one after it when that is free.
LEMMA FreeForward ==
  ASSUME NEW m, NEW S, List(m, S), Merged(m, S), NEW s \in S, m[s + 24] = 0,
         NEW k, OneStore(k, m, s + 24, 1),
         NEW r, r = IF k[NextOf(s)] # NULL /\ IsFree(k, k[NextOf(s)]) THEN CombineForward(k, s) ELSE k
  PROVE  \E T \in SUBSET S : List(r, T) /\ AlmostMerged(r, T, s) /\ Taken(r, T) = Taken(m, S) \ {s}
<1> DEFINE n == k[s + 8]
<1>1. /\ List(k, S) /\ k[s + 24] = 1
      /\ \A x \in S : k[x + 8] = m[x + 8] /\ (x # s => k[x + 24] = m[x + 24])
  BY MarkList
<1>2. Taken(k, S) = Taken(m, S) \ {s}
  BY <1>1 DEF Taken
<1>3. \A x \in S : k[x + 8] # NULL => k[x + 8] \in S
  BY <1>1 DEF List, Linked
<1>4. n # NULL => n \in S /\ n # s
  <2>1. n # NULL => n \in S /\ s + 32 + k[s] <= n
    BY <1>1 DEF List, Linked
  <2>2. s \in Nat /\ k[s] \in Nat
    BY <1>1, Header
  <2>3. n # NULL => n \in Nat
    BY <1>1, <2>1, Header
  <2> HIDE DEF n
  <2> QED
    BY <2>1, <2>2, <2>3
<1>5. \A x \in S \ {s} : k[x + 24] # 0 /\ k[x + 8] \notin {NULL, s} => k[k[x + 8] + 24] = 0
  <2> SUFFICES ASSUME NEW x \in S \ {s}, k[x + 24] # 0, k[x + 8] \notin {NULL, s} PROVE k[k[x + 8] + 24] = 0
    OBVIOUS
  <2> DEFINE c == k[x + 8]
  <2>1. c \in S /\ c # s /\ c = m[x + 8] /\ m[x + 24] # 0
    BY <1>1, <1>3
  <2>2. m[c + 24] = 0
    BY <2>1 DEF Merged
  <2> HIDE DEF c
  <2>3. k[c + 24] = 0
    BY <1>1, <2>1, <2>2
  <2> QED
    BY <2>3 DEF c
<1>6. CASE n # NULL /\ k[n + 24] # 0
  <2> DEFINE T == S \ {n}
             after == k[n + 8]
  <2>1. r = CombineForward(k, s)
    BY <1>6 DEF NextOf, IsFree, Free
  <2>2. n \in S /\ n # s /\ m[n + 24] # 0
    BY <1>1, <1>4, <1>6
  <2>3. /\ r[s + 8] = after /\ \A x \in S \ {s} : r[x + 8] = k[x + 8]
        /\ \A x \in S : r[x + 24] = k[x + 24]
    BY <1>1, <1>6, <2>1, CombineWords
  <2>4. List(r, T)
    BY <1>1, <1>6, <2>1, CombineList
  <2>5. after # NULL => after \in S /\ after # s /\ k[after + 24] = 0
    <3>1. after = m[n + 8] /\ (after # NULL => after \in S)
      BY <1>1, <1>3, <2>2
    <3>2. after # NULL => m[after + 24] = 0
      BY <2>2, <3>1 DEF Merged
    <3>3. after # NULL => after # s
      <4>1. after # NULL => n + 32 + k[n] <= after /\ s + 32 + k[s] <= n
        BY <1>1, <1>6, <2>2 DEF List, Linked
      <4>2. s \in Nat /\ n \in Nat /\ k[s] \in Nat /\ k[n] \in Nat
        BY <1>1, <2>2, Header
      <4> HIDE DEF after, n
      <4>3. after = s => FALSE \/ after = NULL
        BY <4>1, <4>2
      <4> QED
        BY <4>3
    <3> HIDE DEF after
    <3> QED
      BY <1>1, <3>1, <3>2, <3>3
  <2> HIDE DEF after, n
  <2>6. AlmostMerged(r, T, s)
    <3>1. s \in T /\ r[s + 24] # 0 /\ (r[s + 8] # NULL => r[r[s + 8] + 24] = 0)
      BY <1>1, <2>2, <2>3, <2>5
    <3>2. ASSUME NEW x \in T \ {s}, r[x + 24] # 0, r[x + 8] \notin {NULL, s} PROVE r[r[x + 8] + 24] = 0
      <4>1. r[x + 8] = k[x + 8] /\ k[x + 24] # 0 /\ k[x + 8] \in S
        BY <1>3, <2>3, <3>2
      <4> QED
        BY <1>5, <2>3, <3>2, <4>1
    <3> QED
      BY <3>1, <3>2 DEF AlmostMerged
  <2>7. Taken(r, T) = Taken(k, S)
    BY <1>6, <2>3 DEF Taken
  <2> QED
    BY <1>2, <2>4, <2>6, <2>7
<1>7. CASE ~(n # NULL /\ k[n + 24] # 0)
  <2>1. r = k
    BY <1>7 DEF NextOf, IsFree, Free
  <2>2. AlmostMerged(k, S, s)
    BY <1>1, <1>5, <1>7 DEF AlmostMerged
  <2> QED
    BY <1>1, <1>2, <2>1, <2>2
<1> QED
  BY <1>6, <1>7

\* Then the segment before it takes it over when that is free.
LEMMA FreeBackward ==
  ASSUME NEW k, NEW S, List(k, S), NEW s, AlmostMerged(k, S, s),
         NEW r, r = IF k[LastOf(s)] # NULL /\ IsFree(k, k[LastOf(s)]) THEN CombineBackward(k, s) ELSE k
  PROVE  \E T \in SUBSET S : List(r, T) /\ Merged(r, T) /\ Taken(r, T) = Taken(k, S)
<1> DEFINE p == k[s + 16]
<1>1. s \in S /\ k[s + 24] # 0 /\ (k[s + 8] # NULL => k[k[s + 8] + 24] = 0) /\ s # NULL
  BY Header DEF AlmostMerged, NULL
<1>2. p # NULL => p \in S /\ k[p + 8] = s
  BY <1>1 DEF List
<1>3. \A x \in S : k[x + 8] # NULL => k[x + 8] \in S /\ k[k[x + 8] + 16] = x
  BY DEF List, Linked
<1>4. \A x \in S : x # NULL
  BY Header DEF NULL
<1>5. CASE p # NULL /\ k[p + 24] # 0
  <2> DEFINE T == S \ {s}
  <2>1. r = CombineForward(k, p)
    BY <1>5 DEF LastOf, IsFree, Free, CombineBackward
  <2>2. p \in S /\ s = k[p + 8]
    BY <1>2, <1>5
  <2> HIDE DEF p
  <2>3. /\ r[p + 8] = k[s + 8] /\ \A x \in S \ {p} : r[x + 8] = k[x + 8]
        /\ \A x \in S : r[x + 24] = k[x + 24]
    BY <1>1, <2>1, <2>2, CombineWords
  <2>4. List(r, T)
    BY <1>1, <2>1, <2>2, CombineList
  <2>5. Merged(r, T)
    <3> SUFFICES ASSUME NEW x \in T, r[x + 24] # 0, r[x + 8] # NULL PROVE r[r[x + 8] + 24] = 0
      BY DEF Merged
    <3>1. CASE x = p
      <4>1. r[x + 8] = k[s + 8] /\ k[s + 8] \in S
        BY <1>1, <1>3, <2>3, <3>1
      <4> QED
        BY <1>1, <2>3, <4>1
    <3>2. CASE x # p
      <4>1. r[x + 8] = k[x + 8] /\ k[x + 24] # 0 /\ k[x + 8] \in S /\ k[x + 8] # NULL
        BY <1>3, <2>3, <3>2
      <4>2. k[x + 8] # s
        BY <1>3, <3>2, <4>1 DEF p
      <4>3. k[k[x + 8] + 24] = 0
        BY <4>1, <4>2 DEF AlmostMerged
      <4> QED
        BY <2>3, <4>1, <4>3
    <3> QED
      BY <3>1, <3>2
  <2>6. Taken(r, T) = Taken(k, S)
    BY <1>1, <2>3 DEF Taken
  <2> QED
    BY <2>4, <2>5, <2>6
<1>6. CASE ~(p # NULL /\ k[p + 24] # 0)
  <2>1. r = k
    BY <1>6 DEF LastOf, IsFree, Free
  <2>2. Merged(k, S)
    <3> SUFFICES ASSUME NEW x \in S, k[x + 24] # 0, k[x + 8] # NULL PROVE k[k[x + 8] + 24] = 0
      BY DEF Merged
    <3>1. k[x + 8] # s
      BY <1>3, <1>4, <1>6
    <3> QED
      BY <1>1, <3>1 DEF AlmostMerged
  <2> QED
    BY <2>1, <2>2
<1> QED
  BY <1>5, <1>6

\* free gives one taken segment back, the list stays merged.
LEMMA FreeReleases ==
  ASSUME NEW m, NEW S, List(m, S), Merged(m, S), NEW s \in S, m[s + 24] = 0,
         NEW r, r = FreeSegment(m, s)
  PROVE  \E T \in SUBSET S : List(r, T) /\ Merged(r, T) /\ Taken(r, T) = Taken(m, S) \ {s}
<1> DEFINE k == [m EXCEPT ![s + 24] = 1]
           f == IF k[NextOf(s)] # NULL /\ IsFree(k, k[NextOf(s)]) THEN CombineForward(k, s) ELSE k
<1>1. OneStore(k, m, s + 24, 1)
  <2>1. m \in [Words -> Nat] /\ s + 24 \in Words
    BY Header DEF List
  <2> QED
    BY <2>1, ExceptStores
<1>2. r = IF f[LastOf(s)] # NULL /\ IsFree(f, f[LastOf(s)]) THEN CombineBackward(f, s) ELSE f
  BY DEF FreeSegment, Free
<1> HIDE DEF k
<1>3. PICK T \in SUBSET S : List(f, T) /\ AlmostMerged(f, T, s) /\ Taken(f, T) = Taken(m, S) \ {s}
  BY <1>1, FreeForward
<1> HIDE DEF f
<1>4. \E U \in SUBSET T : List(r, U) /\ Merged(r, U) /\ Taken(r, U) = Taken(f, T)
  BY <1>2, <1>3, FreeBackward
<1> QED
  BY <1>3, <1>4

-----------------------------------------------------------------------------
(* The client.                                                             *)

\* The segments are a list without free neighbours, and what the client holds is taken.
IInv ==
  ~wrapped => \E S \in SUBSET Words : List(mem, S) /\ Merged(mem, S) /\ DOMAIN blocks = Taken(mem, S)

\* The heap starts as one free segment.
LEMMA InitHolds == Init => IInv
<1> SUFFICES ASSUME Init PROVE IInv
  OBVIOUS
<1> DEFINE S == {heap_start}
           l == HeapLength - 32
<1>1. heap_start \in Nat /\ heap_start >= 32 /\ l \in Nat /\ heap_end \in Nat /\ heap_start + 32 + l = heap_end
      /\ heap_start + 64 <= heap_end
  BY HeapAssumption DEF heap_end
<1>2. InHeap(heap_start)
  <2>1. heap_start % 8 = 0 /\ heap_end % 8 = 0
    BY HeapAssumption DEF heap_end
  <2>2. heap_start = 8 * (heap_start \div 8) /\ heap_start \div 8 \in Nat
    BY <1>1, <2>1
  <2>3. heap_end = 8 * (heap_end \div 8) /\ heap_end \div 8 \in Nat
    BY <1>1, <2>1
  <2> DEFINE a == heap_start \div 8
             b == heap_end \div 8
  <2>4. heap_start = 8 * a /\ heap_end = 8 * b /\ a \in Nat /\ b \in Nat
    BY <2>2, <2>3
  <2>5. Words = {8 * n : n \in 0 .. b - 1}
    BY DEF Words
  <2> HIDE DEF a, b
  <2>6. a \in 0 .. b - 1
    BY <1>1, <2>4
  <2>7. heap_start \in Words
    BY <2>4, <2>5, <2>6
  <2> QED
    BY <1>1, <2>7 DEF InHeap, HeaderSize
<1>3. /\ heap_start \in Words /\ heap_start + 8 \in Words
      /\ heap_start + 16 \in Words /\ heap_start + 24 \in Words
  BY <1>2, HeaderInWords DEF Length, NextOf, LastOf, Free
<1>4. mem = [[w \in Words |-> 0] EXCEPT ![heap_start] = l, ![heap_start + 24] = 1]
  BY DEF Init, HeapInit, Length, Free, HeaderSize
<1> HIDE DEF l
<1>5. /\ mem \in [Words -> Nat] /\ mem[heap_start] = l /\ mem[heap_start + 8] = 0
      /\ mem[heap_start + 16] = 0 /\ mem[heap_start + 24] = 1
  BY <1>1, <1>3, <1>4
<1>6. List(mem, S)
  BY <1>1, <1>2, <1>5 DEF List, Linked, NULL
<1>7. Merged(mem, S)
  BY <1>5 DEF Merged, NULL
<1>8. DOMAIN blocks = Taken(mem, S)
  <2>1. DOMAIN blocks = {}
    BY DEF Init
  <2> QED
    BY <1>5, <2>1 DEF Taken
<1> QED
  BY <1>3, <1>6, <1>7, <1>8 DEF IInv

\* Each call of the client takes one segment or gives one back.
LEMMA NextKeeps == IInv /\ [Next]_vars => IInv'
<1> SUFFICES ASSUME IInv, [Next]_vars, ~wrapped'
             PROVE  \E S \in SUBSET Words :
                      List(mem', S) /\ Merged(mem', S) /\ DOMAIN blocks' = Taken(mem', S)
  BY DEF IInv
<1>1. ASSUME NEW size \in Sizes, Allocate(size), ~wrapped
      PROVE  \E S \in SUBSET Words :
               List(mem', S) /\ Merged(mem', S) /\ DOMAIN blocks' = Taken(mem', S)
  <2>1. PICK S \in SUBSET Words : List(mem, S) /\ Merged(mem, S) /\ DOMAIN blocks = Taken(mem, S)
    BY <1>1 DEF IInv
  <2> DEFINE s == Chosen(mem, Rounded(size))
  <2>2. size \in Nat \ {0} /\ size % 8 = 0
    BY ClientAssumption
  <2>3. CASE s = NULL
    <3>1. mem' = mem /\ blocks' = blocks
      BY <1>1, <2>3 DEF Allocate, Malloc
    <3> QED
      BY <2>1, <3>1
  <2>4. CASE s # NULL
    <3>1. mem' = Malloc(mem, size) /\ DOMAIN blocks' = DOMAIN blocks \cup {s}
      BY <1>1, <2>4 DEF Allocate
    <3>2. ~(mem[Length(s)] > Rounded(size) /\ Wraps(mem, s, Rounded(size)))
      BY <1>1, <2>4 DEF Allocate
    <3> HIDE DEF s
    <3>3. \E T \in SUBSET Words :
            List(mem', T) /\ Merged(mem', T) /\ Taken(mem', T) = Taken(mem, S) \cup {s}
      BY <2>1, <2>2, <2>4, <3>1, <3>2, MallocTakes DEF s
    <3> QED
      BY <2>1, <3>1, <3>3
  <2> QED
    BY <2>3, <2>4
<1>2. ASSUME NEW s \in DOMAIN blocks, Release(s), ~wrapped
      PROVE  \E S \in SUBSET Words :
               List(mem', S) /\ Merged(mem', S) /\ DOMAIN blocks' = Taken(mem', S)
  <2>1. PICK S \in SUBSET Words : List(mem, S) /\ Merged(mem, S) /\ DOMAIN blocks = Taken(mem, S)
    BY <1>2 DEF IInv
  <2>2. s \in S /\ mem[s + 24] = 0
    BY <2>1 DEF Taken
  <2>3. mem' = FreeSegment(mem, s) /\ DOMAIN blocks' = (DOMAIN blocks) \ {s}
    BY <1>2 DEF Release
  <2>4. \E T \in SUBSET S : List(mem', T) /\ Merged(mem', T) /\ Taken(mem', T) = Taken(mem, S) \ {s}
    BY <2>1, <2>2, <2>3, FreeReleases
  <2> QED
    BY <2>1, <2>3, <2>4
<1>3. CASE UNCHANGED vars
  BY <1>3 DEF IInv, vars
<1> QED
  BY <1>1, <1>2, <1>3 DEF Next

\* malloc and free keep the list, without free neighbours, and the client holds what is taken.
THEOREM Invariance == Spec => []IInv
BY InitHolds, NextKeeps, PTL DEF Spec

\* What the walk of malloc sees is the list of the invariant.
LEMMA SegmentsAre ==
  ASSUME NEW S, List(mem, S)
  PROVE  Segments = S
BY WalkSeesAll DEF Segments

\* The list stays doubly linked, in address order, inside of the heap and without
\* overlaps, however the client allocates and frees: the pointers that split and the
\* two combines write agree.
THEOREM ListStaysSound == Spec => []ListSound
<1>1. IInv => ListSound
  <2> SUFFICES ASSUME IInv, ~wrapped, NEW s \in Segments
               PROVE  /\ InHeap(s) /\ End(s) <= heap_end
                      /\ mem[NextOf(s)] # NULL =>
                           mem[LastOf(mem[NextOf(s)])] = s /\ End(s) <= mem[NextOf(s)]
    BY DEF ListSound
  <2>1. PICK S : List(mem, S)
    BY DEF IInv
  <2>2. s \in S
    BY <2>1, SegmentsAre
  <2>3. End(s) = s + 32 + mem[s]
    BY DEF End, HeaderSize, Length
  <2>4. InHeap(s) /\ s + 32 + mem[s] <= heap_end /\ Linked(mem, S, s)
    BY <2>1, <2>2 DEF List
  <2> QED
    BY <2>3, <2>4 DEF Linked, NextOf, LastOf
<1> QED
  BY <1>1, Invariance, PTL

\* The blocks the client holds are exactly the segments that are not free: malloc
\* hands nothing out twice, and all that free gets back can be handed out again.
THEOREM HeldAreTaken == Spec => []BlocksAreTaken
<1>1. IInv => BlocksAreTaken
  <2> SUFFICES ASSUME IInv, ~wrapped PROVE DOMAIN blocks = {s \in Segments : ~IsFree(mem, s)}
    BY DEF BlocksAreTaken
  <2>1. PICK S : List(mem, S) /\ DOMAIN blocks = Taken(mem, S)
    BY DEF IInv
  <2>2. Segments = S
    BY <2>1, SegmentsAre
  <2> QED
    BY <2>1, <2>2 DEF Taken, IsFree, Free
<1> QED
  BY <1>1, Invariance, PTL

\* After free no two free segments follow each other: looking one segment ahead and
\* one behind is enough to make one piece of what is freed.
THEOREM FreeStaysMerged == Spec => []FreeIsMerged
<1>1. IInv => FreeIsMerged
  <2> SUFFICES ASSUME IInv, ~wrapped, NEW s \in Segments, IsFree(mem, s), mem[NextOf(s)] # NULL
               PROVE  ~IsFree(mem, mem[NextOf(s)])
    BY DEF FreeIsMerged
  <2>1. PICK S : List(mem, S) /\ Merged(mem, S)
    BY DEF IInv
  <2>2. s \in S
    BY <2>1, SegmentsAre
  <2> QED
    BY <2>1, <2>2 DEF Merged, IsFree, Free, NextOf
<1> QED
  BY <1>1, Invariance, PTL
=============================================================================
