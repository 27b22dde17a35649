----------------------------- MODULE PanicProofs -----------------------------
(***************************************************************************)
(* Proofs about the terminal, the exceptions that write on it and printf,  *)
(* modules Tty, Panic and Printf, for screens of any size, strings of any  *)
(* length, every table of symbols, every stack and integers of any width.  *)
(***************************************************************************)
EXTENDS Panic, SequenceTheorems, FiniteSetTheorems, WellFoundedInduction, TLAPS

-----------------------------------------------------------------------------
(* Recursion.                                                              *)

\* A nonempty set of naturals has a least element.
LEMMA LeastNatural ==
  ASSUME NEW T, T \subseteq Nat, T # {}
  PROVE  \E x \in T : \A y \in T : x <= y
<1>1. PICK x \in T : \A y \in T : ~ (<<y, x>> \in OpToRel(<, Nat))
  BY WFMin, NatLessThanWellFounded
<1>2. \A y \in T : ~ (y < x)
  BY <1>1 DEF OpToRel
<1> QED
  BY <1>2

Iterated(f, N, S, base, step) ==
  f \in [0 .. N -> S] /\ f[0] = base /\ \A n \in 1 .. N : f[n] = step[n][f[n - 1]]

\* Steps that keep to a set S can be taken one after another, N of them.
LEMMA Iterates ==
  ASSUME NEW N \in Nat, NEW S, NEW base \in S, NEW step \in [1 .. N -> [S -> S]]
  PROVE  \E f : Iterated(f, N, S, base, step)
<1> DEFINE Goes(f, k) == f \in [0 .. k -> S] /\ f[0] = base /\ \A n \in 1 .. k : f[n] = step[n][f[n - 1]]
           Lost == {k \in 0 .. N : ~\E f : Goes(f, k)}
<1> SUFFICES Lost = {}
  <2>1. N \in 0 .. N
    OBVIOUS
  <2> QED
    BY <2>1 DEF Iterated
<1> SUFFICES ASSUME Lost # {} PROVE FALSE
  OBVIOUS
<1>1. PICK k \in Lost : \A l \in Lost : k <= l
  <2>1. Lost \subseteq Nat
    OBVIOUS
  <2> HIDE DEF Lost
  <2> QED
    BY <2>1, LeastNatural
<1>2. k \in 0 .. N /\ ~\E f : Goes(f, k)
  OBVIOUS
<1>3. k # 0
  <2> DEFINE f0 == [n \in 0 .. 0 |-> base]
  <2>1. Goes(f0, 0)
    OBVIOUS
  <2> QED
    BY <1>2, <2>1
<1>4. k - 1 \in 0 .. N /\ k - 1 \notin Lost
  <2>1. k - 1 \in 0 .. N /\ ~(k <= k - 1)
    BY <1>2, <1>3
  <2> HIDE DEF Lost
  <2> QED
    BY <1>1, <2>1
<1>5. PICK f : Goes(f, k - 1)
  BY <1>4
<1> DEFINE g == [n \in 0 .. k |-> IF n = k THEN step[k][f[k - 1]] ELSE f[n]]
<1>6. step[k][f[k - 1]] \in S
  <2>1. f[k - 1] \in S /\ k \in 1 .. N
    BY <1>2, <1>3, <1>5
  <2> QED
    BY <2>1
<1>7. g \in [0 .. k -> S]
  BY <1>2, <1>5, <1>6
<1>8. g[0] = base
  BY <1>2, <1>3, <1>5
<1>9. ASSUME NEW n \in 1 .. k PROVE g[n] = step[n][g[n - 1]]
  <2>1. n - 1 \in 0 .. k /\ n - 1 # k /\ g[n - 1] = f[n - 1]
    BY <1>2
  <2>2. CASE n = k
    BY <1>2, <2>1, <2>2
  <2>3. CASE n # k
    <3>1. n \in 1 .. k - 1
      BY <1>2, <2>3
    <3> QED
      BY <1>2, <1>5, <2>1, <2>3, <3>1
  <2> QED
    BY <2>2, <2>3
<1>10. Goes(g, k)
  <2> HIDE DEF g
  <2> QED
    BY <1>7, <1>8, <1>9
<1> QED
  BY <1>2, <1>10

-----------------------------------------------------------------------------
(* The screen and its cells.                                               *)

\* The size of the screen.
LEMMA Sizes ==
  /\ vga_width \in Nat /\ vga_width >= 5 /\ vga_height \in Nat /\ vga_height >= 2
  /\ vga_height * vga_width \in Nat /\ vga_width * vga_height = vga_height * vga_width
  /\ (vga_height + 1) * vga_width = vga_height * vga_width + vga_width
  /\ vga_height * vga_width \in Cells
<1>1. vga_width \in Nat /\ vga_width >= 5 /\ vga_height \in Nat /\ vga_height >= 2
  BY TtyAssumption DEF vga_width, vga_height
<1>2. /\ vga_height * vga_width \in Nat /\ vga_width * vga_height = vga_height * vga_width
      /\ (vga_height + 1) * vga_width = vga_height * vga_width + vga_width
  BY <1>1
<1> QED
  BY <1>1, <1>2 DEF Cells

Cell(p) == p[2] * vga_width + p[1]

\* The cells of a line.
LEMMA Rows ==
  ASSUME NEW y \in 0 .. vga_height - 1
  PROVE  /\ y * vga_width \in Nat /\ (y + 1) * vga_width = y * vga_width + vga_width
         /\ y * vga_width + vga_width <= vga_height * vga_width
<1>1. vga_width \in Nat /\ vga_height \in Nat /\ vga_height * vga_width \in Nat
  BY Sizes
<1> DEFINE w == vga_width
           h == vga_height
<1>2. w \in Nat /\ h \in Nat /\ y \in Nat /\ y + 1 <= h
  BY <1>1
<1> HIDE DEF w, h
<1>3. y * w \in Nat /\ (y + 1) * w = y * w + w
  BY <1>2
<1>4. (y + 1) * w <= h * w
  <2>1. PICK d \in Nat : h = y + 1 + d
    <3>1. h - (y + 1) \in Nat /\ h = y + 1 + (h - (y + 1))
      BY <1>2
    <3> QED
      BY <3>1
  <2>2. h * w = (y + 1) * w + d * w
    BY <1>2, <2>1
  <2>3. d * w \in Nat /\ (y + 1) * w \in Nat
    BY <1>2, <2>1
  <2> QED
    BY <2>2, <2>3
<1> QED
  BY <1>3, <1>4 DEF w, h

\* The cells that the places show.
LEMMA PlaceCells ==
  ASSUME NEW p \in Places
  PROVE  /\ p[1] \in 0 .. vga_width - 1 /\ p[2] \in 0 .. vga_height - 1 /\ p = <<p[1], p[2]>>
         /\ Cell(p) \in Cells /\ Cell(p) < vga_height * vga_width
<1>1. p[1] \in 0 .. vga_width - 1 /\ p[2] \in 0 .. vga_height - 1 /\ p = <<p[1], p[2]>>
  BY DEF Places
<1>2. /\ p[2] * vga_width \in Nat /\ p[2] * vga_width + vga_width <= vga_height * vga_width
      /\ vga_height * vga_width \in Nat /\ vga_width \in Nat
      /\ Cells = 0 .. vga_height * vga_width + vga_width
  BY <1>1, Rows, Sizes DEF Cells
<1> DEFINE a == p[2] * vga_width
           b == vga_height * vga_width
<1>3. /\ a \in Nat /\ a + vga_width <= b /\ b \in Nat /\ vga_width \in Nat
      /\ Cells = 0 .. b + vga_width
  BY <1>2
<1> HIDE DEF a, b
<1>4. a + p[1] \in 0 .. b + vga_width /\ a + p[1] < b
  BY <1>1, <1>3
<1> QED
  BY <1>1, <1>3, <1>4 DEF Cell, a, b

\* Two places show two cells.
LEMMA PlacesApart ==
  ASSUME NEW p \in Places, NEW q \in Places, p # q
  PROVE  Cell(p) # Cell(q)
<1>1. ASSUME NEW s \in Places, NEW t \in Places, s[2] < t[2] PROVE Cell(s) < Cell(t)
  <2>1. /\ s[1] \in 0 .. vga_width - 1 /\ t[1] \in 0 .. vga_width - 1
        /\ s[2] \in 0 .. vga_height - 1 /\ t[2] \in 0 .. vga_height - 1 /\ vga_width \in Nat
    BY PlaceCells, Sizes
  <2>2. PICK d \in Nat : t[2] = s[2] + 1 + d
    <3>1. t[2] - (s[2] + 1) \in Nat /\ t[2] = s[2] + 1 + (t[2] - (s[2] + 1))
      BY <1>1, <2>1
    <3> QED
      BY <3>1
  <2>3. t[2] * vga_width = s[2] * vga_width + vga_width + d * vga_width
    BY <2>1, <2>2
  <2>4. d * vga_width \in Nat /\ s[2] * vga_width \in Nat
    BY <2>1, <2>2
  <2> DEFINE a == s[2] * vga_width
             b == t[2] * vga_width
             c == d * vga_width
  <2>5. b = a + vga_width + c /\ a \in Nat /\ c \in Nat
    BY <2>3, <2>4
  <2>6. Cell(s) = a + s[1] /\ Cell(t) = b + t[1]
    BY DEF Cell
  <2> HIDE DEF a, b, c
  <2> QED
    BY <2>1, <2>5, <2>6
<1>2. /\ Cell(p) \in Int /\ Cell(q) \in Int /\ p[2] \in Int /\ q[2] \in Int
      /\ p = <<p[1], p[2]>> /\ q = <<q[1], q[2]>> /\ p[1] \in Int /\ q[1] \in Int
      /\ p[2] * vga_width \in Int
  <2>1. /\ Cell(p) \in Cells /\ Cell(q) \in Cells /\ p[2] * vga_width \in Nat
        /\ p[1] \in 0 .. vga_width - 1 /\ q[1] \in 0 .. vga_width - 1
        /\ p[2] \in 0 .. vga_height - 1 /\ q[2] \in 0 .. vga_height - 1
        /\ p = <<p[1], p[2]>> /\ q = <<q[1], q[2]>>
    BY PlaceCells, Rows
  <2> QED
    BY <2>1 DEF Cells
<1>3. CASE p[2] < q[2]
  BY <1>1, <1>2, <1>3
<1>4. CASE q[2] < p[2]
  BY <1>1, <1>2, <1>4
<1>5. CASE p[2] = q[2]
  <2>1. p[1] # q[1]
    BY <1>2, <1>5
  <2> DEFINE a == p[2] * vga_width
  <2>2. Cell(p) = a + p[1] /\ Cell(q) = a + q[1] /\ a \in Int
    BY <1>2, <1>5 DEF Cell
  <2> HIDE DEF a
  <2> QED
    BY <1>2, <2>1, <2>2
<1> QED
  BY <1>2, <1>3, <1>4, <1>5

-----------------------------------------------------------------------------
(* One character.                                                          *)

\* The provers do not know which strings there are.
Shown == STRING \cup {"nul", "?", "smeared", " ", "-", "="}
Characters == [char : Shown, colour : Colours]
Texted == [Cells -> Characters]
Terms == [text : Texted, screen : [Places -> Characters], row : Int, column : Int]

\* The cells that move when a character is put are characters.
LEMMA CharacterValues ==
  /\ Zero \in Characters /\ Junk \in Characters /\ Smeared \in Characters
  /\ vga_entry(" ", "BLACK") \in Characters
  /\ \A char \in Shown, colour \in Colours : vga_entry(char, colour) \in Characters
BY DEF Zero, Junk, Smeared, vga_entry, Characters, Colours, Shown

\* What put_entry_at does to a terminal.
LEMMA PutEntryFields ==
  ASSUME NEW t \in Terms, NEW entry \in Characters, NEW x \in Int, NEW y \in Int
  PROVE  /\ PutEntryAt(t, entry, x, y) \in Terms
         /\ PutEntryAt(t, entry, x, y).row = t.row /\ PutEntryAt(t, entry, x, y).column = t.column
<1> DEFINE r == [t EXCEPT !.text[y * vga_width + x] = entry]
<1>1. r \in Terms /\ r.row = t.row /\ r.column = t.column
  BY DEF Terms, Texted
<1> HIDE DEF r
<1>2. RenderEntryAt(r, x, y) \in Terms /\ RenderEntryAt(r, x, y).row = t.row /\ RenderEntryAt(r, x, y).column = t.column
  <2>1. CASE <<x, y>> \in Places
    <3>1. y * vga_width + x \in Cells
      BY <2>1, PlaceCells DEF Cell
    <3>2. r.text[y * vga_width + x] \in Characters
      BY <1>1, <3>1 DEF Terms, Texted
    <3> DEFINE v == r.text[y * vga_width + x]
    <3>3. RenderEntryAt(r, x, y) = [r EXCEPT !.screen[<<x, y>>] = v] /\ v \in Characters
      BY <2>1, <3>2 DEF RenderEntryAt
    <3> HIDE DEF v
    <3> QED
      BY <1>1, <3>3 DEF Terms
  <2>2. CASE <<x, y>> \notin Places
    <3>1. RenderEntryAt(r, x, y) = [r EXCEPT !.screen[<<0, y>>] = Smeared] \/ RenderEntryAt(r, x, y) = r
      BY <2>2 DEF RenderEntryAt
    <3>2. Smeared \in Characters
      BY CharacterValues
    <3> QED
      BY <1>1, <3>1, <3>2 DEF Terms
  <2> QED
    BY <2>1, <2>2
<1>3. PutEntryAt(t, entry, x, y) \in {t, RenderEntryAt(r, x, y)}
  BY DEF PutEntryAt, r
<1> QED
  BY <1>2, <1>3

\* A text buffer with another entry in a cell.
Changed(text, c, entry) == [text EXCEPT ![c] = entry]

\* At a place of the screen it writes the one cell that the place shows.
LEMMA PutEntryAtPlace ==
  ASSUME NEW t \in Terms, NEW entry \in Characters, NEW x, NEW y, <<x, y>> \in Places
  PROVE  /\ PutEntryAt(t, entry, x, y).text = Changed(t.text, y * vga_width + x, entry)
         /\ PutEntryAt(t, entry, x, y).screen = [t.screen EXCEPT ![<<x, y>>] = entry]
<1> DEFINE r == [t EXCEPT !.text[y * vga_width + x] = entry]
<1>1. x \in 0 .. vga_width - 1 /\ y \in 0 .. vga_height - 1 /\ vga_width \in Nat /\ vga_height \in Nat
  BY Sizes DEF Places
<1>2. ~(x > vga_width \/ y > vga_height)
  BY <1>1
<1>3. PutEntryAt(t, entry, x, y) = RenderEntryAt(r, x, y)
  BY <1>2 DEF PutEntryAt
<1>4. RenderEntryAt(r, x, y) = [r EXCEPT !.screen[<<x, y>>] = r.text[y * vga_width + x]]
  BY DEF RenderEntryAt
<1>5. r.text = [t.text EXCEPT ![y * vga_width + x] = entry] /\ r.screen = t.screen
  BY DEF Terms
<1>6. y * vga_width + x \in Cells
  BY PlaceCells DEF Cell
<1>7. r.text[y * vga_width + x] = entry
  BY <1>5, <1>6 DEF Terms, Texted
<1>8. r \in Terms
  BY DEF Terms, Texted
<1> HIDE DEF r
<1>9. /\ RenderEntryAt(r, x, y).text = r.text
      /\ RenderEntryAt(r, x, y).screen = [r.screen EXCEPT ![<<x, y>>] = r.text[y * vga_width + x]]
  BY <1>4, <1>8 DEF Terms
<1> QED
  BY <1>3, <1>5, <1>7, <1>9 DEF Changed

\* What shift leaves in the cells: each takes over the one a line later, and those of
\* the last line the one after the screen.
LEMMA ShiftedCells ==
  ASSUME NEW text \in Texted
  PROVE  /\ Shifted(text) \in Texted
         /\ \A c \in Cells :
              Shifted(text)[c] = IF c >= vga_height * vga_width THEN text[c]
                                 ELSE IF c + vga_width <= vga_height * vga_width THEN text[c + vga_width]
                                 ELSE text[vga_height * vga_width]
<1> DEFINE w == vga_width
           b == vga_height * vga_width
           Goes(f) == f = [n \in 0 .. w |-> IF n = 0 THEN text ELSE ShiftedOnce(f[n - 1])]
           Moved(g, n) == \A c \in Cells : g[c] = IF c >= b THEN text[c]
                                                 ELSE IF c + n <= b THEN text[c + n] ELSE text[b]
           once == [g \in Texted |-> ShiftedOnce(g)]
<1>1. w \in Nat /\ b \in Nat /\ Cells = 0 .. b + w
  BY Sizes DEF Cells
<1>2. ASSUME NEW g \in Texted
      PROVE /\ ShiftedOnce(g) \in Texted
            /\ \A c \in Cells : ShiftedOnce(g)[c] = IF c < b THEN g[c + 1] ELSE g[c]
  <2>1. ShiftedOnce(g) = [c \in Cells |-> IF c < b THEN g[c + 1] ELSE g[c]]
    BY DEF ShiftedOnce
  <2>2. \A c \in Cells : c < b => c + 1 \in Cells
    <3> HIDE DEF w, b
    <3> QED
      BY <1>1
  <2> HIDE DEF b
  <2> QED
    BY <2>1, <2>2 DEF Texted
<1>3. PICK f \in [0 .. w -> Texted] : f[0] = text /\ \A n \in 1 .. w : f[n] = ShiftedOnce(f[n - 1])
  <2> DEFINE step == [n \in 1 .. w |-> once]
  <2>1. once \in [Texted -> Texted]
    BY <1>2
  <2>2. step \in [1 .. w -> [Texted -> Texted]]
    BY <2>1
  <2>3. PICK f \in [0 .. w -> Texted] : f[0] = text /\ \A n \in 1 .. w : f[n] = step[n][f[n - 1]]
    <3> HIDE DEF step, w
    <3>1. \E f : Iterated(f, w, Texted, text, step)
      BY <1>1, <2>2, Iterates
    <3> QED
      BY <3>1 DEF Iterated
  <2>4. ASSUME NEW n \in 1 .. w PROVE f[n] = ShiftedOnce(f[n - 1])
    <3>1. n - 1 \in 0 .. w
      BY <1>1
    <3>2. f[n] = once[f[n - 1]] /\ f[n - 1] \in Texted
      BY <2>3, <3>1
    <3> QED
      BY <3>2
  <2> QED
    BY <2>3, <2>4
<1>4. Goes(f)
  <2>1. \A n \in 0 .. w : n = 0 \/ n \in 1 .. w
    BY <1>1
  <2> QED
    BY <1>3, <2>1
<1>5. ASSUME NEW h, Goes(h) PROVE h[w] \in Texted /\ Moved(h[w], w)
  <2> DEFINE Bad == {n \in 0 .. w : ~(h[n] \in Texted /\ Moved(h[n], n))}
  <2>1. Bad = {}
    <3> SUFFICES ASSUME Bad # {} PROVE FALSE
      OBVIOUS
    <3>1. PICK n \in Bad : \A k \in Bad : n <= k
      <4>1. Bad \subseteq Nat
        BY <1>1
      <4> HIDE DEF Bad
      <4> QED
        BY <4>1, LeastNatural
    <3>2. n # 0
      <4>1. h[0] = text
        BY <1>1, <1>5
      <4>2. \A c \in Cells : c \in Int /\ c + 0 = c /\ (c < b => c + 0 <= b)
        <5> HIDE DEF b, w
        <5> QED
          BY <1>1
      <4>3. Moved(text, 0)
        <5> SUFFICES ASSUME NEW c \in Cells
                     PROVE  text[c] = IF c >= b THEN text[c] ELSE IF c + 0 <= b THEN text[c + 0] ELSE text[b]
          OBVIOUS
        <5> QED
          BY <1>1, <4>2
      <4> QED
        BY <3>1, <4>1, <4>3
    <3>3. n \in 1 .. w /\ n - 1 \in 0 .. w /\ n - 1 \notin Bad
      <4>1. n \in 0 .. w
        BY <3>1
      <4>2. n \in 1 .. w /\ n - 1 \in 0 .. w /\ ~(n <= n - 1)
        BY <1>1, <3>2, <4>1
      <4> QED
        BY <3>1, <4>2
    <3>4. h[n - 1] \in Texted /\ Moved(h[n - 1], n - 1) /\ h[n] = ShiftedOnce(h[n - 1])
      BY <1>1, <1>5, <3>2, <3>3
    <3> DEFINE g == h[n - 1]
               r == h[n]
    <3>5. /\ r \in Texted
          /\ \A c \in Cells : r[c] = IF c < b THEN g[c + 1] ELSE g[c]
      BY <1>2, <3>4
    <3>6. Moved(r, n)
      <4> SUFFICES ASSUME NEW c \in Cells
                   PROVE r[c] = IF c >= b THEN text[c] ELSE IF c + n <= b THEN text[c + n] ELSE text[b]
        OBVIOUS
      <4>1. \A d \in Cells : g[d] = IF d >= b THEN text[d]
                                    ELSE IF d + (n - 1) <= b THEN text[d + (n - 1)] ELSE text[b]
        BY <3>4
      <4> HIDE DEF g, r, b, w
      <4>2. CASE c >= b
        <5>1. r[c] = g[c] /\ g[c] = text[c]
          BY <1>1, <3>5, <4>1, <4>2
        <5> QED
          BY <4>2, <5>1
      <4>3. CASE c < b
        <5>1. c + 1 \in Cells /\ c \in Int /\ n \in Int /\ c + 1 \in Int /\ r[c] = g[c + 1] /\ n >= 1
          BY <1>1, <3>3, <3>5, <4>3
        <5>2. CASE c + 1 >= b
          <6>1. c + 1 = b /\ (c + n <= b => n = 1)
            BY <1>1, <4>3, <5>1, <5>2
          <6>2. g[c + 1] = text[b]
            BY <1>1, <4>1, <5>1, <6>1
          <6> QED
            BY <1>1, <4>3, <5>1, <6>1, <6>2
        <5>3. CASE c + 1 < b
          <6>1. (c + 1) + (n - 1) = c + n
            BY <5>1
          <6>2. g[c + 1] = IF c + n <= b THEN text[c + n] ELSE text[b]
            BY <1>1, <4>1, <5>1, <5>3, <6>1
          <6> QED
            BY <1>1, <4>3, <5>1, <6>2
        <5> QED
          BY <1>1, <5>1, <5>2, <5>3
      <4> QED
        BY <1>1, <4>2, <4>3
    <3> QED
      BY <3>1, <3>5, <3>6
  <2>2. w \in 0 .. w
    BY <1>1
  <2> QED
    BY <2>1, <2>2
<1>6. \E h : Goes(h) /\ Shifted(text) = h[w]
  BY <1>4 DEF Shifted
<1> QED
  BY <1>5, <1>6, ZenonT(60)

\* What put_char takes: the codes of colours are no characters.
Marks == [kind : {"newline", "tab", "backspace"}] \cup [kind : {"char"}, char : Shown]

Shows(t) == \A p \in Places : t.screen[p] = t.text[Cell(p)]

\* The cursor is at a place, and the screen shows the cells.
Good(t) ==
  /\ t \in Terms /\ t.row \in 0 .. vga_height - 1 /\ t.column \in 0 .. vga_width - 1
  /\ Shows(t)

\* The cells after shift, of a terminal.
Scrolled(text) == Shifted(ClearedFirstRow(text))

\* shift draws every place again.
LEMMA ShiftFields ==
  ASSUME NEW t \in Terms
  PROVE  /\ Shift(t) \in Terms /\ Shift(t).row = t.row - 1 /\ Shift(t).column = t.column
         /\ Shift(t).text = Scrolled(t.text) /\ Shows(Shift(t))
<1>1. ClearedFirstRow(t.text) \in Texted
  BY CharacterValues DEF ClearedFirstRow, Texted, Terms
<1>2. Scrolled(t.text) \in Texted
  BY <1>1, ShiftedCells DEF Scrolled
<1> DEFINE r == [t EXCEPT !.text = Scrolled(t.text), !.row = @ - 1]
<1>3. r \in Terms /\ r.row = t.row - 1 /\ r.column = t.column /\ r.text = Scrolled(t.text)
  <2> DEFINE up == t.row - 1
             moved == Scrolled(t.text)
  <2>1. up \in Int /\ moved \in Texted
    BY <1>2 DEF Terms
  <2>2. r = [t EXCEPT !.text = moved, !.row = up]
    BY DEF Terms
  <2> HIDE DEF up, moved, r
  <2>3. r \in Terms /\ r.row = up /\ r.column = t.column /\ r.text = moved
    BY <2>1, <2>2 DEF Terms
  <2> QED
    BY <2>3 DEF up, moved
<1>4. Shift(t) = RenderBuffer(r)
  BY DEF Shift, Scrolled
<1> HIDE DEF r
<1> DEFINE drawn == [p \in Places |-> r.text[p[2] * vga_width + p[1]]]
<1>5. RenderBuffer(r) = [r EXCEPT !.screen = drawn]
  BY DEF RenderBuffer
<1>6. ASSUME NEW p \in Places PROVE drawn[p] = r.text[Cell(p)] /\ drawn[p] \in Characters
  <2>1. Cell(p) \in Cells
    BY PlaceCells
  <2>2. r.text[Cell(p)] \in Characters
    BY <1>3, <2>1 DEF Terms, Texted
  <2> QED
    BY <2>2 DEF Cell
<1>7. drawn \in [Places -> Characters]
  BY <1>6
<1> HIDE DEF drawn
<1>8. /\ RenderBuffer(r) \in Terms /\ RenderBuffer(r).row = r.row /\ RenderBuffer(r).column = r.column
      /\ RenderBuffer(r).text = r.text /\ RenderBuffer(r).screen = drawn
  BY <1>3, <1>5, <1>7 DEF Terms
<1> QED
  BY <1>3, <1>4, <1>6, <1>8 DEF Shows

\* The row after this one, or the last one again when all have moved up.
LEMMA NextRowFields ==
  ASSUME NEW t \in Terms
  PROVE  /\ NextRow(t) \in Terms /\ NextRow(t).column = t.column
         /\ NextRow(t).row = IF t.row + 1 >= vga_height THEN t.row ELSE t.row + 1
         /\ NextRow(t).text = IF t.row + 1 >= vga_height THEN Scrolled(t.text) ELSE t.text
         /\ Shows(t) => Shows(NextRow(t))
<1> DEFINE r == [t EXCEPT !.row = @ + 1]
<1>1. /\ r \in Terms /\ r.row = t.row + 1 /\ r.column = t.column /\ r.text = t.text
      /\ r.screen = t.screen /\ r.row - 1 = t.row
  BY DEF Terms
<1>2. NextRow(t) = IF t.row + 1 >= vga_height THEN Shift(r) ELSE r
  BY DEF NextRow
<1> HIDE DEF r
<1>3. CASE t.row + 1 >= vga_height
  BY <1>1, <1>2, <1>3, ShiftFields
<1>4. CASE ~(t.row + 1 >= vga_height)
  BY <1>1, <1>2, <1>4 DEF Shows
<1> QED
  BY <1>3, <1>4

\* The column after this one, or the first one of the next row.
LEMMA AdvanceFields ==
  ASSUME NEW t \in Terms
  PROVE  /\ Advance(t) \in Terms
         /\ Shows(t) => Shows(Advance(t))
         /\ IF t.column + 1 >= vga_width
            THEN /\ Advance(t).column = 0
                 /\ Advance(t).row = IF t.row + 1 >= vga_height THEN t.row ELSE t.row + 1
                 /\ Advance(t).text = IF t.row + 1 >= vga_height THEN Scrolled(t.text) ELSE t.text
            ELSE /\ Advance(t).column = t.column + 1 /\ Advance(t).row = t.row
                 /\ Advance(t).text = t.text
<1>1. CASE t.column + 1 >= vga_width
  <2> DEFINE r == [t EXCEPT !.column = 0]
  <2>1. /\ r \in Terms /\ r.row = t.row /\ r.column = 0 /\ r.text = t.text /\ r.screen = t.screen
    BY DEF Terms
  <2>2. Advance(t) = NextRow(r)
    BY <1>1 DEF Advance
  <2> HIDE DEF r
  <2>3. Shows(t) => Shows(r)
    BY <2>1 DEF Shows
  <2> QED
    BY <1>1, <2>1, <2>2, <2>3, NextRowFields
<1>2. CASE ~(t.column + 1 >= vga_width)
  <2>1. Advance(t) = [t EXCEPT !.column = @ + 1]
    BY <1>2 DEF Advance
  <2>2. /\ Advance(t) \in Terms /\ Advance(t).row = t.row /\ Advance(t).column = t.column + 1
        /\ Advance(t).text = t.text /\ Advance(t).screen = t.screen
    BY <2>1 DEF Terms
  <2> QED
    BY <1>2, <2>2 DEF Shows
<1> QED
  BY <1>1, <1>2

\* The place before this one, or the first one again.
LEMMA BackFields ==
  ASSUME NEW t \in Terms
  PROVE  /\ Back(t) \in Terms /\ Back(t).text = t.text /\ Back(t).screen = t.screen
         /\ IF t.column # 0 THEN Back(t).column = t.column - 1 /\ Back(t).row = t.row
            ELSE IF t.row # 0 THEN Back(t).column = vga_width - 1 /\ Back(t).row = t.row - 1
            ELSE Back(t).column = 0 /\ Back(t).row = 0
<1>1. vga_width \in Int
  BY Sizes
<1>2. CASE t.column # 0
  BY <1>2 DEF Back, Terms
<1>3. CASE t.column = 0 /\ t.row # 0
  <2> DEFINE last == vga_width - 1
             up == t.row - 1
  <2>1. last \in Int /\ up \in Int
    BY <1>1 DEF Terms
  <2>2. Back(t) = [t EXCEPT !.column = last, !.row = up]
    BY <1>3 DEF Back, Terms
  <2> HIDE DEF last, up
  <2>3. /\ Back(t) \in Terms /\ Back(t).text = t.text /\ Back(t).screen = t.screen
        /\ Back(t).column = last /\ Back(t).row = up
    BY <2>1, <2>2 DEF Terms
  <2> QED
    BY <1>3, <2>3 DEF last, up
<1>4. CASE t.column = 0 /\ t.row = 0
  BY <1>4 DEF Back, Terms
<1> QED
  BY <1>2, <1>3, <1>4

\* Writing at a place keeps the screen in step.
LEMMA PlaceShown ==
  ASSUME NEW t \in Terms, Shows(t), NEW entry \in Characters, NEW x, NEW y, <<x, y>> \in Places
  PROVE  Shows(PutEntryAt(t, entry, x, y))
<1> DEFINE r == PutEntryAt(t, entry, x, y)
<1>1. /\ r.text = [t.text EXCEPT ![Cell(<<x, y>>)] = entry]
      /\ r.screen = [t.screen EXCEPT ![<<x, y>>] = entry]
  BY PutEntryAtPlace DEF Cell, Changed
<1> HIDE DEF r
<1>2. t.text \in Texted /\ t.screen \in [Places -> Characters]
  BY DEF Terms
<1> SUFFICES ASSUME NEW p \in Places PROVE r.screen[p] = r.text[Cell(p)]
  BY DEF Shows, r
<1>3. Cell(p) \in Cells
  BY PlaceCells
<1>4. CASE p = <<x, y>>
  BY <1>1, <1>2, <1>3, <1>4 DEF Texted
<1>5. CASE p # <<x, y>>
  <2>1. Cell(p) # Cell(<<x, y>>)
    BY <1>5, PlacesApart
  <2>2. r.screen[p] = t.screen[p] /\ r.text[Cell(p)] = t.text[Cell(p)]
    BY <1>1, <1>2, <1>3, <1>5, <2>1 DEF Texted
  <2> QED
    BY <2>2 DEF Shows
<1> QED
  BY <1>4, <1>5

\* A tab from column c stays in its row.
TabFits(c) == ((c \div 4) + 1) * 4 < vga_width

\* A character, a newline, a backspace and a tab that stays in its row leave the cursor
\* on the screen and the screen in step.
LEMMA PutCharGood ==
  ASSUME NEW t, Good(t), NEW symbol \in Marks, NEW colour \in Colours,
         symbol.kind = "tab" => TabFits(t.column)
  PROVE  Good(PutChar(t, symbol, colour))
<1>1. /\ t \in Terms /\ t.row \in 0 .. vga_height - 1 /\ t.column \in 0 .. vga_width - 1 /\ Shows(t)
      /\ vga_width \in Nat /\ vga_height \in Nat /\ vga_width >= 5 /\ vga_height >= 2
  BY Sizes DEF Good
<1>2. <<t.column, t.row>> \in Places
  BY <1>1 DEF Places
<1>3. CASE symbol.kind = "tab"
  <2> DEFINE next == ((t.column \div 4) + 1) * 4
  <2>1. next \in 0 .. vga_width - 1
    BY <1>1, <1>3 DEF TabFits
  <2>2. PutChar(t, symbol, colour) = [t EXCEPT !.column = next]
    BY <1>3 DEF PutChar
  <2> HIDE DEF next
  <2>3. /\ PutChar(t, symbol, colour) \in Terms /\ PutChar(t, symbol, colour).row = t.row
        /\ PutChar(t, symbol, colour).column = next /\ PutChar(t, symbol, colour).text = t.text
        /\ PutChar(t, symbol, colour).screen = t.screen
    BY <1>1, <2>1, <2>2 DEF Terms
  <2> QED
    BY <1>1, <2>1, <2>3 DEF Good, Shows
<1>4. CASE symbol.kind = "backspace"
  <2> DEFINE b == Back(t)
             entry == vga_entry(" ", "BLACK")
  <2>1. PutChar(t, symbol, colour) = PutEntryAt(b, entry, b.column, b.row)
    BY <1>4 DEF PutChar
  <2>2. b \in Terms /\ b.text = t.text /\ b.screen = t.screen
    BY <1>1, BackFields
  <2>3. b.column \in 0 .. vga_width - 1 /\ b.row \in 0 .. vga_height - 1
    <3>1. IF t.column # 0 THEN b.column = t.column - 1 /\ b.row = t.row
          ELSE IF t.row # 0 THEN b.column = vga_width - 1 /\ b.row = t.row - 1
          ELSE b.column = 0 /\ b.row = 0
      BY <1>1, BackFields
    <3> HIDE DEF b
    <3> QED
      BY <1>1, <3>1
  <2>4. entry \in Characters
    BY CharacterValues
  <2> HIDE DEF b, entry
  <2>5. Shows(b) /\ <<b.column, b.row>> \in Places /\ b.column \in Int /\ b.row \in Int
    BY <1>1, <2>2, <2>3 DEF Shows, Places
  <2> QED
    BY <2>1, <2>2, <2>3, <2>4, <2>5, PutEntryFields, PlaceShown DEF Good
<1>5. CASE symbol.kind = "newline"
  <2> DEFINE a == Advance(t)
             n == NextRow(a)
  <2>1. PutChar(t, symbol, colour) = [n EXCEPT !.column = 0]
    BY <1>5 DEF PutChar
  <2>2. a \in Terms /\ Shows(a) /\ a.row \in 0 .. vga_height - 1
    BY <1>1, AdvanceFields
  <2>3. n \in Terms /\ Shows(n) /\ n.row \in 0 .. vga_height - 1
    <3> HIDE DEF a
    <3> QED
      BY <1>1, <2>2, NextRowFields
  <2> HIDE DEF n
  <2> DEFINE r == [n EXCEPT !.column = 0]
  <2>4. r \in Terms /\ r.row = n.row /\ r.column = 0 /\ r.text = n.text /\ r.screen = n.screen
    BY <2>3 DEF Terms
  <2> HIDE DEF r
  <2>5. Good(r)
    BY <1>1, <2>3, <2>4 DEF Good, Shows
  <2> QED
    BY <2>1, <2>5 DEF r
<1>6. CASE symbol.kind = "char"
  <2> DEFINE entry == vga_entry(symbol.char, colour)
             r == PutEntryAt(t, entry, t.column, t.row)
  <2>1. PutChar(t, symbol, colour) = Advance(r)
    BY <1>6 DEF PutChar
  <2>2. entry \in Characters
    <3>1. symbol.char \in Shown
      BY <1>6 DEF Marks
    <3> QED
      BY <3>1, CharacterValues
  <2> HIDE DEF entry
  <2>3. r \in Terms /\ r.row = t.row /\ r.column = t.column /\ Shows(r)
    BY <1>1, <1>2, <2>2, PutEntryFields, PlaceShown
  <2> HIDE DEF r
  <2>4. /\ Advance(r) \in Terms /\ Shows(Advance(r))
        /\ Advance(r).column \in 0 .. vga_width - 1 /\ Advance(r).row \in 0 .. vga_height - 1
    BY <1>1, <2>3, AdvanceFields
  <2> QED
    BY <2>1, <2>4 DEF Good
<1>7. symbol.kind \in {"tab", "backspace", "newline", "char"}
  BY DEF Marks
<1> QED
  BY <1>3, <1>4, <1>5, <1>6, <1>7

-----------------------------------------------------------------------------
(* Strings.                                                                *)

Codes == [kind : {"colour"}, colour : Colours]
Strings == Seq(Marks \cup Codes)

\* put_char needs a terminal and no more to return one.
LEMMA PutCharTyped ==
  ASSUME NEW t \in Terms, NEW symbol \in Marks, NEW colour \in Colours
  PROVE  PutChar(t, symbol, colour) \in Terms
<1>1. CASE symbol.kind = "tab"
  <2> DEFINE next == ((t.column \div 4) + 1) * 4
  <2>1. next \in Int
    BY DEF Terms
  <2>2. PutChar(t, symbol, colour) = [t EXCEPT !.column = next]
    BY <1>1 DEF PutChar
  <2> HIDE DEF next
  <2> QED
    BY <2>1, <2>2 DEF Terms
<1>2. CASE symbol.kind = "backspace"
  <2>1. PutChar(t, symbol, colour) = PutEntryAt(Back(t), vga_entry(" ", "BLACK"), Back(t).column, Back(t).row)
    BY <1>2 DEF PutChar
  <2>2. Back(t) \in Terms
    BY BackFields
  <2>3. Back(t).column \in Int /\ Back(t).row \in Int
    BY <2>2 DEF Terms
  <2> QED
    BY <2>1, <2>2, <2>3, CharacterValues, PutEntryFields, ZenonT(60)
<1>3. CASE symbol.kind = "newline"
  <2> DEFINE n == NextRow(Advance(t))
  <2>1. PutChar(t, symbol, colour) = [n EXCEPT !.column = 0]
    BY <1>3 DEF PutChar
  <2>2. n \in Terms
    BY AdvanceFields, NextRowFields
  <2> HIDE DEF n
  <2> QED
    BY <2>1, <2>2 DEF Terms
<1>4. CASE symbol.kind = "char"
  <2>1. PutChar(t, symbol, colour) = Advance(PutEntryAt(t, vga_entry(symbol.char, colour), t.column, t.row))
    BY <1>4 DEF PutChar
  <2>2. symbol.char \in Shown /\ t.column \in Int /\ t.row \in Int
    BY <1>4 DEF Marks, Terms
  <2>3. vga_entry(symbol.char, colour) \in Characters
    BY <2>2, CharacterValues
  <2> QED
    BY <2>1, <2>2, <2>3, PutEntryFields, AdvanceFields
<1>5. symbol.kind \in {"tab", "backspace", "newline", "char"}
  BY DEF Marks
<1> QED
  BY <1>1, <1>2, <1>3, <1>4, <1>5

Situations == [tty : Terms, colour : Colours]

\* One symbol of a string.
LEMMA PutSymbolTyped ==
  ASSUME NEW s \in Situations, NEW symbol \in Marks \cup Codes
  PROVE  PutSymbol(s, symbol) \in Situations
<1>1. s.tty \in Terms /\ s.colour \in Colours
  BY DEF Situations
<1>2. CASE symbol \in Codes
  <2>1. symbol.kind = "colour" /\ symbol.colour \in Colours
    BY <1>2 DEF Codes
  <2> QED
    BY <2>1 DEF PutSymbol, Situations
<1>3. CASE symbol \in Marks
  <2>1. symbol.kind # "colour"
    BY <1>3 DEF Marks
  <2> DEFINE r == PutChar(s.tty, symbol, s.colour)
  <2>2. PutSymbol(s, symbol) = [s EXCEPT !.tty = r]
    BY <2>1 DEF PutSymbol
  <2>3. r \in Terms
    BY <1>1, <1>3, PutCharTyped
  <2> HIDE DEF r
  <2> QED
    BY <2>2, <2>3 DEF Situations
<1> QED
  BY <1>2, <1>3

\* The symbols of a string, one after another.
LEMMA PuttingSteps ==
  ASSUME NEW t \in Terms, NEW text \in Strings, NEW colour \in Colours
  PROVE  /\ Putting(t, text, colour) \in [0 .. Len(text) -> Situations]
         /\ Putting(t, text, colour)[0] = [tty |-> t, colour |-> colour]
         /\ \A n \in 1 .. Len(text) :
              Putting(t, text, colour)[n] = PutSymbol(Putting(t, text, colour)[n - 1], text[n])
<1> DEFINE N == Len(text)
           base == [tty |-> t, colour |-> colour]
           Goes(f) == f = [n \in 0 .. N |-> IF n = 0 THEN base ELSE PutSymbol(f[n - 1], text[n])]
           step == [n \in 1 .. N |-> [s \in Situations |-> PutSymbol(s, text[n])]]
<1>1. N \in Nat /\ base \in Situations /\ \A n \in 1 .. N : text[n] \in Marks \cup Codes
  BY DEF Strings, Situations
<1>2. step \in [1 .. N -> [Situations -> Situations]]
  <2>1. \A n \in 1 .. N, s \in Situations : PutSymbol(s, text[n]) \in Situations
    BY <1>1, PutSymbolTyped
  <2> HIDE DEF N
  <2> QED
    BY <2>1
<1>3. PICK f : Iterated(f, N, Situations, base, step)
  <2> HIDE DEF step, N, base
  <2> QED
    BY <1>1, <1>2, Iterates
<1>4. /\ f \in [0 .. N -> Situations] /\ f[0] = base
      /\ \A n \in 1 .. N : f[n] = step[n][f[n - 1]]
  <2> HIDE DEF step, N, base
  <2> QED
    BY <1>3 DEF Iterated
<1>5. ASSUME NEW n \in 1 .. N PROVE f[n] = PutSymbol(f[n - 1], text[n])
  <2>1. n - 1 \in 0 .. N
    BY <1>1
  <2>2. f[n - 1] \in Situations
    BY <1>4, <2>1
  <2> QED
    BY <1>4, <2>2
<1>6. Goes(f)
  <2>1. \A n \in 0 .. N : n = 0 \/ n \in 1 .. N
    BY <1>1
  <2>2. f = [n \in 0 .. N |-> f[n]]
    BY <1>4
  <2> HIDE DEF base, N, step
  <2> QED
    BY <1>4, <1>5, <2>1, <2>2
<1>7. Putting(t, text, colour) = CHOOSE g : Goes(g)
  BY DEF Putting
<1> DEFINE h == CHOOSE g : Goes(g)
<1>8. Goes(h)
  <2> HIDE DEF Goes
  <2> QED
    BY <1>6
<1> HIDE DEF h
<1>9. h[0] = base /\ \A n \in 1 .. N : h[n] = PutSymbol(h[n - 1], text[n])
  <2> HIDE DEF base
  <2>1. \A n \in 1 .. N : n \in 0 .. N /\ n # 0
    BY <1>1
  <2>2. 0 \in 0 .. N
    BY <1>1
  <2> QED
    BY <1>8, <2>1, <2>2
<1>10. h \in [0 .. N -> Situations]
  <2> DEFINE Bad == {n \in 0 .. N : h[n] \notin Situations}
  <2> SUFFICES Bad = {}
    <3>1. h = [n \in 0 .. N |-> h[n]]
      <4> HIDE DEF base, N
      <4> QED
        BY <1>8
    <3> HIDE DEF h
    <3> QED
      BY <3>1
  <2> SUFFICES ASSUME Bad # {} PROVE FALSE
    OBVIOUS
  <2>1. PICK n \in Bad : \A k \in Bad : n <= k
    <3>1. Bad \subseteq Nat
      BY <1>1
    <3> HIDE DEF Bad
    <3> QED
      BY <3>1, LeastNatural
  <2>2. n # 0
    BY <1>1, <1>9, <2>1
  <2>3. n \in 1 .. N /\ n - 1 \in 0 .. N /\ n - 1 \notin Bad
    <3>1. n \in 0 .. N
      BY <2>1
    <3>2. n \in 1 .. N /\ n - 1 \in 0 .. N /\ ~(n <= n - 1)
      BY <1>1, <2>2, <3>1
    <3> QED
      BY <2>1, <3>2
  <2>4. h[n - 1] \in Situations /\ h[n] = PutSymbol(h[n - 1], text[n]) /\ text[n] \in Marks \cup Codes
    BY <1>1, <1>9, <2>3
  <2> QED
    BY <2>1, <2>4, PutSymbolTyped
<1> QED
  BY <1>7, <1>9, <1>10 DEF h

\* Every tab of a string stays in its row.
Fits(t, text, colour) ==
  \A n \in 1 .. Len(text) :
    text[n].kind = "tab" => TabFits(Putting(t, text, colour)[n - 1].tty.column)

\* The symbols of a line of characters across the screen.
LEMMA LineSymbols ==
  /\ TerminalLine \in Strings
  /\ \A t, colour : Fits(t, TerminalLine, colour)
<1>1. vga_width \in Nat
  BY Sizes
<1>2. \A n \in 1 .. vga_width : TerminalLine[n] \in Marks /\ TerminalLine[n].kind # "tab"
  BY DEF TerminalLine, Marks, Shown
<1>3. TerminalLine \in Seq(Marks \cup Codes) /\ Len(TerminalLine) = vga_width
  BY <1>1, <1>2 DEF TerminalLine
<1> QED
  BY <1>2, <1>3 DEF Strings, Fits

\* The places that clear goes to.
LEMMA ClearPlaces ==
  ASSUME NEW n \in 1 .. vga_width * vga_height
  PROVE  <<(n - 1) % vga_width, (n - 1) \div vga_width>> \in Places
<1> DEFINE w == vga_width
           h == vga_height
           m == n - 1
           q == m \div w
           r == m % w
<1>1. w \in Nat /\ w >= 5 /\ h \in Nat /\ w * h \in Nat
  BY Sizes
<1>2. m \in Nat /\ m < w * h
  BY <1>1
<1> HIDE DEF m, w, h
<1>3. q \in Nat /\ r \in 0 .. w - 1 /\ m = w * q + r
  BY <1>1, <1>2
<1> HIDE DEF q, r
<1>4. q < h
  <2> SUFFICES ASSUME q >= h PROVE FALSE
    BY <1>1, <1>3
  <2>1. PICK d \in Nat : q = h + d
    <3>1. q - h \in Nat /\ q = h + (q - h)
      BY <1>1, <1>3
    <3> QED
      BY <3>1
  <2>2. w * q = w * h + w * d /\ w * d \in Nat
    BY <1>1, <2>1
  <2> QED
    BY <1>1, <1>2, <1>3, <2>2
<1> QED
  BY <1>1, <1>3, <1>4 DEF Places, w, h, m, q, r

SpaceCell == vga_entry(" ", "BLACK")

\* clear, one place after another.
LEMMA ClearingSteps ==
  ASSUME NEW t \in Terms
  PROVE  /\ Clearing(t) \in [0 .. vga_width * vga_height -> Terms] /\ Clearing(t)[0] = t
         /\ \A n \in 1 .. vga_width * vga_height :
              Clearing(t)[n] = PutEntryAt(Clearing(t)[n - 1], SpaceCell,
                                          (n - 1) % vga_width, (n - 1) \div vga_width)
<1> DEFINE N == vga_width * vga_height
           Put(s, n) == PutEntryAt(s, SpaceCell, (n - 1) % vga_width, (n - 1) \div vga_width)
           Goes(f) == f = [n \in 0 .. N |-> IF n = 0 THEN t ELSE Put(f[n - 1], n)]
           step == [n \in 1 .. N |-> [s \in Terms |-> Put(s, n)]]
<1>1. N \in Nat
  BY Sizes
<1>2. ASSUME NEW s \in Terms, NEW n \in 1 .. N PROVE Put(s, n) \in Terms
  <2>1. <<(n - 1) % vga_width, (n - 1) \div vga_width>> \in Places
    BY ClearPlaces
  <2>2. (n - 1) % vga_width \in Int /\ (n - 1) \div vga_width \in Int
    BY <2>1, Sizes DEF Places
  <2>3. SpaceCell \in Characters
    BY CharacterValues DEF SpaceCell
  <2> QED
    BY <2>2, <2>3, PutEntryFields
<1> HIDE DEF Put
<1>3. step \in [1 .. N -> [Terms -> Terms]]
  <2> HIDE DEF N
  <2> QED
    BY <1>2
<1>4. PICK f : Iterated(f, N, Terms, t, step)
  <2> HIDE DEF step, N
  <2> QED
    BY <1>1, <1>3, Iterates
<1>5. f \in [0 .. N -> Terms] /\ f[0] = t /\ \A n \in 1 .. N : f[n] = step[n][f[n - 1]]
  <2> HIDE DEF step, N
  <2> QED
    BY <1>4 DEF Iterated
<1> HIDE DEF N
<1>6. ASSUME NEW n \in 1 .. N PROVE f[n] = Put(f[n - 1], n)
  <2>1. n - 1 \in 0 .. N
    BY <1>1
  <2>2. f[n - 1] \in Terms
    BY <1>5, <2>1
  <2> QED
    BY <1>5, <2>2
<1>7. Goes(f)
  <2>1. \A n \in 0 .. N : n = 0 \/ n \in 1 .. N
    BY <1>1
  <2>2. f = [n \in 0 .. N |-> f[n]]
    BY <1>5
  <2> HIDE DEF step
  <2> QED
    BY <1>5, <1>6, <2>1, <2>2
<1>8. Clearing(t) = CHOOSE g : Goes(g)
  BY DEF Clearing, Put, SpaceCell, N
<1> DEFINE h == CHOOSE g : Goes(g)
<1>9. Goes(h)
  <2> HIDE DEF Goes
  <2> QED
    BY <1>7
<1> HIDE DEF h
<1>10. h[0] = t /\ \A n \in 1 .. N : h[n] = Put(h[n - 1], n)
  <2>1. \A n \in 1 .. N : n \in 0 .. N /\ n # 0
    BY <1>1
  <2>2. 0 \in 0 .. N
    BY <1>1
  <2> QED
    BY <1>9, <2>1, <2>2
<1>11. h \in [0 .. N -> Terms]
  <2> DEFINE Bad == {n \in 0 .. N : h[n] \notin Terms}
  <2> SUFFICES Bad = {}
    <3>1. h = [n \in 0 .. N |-> h[n]]
      BY <1>9
    <3> QED
      BY <3>1
  <2> SUFFICES ASSUME Bad # {} PROVE FALSE
    OBVIOUS
  <2>1. PICK n \in Bad : \A k \in Bad : n <= k
    <3>1. Bad \subseteq Nat
      BY <1>1
    <3> HIDE DEF Bad
    <3> QED
      BY <3>1, LeastNatural
  <2>2. n # 0
    BY <1>10, <2>1
  <2>3. n \in 1 .. N /\ n - 1 \in 0 .. N /\ n - 1 \notin Bad
    <3>1. n \in 0 .. N
      BY <2>1
    <3>2. n \in 1 .. N /\ n - 1 \in 0 .. N /\ ~(n <= n - 1)
      BY <1>1, <2>2, <3>1
    <3> QED
      BY <2>1, <3>2
  <2> QED
    BY <1>2, <1>10, <2>1, <2>3
<1> QED
  BY <1>8, <1>10, <1>11 DEF h, Put, N

\* The cursor at a place.
CursorAt(t, x, y) == [t EXCEPT !.row = y, !.column = x]

\* Moving the cursor changes no cell.
LEMMA CursorFields ==
  ASSUME NEW t \in Terms, NEW x \in Int, NEW y \in Int
  PROVE  /\ CursorAt(t, x, y) \in Terms /\ CursorAt(t, x, y).row = y /\ CursorAt(t, x, y).column = x
         /\ CursorAt(t, x, y).text = t.text /\ CursorAt(t, x, y).screen = t.screen
BY DEF Terms, CursorAt

\* clear keeps the screen in step and takes the cursor home.
LEMMA ClearedGood ==
  ASSUME NEW t, Good(t)
  PROVE  Good(Cleared(t))
<1> DEFINE N == vga_width * vga_height
           f == Clearing(t)
           Bad == {n \in 0 .. N : ~Shows(f[n])}
<1>1. /\ f \in [0 .. N -> Terms] /\ f[0] = t /\ Shows(t)
      /\ \A n \in 1 .. N : f[n] = PutEntryAt(f[n - 1], SpaceCell, (n - 1) % vga_width, (n - 1) \div vga_width)
  BY ClearingSteps DEF Good
<1>2. N \in Nat /\ vga_width \in Nat /\ vga_width >= 5 /\ vga_height \in Nat /\ vga_height >= 2
  BY Sizes
<1> HIDE DEF f
<1>3. ASSUME NEW n \in 1 .. N, Shows(f[n - 1]) PROVE Shows(f[n])
  <2>1. <<(n - 1) % vga_width, (n - 1) \div vga_width>> \in Places
    BY ClearPlaces
  <2> HIDE DEF N
  <2>2. n - 1 \in 0 .. N
    BY <1>2
  <2>3. f[n - 1] \in Terms /\ SpaceCell \in Characters
    BY <1>1, <2>2, CharacterValues DEF SpaceCell
  <2>4. f[n] = PutEntryAt(f[n - 1], SpaceCell, (n - 1) % vga_width, (n - 1) \div vga_width)
    BY <1>1
  <2> QED
    BY <1>3, <2>1, <2>3, <2>4, PlaceShown
<1> HIDE DEF N
<1>4. Bad = {}
  <2> SUFFICES ASSUME Bad # {} PROVE FALSE
    OBVIOUS
  <2>1. PICK n \in Bad : \A k \in Bad : n <= k
    <3>1. Bad \subseteq Nat
      BY <1>2
    <3> HIDE DEF Bad
    <3> QED
      BY <3>1, LeastNatural
  <2>2. n # 0
    BY <1>1, <2>1
  <2>3. n \in 1 .. N /\ n - 1 \in 0 .. N /\ n - 1 \notin Bad
    <3>1. n \in 0 .. N
      BY <2>1
    <3>2. n \in 1 .. N /\ n - 1 \in 0 .. N /\ ~(n <= n - 1)
      BY <1>2, <2>2, <3>1
    <3> QED
      BY <2>1, <3>2
  <2> QED
    BY <1>3, <2>1, <2>3
<1>5. N \in 0 .. N
  BY <1>2
<1>6. Shows(f[N]) /\ f[N] \in Terms
  BY <1>1, <1>4, <1>5
<1>7. Cleared(t) = CursorAt(f[N], 0, 0)
  BY DEF Cleared, CursorAt, f, N
<1>8. \A s \in Terms : Shows(s) => Good(CursorAt(s, 0, 0))
  BY <1>2, CursorFields DEF Good, Shows
<1> QED
  BY <1>6, <1>7, <1>8

-----------------------------------------------------------------------------
(* The calls.                                                              *)

\* The strings the terminal is given.
LEMMA TextSymbols ==
  Texts \cup Reports \subseteq Strings
<1>1. Symbols \subseteq Marks \cup Codes
  BY DEF Symbols, Marks, Codes, Shown
<1> SUFFICES ASSUME NEW text \in Texts \cup Reports PROVE text \in Strings
  OBVIOUS
<1>2. text \in Seq(Symbols)
  BY TtyAssumption
<1>3. \A n \in 1 .. Len(text) : text[n] \in Marks \cup Codes
  BY <1>1, <1>2
<1>4. Len(text) \in Nat /\ text \in [1 .. Len(text) -> Marks \cup Codes]
  BY <1>2, <1>3
<1> QED
  BY <1>4 DEF Strings

ColourOf(call) == IF call.by = "write" THEN "LIGHT_GREY" ELSE "WHITE"

\* The last call wrote a string whose tabs stay in their rows.
TabsInLine == said'.by \in {"write", "printf"} => Fits(Tty, said'.text, ColourOf(said'))

\* A call of the terminal.
Call(texts) == Clear \/ \E text \in texts : Write(text) \/ DisplayString(text)

-----------------------------------------------------------------------------
(* The terminal of module Terminal.                                        *)

Picture(text) == [y \in 0 .. vga_height - 1 |-> [x \in 0 .. vga_width - 1 |-> text[y * vga_width + x]]]

Map(t) == [lines |-> Picture(t.text), row |-> t.row, column |-> t.column]

\* The cell after the last one of the screen, which lines that scroll in are filled with.
Filler(t) == t.text[vga_height * vga_width]

\* A picture is made of its characters.
LEMMA Pictures ==
  ASSUME NEW text, NEW other,
         \A y \in 0 .. vga_height - 1, x \in 0 .. vga_width - 1 :
           other[y * vga_width + x] = text[y * vga_width + x]
  PROVE  Picture(other) = Picture(text)
<1>1. \A y \in 0 .. vga_height - 1 :
        [x \in 0 .. vga_width - 1 |-> other[y * vga_width + x]]
          = [x \in 0 .. vga_width - 1 |-> text[y * vga_width + x]]
  OBVIOUS
<1> QED
  BY <1>1 DEF Picture

\* The lines after a scroll: each is the one below, and the last is filled.
LEMMA ScrolledPicture ==
  ASSUME NEW text \in Texted
  PROVE  /\ Picture(Scrolled(text)) =
              [y \in 0 .. vga_height - 1 |->
                IF y < vga_height - 1 THEN Picture(text)[y + 1]
                ELSE [x \in 0 .. vga_width - 1 |-> text[vga_height * vga_width]]]
         /\ Scrolled(text)[vga_height * vga_width] = text[vga_height * vga_width]
<1> DEFINE w == vga_width
           h == vga_height
           b == vga_height * vga_width
           first == ClearedFirstRow(text)
           moved == Scrolled(text)
<1>1. w \in Nat /\ w >= 5 /\ h \in Nat /\ h >= 2 /\ b \in Nat /\ Cells = 0 .. b + w
  BY Sizes DEF Cells
<1>2. first \in Texted /\ \A c \in Cells : c >= w => first[c] = text[c]
  <2>1. first = [c \in Cells |-> IF c < w THEN Zero ELSE text[c]]
    BY DEF ClearedFirstRow
  <2>2. \A c \in Cells : c >= w => ~(c < w)
    BY <1>1
  <2> HIDE DEF w
  <2> QED
    BY <2>1, <2>2, CharacterValues DEF Texted
<1>3. \A c \in Cells : moved[c] = IF c >= b THEN first[c] ELSE IF c + w <= b THEN first[c + w] ELSE first[b]
  BY <1>2, ShiftedCells DEF Scrolled
<1>4. w <= b
  <2>1. 0 \in 0 .. h - 1
    BY <1>1
  <2>2. 0 * w + w <= b
    BY <2>1, Rows
  <2> QED
    BY <1>1, <2>2
<1>5. b \in Cells /\ moved[b] = first[b] /\ first[b] = text[b]
  <2> HIDE DEF moved, first, b, w
  <2> QED
    BY <1>1, <1>2, <1>3, <1>4
<1>6. ASSUME NEW y \in 0 .. h - 1, NEW x \in 0 .. w - 1
      PROVE  moved[y * w + x] = IF y < h - 1 THEN text[(y + 1) * w + x] ELSE text[b]
  <2> DEFINE a == y * w
             c == y * w + x
  <2>1. a \in Nat /\ (y + 1) * w = a + w /\ a + w <= b /\ c = a + x
    BY Rows
  <2>2. CASE y < h - 1
    <3>1. y + 1 \in 0 .. h - 1
      BY <1>1, <2>2
    <3>2. (y + 1) * w + w <= b
      BY <3>1, Rows
    <3> DEFINE d == (y + 1) * w
    <3>3. d = a + w /\ d + w <= b
      BY <2>1, <3>2
    <3> HIDE DEF moved, first, b, h, w, a, c, d
    <3>4. c \in Cells /\ ~(c >= b) /\ c + w <= b /\ c + w \in Cells /\ c + w >= w /\ c + w = d + x
      BY <1>1, <2>1, <3>3
    <3>5. moved[c] = text[d + x]
      BY <1>2, <1>3, <3>4
    <3> QED
      BY <2>2, <3>5 DEF c, d
  <2>3. CASE ~(y < h - 1)
    <3>1. y + 1 = h
      BY <1>1, <2>3
    <3>2. a + w = b
      BY <2>1, <3>1
    <3> HIDE DEF moved, first, b, h, w, a, c
    <3>3. c \in Cells /\ ~(c >= b) /\ (c + w <= b => c + w = b)
      BY <1>1, <2>1, <3>2
    <3>4. moved[c] = first[b]
      BY <1>3, <3>3
    <3> QED
      BY <1>5, <2>3, <3>4 DEF c
  <2> QED
    BY <2>2, <2>3
<1> HIDE DEF moved, first
<1>7. ASSUME NEW y \in 0 .. h - 1
      PROVE [x \in 0 .. w - 1 |-> moved[y * w + x]]
              = IF y < h - 1 THEN Picture(text)[y + 1] ELSE [x \in 0 .. w - 1 |-> text[b]]
  <2>1. CASE y < h - 1
    <3>1. y + 1 \in 0 .. h - 1
      BY <1>1, <2>1
    <3>2. Picture(text)[y + 1] = [x \in 0 .. w - 1 |-> text[(y + 1) * w + x]]
      BY <3>1 DEF Picture
    <3>3. \A x \in 0 .. w - 1 : moved[y * w + x] = text[(y + 1) * w + x]
      BY <1>6, <2>1
    <3> HIDE DEF w, h, b
    <3> QED
      BY <2>1, <3>2, <3>3
  <2>2. CASE ~(y < h - 1)
    <3>1. \A x \in 0 .. w - 1 : moved[y * w + x] = text[b]
      BY <1>6, <2>2
    <3> HIDE DEF w, h, b
    <3> QED
      BY <2>2, <3>1
  <2> QED
    BY <2>1, <2>2
<1>8. Picture(moved) = [y \in 0 .. h - 1 |-> [x \in 0 .. w - 1 |-> moved[y * w + x]]]
  BY DEF Picture
<1>9. Picture(moved) = [y \in 0 .. h - 1 |->
                         IF y < h - 1 THEN Picture(text)[y + 1] ELSE [x \in 0 .. w - 1 |-> text[b]]]
  <2> HIDE DEF w, h, b
  <2> QED
    BY <1>7, <1>8
<1> QED
  BY <1>5, <1>9 DEF moved

\* On the screen, with the filler that the line to scroll in has.
On(t) == Good(t) /\ Filler(t) = text_buffer[vga_height * vga_width]

\* The next row is the abstract one's.
LEMMA DownMapped ==
  ASSUME NEW t \in Terms, t.row \in 0 .. vga_height - 1,
         Filler(t) = text_buffer[vga_height * vga_width]
  PROVE  /\ Map(NextRow(t)) = Abstract!Down(Map(t))
         /\ Filler(NextRow(t)) = Filler(t)
<1>1. /\ NextRow(t).column = t.column
      /\ NextRow(t).row = IF t.row + 1 >= vga_height THEN t.row ELSE t.row + 1
      /\ NextRow(t).text = IF t.row + 1 >= vga_height THEN Scrolled(t.text) ELSE t.text
  BY NextRowFields
<1>2. vga_height \in Nat /\ t.text \in Texted
  BY Sizes DEF Terms
<1>3. CASE t.row + 1 >= vga_height
  <2>1. ~(t.row < vga_height - 1)
    BY <1>2, <1>3
  <2> DEFINE up == [y \in 0 .. vga_height - 1 |->
                     IF y < vga_height - 1 THEN Picture(t.text)[y + 1]
                     ELSE [x \in 0 .. vga_width - 1 |-> text_buffer[vga_height * vga_width]]]
  <2>2. Picture(Scrolled(t.text)) = up
    <3> DEFINE v == text_buffer[vga_height * vga_width]
               u == t.text[vga_height * vga_width]
    <3>1. u = v
      BY DEF Filler
    <3>2. Picture(Scrolled(t.text)) =
            [y \in 0 .. vga_height - 1 |->
              IF y < vga_height - 1 THEN Picture(t.text)[y + 1] ELSE [x \in 0 .. vga_width - 1 |-> u]]
      BY <1>2, ScrolledPicture
    <3> HIDE DEF u, v
    <3>3. Picture(Scrolled(t.text)) =
            [y \in 0 .. vga_height - 1 |->
              IF y < vga_height - 1 THEN Picture(t.text)[y + 1] ELSE [x \in 0 .. vga_width - 1 |-> v]]
      BY <3>1, <3>2
    <3> QED
      BY <3>3 DEF v
  <2>3. Abstract!Down(Map(t)) = [Map(t) EXCEPT !.lines = up]
    BY <2>1 DEF Abstract!Down, Map
  <2> HIDE DEF up
  <2>4. Map(NextRow(t)) = [lines |-> up, row |-> t.row, column |-> t.column]
    BY <1>1, <1>3, <2>2 DEF Map
  <2>5. [Map(t) EXCEPT !.lines = up] = [lines |-> up, row |-> t.row, column |-> t.column]
    BY DEF Map
  <2>6. Filler(NextRow(t)) = Filler(t)
    BY <1>1, <1>2, <1>3, ScrolledPicture DEF Filler
  <2> QED
    BY <2>3, <2>4, <2>5, <2>6
<1>4. CASE ~(t.row + 1 >= vga_height)
  <2>1. t.row < vga_height - 1
    BY <1>2, <1>4
  <2>2. Abstract!Down(Map(t)) = [Map(t) EXCEPT !.row = t.row + 1]
    BY <2>1 DEF Abstract!Down, Map
  <2>3. Map(NextRow(t)) = [lines |-> Picture(t.text), row |-> t.row + 1, column |-> t.column]
    BY <1>1, <1>4 DEF Map
  <2>4. [Map(t) EXCEPT !.row = t.row + 1] = [lines |-> Picture(t.text), row |-> t.row + 1, column |-> t.column]
    BY DEF Map
  <2> QED
    BY <1>1, <1>4, <2>2, <2>3, <2>4 DEF Filler
<1> QED
  BY <1>3, <1>4

\* Writing at a place changes one character of the picture.
LEMMA PlacePicture ==
  ASSUME NEW text \in Texted, NEW entry, NEW x, NEW y, <<x, y>> \in Places
  PROVE  /\ Picture(Changed(text, y * vga_width + x, entry)) = [Picture(text) EXCEPT ![y][x] = entry]
         /\ Changed(text, y * vga_width + x, entry)[vga_height * vga_width]
              = text[vga_height * vga_width]
<1> DEFINE other == [text EXCEPT ![y * vga_width + x] = entry]
<1>1. /\ x \in 0 .. vga_width - 1 /\ y \in 0 .. vga_height - 1
      /\ y * vga_width + x \in Cells /\ y * vga_width + x < vga_height * vga_width
      /\ vga_height * vga_width \in Cells /\ vga_height * vga_width \in Nat
  BY PlaceCells, Sizes DEF Places, Cell
<1>2. other[vga_height * vga_width] = text[vga_height * vga_width]
  <2> DEFINE c == y * vga_width + x
             b == vga_height * vga_width
  <2>1. c # b
    BY <1>1
  <2> HIDE DEF c, b
  <2> QED
    BY <2>1 DEF c, b
<1>3. ASSUME NEW s \in 0 .. vga_height - 1, NEW q \in 0 .. vga_width - 1
      PROVE  other[s * vga_width + q] = IF s = y /\ q = x THEN entry ELSE text[s * vga_width + q]
  <2>1. <<q, s>> \in Places
    BY DEF Places
  <2>2. s * vga_width + q \in Cells
    BY <2>1, PlaceCells DEF Cell
  <2>3. ASSUME ~(s = y /\ q = x) PROVE s * vga_width + q # y * vga_width + x
    <3>1. <<q, s>> # <<x, y>>
      BY <2>3
    <3> QED
      BY <2>1, <3>1, PlacesApart DEF Cell
  <2> DEFINE c == y * vga_width + x
             d == s * vga_width + q
  <2>4. d \in Cells /\ (~(s = y /\ q = x) => d # c) /\ (s = y /\ q = x => d = c)
    BY <2>2, <2>3
  <2> HIDE DEF c, d
  <2>5. [text EXCEPT ![c] = entry][d] = IF s = y /\ q = x THEN entry ELSE text[d]
    BY <2>4 DEF Texted
  <2> QED
    BY <2>5 DEF c, d
<1> HIDE DEF other
<1> DEFINE rows == 0 .. vga_height - 1
           places == 0 .. vga_width - 1
           P == Picture(text)
           L(s) == [q \in places |-> other[s * vga_width + q]]
           M(s) == [q \in places |-> text[s * vga_width + q]]
<1>4. P = [s \in rows |-> M(s)] /\ Picture(other) = [s \in rows |-> L(s)]
  BY DEF Picture
<1>5. ASSUME NEW s \in rows PROVE L(s) = IF s = y THEN [M(s) EXCEPT ![x] = entry] ELSE M(s)
  BY <1>3
<1> HIDE DEF L, M, P
<1>6. [P EXCEPT ![y][x] = entry] = [s \in rows |-> IF s = y THEN [M(s) EXCEPT ![x] = entry] ELSE M(s)]
  BY <1>4
<1>7. Picture(other) = [P EXCEPT ![y][x] = entry]
  BY <1>4, <1>5, <1>6, ZenonT(60)
<1> QED
  BY <1>2, <1>7 DEF P, other, Changed

\* The next row is the same from every column.
LEMMA DownColumn ==
  ASSUME NEW L, NEW y, NEW c, NEW d
  PROVE  Abstract!Down([lines |-> L, row |-> y, column |-> d])
           = [Abstract!Down([lines |-> L, row |-> y, column |-> c]) EXCEPT !.column = d]
<1> DEFINE s == [lines |-> L, row |-> y, column |-> c]
           t == [lines |-> L, row |-> y, column |-> d]
           up == [k \in 0 .. vga_height - 1 |->
                   IF k < vga_height - 1 THEN L[k + 1]
                   ELSE [x \in 0 .. vga_width - 1 |-> text_buffer[vga_height * vga_width]]]
<1>1. CASE y < vga_height - 1
  <2>1. /\ Abstract!Down(s) = [lines |-> L, row |-> y + 1, column |-> c]
        /\ Abstract!Down(t) = [lines |-> L, row |-> y + 1, column |-> d]
    BY <1>1 DEF Abstract!Down
  <2> QED
    BY <2>1
<1>2. CASE ~(y < vga_height - 1)
  <2>1. Abstract!Down(s) = [s EXCEPT !.lines = up] /\ Abstract!Down(t) = [t EXCEPT !.lines = up]
    BY <1>2 DEF Abstract!Down
  <2> HIDE DEF up
  <2> QED
    BY <2>1
<1> QED
  BY <1>1, <1>2

\* A character moves the abstract cursor as it moves the cursor.
LEMMA ShowMapped ==
  ASSUME NEW t, On(t), NEW entry \in Characters
  PROVE  LET r == PutEntryAt(t, entry, t.column, t.row) IN
         Map(Advance(r)) = Abstract!Show(Map(t), entry) /\ Filler(Advance(r)) = Filler(t)
<1> DEFINE r == PutEntryAt(t, entry, t.column, t.row)
           drawn == [Map(t) EXCEPT !.lines[t.row][t.column] = entry]
<1>1. /\ t \in Terms /\ t.row \in 0 .. vga_height - 1 /\ t.column \in 0 .. vga_width - 1
      /\ <<t.column, t.row>> \in Places /\ t.text \in Texted
      /\ Filler(t) = text_buffer[vga_height * vga_width]
      /\ vga_width \in Nat /\ vga_height \in Nat /\ t.row \in Int /\ t.column \in Int
  BY Sizes DEF On, Good, Places, Terms
<1>2. /\ r \in Terms /\ r.row = t.row /\ r.column = t.column
      /\ r.text = Changed(t.text, t.row * vga_width + t.column, entry)
  <2>1. r \in Terms /\ r.row = t.row /\ r.column = t.column
    BY <1>1, PutEntryFields
  <2>2. r.text = Changed(t.text, t.row * vga_width + t.column, entry)
    <3> DEFINE x == t.column
               y == t.row
    <3>1. t \in Terms /\ <<x, y>> \in Places
      BY <1>1
    <3> HIDE DEF x, y
    <3>2. PutEntryAt(t, entry, x, y).text = Changed(t.text, y * vga_width + x, entry)
      BY <3>1, PutEntryAtPlace
    <3> QED
      BY <3>2 DEF x, y
  <2> QED
    BY <2>1, <2>2
<1>3. Picture(r.text) = [Picture(t.text) EXCEPT ![t.row][t.column] = entry] /\ Filler(r) = Filler(t)
  <2> DEFINE other == Changed(t.text, t.row * vga_width + t.column, entry)
  <2>1. /\ Picture(other) = [Picture(t.text) EXCEPT ![t.row][t.column] = entry]
        /\ other[vga_height * vga_width] = t.text[vga_height * vga_width]
    <3> DEFINE x == t.column
               y == t.row
               text == t.text
    <3>1. text \in Texted /\ <<x, y>> \in Places
      BY <1>1
    <3> HIDE DEF x, y, text
    <3>2. /\ Picture(Changed(text, y * vga_width + x, entry)) = [Picture(text) EXCEPT ![y][x] = entry]
          /\ Changed(text, y * vga_width + x, entry)[vga_height * vga_width]
               = text[vga_height * vga_width]
      BY <3>1, PlacePicture
    <3> QED
      BY <3>2 DEF x, y, text
  <2>2. r.text = other
    BY <1>2
  <2> HIDE DEF other, r
  <2> QED
    BY <2>1, <2>2 DEF Filler
<1> HIDE DEF r
<1>4. drawn = Map(r)
  <2>1. Map(r) = [lines |-> Picture(r.text), row |-> t.row, column |-> t.column]
    BY <1>2 DEF Map
  <2>2. drawn = [lines |-> [Picture(t.text) EXCEPT ![t.row][t.column] = entry], row |-> t.row, column |-> t.column]
    BY DEF Map
  <2> QED
    BY <1>3, <2>1, <2>2
<1>5. Abstract!Show(Map(t), entry) =
        IF t.column < vga_width - 1 THEN [drawn EXCEPT !.column = @ + 1]
        ELSE [Abstract!Down(drawn) EXCEPT !.column = 0]
  BY DEF Abstract!Show, Map
<1> HIDE DEF drawn
<1>6. CASE t.column + 1 >= vga_width
  <2> DEFINE q == [r EXCEPT !.column = 0]
  <2>1. Advance(r) = NextRow(q) /\ ~(t.column < vga_width - 1)
    BY <1>1, <1>2, <1>6 DEF Advance
  <2>2. /\ q \in Terms /\ q.row = r.row /\ q.text = r.text /\ q.column = 0
    BY <1>2 DEF Terms
  <2> HIDE DEF q
  <2>3. Map(NextRow(q)) = Abstract!Down(Map(q)) /\ Filler(NextRow(q)) = Filler(q) /\ Filler(q) = Filler(r)
    BY <1>1, <1>2, <1>3, <2>2, DownMapped DEF Filler
  <2>4. Abstract!Down(Map(q)) = [Abstract!Down(Map(r)) EXCEPT !.column = 0]
    BY <2>2, DownColumn DEF Map
  <2> QED
    BY <1>3, <1>4, <1>5, <2>1, <2>3, <2>4 DEF r
<1>7. CASE ~(t.column + 1 >= vga_width)
  <2>1. t.column < vga_width - 1
    BY <1>1, <1>7
  <2>2. /\ Advance(r).row = r.row /\ Advance(r).column = r.column + 1 /\ Advance(r).text = r.text
    BY <1>1, <1>2, <1>7, AdvanceFields
  <2>3. Map(Advance(r)) = [Map(r) EXCEPT !.column = @ + 1]
    BY <2>2 DEF Map
  <2> QED
    BY <1>3, <1>4, <1>5, <2>1, <2>2, <2>3 DEF r, Filler
<1> QED
  BY <1>6, <1>7

\* A newline, also in the last column.
LEMMA NewlineMapped ==
  ASSUME NEW t, On(t)
  PROVE  LET r == [NextRow(Advance(t)) EXCEPT !.column = 0] IN
         Map(r) = Abstract!NextLine(Map(t)) /\ Filler(r) = Filler(t)
<1> DEFINE a == Advance(t)
           n == NextRow(a)
           r == [n EXCEPT !.column = 0]
<1>1. /\ t \in Terms /\ t.row \in 0 .. vga_height - 1 /\ t.column \in 0 .. vga_width - 1
      /\ t.text \in Texted /\ Filler(t) = text_buffer[vga_height * vga_width]
      /\ vga_width \in Nat /\ vga_height \in Nat
  BY Sizes DEF On, Good, Terms
<1>2. /\ a \in Terms /\ Filler(a) = Filler(t) /\ a.row \in 0 .. vga_height - 1
      /\ \E c : Map(a) =
           [(IF t.column = vga_width - 1 THEN Abstract!Down(Map(t)) ELSE Map(t)) EXCEPT !.column = c]
  <2>1. CASE t.column + 1 >= vga_width
    <3> DEFINE q == [t EXCEPT !.column = 0]
    <3>1. a = NextRow(q) /\ t.column = vga_width - 1
      BY <1>1, <2>1 DEF Advance
    <3>2. q \in Terms /\ q.row = t.row /\ q.text = t.text /\ q.column = 0
      BY <1>1 DEF Terms
    <3> HIDE DEF q
    <3>3. /\ Map(NextRow(q)) = Abstract!Down(Map(q)) /\ Filler(NextRow(q)) = Filler(q)
          /\ Filler(q) = Filler(t) /\ NextRow(q) \in Terms
      BY <1>1, <3>2, DownMapped, NextRowFields DEF Filler
    <3>4. NextRow(q).row \in 0 .. vga_height - 1
      BY <1>1, <3>2, NextRowFields
    <3>5. Abstract!Down(Map(q)) = [Abstract!Down(Map(t)) EXCEPT !.column = 0]
      BY <3>2, DownColumn DEF Map
    <3> QED
      BY <3>1, <3>3, <3>4, <3>5
  <2>2. CASE ~(t.column + 1 >= vga_width)
    <3>1. /\ a \in Terms /\ a.row = t.row /\ a.column = t.column + 1 /\ a.text = t.text
      BY <1>1, <2>2, AdvanceFields
    <3>2. t.column # vga_width - 1
      BY <1>1, <2>2
    <3>3. Map(a) = [Map(t) EXCEPT !.column = t.column + 1]
      BY <3>1 DEF Map
    <3> QED
      BY <1>1, <3>1, <3>2, <3>3 DEF Filler
  <2> QED
    BY <2>1, <2>2
<1> DEFINE before == IF t.column = vga_width - 1 THEN Abstract!Down(Map(t)) ELSE Map(t)
<1>3. PICK column1 : Map(a) = [before EXCEPT !.column = column1]
  BY <1>2
<1>4. Abstract!NextLine(Map(t)) = [Abstract!Down(before) EXCEPT !.column = 0]
  BY DEF Abstract!NextLine, Map
<1>5. /\ DOMAIN before = {"lines", "row", "column"}
      /\ before = [lines |-> before.lines, row |-> before.row, column |-> before.column]
  BY DEF Abstract!Down, Map
<1> HIDE DEF a, before
<1>6. Map(n) = Abstract!Down(Map(a)) /\ Filler(n) = Filler(a) /\ n \in Terms
  BY <1>1, <1>2, DownMapped, NextRowFields
<1> HIDE DEF n
<1>7. [Abstract!Down(Map(a)) EXCEPT !.column = 0] = [Abstract!Down(before) EXCEPT !.column = 0]
  BY <1>3, <1>5 DEF Abstract!Down
<1>8. r.row = n.row /\ r.column = 0 /\ r.text = n.text
  BY <1>6 DEF Terms
<1>9. Map(r) = [Map(n) EXCEPT !.column = 0]
  BY <1>8 DEF Map
<1> QED
  BY <1>2, <1>4, <1>6, <1>7, <1>8, <1>9 DEF Filler, a, n

\* A backspace erases the place before the cursor.
LEMMA EraseMapped ==
  ASSUME NEW t, On(t)
  PROVE  LET r == PutEntryAt(Back(t), SpaceCell, Back(t).column, Back(t).row) IN
         Map(r) = Abstract!Erase(Map(t)) /\ Filler(r) = Filler(t)
<1> DEFINE b == Back(t)
           x == b.column
           y == b.row
           r == PutEntryAt(b, SpaceCell, x, y)
<1>1. /\ t \in Terms /\ t.row \in 0 .. vga_height - 1 /\ t.column \in 0 .. vga_width - 1
      /\ vga_width \in Nat /\ vga_height \in Nat
  BY Sizes DEF On, Good
<1>2. /\ b \in Terms /\ b.text = t.text
      /\ IF t.column # 0 THEN x = t.column - 1 /\ y = t.row
         ELSE IF t.row # 0 THEN x = vga_width - 1 /\ y = t.row - 1
         ELSE x = 0 /\ y = 0
  BY <1>1, BackFields
<1> HIDE DEF b
<1> DEFINE before == IF t.column > 0 THEN [Map(t) EXCEPT !.column = @ - 1]
                     ELSE IF t.row > 0 THEN [Map(t) EXCEPT !.column = vga_width - 1, !.row = @ - 1]
                     ELSE Map(t)
<1>3. before = Map(b)
  <2>1. CASE t.column # 0
    <3>1. t.column > 0
      BY <1>1, <2>1
    <3>2. before = [lines |-> Picture(t.text), row |-> t.row, column |-> t.column - 1]
      BY <3>1 DEF Map
    <3>3. Map(b) = [lines |-> Picture(t.text), row |-> t.row, column |-> t.column - 1]
      BY <1>2, <2>1 DEF Map
    <3> QED
      BY <3>2, <3>3
  <2>2. CASE t.column = 0 /\ t.row # 0
    <3>1. ~(t.column > 0) /\ t.row > 0
      BY <1>1, <2>2
    <3>2. before = [lines |-> Picture(t.text), row |-> t.row - 1, column |-> vga_width - 1]
      BY <3>1 DEF Map
    <3>3. Map(b) = [lines |-> Picture(t.text), row |-> t.row - 1, column |-> vga_width - 1]
      BY <1>2, <2>2 DEF Map
    <3> QED
      BY <3>2, <3>3
  <2>3. CASE t.column = 0 /\ t.row = 0
    <3>1. ~(t.column > 0) /\ ~(t.row > 0)
      BY <2>3
    <3>2. before = [lines |-> Picture(t.text), row |-> t.row, column |-> t.column]
      BY <3>1 DEF Map
    <3>3. Map(b) = [lines |-> Picture(t.text), row |-> t.row, column |-> t.column]
      BY <1>2, <2>3 DEF Map
    <3> QED
      BY <3>2, <3>3
  <2> QED
    BY <2>1, <2>2, <2>3
<1>4. Abstract!Erase(Map(t)) = [before EXCEPT !.lines[before.row][before.column] = Abstract!Blank]
  BY DEF Abstract!Erase, Map
<1> HIDE DEF before
<1>5. x \in 0 .. vga_width - 1 /\ y \in 0 .. vga_height - 1 /\ x \in Int /\ y \in Int
  <2> HIDE DEF x, y
  <2> QED
    BY <1>1, <1>2
<1>6. <<x, y>> \in Places /\ SpaceCell \in Characters /\ Abstract!Blank = SpaceCell
  BY <1>5, CharacterValues DEF Places, SpaceCell, Abstract!Blank, vga_entry
<1> DEFINE text == t.text
<1>7. text \in Texted
  BY <1>1 DEF Terms
<1>8. r.row = y /\ r.column = x
  BY <1>2, <1>5, <1>6, PutEntryFields
<1>9. r.text = Changed(text, y * vga_width + x, SpaceCell)
  <2>1. b.text = text /\ b \in Terms /\ SpaceCell \in Characters /\ <<x, y>> \in Places
    BY <1>2, <1>6
  <2> HIDE DEF x, y, text
  <2>2. PutEntryAt(b, SpaceCell, x, y).text = Changed(b.text, y * vga_width + x, SpaceCell)
    BY <2>1, PutEntryAtPlace
  <2> QED
    BY <2>1, <2>2
<1> HIDE DEF r
<1>10. Map(b) = [lines |-> Picture(text), row |-> y, column |-> x]
  BY <1>2 DEF Map
<1> HIDE DEF x, y, text
<1>11. /\ Picture(r.text) = [Picture(text) EXCEPT ![y][x] = SpaceCell]
       /\ r.text[vga_height * vga_width] = text[vga_height * vga_width]
  BY <1>6, <1>7, <1>9, PlacePicture
<1>12. Map(r) = [lines |-> [Picture(text) EXCEPT ![y][x] = SpaceCell], row |-> y, column |-> x]
  BY <1>8, <1>11 DEF Map
<1>13. [before EXCEPT !.lines[before.row][before.column] = Abstract!Blank] = Map(r)
  <2> DEFINE m == [lines |-> Picture(text), row |-> y, column |-> x]
  <2>1. [m EXCEPT !.lines[m.row][m.column] = SpaceCell]
          = [lines |-> [Picture(text) EXCEPT ![y][x] = SpaceCell], row |-> y, column |-> x]
    OBVIOUS
  <2>2. before = m
    BY <1>3, <1>10
  <2> HIDE DEF m
  <2> QED
    BY <1>6, <1>12, <2>1, <2>2
<1>14. Filler(r) = Filler(t)
  BY <1>11 DEF Filler, text
<1> QED
  BY <1>4, <1>13, <1>14 DEF r, x, y, b

\* Each character does what it does to the abstract terminal.
LEMMA PutMapped ==
  ASSUME NEW t, On(t), NEW symbol \in Marks, NEW colour \in Colours,
         symbol.kind = "tab" => TabFits(t.column)
  PROVE  /\ Map(PutChar(t, symbol, colour)) = Abstract!Put(Map(t), symbol, colour)
         /\ On(PutChar(t, symbol, colour))
<1>1. Good(t) /\ t \in Terms /\ Filler(t) = text_buffer[vga_height * vga_width]
  BY DEF On, Good
<1>2. Good(PutChar(t, symbol, colour))
  BY <1>1, PutCharGood
<1> SUFFICES /\ Map(PutChar(t, symbol, colour)) = Abstract!Put(Map(t), symbol, colour)
             /\ Filler(PutChar(t, symbol, colour)) = Filler(t)
  BY <1>1, <1>2 DEF On
<1>3. CASE symbol.kind = "tab"
  <2> DEFINE next == ((t.column \div 4) + 1) * 4
             r == [t EXCEPT !.column = next]
  <2>1. PutChar(t, symbol, colour) = r
    BY <1>3 DEF PutChar
  <2>2. Abstract!Put(Map(t), symbol, colour) = [Map(t) EXCEPT !.column = next]
    BY <1>3 DEF Abstract!Put, Map
  <2> HIDE DEF next
  <2>3. r.row = t.row /\ r.column = next /\ r.text = t.text
    BY <1>1 DEF Terms
  <2> HIDE DEF r
  <2> QED
    BY <2>1, <2>2, <2>3 DEF Map, Filler
<1>4. CASE symbol.kind = "backspace"
  <2>1. PutChar(t, symbol, colour) = PutEntryAt(Back(t), SpaceCell, Back(t).column, Back(t).row)
    BY <1>4 DEF PutChar, SpaceCell
  <2>2. Abstract!Put(Map(t), symbol, colour) = Abstract!Erase(Map(t))
    BY <1>4 DEF Abstract!Put
  <2> QED
    BY <2>1, <2>2, EraseMapped
<1>5. CASE symbol.kind = "newline"
  <2>1. PutChar(t, symbol, colour) = [NextRow(Advance(t)) EXCEPT !.column = 0]
    BY <1>5 DEF PutChar
  <2>2. Abstract!Put(Map(t), symbol, colour) = Abstract!NextLine(Map(t))
    BY <1>5 DEF Abstract!Put
  <2> QED
    BY <2>1, <2>2, NewlineMapped
<1>6. CASE symbol.kind = "char"
  <2> DEFINE entry == vga_entry(symbol.char, colour)
  <2>1. PutChar(t, symbol, colour) = Advance(PutEntryAt(t, entry, t.column, t.row))
    BY <1>6 DEF PutChar
  <2>2. entry = [char |-> symbol.char, colour |-> colour]
    BY DEF vga_entry
  <2>3. Abstract!Put(Map(t), symbol, colour) = Abstract!Show(Map(t), entry)
    BY <1>6, <2>2 DEF Abstract!Put
  <2>4. entry \in Characters
    <3>1. symbol.char \in Shown
      BY <1>6 DEF Marks
    <3> QED
      BY <3>1, CharacterValues
  <2> HIDE DEF entry
  <2> QED
    BY <2>1, <2>3, <2>4, ShowMapped
<1>7. symbol.kind \in {"tab", "backspace", "newline", "char"}
  BY DEF Marks
<1> QED
  BY <1>3, <1>4, <1>5, <1>6, <1>7

\* The colour of a symbol is that of the last code up to it.
LEMMA ColourSteps ==
  ASSUME NEW text \in Strings, NEW colour, NEW n \in 1 .. Len(text)
  PROVE  /\ Abstract!ColourAt(text, colour, 0) = colour
         /\ text[n].kind = "colour" => Abstract!ColourAt(text, colour, n) = text[n].colour
         /\ text[n].kind # "colour" =>
              Abstract!ColourAt(text, colour, n) = Abstract!ColourAt(text, colour, n - 1)
<1> DEFINE named(m) == {k \in 1 .. m : text[k].kind = "colour"}
           last(m) == CHOOSE k \in named(m) : \A l \in named(m) : l <= k
<1>1. n \in Nat /\ n >= 1
  BY DEF Strings
<1>2. \A m : Abstract!ColourAt(text, colour, m) = IF named(m) = {} THEN colour ELSE text[last(m)].colour
  BY DEF Abstract!ColourAt
<1>3. named(0) = {}
  OBVIOUS
<1>4. ASSUME text[n].kind = "colour" PROVE n \in named(n) /\ last(n) = n
  <2>1. n \in named(n) /\ \A l \in named(n) : l <= n
    BY <1>1, <1>4
  <2>2. last(n) \in named(n) /\ n <= last(n)
    <3> HIDE DEF named
    <3> QED
      BY <2>1
  <2> HIDE DEF last
  <2> QED
    BY <1>1, <2>1, <2>2
<1>5. ASSUME text[n].kind # "colour" PROVE named(n) = named(n - 1)
  <2>1. \A k : k \in 1 .. n <=> k = n \/ k \in 1 .. n - 1
    BY <1>1
  <2> QED
    BY <1>5, <2>1
<1>6. text[n].kind = "colour" => Abstract!ColourAt(text, colour, n) = text[n].colour
  <2> HIDE DEF last, named
  <2> QED
    BY <1>2, <1>4
<1>7. text[n].kind # "colour" =>
        Abstract!ColourAt(text, colour, n) = Abstract!ColourAt(text, colour, n - 1)
  <2> HIDE DEF named
  <2> QED
    BY <1>2, <1>5
<1> QED
  BY <1>2, <1>3, <1>6, <1>7

\* The symbols of a string do what they do to the abstract terminal.
LEMMA StringSteps ==
  ASSUME NEW t, On(t), NEW text \in Strings, NEW colour \in Colours, Fits(t, text, colour)
  PROVE  /\ \A n \in 0 .. Len(text) : On(Putting(t, text, colour)[n].tty)
         /\ \A n \in 1 .. Len(text) :
              Map(Putting(t, text, colour)[n].tty)
                = Abstract!Put(Map(Putting(t, text, colour)[n - 1].tty), text[n],
                               Abstract!ColourAt(text, colour, n))
<1> DEFINE N == Len(text)
           f == Putting(t, text, colour)
           C(n) == Abstract!ColourAt(text, colour, n)
           Right(n) == On(f[n].tty) /\ f[n].colour = C(n)
           Step(n) == Map(f[n].tty) = Abstract!Put(Map(f[n - 1].tty), text[n], C(n))
           Bad == {n \in 0 .. N : ~Right(n)}
<1>1. /\ f \in [0 .. N -> Situations] /\ f[0] = [tty |-> t, colour |-> colour]
      /\ \A n \in 1 .. N : f[n] = PutSymbol(f[n - 1], text[n])
  <2>1. t \in Terms
    BY DEF On, Good
  <2> QED
    BY <2>1, PuttingSteps
<1>2. N \in Nat /\ \A n \in 1 .. N : text[n] \in Marks \cup Codes
  BY DEF Strings
<1>3. \A n \in 1 .. N : text[n].kind = "tab" => TabFits(f[n - 1].tty.column)
  BY DEF Fits
<1>4. \A n \in 1 .. N : /\ text[n].kind = "colour" => C(n) = text[n].colour
                        /\ text[n].kind # "colour" => C(n) = C(n - 1)
  BY ColourSteps
<1>5. C(0) = colour
  <2>1. {k \in 1 .. 0 : text[k].kind = "colour"} = {}
    OBVIOUS
  <2> QED
    BY <2>1 DEF Abstract!ColourAt
<1> HIDE DEF f, N, C
<1>6. ASSUME NEW n \in 1 .. N, Right(n - 1) PROVE Right(n) /\ Step(n)
  <2>1. f[n - 1] \in Situations
    <3>1. n - 1 \in 0 .. N
      BY <1>2
    <3> QED
      BY <1>1, <3>1
  <2> DEFINE s == f[n - 1]
             symbol == text[n]
  <2>2. f[n] = PutSymbol(s, symbol) /\ symbol \in Marks \cup Codes
    BY <1>1, <1>2
  <2>3. symbol.kind = "tab" => TabFits(s.tty.column)
    BY <1>3
  <2>4. /\ s \in Situations /\ On(s.tty) /\ s.colour \in Colours /\ s.colour = C(n - 1)
        /\ symbol.kind = "colour" => C(n) = symbol.colour
        /\ symbol.kind # "colour" => C(n) = C(n - 1)
    BY <1>4, <1>6, <2>1 DEF Situations
  <2> SUFFICES Right(n) /\ Map(f[n].tty) = Abstract!Put(Map(s.tty), symbol, C(n))
    OBVIOUS
  <2> HIDE DEF s, symbol
  <2>5. CASE symbol \in Codes
    <3>1. symbol.kind = "colour"
      BY <2>5 DEF Codes
    <3>2. PutSymbol(s, symbol) = [s EXCEPT !.colour = symbol.colour]
      BY <3>1 DEF PutSymbol
    <3>3. PutSymbol(s, symbol).tty = s.tty /\ PutSymbol(s, symbol).colour = symbol.colour
      BY <2>4, <3>2 DEF Situations
    <3>4. Abstract!Put(Map(s.tty), symbol, C(n)) = Map(s.tty)
      BY <3>1 DEF Abstract!Put
    <3> QED
      BY <2>2, <2>4, <3>1, <3>3, <3>4
  <2>6. CASE symbol \in Marks
    <3>1. symbol.kind # "colour"
      BY <2>6 DEF Marks
    <3> DEFINE r == PutChar(s.tty, symbol, s.colour)
    <3>2. PutSymbol(s, symbol) = [s EXCEPT !.tty = r]
      BY <3>1 DEF PutSymbol
    <3>3. On(r) /\ Map(r) = Abstract!Put(Map(s.tty), symbol, s.colour)
      BY <2>3, <2>4, <2>6, PutMapped
    <3> HIDE DEF r
    <3>4. PutSymbol(s, symbol).tty = r /\ PutSymbol(s, symbol).colour = s.colour
      BY <2>4, <3>2 DEF Situations
    <3> QED
      BY <2>2, <2>4, <3>1, <3>3, <3>4
  <2> QED
    BY <2>2, <2>5, <2>6
<1>7. Bad = {}
  <2> SUFFICES ASSUME Bad # {} PROVE FALSE
    OBVIOUS
  <2>1. PICK n \in Bad : \A k \in Bad : n <= k
    <3>1. Bad \subseteq Nat
      BY <1>2
    <3> HIDE DEF Bad
    <3> QED
      BY <3>1, LeastNatural
  <2>2. n # 0
    BY <1>1, <1>5, <2>1
  <2>3. n \in 1 .. N /\ n - 1 \in 0 .. N /\ n - 1 \notin Bad
    <3>1. n \in 0 .. N
      BY <2>1
    <3>2. n \in 1 .. N /\ n - 1 \in 0 .. N /\ ~(n <= n - 1)
      BY <1>2, <2>2, <3>1
    <3> QED
      BY <2>1, <3>2
  <2>4. Right(n)
    BY <1>6, <2>3
  <2> QED
    BY <2>1, <2>4
<1>8. \A n \in 0 .. N : On(f[n].tty)
  BY <1>7
<1>9. ASSUME NEW n \in 1 .. N PROVE Step(n)
  <2>1. n - 1 \in 0 .. N
    BY <1>2
  <2>2. Right(n - 1)
    BY <1>7, <2>1
  <2> QED
    BY <1>6, <2>2
<1> QED
  BY <1>8, <1>9 DEF f, N, C

\* A string does what it does to the abstract terminal.
LEMMA StringMapped ==
  ASSUME NEW t, On(t), NEW text \in Strings, NEW colour \in Colours, Fits(t, text, colour)
  PROVE  /\ Map(PutAll(t, text, colour)) = Abstract!Text(Map(t), text, colour)
         /\ On(PutAll(t, text, colour))
<1> DEFINE N == Len(text)
           f == Putting(t, text, colour)
           m == Map(t)
           C(n) == Abstract!ColourAt(text, colour, n)
           Goes(g) == g = [n \in 0 .. N |-> IF n = 0 THEN m ELSE Abstract!Put(g[n - 1], text[n], C(n))]
           image == [n \in 0 .. N |-> Map(f[n].tty)]
<1>1. N \in Nat
  BY DEF Strings
<1>2. \A n \in 0 .. N : On(f[n].tty)
  BY StringSteps
<1>3. \A n \in 1 .. N : Map(f[n].tty) = Abstract!Put(Map(f[n - 1].tty), text[n], C(n))
  BY StringSteps
<1>4. f[0].tty = t
  <2>1. t \in Terms
    BY DEF On, Good
  <2>2. f[0] = [tty |-> t, colour |-> colour]
    BY <2>1, PuttingSteps
  <2> HIDE DEF f
  <2> QED
    BY <2>2
<1> HIDE DEF f, N, C
<1>5. image[0] = m /\ \A n \in 1 .. N : image[n] = Abstract!Put(image[n - 1], text[n], C(n))
  <2>1. 0 \in 0 .. N /\ \A n \in 1 .. N : n \in 0 .. N /\ n - 1 \in 0 .. N
    BY <1>1
  <2> QED
    BY <1>3, <1>4, <2>1
<1>6. Goes(image)
  <2>1. \A n \in 0 .. N : n = 0 \/ n \in 1 .. N
    BY <1>1
  <2>2. image = [n \in 0 .. N |-> image[n]]
    OBVIOUS
  <2> HIDE DEF image, m
  <2> QED
    BY <1>5, <2>1, <2>2
<1> DEFINE h == CHOOSE g : Goes(g)
<1>7. Abstract!Texting(m, text, colour) = h
  BY DEF Abstract!Texting, N, C
<1>8. Goes(h)
  <2> HIDE DEF Goes
  <2> QED
    BY <1>6
<1> HIDE DEF h, image, m
<1>9. h[0] = m /\ \A n \in 1 .. N : h[n] = Abstract!Put(h[n - 1], text[n], C(n))
  <2>1. \A n \in 1 .. N : n \in 0 .. N /\ n # 0
    BY <1>1
  <2>2. 0 \in 0 .. N
    BY <1>1
  <2> QED
    BY <1>8, <2>1, <2>2
<1> DEFINE Bad == {n \in 0 .. N : h[n] # image[n]}
<1>10. Bad = {}
  <2> SUFFICES ASSUME Bad # {} PROVE FALSE
    OBVIOUS
  <2>1. PICK n \in Bad : \A k \in Bad : n <= k
    <3>1. Bad \subseteq Nat
      BY <1>1
    <3> HIDE DEF Bad
    <3> QED
      BY <3>1, LeastNatural
  <2>2. n # 0
    BY <1>5, <1>9, <2>1
  <2>3. n \in 1 .. N /\ n - 1 \in 0 .. N /\ n - 1 \notin Bad
    <3>1. n \in 0 .. N
      BY <2>1
    <3>2. n \in 1 .. N /\ n - 1 \in 0 .. N /\ ~(n <= n - 1)
      BY <1>1, <2>2, <3>1
    <3> QED
      BY <2>1, <3>2
  <2> QED
    BY <1>5, <1>9, <2>1, <2>3
<1>11. N \in 0 .. N
  BY <1>1
<1>12. h[N] = Map(f[N].tty) /\ On(f[N].tty)
  BY <1>2, <1>10, <1>11 DEF image
<1>13. Abstract!Text(m, text, colour) = h[N]
  BY <1>7 DEF Abstract!Text, N
<1> QED
  BY <1>12, <1>13 DEF PutAll, f, N, m

\* A call keeps the screen in step.
LEMMA CallGood ==
  ASSUME Good(Tty), TabsInLine, Call(Texts \cup Reports)
  PROVE  Good(Tty)'
<1>0. On(Tty)
  BY DEF On, Filler, Tty
<1>1. ASSUME NEW t, Good(t), Becomes(t) PROVE Good(Tty)'
  <2>1. t \in Terms
    BY <1>1 DEF Good
  <2>2. t = [text |-> t.text, screen |-> t.screen, row |-> t.row, column |-> t.column]
    BY <2>1 DEF Terms
  <2>3. Tty' = t
    BY <1>1, <2>2 DEF Becomes, Tty
  <2> QED
    BY <1>1, <2>3 DEF Good, Shows
<1>2. CASE Clear
  BY <1>1, <1>2, ClearedGood DEF Clear
<1>3. ASSUME NEW text \in Texts \cup Reports, Write(text) PROVE Good(Tty)'
  <2>1. text \in Strings /\ Becomes(Written(Tty, text)) /\ Fits(Tty, text, "LIGHT_GREY")
    BY <1>3, TextSymbols DEF Write, TabsInLine, ColourOf
  <2>2. Good(Written(Tty, text))
    BY <1>0, <2>1, LineSymbols, StringMapped DEF Written, Colours, On
  <2> QED
    BY <1>1, <2>1, <2>2
<1>4. ASSUME NEW text \in Texts \cup Reports, DisplayString(text) PROVE Good(Tty)'
  <2>1. text \in Strings /\ Becomes(PutAll(Tty, text, "WHITE")) /\ Fits(Tty, text, "WHITE")
    BY <1>4, TextSymbols DEF DisplayString, TabsInLine, ColourOf
  <2>2. Good(PutAll(Tty, text, "WHITE"))
    BY <1>0, <2>1, StringMapped DEF Colours, On
  <2> QED
    BY <1>1, <2>1, <2>2
<1> QED
  BY <1>2, <1>3, <1>4 DEF Call

\* The terminal starts in step.
LEMMA InitGood ==
  ASSUME Init
  PROVE  Good(Tty)
<1>1. PICK junk \in {Zero, Junk} :
        text_buffer = [c \in Cells |-> IF c < vga_width * vga_height THEN Zero ELSE junk]
  BY DEF Init
<1>2. screen = [p \in Places |-> Zero] /\ row = 0 /\ column = 0
  BY DEF Init
<1>3. text_buffer \in Texted /\ screen \in [Places -> Characters]
  BY <1>1, <1>2, CharacterValues DEF Texted
<1>4. /\ vga_width \in Nat /\ vga_width >= 5 /\ vga_height \in Nat /\ vga_height >= 2
      /\ vga_width * vga_height = vga_height * vga_width
  BY Sizes
<1>5. ASSUME NEW p \in Places PROVE screen[p] = text_buffer[Cell(p)]
  <2>1. Cell(p) \in Cells /\ Cell(p) < vga_width * vga_height
    BY <1>4, PlaceCells
  <2> QED
    BY <1>1, <1>2, <2>1
<1>6. Tty \in Terms
  BY <1>2, <1>3 DEF Tty, Terms
<1> QED
  BY <1>2, <1>4, <1>5, <1>6 DEF Good, Shows, Tty

-----------------------------------------------------------------------------
(* The report.                                                             *)

\* The frames of a stack, and the next one outside of a function.
LEMMA NextFrame ==
  ASSUME NEW c \in Crashes, NEW at \in Nat
  PROVE  /\ Len(c.addr) \in Nat \ {0} /\ Frames(c) \subseteq 1 .. Len(c.addr)
         /\ IsFiniteSet(Frames(c)) /\ FrameBeyond(c, at) \in Frames(c) \cup {0}
         /\ FrameBeyond(c, at) # 0 => FrameBeyond(c, at) > at
         /\ \A j \in Frames(c) : j > at => FrameBeyond(c, at) # 0 /\ FrameBeyond(c, at) <= j
<1> DEFINE a == c.addr
           F == Frames(c)
           n == Len(a)
           beyond == {j \in F : j > at}
           least == CHOOSE j \in beyond : \A i \in beyond : j <= i
<1>1. a \in Seq(Nat) /\ a # <<>>
  BY CrashesAssumption
<1>2. F \subseteq DOMAIN a
  BY DEF Frames
<1>3. FrameBeyond(c, at) = IF beyond = {} THEN 0 ELSE least
  BY DEF FrameBeyond
<1> HIDE DEF a, F
<1>4. n \in Nat \ {0} /\ F \subseteq 1 .. n
  BY <1>1, <1>2, EmptySeq, LenProperties
<1>5. IsFiniteSet(F) /\ F \subseteq Nat
  <2>1. IsFiniteSet(1 .. n)
    BY <1>4, FS_Interval
  <2>2. F \in SUBSET (1 .. n) /\ F \subseteq Nat
    BY <1>4
  <2> HIDE DEF n
  <2> QED
    BY <2>1, <2>2, FS_Subset
<1>6. beyond # {} => least \in beyond /\ \A i \in beyond : least <= i
  <2>1. beyond \subseteq Nat
    BY <1>5
  <2> HIDE DEF beyond
  <2>2. beyond # {} => \E j \in beyond : \A i \in beyond : j <= i
    BY <2>1, LeastNatural
  <2> QED
    BY <2>2
<1> HIDE DEF least, n
<1> QED
  BY <1>3, <1>4, <1>5, <1>6 DEF a, F, n

\* What was pushed, from the stack's foot.
LEMMA PushedWords ==
  ASSUME NEW c \in Crashes
  PROVE  /\ Pushed(c) \in Seq(Int) /\ Len(Pushed(c)) = 19
         /\ Pushed(c)[5] = c.addr[1] + c.slide
         /\ Pushed(c)[6] = IF c.vector \in PushErrorCode THEN c.error ELSE 0
         /\ Pushed(c)[7] = c.vector
         /\ Pushed(c)[12] = FirstFrame(c) /\ Pushed(c)[17] = c.fault
<1>1. /\ c.error \in Nat /\ c.fault \in Nat /\ c.slide \in Nat
      /\ c.addr \in Seq(Nat) /\ c.addr # <<>>
  BY CrashesAssumption
<1>2. c.vector \in Nat /\ c.vector \notin {17, 21, 29, 30}
  BY CrashesAssumption
<1>3. c.addr[1] \in Nat
  <2> DEFINE a == c.addr
  <2>1. a \in Seq(Nat) /\ a # <<>>
    BY <1>1
  <2> HIDE DEF a
  <2>2. Len(a) \in Nat \ {0}
    BY <2>1, EmptySeq
  <2>3. 1 \in 1 .. Len(a)
    BY <2>2
  <2>4. a[1] \in Nat
    BY <2>1, <2>3, ElementOfSeq
  <2> QED
    BY <2>4 DEF a
<1> DEFINE rip == c.addr[1] + c.slide
           error == IF c.vector \in PushErrorCode THEN c.error ELSE 0
           vector == c.vector
           frame == FirstFrame(c)
           fault == c.fault
<1>4. rip \in Int /\ error \in Int /\ vector \in Int /\ frame \in Int /\ fault \in Int
  <2>1. FirstFrame(c) \in Int
    BY NextFrame DEF FirstFrame
  <2> QED
    BY <1>1, <1>2, <1>3, <2>1
<1>5. ErrorWords(c) = <<error>>
  <2>1. CASE c.vector \in PushErrorCode
    <3>1. ~StubPushesZero(c.vector) /\ error = c.error
      BY <1>2, <2>1 DEF PushErrorCode, StubPushesZero
    <3>2. ErrorWords(c) = <<c.error>> \o <<>>
      BY <2>1, <3>1 DEF ErrorWords
    <3> QED
      BY <3>1, <3>2
  <2>2. CASE c.vector \notin PushErrorCode
    BY <2>2 DEF ErrorWords, PushErrorCode, StubPushesZero
  <2> QED
    BY <2>1, <2>2
<1>6. Pushed(c) = <<99, 99, 99, 99, rip>> \o <<error>>
                  \o <<vector, 99, 99, 99, 99, frame, 99, 99, 99, 99, fault, 99, 99>>
  BY <1>5 DEF Pushed
<1> HIDE DEF rip, error, vector, frame, fault
<1>7. Pushed(c) \in Seq(Int) /\ Len(Pushed(c)) = 19
  BY <1>4, <1>6
<1>8. /\ Pushed(c)[5] = rip /\ Pushed(c)[6] = error /\ Pushed(c)[7] = vector
      /\ Pushed(c)[12] = frame /\ Pushed(c)[17] = fault
  BY <1>6
<1> QED
  BY <1>7, <1>8 DEF rip, error, vector, frame, fault

\* What exception_handler reads back, whatever the exception and its error code.
LEMMA RegistersRead ==
  ASSUME NEW c \in Crashes
  PROVE  /\ RegistersOf(c)["rip"] = c.addr[1] + c.slide
         /\ RegistersOf(c)["error_code"] = IF c.vector \in PushErrorCode THEN c.error ELSE 0
         /\ RegistersOf(c)["interrupt_number"] = c.vector
         /\ RegistersOf(c)["rbp"] = FirstFrame(c) /\ RegistersOf(c)["cr2"] = c.fault
<1> DEFINE P == Pushed(c)
           At(field) == CHOOSE k \in DOMAIN Layout : Layout[k] = field
<1>1. /\ P \in Seq(Int) /\ Len(P) = 19 /\ P[5] = c.addr[1] + c.slide
      /\ P[6] = IF c.vector \in PushErrorCode THEN c.error ELSE 0
      /\ P[7] = c.vector /\ P[12] = FirstFrame(c) /\ P[17] = c.fault
  BY PushedWords
<1> HIDE DEF P
<1>2. \A k \in 1 .. 19 : Reverse(P)[k] = P[20 - k]
  BY <1>1 DEF Reverse
<1>3. DOMAIN Layout = 1 .. 18
  BY DEF Layout
<1>4. At("rip") = 15 /\ At("error_code") = 14 /\ At("interrupt_number") = 13 /\ At("rbp") = 8 /\ At("cr2") = 3
  BY <1>3 DEF Layout
<1>5. {"rip", "error_code", "interrupt_number", "rbp", "cr2"} \subseteq {Layout[k] : k \in DOMAIN Layout}
  BY <1>3 DEF Layout
<1>6. \A field \in {Layout[k] : k \in DOMAIN Layout} : RegistersOf(c)[field] = Reverse(P)[At(field)]
  BY DEF RegistersOf, P
<1> HIDE DEF At
<1>7. /\ RegistersOf(c)["rip"] = Reverse(P)[15] /\ RegistersOf(c)["error_code"] = Reverse(P)[14]
      /\ RegistersOf(c)["interrupt_number"] = Reverse(P)[13]
      /\ RegistersOf(c)["rbp"] = Reverse(P)[8] /\ RegistersOf(c)["cr2"] = Reverse(P)[3]
  BY <1>4, <1>5, <1>6
<1>8. /\ Reverse(P)[15] = P[5] /\ Reverse(P)[14] = P[6] /\ Reverse(P)[13] = P[7]
      /\ Reverse(P)[8] = P[12] /\ Reverse(P)[3] = P[17]
  BY <1>2
<1> QED
  BY <1>1, <1>7, <1>8

\* The instruction as linked, of an exception.
LEMMA LinkedInstruction ==
  ASSUME NEW c \in Crashes, crash = c, regs = RegistersOf(c)
  PROVE  InstructionPointer = c.addr[1] /\ c.addr[1] \in Nat
<1>1. c.slide \in Nat /\ c.addr \in Seq(Nat) /\ c.addr # <<>>
  BY CrashesAssumption
<1>2. c.addr[1] \in Nat
  <2> DEFINE a == c.addr
  <2>1. a \in Seq(Nat) /\ a # <<>>
    BY <1>1
  <2> HIDE DEF a
  <2>2. Len(a) \in Nat \ {0}
    BY <2>1, EmptySeq
  <2>3. 1 \in 1 .. Len(a)
    BY <2>2
  <2>4. a[1] \in Nat
    BY <2>1, <2>3, ElementOfSeq
  <2> QED
    BY <2>4 DEF a
<1>3. regs["rip"] = c.addr[1] + c.slide
  BY RegistersRead
<1> DEFINE first == c.addr[1]
           slide == c.slide
<1>4. InstructionPointer = (first + slide) - slide
  BY <1>3 DEF InstructionPointer, kaslr_slide
<1>5. first \in Nat /\ slide \in Nat
  BY <1>1, <1>2
<1> HIDE DEF first, slide
<1>6. InstructionPointer = first
  BY <1>4, <1>5
<1> QED
  BY <1>2, <1>6 DEF first

LabelNames ==
  {Symtab[i].name : i \in 1 .. Len(Symtab) - 1}
  \cup {"unidentified", "protected", "absent", "executed", "write", "read", "userspace", "kernel"}

\* The label of an address is one of the table's, or none.
LEMMA LabelTold ==
  ASSUME NEW addr
  PROVE  get_symbol_label(addr) \in LabelNames /\ Label(get_symbol_label(addr)) \in ReportTexts
<1> DEFINE Holds(i) == /\ addr >= Symtab[i].addr /\ addr < Symtab[i + 1].addr
                       /\ addr < KernelEnd + kaslr_slide
           found == {i \in 1 .. Len(Symtab) - 1 : Holds(i)}
           names == LabelNames
           first == CHOOSE i \in found : \A j \in found : i <= j
<1>1. get_symbol_label(addr) = IF found = {} THEN "unidentified" ELSE Symtab[first].name
  BY DEF get_symbol_label
<1>2. found # {} => first \in 1 .. Len(Symtab) - 1
  <2> SUFFICES ASSUME found # {} PROVE first \in 1 .. Len(Symtab) - 1
    OBVIOUS
  <2>1. found \subseteq 1 .. Len(Symtab) - 1
    OBVIOUS
  <2>2. found \subseteq Nat
    OBVIOUS
  <2> HIDE DEF found
  <2>3. \E i \in found : \A j \in found : i <= j
    BY <2>2, LeastNatural
  <2>4. first \in found
    BY <2>3
  <2> QED
    BY <2>1, <2>4
<1> HIDE DEF first, found
<1>3. get_symbol_label(addr) \in names
  BY <1>1, <1>2 DEF LabelNames
<1>4. {Label(n) : n \in names} \subseteq ReportTexts
  BY DEF ReportTexts, LabelNames
<1> HIDE DEF names
<1> QED
  BY <1>3, <1>4 DEF names

\* The report on an exception consists of its texts.
LEMMA ReportTold ==
  ASSUME NEW c \in Crashes, crash = c, regs = RegistersOf(c)
  PROVE  Report \in Seq(ReportTexts)
<1>1. /\ regs["error_code"] \in {c.error, 0} /\ regs["interrupt_number"] = c.vector
      /\ regs["cr2"] = c.fault /\ InstructionPointer = c.addr[1]
  BY RegistersRead, LinkedInstruction
<1> DEFINE head == <<Message(regs["interrupt_number"]), Hex(Tabs(1), regs["error_code"])>>
           access == <<Hex(Tabs(2), regs["cr2"]), Label(IF Bit(regs["error_code"], 0) THEN "protected" ELSE "absent")>>
           executed == (IF Bit(regs["error_code"], 4) THEN <<Label("executed")>> ELSE <<>>)
           who == <<Label(IF Bit(regs["error_code"], 1) THEN "write" ELSE "read"),
                    Label(IF Bit(regs["error_code"], 2) THEN "userspace" ELSE "kernel")>>
           tail == <<Hex(Entry, InstructionPointer)>>
<1>2. Message(c.vector) \in ReportTexts
  BY DEF ReportTexts
<1>3. \A e \in {c.error, 0} : Hex(Tabs(1), e) \in ReportTexts
  BY DEF ReportTexts
<1>4. Hex(Tabs(2), c.fault) \in ReportTexts /\ Hex(Entry, c.addr[1]) \in ReportTexts
  BY DEF ReportTexts
<1>5. \A n \in {"protected", "absent", "executed", "write", "read", "userspace", "kernel"} :
        Label(n) \in ReportTexts
  BY DEF ReportTexts
<1>6. head \in Seq(ReportTexts)
  BY <1>1, <1>2, <1>3
<1>7. access \in Seq(ReportTexts) /\ executed \in Seq(ReportTexts) /\ who \in Seq(ReportTexts)
  BY <1>1, <1>4, <1>5
<1>8. tail \in Seq(ReportTexts)
  BY <1>1, <1>4
<1>9. Report = head \o (IF regs["interrupt_number"] # 14 THEN <<>> ELSE access \o executed \o who) \o tail
  BY DEF Report
<1> HIDE DEF head, access, executed, who, tail
<1>10. access \o executed \o who \in Seq(ReportTexts) /\ <<>> \in Seq(ReportTexts)
  BY <1>7, ConcatProperties, EmptySeq
<1> DEFINE middle == (IF regs["interrupt_number"] # 14 THEN <<>> ELSE access \o executed \o who)
<1>11. middle \in Seq(ReportTexts)
  BY <1>10
<1>12. Report = head \o middle \o tail
  BY <1>9
<1> HIDE DEF middle
<1> QED
  BY <1>6, <1>8, <1>11, <1>12, ConcatProperties

-----------------------------------------------------------------------------
(* The screen.                                                             *)

\* What exception_handler found is there as long as it works.
InReport ==
  /\ line \in Nat
  /\ pc \in {"report", "trace", "halted"} => crash \in Crashes /\ regs = RegistersOf(crash)

IInv == Good(Tty) /\ InReport

\* The handler shows texts of the report.
LEMMA ReportCalls ==
  ASSUME IInv, PanicNext
  PROVE  Call(Texts \cup Reports) \/ UNCHANGED vars
<1>1. CASE Program
  BY <1>1 DEF Program, Next, Call
<1>2. CASE Exception
  BY <1>2 DEF Exception, Call
<1>3. CASE PrintfAlone \/ ReadRegisters \/ Halt
  BY <1>3 DEF PrintfAlone, ReadRegisters, Halt
<1>4. CASE PrintReport
  <2>1. Report \in Seq(ReportTexts) /\ line \in Nat /\ line < Len(Report) /\ Show(Report[line + 1])
    BY <1>4, ReportTold DEF IInv, InReport, PrintReport
  <2>2. Report[line + 1] \in ReportTexts
    BY <2>1
  <2>3. DisplayString(Report[line + 1])
    BY <2>1 DEF Show
  <2> QED
    BY <2>2, <2>3, PanicAssumption DEF Call
<1>5. ASSUME NEW addr, ShowLabel(get_symbol_label(addr)) PROVE Call(Texts \cup Reports)
  <2>1. Label(get_symbol_label(addr)) \in Reports
    BY LabelTold, PanicAssumption
  <2>2. DisplayString(Label(get_symbol_label(addr)))
    BY <1>5 DEF ShowLabel, Show
  <2> QED
    BY <2>1, <2>2 DEF Call
<1>6. CASE PrintFunction
  BY <1>5, <1>6 DEF PrintFunction
<1>7. CASE PrintCaller
  BY <1>5, <1>7 DEF PrintCaller
<1> QED
  BY <1>1, <1>2, <1>3, <1>4, <1>6, <1>7 DEF PanicNext, Handler

\* The handler keeps what it found.
LEMMA ReportStays ==
  ASSUME InReport, [PanicNext]_allVars
  PROVE  InReport'
<1>1. CASE UNCHANGED allVars
  BY <1>1 DEF InReport, allVars, panicVars
<1>2. CASE Program \/ PrintfAlone
  BY <1>2 DEF Program, PrintfAlone, InReport, panicVars
<1>3. CASE Exception
  BY <1>3 DEF Exception, InReport
<1>4. CASE ReadRegisters
  BY <1>4 DEF ReadRegisters, InReport
<1>5. CASE PrintReport
  BY <1>5 DEF PrintReport, InReport
<1>6. CASE PrintFunction \/ PrintCaller \/ Halt
  BY <1>6 DEF PrintFunction, PrintCaller, Halt, InReport
<1> QED
  BY <1>1, <1>2, <1>3, <1>4, <1>5, <1>6 DEF PanicNext, Handler

\* As long as no tab leaves its row, the screen shows the text buffer, after every call
\* and through the whole report of an exception.
THEOREM ScreenInStep ==
  PanicSpec /\ [][TabsInLine]_vars => []ScreenShowsBuffer
<1>1. PanicInit => IInv
  BY InitGood DEF PanicInit, IInv, InReport
<1>2. IInv /\ [PanicNext]_allVars /\ [TabsInLine]_vars => IInv'
  <2> SUFFICES ASSUME IInv, [PanicNext]_allVars, [TabsInLine]_vars PROVE IInv'
    OBVIOUS
  <2>1. InReport'
    BY ReportStays DEF IInv
  <2>2. CASE UNCHANGED vars
    <3>1. Tty' = Tty
      BY <2>2 DEF vars, Tty
    <3> QED
      BY <2>1, <3>1 DEF IInv, Good, Shows
  <2>3. CASE ~ UNCHANGED vars
    <3>1. PanicNext /\ TabsInLine
      BY <2>3 DEF allVars, vars
    <3>2. Call(Texts \cup Reports)
      BY <2>3, <3>1, ReportCalls
    <3>3. Good(Tty)'
      BY <3>1, <3>2, CallGood DEF IInv
    <3> QED
      BY <2>1, <3>3 DEF IInv
  <2> QED
    BY <2>2, <2>3
<1>3. IInv => ScreenShowsBuffer
  BY DEF IInv, Good, Shows, Cell, Tty, ScreenShowsBuffer
<1> QED
  BY <1>1, <1>2, <1>3, PTL DEF PanicSpec

\* clear leaves a blank at every place.
LEMMA ClearMapped ==
  ASSUME NEW t, On(t)
  PROVE  /\ Map(Cleared(t)) = [lines |-> [y \in 0 .. vga_height - 1 |->
                                           [x \in 0 .. vga_width - 1 |-> Abstract!Blank]],
                               row |-> 0, column |-> 0]
         /\ Filler(Cleared(t)) = Filler(t)
<1> DEFINE N == vga_width * vga_height
           f == Clearing(t)
           Right(n) == \A c \in Cells : f[n].text[c] = IF c < n THEN SpaceCell ELSE t.text[c]
           Bad == {n \in 0 .. N : ~Right(n)}
<1>1. t \in Terms
  BY DEF On, Good
<1>2. /\ f \in [0 .. N -> Terms] /\ f[0] = t
      /\ \A n \in 1 .. N : f[n] = PutEntryAt(f[n - 1], SpaceCell, (n - 1) % vga_width, (n - 1) \div vga_width)
  BY <1>1, ClearingSteps
<1>3. /\ N \in Nat /\ N = vga_height * vga_width /\ N \in Cells /\ Cells \subseteq Nat
      /\ vga_width \in Nat /\ vga_width >= 5 /\ vga_height \in Nat
  BY Sizes DEF Cells
<1> HIDE DEF f
<1>4. ASSUME NEW n \in 1 .. N, Right(n - 1) PROVE Right(n)
  <2> DEFINE x == (n - 1) % vga_width
             y == (n - 1) \div vga_width
             s == f[n - 1]
  <2>1. <<x, y>> \in Places
    BY ClearPlaces
  <2>2. y * vga_width + x = n - 1
    <3> DEFINE w == vga_width
               m == n - 1
    <3>1. w \in Nat /\ w >= 5 /\ m \in Nat
      BY <1>3
    <3> HIDE DEF w, m
    <3>2. (m \div w) * w + (m % w) = m
      BY <3>1
    <3> QED
      BY <3>2 DEF w, m
  <2>3. s \in Terms /\ SpaceCell \in Characters /\ f[n] = PutEntryAt(s, SpaceCell, x, y)
    <3> HIDE DEF N
    <3>1. n - 1 \in 0 .. N
      BY <1>3
    <3> QED
      BY <1>2, <3>1, CharacterValues DEF SpaceCell
  <2>4. \A c \in Cells : s.text[c] = IF c < n - 1 THEN SpaceCell ELSE t.text[c]
    BY <1>4
  <2> HIDE DEF x, y, s
  <2>5. PutEntryAt(s, SpaceCell, x, y).text = Changed(s.text, y * vga_width + x, SpaceCell)
    BY <2>1, <2>3, PutEntryAtPlace
  <2>6. f[n].text = Changed(s.text, n - 1, SpaceCell)
    BY <2>2, <2>3, <2>5
  <2>7. s.text \in Texted /\ n - 1 \in Cells /\ n \in Nat
    <3>1. Cells = 0 .. vga_height * vga_width + vga_width
      BY Sizes DEF Cells
    <3> QED
      BY <1>3, <2>3, <3>1 DEF Terms
  <2> DEFINE text == s.text
             base == t.text
             after == f[n].text
  <2>8. after = [text EXCEPT ![n - 1] = SpaceCell]
    BY <2>6 DEF Changed
  <2>9. \A c \in Cells : text[c] = IF c < n - 1 THEN SpaceCell ELSE base[c]
    BY <2>4
  <2>10. text \in Texted
    BY <2>7
  <2> SUFFICES \A c \in Cells : after[c] = IF c < n THEN SpaceCell ELSE base[c]
    OBVIOUS
  <2> HIDE DEF text, base, after
  <2> QED
    BY <1>3, <2>7, <2>8, <2>9, <2>10 DEF Texted
<1>5. Bad = {}
  <2> HIDE DEF N
  <2> SUFFICES ASSUME Bad # {} PROVE FALSE
    OBVIOUS
  <2>1. PICK n \in Bad : \A k \in Bad : n <= k
    <3>1. Bad \subseteq Nat
      BY <1>3
    <3> HIDE DEF Bad
    <3> QED
      BY <3>1, LeastNatural
  <2>2. n # 0
    <3>1. \A c \in Cells : ~(c < 0)
      BY <1>3
    <3>2. Right(0)
      BY <1>2, <3>1
    <3> QED
      BY <2>1, <3>2
  <2>3. n \in 1 .. N /\ n - 1 \in 0 .. N /\ n - 1 \notin Bad
    <3>1. n \in 0 .. N
      BY <2>1
    <3>2. n \in 1 .. N /\ n - 1 \in 0 .. N /\ ~(n <= n - 1)
      BY <1>3, <2>2, <3>1
    <3> QED
      BY <2>1, <3>2
  <2> QED
    BY <1>4, <2>1, <2>3
<1> DEFINE s == f[N]
<1>6. Right(N) /\ s \in Terms
  <2>1. N \in 0 .. N
    BY <1>3
  <2> QED
    BY <1>2, <1>5, <2>1
<1>7. Cleared(t) = CursorAt(s, 0, 0)
  BY DEF Cleared, CursorAt, f, N
<1>8. \A c \in Cells : s.text[c] = IF c < N THEN SpaceCell ELSE t.text[c]
  BY <1>6
<1> HIDE DEF s, Right
<1>9. Cleared(t).row = 0 /\ Cleared(t).column = 0 /\ Cleared(t).text = s.text
  BY <1>6, <1>7, CursorFields
<1> DEFINE text == s.text
           base == t.text
<1>10. \A c \in Cells : text[c] = IF c < N THEN SpaceCell ELSE base[c]
  BY <1>8
<1> HIDE DEF text, N
<1>11. text[N] = base[N]
  BY <1>3, <1>10
<1>12. ASSUME NEW y \in 0 .. vga_height - 1, NEW x \in 0 .. vga_width - 1
       PROVE  text[y * vga_width + x] = SpaceCell
  <2>1. <<x, y>> \in Places
    BY DEF Places
  <2>2. y * vga_width + x \in Cells /\ y * vga_width + x < N
    BY <1>3, <2>1, PlaceCells DEF Cell
  <2> QED
    BY <1>10, <2>2
<1>13. Picture(text) = [y \in 0 .. vga_height - 1 |-> [x \in 0 .. vga_width - 1 |-> SpaceCell]]
  BY <1>12 DEF Picture
<1>14. Abstract!Blank = SpaceCell
  BY DEF Abstract!Blank, SpaceCell, vga_entry
<1>15. Map(Cleared(t)) = [lines |-> Picture(text), row |-> 0, column |-> 0]
  BY <1>9 DEF Map, text
<1>16. Filler(Cleared(t)) = Filler(t)
  BY <1>3, <1>9, <1>11 DEF Filler, text
<1> QED
  BY <1>13, <1>14, <1>15, <1>16

-----------------------------------------------------------------------------
(* The refinement.                                                         *)

\* The terminal starts as an abstract one.
LEMMA InitMapped ==
  ASSUME Init
  PROVE  Abstract!Init
<1>1. PICK junk \in {Zero, Junk} :
        text_buffer = [c \in Cells |-> IF c < vga_width * vga_height THEN Zero ELSE junk]
  BY DEF Init
<1>2. /\ vga_width * vga_height = vga_height * vga_width /\ vga_height * vga_width \in Nat
      /\ vga_height * vga_width \in Cells
  BY Sizes
<1>3. Abstract!Zero = Zero /\ Abstract!Junk = Junk
  BY DEF Abstract!Zero, Abstract!Junk, Zero, Junk, vga_entry
<1>4. text_buffer[vga_height * vga_width] = junk
  BY <1>1, <1>2
<1>5. ASSUME NEW y \in 0 .. vga_height - 1, NEW x \in 0 .. vga_width - 1
      PROVE  text_buffer[y * vga_width + x] = Zero
  <2>1. <<x, y>> \in Places
    BY DEF Places
  <2>2. y * vga_width + x \in Cells /\ y * vga_width + x < vga_width * vga_height
    BY <1>2, <2>1, PlaceCells DEF Cell
  <2> QED
    BY <1>1, <2>2
<1>6. Lines = [y \in 0 .. vga_height - 1 |-> [x \in 0 .. vga_width - 1 |-> Zero]]
  BY <1>5 DEF Lines
<1> QED
  BY <1>3, <1>4, <1>6 DEF Init, Abstract!Init

\* strcomp finds the marker and its beginnings.
LEMMA MarkerFound ==
  ASSUME NEW S, NEW text \in Seq(S)
  PROVE  strcomp(text, terminal_line) <=> Abstract!MarksLine(text)
<1> DEFINE M == terminal_line
           R == {M[n] : n \in 1 .. 11}
<1>1. M \in Seq(R) /\ Len(M) = 11
  BY DEF terminal_line
<1>2. Abstract!Marker = M
  BY DEF Abstract!Marker, Abstract!Visible, terminal_line
<1> HIDE DEF M, R
<1>3. ASSUME NEW n \in 0 .. 11
      PROVE  /\ SubSeq(M, 1, n) \in Seq(R) /\ Len(SubSeq(M, 1, n)) = n
             /\ \A k \in 1 .. n : SubSeq(M, 1, n)[k] = M[k]
  <2>1. \A k \in 1 .. n : k \in 1 .. Len(M)
    BY <1>1
  <2>2. n \in Int /\ n \in Nat /\ \A i \in 1 .. n : M[i] \in R
    <3>1. \A i \in 1 .. n : M[i] \in R
      BY <1>1, <2>1, ElementOfSeq
    <3> QED
      BY <3>1
  <2> DEFINE u == SubSeq(M, 1, n)
  <2>3. /\ u \in Seq(R) /\ Len(u) = IF 1 <= n THEN n - 1 + 1 ELSE 0
        /\ \A i \in 1 .. n - 1 + 1 : u[i] = M[1 + i - 1]
    BY <2>2, SubSeqProperties
  <2> HIDE DEF u
  <2>4. u \in Seq(R) /\ Len(u) = n /\ \A k \in 1 .. n : u[k] = M[k]
    BY <2>2, <2>3
  <2> QED
    BY <2>4 DEF u
<1>4. ASSUME strcomp(text, M) PROVE Abstract!MarksLine(text)
  <2>1. Len(text) \in Nat /\ \A n \in 1 .. Len(text) : n <= 11 /\ text[n] = M[n]
    BY <1>1, <1>4 DEF strcomp
  <2>2. Len(text) \in 0 .. 11
    <3> DEFINE l == Len(text)
    <3>1. l \in Nat /\ \A n \in 1 .. l : n <= 11
      BY <2>1
    <3> HIDE DEF l
    <3>2. l = 0 \/ l \in 1 .. l
      BY <3>1
    <3>3. l = 0 \/ l <= 11
      BY <3>1, <3>2
    <3>4. l \in 0 .. 11
      BY <3>1, <3>3
    <3> QED
      BY <3>4 DEF l
  <2> DEFINE u == SubSeq(M, 1, Len(text))
  <2>3. u \in Seq(R) /\ Len(u) = Len(text) /\ \A n \in 1 .. Len(text) : u[n] = M[n]
    BY <1>1, <1>3, <2>2
  <2> HIDE DEF u
  <2>4. u \in Seq(R \cup S) /\ text \in Seq(R \cup S)
    BY <2>3
  <2>5. u = text
    BY <2>1, <2>3, <2>4, SeqEqual
  <2> QED
    BY <1>2, <2>2, <2>5 DEF Abstract!MarksLine, u
<1>5. ASSUME Abstract!MarksLine(text) PROVE strcomp(text, M)
  <2>1. PICK n \in 0 .. 11 : text = SubSeq(M, 1, n)
    BY <1>2, <1>5 DEF Abstract!MarksLine
  <2>2. Len(text) = n /\ \A k \in 1 .. n : text[k] = M[k]
    BY <1>3, <2>1
  <2> QED
    BY <1>1, <2>2 DEF strcomp
<1> QED
  BY <1>4, <1>5 DEF M

\* A call is one of the abstract terminal's.
LEMMA CallMapped ==
  ASSUME Good(Tty), TabsInLine, Call(Texts \cup Reports)
  PROVE  Abstract!Say
<1>1. On(Tty)
  BY DEF On, Filler, Tty
<1>2. Abstract!Terminal = Map(Tty)
  BY DEF Abstract!Terminal, Map, Tty, Picture, Lines
<1>3. ASSUME NEW t, Becomes(t), Filler(t) = Filler(Tty), Abstract!After(said') = Map(t),
             said'.by \in {"write", "printf", "clear"}, said'.text \in AllTexts
      PROVE  Abstract!Say
  <2>1. Lines' = Picture(t.text) /\ row' = t.row /\ column' = t.column
    BY <1>3 DEF Becomes, Lines, Picture
  <2>2. text_buffer'[vga_height * vga_width] = text_buffer[vga_height * vga_width]
    BY <1>3 DEF Becomes, Filler, Tty
  <2>3. Map(t).lines = Picture(t.text) /\ Map(t).row = t.row /\ Map(t).column = t.column
    BY DEF Map
  <2> QED
    BY <1>3, <2>1, <2>2, <2>3 DEF Abstract!Say
<1>4. CASE Clear
  <2>1. said' = [by |-> "clear", text |-> <<>>] /\ Becomes(Cleared(Tty))
    BY <1>4 DEF Clear
  <2>2. /\ Filler(Cleared(Tty)) = Filler(Tty)
        /\ Abstract!After(said') = Map(Cleared(Tty))
    BY <1>1, <2>1, ClearMapped DEF Abstract!After
  <2> QED
    BY <1>3, <2>1, <2>2 DEF AllTexts
<1>5. ASSUME NEW text \in Texts \cup Reports, Write(text) PROVE Abstract!Say
  <2>1. /\ said' = [by |-> "write", text |-> text] /\ Becomes(Written(Tty, text))
        /\ text \in Strings /\ Fits(Tty, text, "LIGHT_GREY") /\ text \in AllTexts
    BY <1>5, TextSymbols DEF Write, TabsInLine, ColourOf, AllTexts
  <2>0. text \in Seq(Marks \cup Codes)
    BY <2>1 DEF Strings
  <2>2. CASE strcomp(text, terminal_line)
    <3>0. Abstract!MarksLine(text)
      BY <2>0, <2>2, MarkerFound
    <3>1. Abstract!Ruler = TerminalLine
      <4>1. vga_width \in Nat
        BY Sizes
      <4>2. \A n \in 1 .. vga_width : (n % 2 = 1) <=> ((n - 1) % 2 = 0)
        BY <4>1
      <4> QED
        BY <4>2 DEF Abstract!Ruler, Abstract!Visible, TerminalLine
    <3>2. Written(Tty, text) = PutAll(Tty, TerminalLine, "WHITE")
      BY <2>2 DEF Written
    <3>3. /\ Map(Written(Tty, text)) = Abstract!Text(Map(Tty), TerminalLine, "WHITE")
          /\ On(Written(Tty, text))
      BY <1>1, <3>2, LineSymbols, StringMapped DEF Colours
    <3>4. Abstract!After(said') = Map(Written(Tty, text))
      BY <1>2, <2>1, <3>0, <3>1, <3>3 DEF Abstract!After
    <3> QED
      BY <1>1, <1>3, <2>1, <3>3, <3>4 DEF On
  <2>3. CASE ~strcomp(text, terminal_line)
    <3>0. ~Abstract!MarksLine(text)
      BY <2>0, <2>3, MarkerFound
    <3>1. Written(Tty, text) = PutAll(Tty, text, "LIGHT_GREY")
      BY <2>3 DEF Written
    <3>2. /\ Map(Written(Tty, text)) = Abstract!Text(Map(Tty), text, "LIGHT_GREY")
          /\ On(Written(Tty, text))
      BY <1>1, <2>1, <3>1, StringMapped DEF Colours
    <3>3. Abstract!After(said') = Map(Written(Tty, text))
      BY <1>2, <2>1, <3>0, <3>2 DEF Abstract!After
    <3> QED
      BY <1>1, <1>3, <2>1, <3>2, <3>3 DEF On
  <2> QED
    BY <2>2, <2>3
<1>6. ASSUME NEW text \in Texts \cup Reports, DisplayString(text) PROVE Abstract!Say
  <2>1. /\ said' = [by |-> "printf", text |-> text] /\ Becomes(PutAll(Tty, text, "WHITE"))
        /\ text \in Strings /\ Fits(Tty, text, "WHITE") /\ text \in AllTexts
    BY <1>6, TextSymbols DEF DisplayString, TabsInLine, ColourOf, AllTexts
  <2>2. /\ Map(PutAll(Tty, text, "WHITE")) = Abstract!Text(Map(Tty), text, "WHITE")
        /\ On(PutAll(Tty, text, "WHITE"))
    BY <1>1, <2>1, StringMapped DEF Colours
  <2>3. Abstract!After(said') = Map(PutAll(Tty, text, "WHITE"))
    BY <1>2, <2>1, <2>2 DEF Abstract!After
  <2> QED
    BY <1>1, <1>3, <2>1, <2>2, <2>3 DEF On
<1> QED
  BY <1>4, <1>5, <1>6 DEF Call

\* As long as no tab leaves its row, the terminal is the one of module Terminal, also
\* for the handler of an exception.
THEOREM TerminalImplemented ==
  PanicSpec /\ [][TabsInLine]_vars => ImplementsTerminal
<1>1. PanicInit => Abstract!Init /\ IInv
  BY InitGood, InitMapped DEF PanicInit, IInv, InReport
<1>2. IInv /\ [PanicNext]_allVars /\ [TabsInLine]_vars => IInv' /\ [Abstract!Say]_(Abstract!vars)
  <2> SUFFICES ASSUME IInv, [PanicNext]_allVars, [TabsInLine]_vars
               PROVE  IInv' /\ [Abstract!Say]_(Abstract!vars)
    OBVIOUS
  <2>1. InReport'
    BY ReportStays DEF IInv
  <2>2. CASE UNCHANGED vars
    <3>1. Tty' = Tty
      BY <2>2 DEF vars, Tty
    <3>2. UNCHANGED Abstract!vars
      BY <2>2 DEF vars, Abstract!vars, Lines
    <3> QED
      BY <2>1, <3>1, <3>2 DEF IInv, Good, Shows
  <2>3. CASE ~ UNCHANGED vars
    <3>1. PanicNext /\ TabsInLine
      BY <2>3 DEF allVars, vars
    <3>2. Call(Texts \cup Reports)
      BY <2>3, <3>1, ReportCalls
    <3>3. Good(Tty)'
      BY <3>1, <3>2, CallGood DEF IInv
    <3>4. Abstract!Say
      BY <3>1, <3>2, CallMapped DEF IInv
    <3> QED
      BY <2>1, <3>3, <3>4 DEF IInv
  <2> QED
    BY <2>2, <2>3
<1> QED
  BY <1>1, <1>2, PTL DEF PanicSpec, ImplementsTerminal, Abstract!Spec

-----------------------------------------------------------------------------
(* The stack trace.                                                        *)

\* An address of the kernel is in the range of one symbol, which the table is searched for.
LEMMA LabelIsOwner ==
  ASSUME NEW addr \in Nat, Symtab[1].addr <= addr, addr < KernelEnd, kaslr_slide \in Nat
  PROVE  get_symbol_label(addr) = Owner(addr)
<1> DEFINE N == Len(Symtab)
           A == [i \in 1 .. N |-> Symtab[i].addr]
           Past == {i \in 1 .. N : addr < A[i]}
<1>1. /\ Symtab \in Seq([addr : Nat, name : STRING]) /\ Symtab # <<>> /\ KernelEnd \in Nat
      /\ \A i, j \in DOMAIN Symtab : i <= j => Symtab[i].addr <= Symtab[j].addr
      /\ KernelEnd <= Symtab[N].addr
  BY SymtabAssumption
<1>2. N \in Nat \ {0}
  BY <1>1, EmptySeq
<1>3. A \in [1 .. N -> Nat] /\ \A i, j \in 1 .. N : i <= j => A[i] <= A[j]
  <2>1. DOMAIN Symtab = 1 .. N /\ \A i \in 1 .. N : Symtab[i] \in [addr : Nat, name : STRING]
    BY <1>1, LenProperties, ElementOfSeq
  <2>2. \A i \in 1 .. N : Symtab[i].addr \in Nat
    BY <2>1
  <2> QED
    BY <1>1, <2>1, <2>2
<1>4. \A i \in 1 .. N : Symtab[i].addr = A[i]
  OBVIOUS
<1>5. 1 \in 1 .. N /\ N \in 1 .. N
  BY <1>2
<1>6. A[1] <= addr /\ addr < KernelEnd /\ KernelEnd <= A[N] /\ KernelEnd \in Nat
  BY <1>1, <1>4, <1>5
<1> HIDE DEF A, N
<1>7. PICK p \in Past : \A i \in Past : p <= i
  <2>1. Past \subseteq Nat /\ N \in Past
    BY <1>2, <1>3, <1>5, <1>6
  <2> HIDE DEF Past
  <2> QED
    BY <2>1, LeastNatural
<1> DEFINE o == p - 1
<1>8. /\ p \in 1 .. N /\ p # 1 /\ o \in 1 .. N - 1 /\ o \in 1 .. N /\ p = o + 1
      /\ A[o] <= addr /\ addr < A[p]
  <2>1. p \in 1 .. N /\ addr < A[p]
    BY <1>7
  <2>2. p # 1
    BY <1>3, <1>5, <1>6, <2>1
  <2>3. o \in 1 .. N - 1 /\ o \in 1 .. N /\ p = o + 1 /\ ~(p <= o)
    BY <1>2, <2>1, <2>2
  <2>4. ~(addr < A[o])
    BY <1>7, <2>3
  <2>5. A[o] \in Nat
    BY <1>3, <2>3
  <2> HIDE DEF o
  <2> QED
    BY <2>1, <2>2, <2>3, <2>4, <2>5
<1> HIDE DEF o, Past
<1>9. ASSUME NEW i \in 1 .. N, A[i] <= addr PROVE i <= o
  <2> SUFFICES ASSUME ~(i <= o) PROVE FALSE
    OBVIOUS
  <2>1. p <= i
    BY <1>2, <1>8
  <2>2. A[p] <= A[i] /\ A[p] \in Nat /\ A[i] \in Nat
    BY <1>3, <1>8, <2>1
  <2> QED
    BY <1>8, <1>9, <2>2
<1>10. Owner(addr) = Symtab[o].name
  <2> DEFINE Best(i) == Symtab[i].addr <= addr /\ \A j \in 1 .. Len(Symtab) : Symtab[j].addr <= addr => j <= i
             k == CHOOSE i \in 1 .. Len(Symtab) : Best(i)
  <2>1. Best(o) /\ o \in 1 .. Len(Symtab)
    BY <1>4, <1>8, <1>9 DEF N
  <2>2. \A i \in 1 .. Len(Symtab) : Best(i) => o <= i /\ i <= o
    BY <1>4, <1>8, <1>9 DEF N
  <2>3. k \in 1 .. Len(Symtab) /\ Best(k)
    <3> HIDE DEF Best
    <3> QED
      BY <2>1
  <2>4. Owner(addr) = Symtab[k].name
    BY DEF Owner
  <2> HIDE DEF k, Best
  <2>5. k = o
    <3>1. o <= k /\ k <= o
      BY <2>2, <2>3
    <3> QED
      BY <1>8, <2>3, <3>1 DEF N
  <2> QED
    BY <2>4, <2>5
<1>11. get_symbol_label(addr) = Symtab[o].name
  <2> DEFINE Holds(i) == /\ addr >= Symtab[i].addr /\ addr < Symtab[i + 1].addr
                         /\ addr < KernelEnd + kaslr_slide
             found == {i \in 1 .. Len(Symtab) - 1 : Holds(i)}
             k == CHOOSE i \in found : \A j \in found : i <= j
  <2>1. get_symbol_label(addr) = IF found = {} THEN "unidentified" ELSE Symtab[k].name
    BY DEF get_symbol_label
  <2>2. addr < KernelEnd + kaslr_slide
    BY <1>6
  <2>3. o \in found
    BY <1>4, <1>8, <2>2 DEF N
  <2>4. ASSUME NEW i \in found PROVE i = o
    <3>1. i \in 1 .. N - 1 /\ i \in 1 .. N /\ i + 1 \in 1 .. N /\ A[i] <= addr /\ addr < A[i + 1]
      <4>1. i \in 1 .. N - 1 /\ Holds(i)
        BY DEF N
      <4>2. i \in 1 .. N /\ i + 1 \in 1 .. N
        BY <1>2, <4>1
      <4> QED
        BY <1>3, <1>4, <4>1, <4>2
    <3>2. i <= o
      BY <1>9, <3>1
    <3>3. ~(i + 1 <= o)
      <4> SUFFICES ASSUME i + 1 <= o PROVE FALSE
        OBVIOUS
      <4>1. A[i + 1] <= A[o] /\ A[i + 1] \in Nat /\ A[o] \in Nat
        BY <1>3, <1>8, <3>1
      <4> QED
        BY <1>8, <3>1, <4>1
    <3> QED
      BY <1>2, <1>8, <3>1, <3>2, <3>3
  <2> HIDE DEF found
  <2>5. o <= o
    BY <1>2, <1>8
  <2>6. k \in found
    BY <2>3, <2>4, <2>5
  <2> HIDE DEF k
  <2>7. k = o
    BY <2>4, <2>6
  <2> QED
    BY <2>1, <2>3, <2>7
<1> QED
  BY <1>10, <1>11

\* The address of every active function is told by its symbol.
LEMMA AddressTold ==
  ASSUME NEW c \in Crashes, NEW k \in 1 .. Len(c.addr), kaslr_slide \in Nat
  PROVE  c.addr[k] \in Nat /\ get_symbol_label(c.addr[k]) = Owner(c.addr[k])
<1> DEFINE a == c.addr
<1>1. a \in Seq(Nat) /\ k \in 1 .. Len(a)
  BY CrashesAssumption
<1>2. \A i \in DOMAIN a : Symtab[1].addr <= a[i] /\ a[i] < KernelEnd
  BY SymtabAssumption
<1> HIDE DEF a
<1>3. k \in DOMAIN a /\ a[k] \in Nat
  BY <1>1, LenProperties, ElementOfSeq
<1>4. get_symbol_label(a[k]) = Owner(a[k])
  BY <1>2, <1>3, LabelIsOwner
<1> QED
  BY <1>3, <1>4 DEF a

\* The frames behind the walk when it is at the frame at, and the line of a frame.
Behind(c, at) == {j \in Frames(c) : at = 0 \/ j < at}
LineOf(c, k) == 1 + Cardinality({j \in Frames(c) : j <= k})

\* Going on puts one more frame behind, and its line is the next.
LEMMA OneMoreBehind ==
  ASSUME NEW c \in Crashes, NEW at \in Frames(c)
  PROVE  /\ Behind(c, FrameBeyond(c, at)) = Behind(c, at) \cup {at}
         /\ Behind(c, FrameBeyond(c, at)) = {j \in Frames(c) : j <= at}
         /\ Cardinality(Behind(c, at)) \in Nat
         /\ Cardinality(Behind(c, FrameBeyond(c, at))) = Cardinality(Behind(c, at)) + 1
<1> DEFINE F == Frames(c)
           next == FrameBeyond(c, at)
<1>1. F \subseteq Nat \ {0} /\ IsFiniteSet(F) /\ at \in F
  BY NextFrame
<1>2. /\ next \in F \cup {0}
      /\ next # 0 => next > at
      /\ \A j \in F : j > at => next # 0 /\ next <= j
  BY <1>1, NextFrame
<1>3. Behind(c, at) = {j \in F : at = 0 \/ j < at} /\ Behind(c, next) = {j \in F : next = 0 \/ j < next}
  BY DEF Behind
<1> HIDE DEF F, next
<1>4. Behind(c, next) = {j \in F : j <= at} /\ Behind(c, next) = Behind(c, at) \cup {at}
  <2>1. ASSUME NEW j \in F PROVE (next = 0 \/ j < next) <=> j <= at
    <3>1. j \in Nat /\ at \in Nat /\ next \in Nat
      BY <1>1, <1>2
    <3> QED
      BY <1>2, <3>1
  <2>2. Behind(c, next) = {j \in F : j <= at}
    BY <1>3, <2>1
  <2>3. \A j \in F : j <= at <=> (j < at \/ j = at)
    BY <1>1
  <2> QED
    BY <1>1, <1>3, <2>2, <2>3
<1>5. at \notin Behind(c, at) /\ Behind(c, at) \in SUBSET F
  BY <1>1, <1>3
<1>6. IsFiniteSet(Behind(c, at))
  BY <1>1, <1>5, FS_Subset
<1>7. /\ Cardinality(Behind(c, at)) \in Nat
      /\ Cardinality(Behind(c, at) \cup {at}) = Cardinality(Behind(c, at)) + 1
  BY <1>5, <1>6, FS_CardinalityType, FS_AddElement
<1> QED
  BY <1>4, <1>7 DEF F, next

\* A frame's line is printed when the frame is behind, and not before.
LEMMA LineBehind ==
  ASSUME NEW c \in Crashes, NEW at \in Frames(c) \cup {0}, NEW k \in Frames(c)
  PROVE  /\ LineOf(c, k) \in Nat \ {0} /\ Cardinality(Behind(c, at)) \in Nat
         /\ k \in Behind(c, at) <=> LineOf(c, k) <= 1 + Cardinality(Behind(c, at))
<1> DEFINE F == Frames(c)
           B == Behind(c, at)
           upto == {j \in F : j <= k}
<1>1. F \subseteq Nat \ {0} /\ IsFiniteSet(F) /\ k \in F /\ at \in F \cup {0}
  BY NextFrame
<1>2. B = {j \in F : at = 0 \/ j < at}
  BY DEF Behind
<1>3. LineOf(c, k) = 1 + Cardinality(upto)
  BY DEF LineOf
<1>4. k \in B => upto \in SUBSET B
  BY <1>1, <1>2
<1>5. k \notin B => at \in F /\ {j \in F : j <= at} \in SUBSET upto
  BY <1>1, <1>2
<1>6. B \in SUBSET F /\ upto \in SUBSET F
  BY <1>2
<1> HIDE DEF upto, B
<1>7. IsFiniteSet(B) /\ IsFiniteSet(upto) /\ Cardinality(B) \in Nat /\ Cardinality(upto) \in Nat
  BY <1>1, <1>6, FS_Subset, FS_CardinalityType
<1>8. k \in B => Cardinality(upto) <= Cardinality(B)
  BY <1>4, <1>7, FS_Subset
<1>9. k \notin B => Cardinality(B) + 1 <= Cardinality(upto)
  <2> SUFFICES ASSUME k \notin B PROVE Cardinality(B) + 1 <= Cardinality(upto)
    OBVIOUS
  <2> DEFINE S == {j \in F : j <= at}
  <2>1. Cardinality(S) = Cardinality(B) + 1
    BY <1>5, OneMoreBehind DEF B
  <2>2. S \in SUBSET upto
    BY <1>5
  <2> HIDE DEF S
  <2> QED
    BY <1>7, <2>1, <2>2, FS_Subset
<1> QED
  BY <1>3, <1>7, <1>8, <1>9 DEF B

\* Where the walk is: after the interrupted function's line, one for every frame behind
\* it, with the caller where there is a return address.
Walk ==
  LET c == crash IN
  /\ trace \in Seq(LabelNames) /\ trace[1] = Owner(c.addr[1])
  /\ rbp \in Frames(c) \cup {0} /\ Len(trace) = 1 + Cardinality(Behind(c, rbp))
  /\ \A k \in Behind(c, rbp) : Called(c, k) => trace[LineOf(c, k)] = Owner(c.addr[k + 1])

TraceInv ==
  /\ pc \in {"trace", "halted"} => Walk
  /\ pc = "halted" => rbp = 0
  /\ pc \notin {"trace", "halted"} => trace = <<>>

\* One more label.
LEMMA Labelled ==
  ASSUME NEW s \in Seq(LabelNames), NEW name \in LabelNames
  PROVE  /\ Append(s, name) \in Seq(LabelNames) /\ Len(Append(s, name)) = Len(s) + 1
         /\ Len(s) \in Nat
         /\ \A i \in 1 .. Len(s) + 1 : Append(s, name)[i] = IF i = Len(s) + 1 THEN name ELSE s[i]
OBVIOUS

\* The walk starts with the interrupted function, at the innermost frame, if there is one.
LEMMA WalkStarts ==
  ASSUME InReport, TraceInv, PrintFunction
  PROVE  Walk'
<1> DEFINE c == crash
           name == get_symbol_label(InstructionPointer)
           t == trace'
           r == rbp'
<1>1. /\ c \in Crashes /\ regs = RegistersOf(c) /\ trace = <<>> /\ crash' = crash
      /\ r = regs["rbp"] /\ t = Append(trace, name)
  BY DEF InReport, TraceInv, PrintFunction, ShowLabel
<1>2. kaslr_slide \in Nat
  BY <1>1, CrashesAssumption DEF kaslr_slide
<1>3. 1 \in 1 .. Len(c.addr)
  BY <1>1, NextFrame
<1>4. name = Owner(c.addr[1]) /\ name \in LabelNames
  BY <1>1, <1>2, <1>3, AddressTold, LinkedInstruction, LabelTold
<1>5. r = FrameBeyond(c, 0)
  BY <1>1, RegistersRead DEF FirstFrame
<1> HIDE DEF name
<1>6. t \in Seq(LabelNames) /\ Len(t) = 1 /\ t[1] = name
  <2>1. t = <<name>>
    BY <1>1
  <2> HIDE DEF t
  <2> QED
    BY <1>4, <2>1
<1> HIDE DEF t, r
<1>7. r \in Frames(c) \cup {0} /\ Behind(c, r) = {}
  <2>1. /\ Frames(c) \subseteq Nat \ {0} /\ r \in Frames(c) \cup {0}
        /\ \A j \in Frames(c) : j > 0 => r # 0 /\ r <= j
    BY <1>1, <1>5, NextFrame
  <2> QED
    BY <2>1 DEF Behind
<1>8. Cardinality(Behind(c, r)) = 0
  BY <1>7, FS_EmptySet
<1>9. /\ t \in Seq(LabelNames) /\ t[1] = Owner(c.addr[1])
      /\ r \in Frames(c) \cup {0} /\ Len(t) = 1 + Cardinality(Behind(c, r))
      /\ \A k \in Behind(c, r) : Called(c, k) => t[LineOf(c, k)] = Owner(c.addr[k + 1])
  BY <1>4, <1>6, <1>7, <1>8
<1> QED
  BY <1>1, <1>9 DEF Walk, t, r

\* A step of the walk prints the caller of the frame's function, if it was called, and
\* goes on to the next frame.
LEMMA WalkGoesOn ==
  ASSUME InReport, TraceInv, PrintCaller
  PROVE  Walk'
<1> DEFINE c == crash
           name == get_symbol_label(WordAbove(c, rbp) - kaslr_slide)
           t == trace'
           r == rbp'
           B == Behind(c, rbp)
<1>1. /\ c \in Crashes /\ crash' = crash /\ rbp # 0 /\ Walk
      /\ r = FrameBeyond(c, rbp) /\ t = Append(trace, name)
  BY DEF InReport, TraceInv, PrintCaller, ShowLabel, SavedRbp
<1>2. kaslr_slide \in Nat /\ kaslr_slide = c.slide
  BY <1>1, CrashesAssumption DEF kaslr_slide
<1>3. /\ trace \in Seq(LabelNames) /\ trace[1] = Owner(c.addr[1])
      /\ rbp \in Frames(c) /\ Len(trace) = 1 + Cardinality(B)
      /\ \A k \in B : Called(c, k) => trace[LineOf(c, k)] = Owner(c.addr[k + 1])
  BY <1>1 DEF Walk
<1>4. name \in LabelNames
  BY LabelTold
<1>5. Called(c, rbp) => name = Owner(c.addr[rbp + 1])
  <2> SUFFICES ASSUME Called(c, rbp) PROVE name = Owner(c.addr[rbp + 1])
    OBVIOUS
  <2> DEFINE k == rbp + 1
             v == c.addr[k]
             s == c.slide
  <2>1. k \in 1 .. Len(c.addr)
    <3>1. Len(c.addr) \in Nat /\ rbp \in 1 .. Len(c.addr) /\ rbp < Len(c.addr)
      BY <1>1, <1>3, NextFrame DEF Called
    <3> QED
      BY <3>1
  <2>2. v \in Nat /\ s \in Nat /\ get_symbol_label(v) = Owner(v)
    BY <1>1, <1>2, <2>1, AddressTold
  <2>3. WordAbove(c, rbp) - kaslr_slide = (v + s) - s
    BY <1>2 DEF WordAbove
  <2> HIDE DEF v, s
  <2>4. (v + s) - s = v
    BY <2>2
  <2>5. name = get_symbol_label(v)
    BY <2>3, <2>4
  <2> HIDE DEF name
  <2> QED
    BY <2>2, <2>5 DEF v, k
<1> HIDE DEF name
<1>6. /\ Behind(c, r) = B \cup {rbp} /\ Behind(c, r) = {j \in Frames(c) : j <= rbp}
      /\ Cardinality(B) \in Nat /\ Cardinality(Behind(c, r)) = Cardinality(B) + 1
  BY <1>1, <1>3, OneMoreBehind
<1>7. r \in Frames(c) \cup {0}
  <2>1. rbp \in Nat
    BY <1>1, <1>3, NextFrame
  <2> QED
    BY <1>1, <2>1, NextFrame
<1>8. /\ t \in Seq(LabelNames) /\ Len(t) = Len(trace) + 1 /\ Len(trace) \in Nat
      /\ \A i \in 1 .. Len(trace) + 1 : t[i] = IF i = Len(trace) + 1 THEN name ELSE trace[i]
  BY <1>1, <1>3, <1>4, Labelled
<1> HIDE DEF t, r
<1>9. LineOf(c, rbp) = Len(trace) + 1
  <2>1. LineOf(c, rbp) = 1 + Cardinality(Behind(c, r))
    BY <1>6 DEF LineOf
  <2> HIDE DEF B
  <2> QED
    BY <1>3, <1>6, <2>1
<1>10. ASSUME NEW k \in Behind(c, r), Called(c, k) PROVE t[LineOf(c, k)] = Owner(c.addr[k + 1])
  <2>1. CASE k = rbp
    BY <1>5, <1>8, <1>9, <1>10, <2>1
  <2>2. CASE k # rbp
    <3>1. k \in B /\ k \in Frames(c)
      BY <1>6, <1>10, <2>2
    <3>2. LineOf(c, k) \in Nat \ {0} /\ LineOf(c, k) <= 1 + Cardinality(B)
      BY <1>1, <1>3, <3>1, LineBehind
    <3>3. LineOf(c, k) \in 1 .. Len(trace) + 1 /\ LineOf(c, k) # Len(trace) + 1
      BY <1>3, <1>6, <3>2
    <3> QED
      BY <1>3, <1>8, <1>10, <3>1, <3>3
  <2> QED
    BY <2>1, <2>2
<1>11. t[1] = Owner(c.addr[1])
  BY <1>3, <1>6, <1>8
<1>12. Len(t) = 1 + Cardinality(Behind(c, r))
  BY <1>3, <1>6, <1>8
<1> QED
  BY <1>1, <1>7, <1>8, <1>10, <1>11, <1>12 DEF Walk, t, r

\* The trace names the interrupted function, then has a line for every frame, with the
\* caller where there is a return address, and ends: whatever the symbols and the slide,
\* and on every stack, those inside a system call or an irq included.
THEOREM CallersNamed ==
  PanicSpec => []TraceNamesCallers
<1> DEFINE TInv == InReport /\ TraceInv
<1>1. PanicInit => TInv
  BY DEF PanicInit, InReport, TraceInv
<1>2. TInv /\ [PanicNext]_allVars => TInv'
  <2> SUFFICES ASSUME InReport, TraceInv, [PanicNext]_allVars PROVE TInv'
    OBVIOUS
  <2>1. InReport'
    BY ReportStays
  <2>2. ASSUME UNCHANGED <<pc, rbp, trace, crash>> PROVE TraceInv'
    BY <2>2 DEF TraceInv, Walk
  <2>3. CASE UNCHANGED allVars
    BY <2>1, <2>2, <2>3 DEF allVars, panicVars
  <2>4. CASE Program \/ PrintfAlone \/ Exception \/ ReadRegisters
    BY <2>1, <2>4 DEF Program, PrintfAlone, Exception, ReadRegisters, TraceInv, panicVars
  <2>5. CASE PrintReport
    BY <2>1, <2>2, <2>5 DEF PrintReport, Show
  <2>6. CASE PrintFunction
    <3>1. pc' = "trace"
      BY <2>6 DEF PrintFunction
    <3> QED
      BY <2>1, <2>6, <3>1, WalkStarts DEF TraceInv
  <2>7. CASE PrintCaller
    <3>1. pc' = "trace"
      BY <2>7 DEF PrintCaller
    <3> QED
      BY <2>1, <2>7, <3>1, WalkGoesOn DEF TraceInv
  <2>8. CASE Halt
    <3>1. pc = "trace" /\ rbp = 0 /\ pc' = "halted" /\ UNCHANGED <<rbp, trace, crash>>
      BY <2>8 DEF Halt
    <3>2. Walk'
      BY <3>1 DEF TraceInv, Walk
    <3> QED
      BY <2>1, <3>1, <3>2 DEF TraceInv
  <2> QED
    BY <2>1, <2>3, <2>4, <2>5, <2>6, <2>7, <2>8 DEF PanicNext, Handler
<1>3. TInv => TraceNamesCallers
  <2> SUFFICES ASSUME InReport, TraceInv, pc \in {"trace", "halted"} PROVE TraceNamesCallers
    BY DEF TraceNamesCallers
  <2>1. crash \in Crashes /\ Walk /\ (pc = "halted" => rbp = 0)
    BY DEF InReport, TraceInv
  <2> DEFINE c == crash
             F == Frames(c)
             B == Behind(c, rbp)
  <2>2. /\ trace[1] = Owner(c.addr[1]) /\ rbp \in F \cup {0} /\ Len(trace) = 1 + Cardinality(B)
        /\ \A k \in B : Called(c, k) => trace[LineOf(c, k)] = Owner(c.addr[k + 1])
    BY <2>1 DEF Walk
  <2>3. IsFiniteSet(F) /\ B \in SUBSET F
    BY <2>1, NextFrame DEF Behind
  <2>4. Cardinality(F) \in Nat /\ Cardinality(B) \in Nat /\ Cardinality(B) <= Cardinality(F)
    BY <2>3, FS_Subset, FS_CardinalityType
  <2>5. rbp = 0 => B = F
    BY DEF Behind
  <2>6. ASSUME NEW k \in F, Called(c, k), LineOf(c, k) <= Len(trace)
        PROVE  trace[LineOf(c, k)] = Owner(c.addr[k + 1])
    <3>1. k \in B
      BY <2>1, <2>2, <2>6, LineBehind
    <3> QED
      BY <2>2, <2>6, <3>1
  <2>7. Len(trace) <= 1 + Cardinality(F) /\ (pc = "halted" => Len(trace) = 1 + Cardinality(F))
    BY <2>1, <2>2, <2>4, <2>5
  <2> QED
    BY <2>2, <2>6, <2>7 DEF TraceNamesCallers, LineOf
<1> HIDE DEF TInv
<1>4. TInv => TraceNamesCallers
  BY <1>3 DEF TInv
<1> QED
  BY <1>1, <1>2, <1>4, PTL DEF PanicSpec

-----------------------------------------------------------------------------
(* Recursive functions, and powers.                                        *)

\* What holds of a number whenever it holds of all smaller ones holds of all.
LEMMA Strongly ==
  ASSUME NEW T, \A n \in Nat : (\A m \in Nat : m < n => m \in T) => n \in T
  PROVE  \A n \in Nat : n \in T
<1> DEFINE Lost == {n \in Nat : n \notin T}
<1> SUFFICES ASSUME Lost # {} PROVE FALSE
  OBVIOUS
<1>1. PICK n \in Lost : \A m \in Lost : n <= m
  <2>1. Lost \subseteq Nat
    OBVIOUS
  <2> HIDE DEF Lost
  <2> QED
    BY <2>1, LeastNatural
<1>2. n \in Nat /\ n \notin T
  OBVIOUS
<1>3. ASSUME NEW m \in Nat, m < n PROVE m \in T
  <2> SUFFICES ASSUME m \notin T PROVE FALSE
    OBVIOUS
  <2>1. m \in Lost
    OBVIOUS
  <2> HIDE DEF Lost
  <2>2. n <= m
    BY <1>1, <2>1
  <2> QED
    BY <1>2, <1>3, <2>2
<1> QED
  BY <1>2, <1>3

\* Induction, on a set.
LEMMA Counting ==
  ASSUME NEW T, 0 \in T, \A n \in Nat : n \in T => n + 1 \in T
  PROVE  \A n \in Nat : n \in T
<1>1. ASSUME NEW n \in Nat, \A m \in Nat : m < n => m \in T PROVE n \in T
  <2>1. CASE n = 0
    BY <2>1
  <2>2. CASE n # 0
    <3>1. n - 1 \in Nat /\ n - 1 < n /\ (n - 1) + 1 = n
      BY <2>2
    <3>2. n - 1 \in T
      BY <1>1, <3>1
    <3>3. (n - 1) + 1 \in T
      BY <3>1, <3>2
    <3> QED
      BY <3>1, <3>3
  <2> QED
    BY <2>1, <2>2
<1> QED
  BY <1>1, Strongly

\* What a recursive definition on the naturals needs: values at the numbers in Stop, 0
\* among them, and elsewhere a way down and a step up from there.
Recursion(S, Stop, first, next, down) ==
  /\ first \in [Nat -> S] /\ next \in [Nat -> [S -> S]] /\ 0 \in Stop
  /\ \A n \in Nat : n \notin Stop => down[n] \in 0 .. n - 1

\* A function on 0 .. k that is first at the numbers in Stop and elsewhere leads down.
Descended(f, k, S, Stop, first, next, down) ==
  /\ f \in [0 .. k -> S]
  /\ \A n \in 0 .. k : f[n] = IF n \in Stop THEN first[n] ELSE next[n][f[down[n]]]

\* Two such functions agree.
LEMMA DescentUnique ==
  ASSUME NEW S, NEW Stop, NEW first, NEW next, NEW down,
         \A n \in Nat : n \notin Stop => down[n] \in 0 .. n - 1,
         NEW k \in Nat, NEW l \in Nat, NEW f, NEW g,
         Descended(f, k, S, Stop, first, next, down), Descended(g, l, S, Stop, first, next, down)
  PROVE  \A n \in Nat : n <= k /\ n <= l => f[n] = g[n]
<1> DEFINE T == {n \in Nat : n <= k /\ n <= l => f[n] = g[n]}
<1>1. ASSUME NEW n \in Nat, \A m \in Nat : m < n => m \in T PROVE n \in T
  <2> SUFFICES ASSUME n <= k, n <= l PROVE f[n] = g[n]
    OBVIOUS
  <2>1. n \in 0 .. k /\ n \in 0 .. l
    OBVIOUS
  <2>2. /\ f[n] = IF n \in Stop THEN first[n] ELSE next[n][f[down[n]]]
        /\ g[n] = IF n \in Stop THEN first[n] ELSE next[n][g[down[n]]]
    BY <2>1 DEF Descended
  <2>3. CASE n \in Stop
    BY <2>2, <2>3
  <2>4. CASE n \notin Stop
    <3>1. down[n] \in Nat /\ down[n] < n /\ down[n] <= k /\ down[n] <= l
      <4>1. down[n] \in 0 .. n - 1
        BY <2>4
      <4> QED
        BY <4>1
    <3>2. f[down[n]] = g[down[n]]
      BY <1>1, <3>1
    <3> QED
      BY <2>2, <2>4, <3>2
  <2> QED
    BY <2>3, <2>4
<1> HIDE DEF T
<1>2. \A n \in Nat : n \in T
  BY <1>1, Strongly
<1> QED
  BY <1>2 DEF T

\* There is one on every 0 .. k.
LEMMA Descends ==
  ASSUME NEW S, NEW Stop, NEW first \in [Nat -> S], NEW next \in [Nat -> [S -> S]], NEW down,
         0 \in Stop, \A n \in Nat : n \notin Stop => down[n] \in 0 .. n - 1
  PROVE  \A k \in Nat : \E f : Descended(f, k, S, Stop, first, next, down)
<1> DEFINE T == {k \in Nat : \E f : Descended(f, k, S, Stop, first, next, down)}
<1>1. 0 \in T
  <2> DEFINE f0 == [n \in 0 .. 0 |-> first[0]]
  <2>1. f0 \in [0 .. 0 -> S] /\ \A n \in 0 .. 0 : n = 0 /\ f0[n] = first[0]
    OBVIOUS
  <2> HIDE DEF f0
  <2>2. Descended(f0, 0, S, Stop, first, next, down)
    BY <2>1 DEF Descended
  <2> QED
    BY <2>2
<1>2. ASSUME NEW k \in Nat, k \in T PROVE k + 1 \in T
  <2>1. PICK f : Descended(f, k, S, Stop, first, next, down)
    BY <1>2
  <2> DEFINE last == IF k + 1 \in Stop THEN first[k + 1] ELSE next[k + 1][f[down[k + 1]]]
             g == [n \in 0 .. k + 1 |-> IF n = k + 1 THEN last ELSE f[n]]
  <2>2. f \in [0 .. k -> S] /\ k + 1 \in Nat
    BY <2>1 DEF Descended
  <2>3. last \in S
    <3>1. CASE k + 1 \in Stop
      BY <2>2, <3>1
    <3>2. CASE k + 1 \notin Stop
      <4>1. down[k + 1] \in 0 .. k
        <5>1. down[k + 1] \in 0 .. (k + 1) - 1
          BY <2>2, <3>2
        <5> QED
          BY <5>1
      <4>2. f[down[k + 1]] \in S /\ next[k + 1] \in [S -> S]
        BY <2>2, <4>1
      <4> QED
        BY <3>2, <4>2
    <3> QED
      BY <3>1, <3>2
  <2> HIDE DEF last
  <2>4. g \in [0 .. k + 1 -> S]
    BY <2>2, <2>3
  <2>5. ASSUME NEW n \in 0 .. k + 1
        PROVE  g[n] = IF n \in Stop THEN first[n] ELSE next[n][g[down[n]]]
    <3>1. n \notin Stop => down[n] \in 0 .. k + 1 /\ g[down[n]] = f[down[n]]
      <4> SUFFICES ASSUME n \notin Stop PROVE down[n] \in 0 .. k + 1 /\ g[down[n]] = f[down[n]]
        OBVIOUS
      <4>1. down[n] \in 0 .. n - 1
        OBVIOUS
      <4>2. down[n] \in 0 .. k + 1 /\ down[n] # k + 1
        BY <4>1
      <4> QED
        BY <4>2
    <3>2. CASE n = k + 1
      <4>1. g[n] = last
        BY <3>2
      <4> HIDE DEF g
      <4> QED
        BY <3>1, <3>2, <4>1 DEF last
    <3>3. CASE n # k + 1
      <4>1. g[n] = f[n] /\ n \in 0 .. k
        BY <3>3
      <4>2. f[n] = IF n \in Stop THEN first[n] ELSE next[n][f[down[n]]]
        BY <2>1, <4>1 DEF Descended
      <4> HIDE DEF g
      <4> QED
        BY <3>1, <4>1, <4>2
    <3> QED
      BY <3>2, <3>3
  <2> HIDE DEF g
  <2>6. Descended(g, k + 1, S, Stop, first, next, down)
    BY <2>4, <2>5 DEF Descended
  <2> QED
    BY <2>2, <2>6
<1> HIDE DEF T
<1>3. \A k \in Nat : k \in T
  BY <1>1, <1>2, Counting
<1> QED
  BY <1>3 DEF T

\* A function on all naturals that goes so.
Recursive(f, S, Stop, first, next, down) ==
  f \in [Nat -> S] /\ \A n \in Nat : f[n] = IF n \in Stop THEN first[n] ELSE next[n][f[down[n]]]

\* There is a function on all naturals that is given at the numbers in Stop, and elsewhere
\* by its value at a smaller number.
LEMMA DescendsEverywhere ==
  ASSUME NEW S, NEW Stop, NEW first, NEW next, NEW down, Recursion(S, Stop, first, next, down)
  PROVE  \E f : Recursive(f, S, Stop, first, next, down)
<1> DEFINE At(k) == CHOOSE h : Descended(h, k, S, Stop, first, next, down)
           f == [k \in Nat |-> At(k)[k]]
<1>1. \A k \in Nat : Descended(At(k), k, S, Stop, first, next, down)
  <2>1. \A k \in Nat : \E h : Descended(h, k, S, Stop, first, next, down)
    BY Descends DEF Recursion
  <2> QED
    BY <2>1
<1> USE DEF Recursion
<1> HIDE DEF At
<1>2. ASSUME NEW n \in Nat PROVE n \in 0 .. n /\ f[n] = At(n)[n] /\ At(n) \in [0 .. n -> S]
  BY <1>1 DEF Descended
<1>3. f \in [Nat -> S]
  <2>1. \A n \in Nat : At(n)[n] \in S
    BY <1>2
  <2> QED
    BY <2>1
<1>4. ASSUME NEW n \in Nat
      PROVE  f[n] = IF n \in Stop THEN first[n] ELSE next[n][f[down[n]]]
  <2>1. At(n)[n] = IF n \in Stop THEN first[n] ELSE next[n][At(n)[down[n]]]
    BY <1>1, <1>2 DEF Descended
  <2>2. ASSUME n \notin Stop PROVE At(n)[down[n]] = f[down[n]]
    <3> DEFINE m == down[n]
    <3>1. m \in Nat /\ m <= n /\ m <= m
      <4>1. down[n] \in 0 .. n - 1
        BY <2>2
      <4> QED
        BY <4>1
    <3>2. f[m] = At(m)[m]
      BY <1>2, <3>1
    <3> HIDE DEF m
    <3>3. /\ Descended(At(m), m, S, Stop, first, next, down)
          /\ Descended(At(n), n, S, Stop, first, next, down)
      BY <1>1, <3>1
    <3>4. At(n)[m] = At(m)[m]
      BY <3>1, <3>3, DescentUnique
    <3> HIDE DEF f
    <3> QED
      BY <3>2, <3>4 DEF m
  <2>3. f[n] = At(n)[n]
    OBVIOUS
  <2> HIDE DEF f
  <2> QED
    BY <2>1, <2>2, <2>3
<1> HIDE DEF f
<1> QED
  BY <1>3, <1>4 DEF Recursive

\* Powers, one factor at a time.
LEMMA Powers ==
  ASSUME NEW b \in Nat
  PROVE  /\ Power(b, 0) = 1
         /\ \A k \in Nat : Power(b, k) \in Nat /\ Power(b, k + 1) = b * Power(b, k)
<1> DEFINE S == Nat
           Stop == {0}
           first == [n \in Nat |-> 1]
           next == [n \in Nat |-> [v \in Nat |-> b * v]]
           down == [n \in Nat |-> n - 1]
           Goes(f) == f = [m \in Nat |-> IF m = 0 THEN 1 ELSE b * f[m - 1]]
           power == CHOOSE f : Goes(f)
<1>1. \E f : Goes(f)
  <2>1. Recursion(S, Stop, first, next, down)
    BY DEF Recursion
  <2> HIDE DEF first, next, down, Stop, S
  <2>2. PICK f : Recursive(f, S, Stop, first, next, down)
    BY <2>1, DescendsEverywhere
  <2>3. /\ f \in [Nat -> Nat]
        /\ \A n \in Nat : f[n] = IF n \in Stop THEN first[n] ELSE next[n][f[down[n]]]
    BY <2>2 DEF Recursive, S
  <2>4. ASSUME NEW n \in Nat PROVE f[n] = IF n = 0 THEN 1 ELSE b * f[n - 1]
    <3>1. CASE n = 0
      BY <2>3, <3>1 DEF Stop, first
    <3>2. CASE n # 0
      <4>1. n \notin Stop /\ down[n] = n - 1 /\ n - 1 \in Nat
        BY <3>2 DEF Stop, down
      <4>2. f[n] = next[n][f[n - 1]] /\ f[n - 1] \in Nat
        BY <2>3, <4>1
      <4> QED
        BY <3>2, <4>2 DEF next, S
    <3> QED
      BY <3>1, <3>2
  <2>5. f = [m \in Nat |-> f[m]]
    BY <2>3
  <2>6. Goes(f)
    BY <2>4, <2>5
  <2> QED
    BY <2>6
<1>2. Goes(power)
  BY <1>1
<1>3. \A k : Power(b, k) = power[k]
  BY DEF Power
<1> HIDE DEF power
<1>4. /\ power[0] = 1
      /\ \A k \in Nat : power[k + 1] = b * power[k]
  <2>1. \A m \in Nat : power[m] = IF m = 0 THEN 1 ELSE b * power[m - 1]
    BY <1>2
  <2>2. ASSUME NEW k \in Nat PROVE k + 1 \in Nat /\ k + 1 # 0 /\ (k + 1) - 1 = k
    OBVIOUS
  <2> QED
    BY <2>1, <2>2
<1> HIDE DEF Goes
<1> DEFINE T == {k \in Nat : power[k] \in Nat}
<1>5. \A k \in Nat : k \in T
  <2>1. 0 \in T
    BY <1>4
  <2>2. ASSUME NEW k \in Nat, k \in T PROVE k + 1 \in T
    BY <1>4, <2>2
  <2> HIDE DEF T
  <2> QED
    BY <2>1, <2>2, Counting
<1> QED
  BY <1>3, <1>4, <1>5

\* A product grows with each factor.
LEMMA ProductGrows ==
  ASSUME NEW a \in Nat, NEW b \in Nat, NEW c \in Nat, a <= b
  PROVE  /\ a * c <= b * c /\ c * a <= c * b /\ c * a = a * c
         /\ a * c \in Nat /\ b * c \in Nat /\ c * a \in Nat /\ c * b \in Nat
<1>1. PICK d \in Nat : b = a + d
  <2>1. b - a \in Nat /\ b = a + (b - a)
    OBVIOUS
  <2> QED
    BY <2>1
<1>2. /\ b * c = (a * c) + (d * c) /\ c * b = (c * a) + (c * d)
      /\ d * c \in Nat /\ c * d \in Nat /\ a * c \in Nat /\ c * a \in Nat /\ c * a = a * c
  BY <1>1
<1> QED
  BY <1>2

\* Powers grow, with the exponent and with the base.
LEMMA PowersGrow ==
  ASSUME NEW b \in Nat, b >= 2
  PROVE  /\ \A k \in Nat : Power(b, k) \in Nat /\ Power(b, k) >= 1 /\ Power(2, k) <= Power(b, k)
         /\ \A k, l \in Nat : k <= l => Power(b, k) <= Power(b, l)
         /\ \A k \in Nat : Power(b, k) < Power(b, k + 1)
<1>1. /\ Power(b, 0) = 1 /\ Power(2, 0) = 1
      /\ \A k \in Nat : Power(b, k) \in Nat /\ Power(b, k + 1) = b * Power(b, k)
      /\ \A k \in Nat : Power(2, k) \in Nat /\ Power(2, k + 1) = 2 * Power(2, k)
  BY Powers
<1> DEFINE T == {k \in Nat : Power(b, k) >= 1 /\ Power(2, k) <= Power(b, k)}
<1>2. \A k \in Nat : k \in T
  <2>1. 0 \in T
    BY <1>1
  <2>2. ASSUME NEW k \in Nat, k \in T PROVE k + 1 \in T
    <3> DEFINE p == Power(b, k)
               q == Power(2, k)
    <3>1. p \in Nat /\ q \in Nat /\ p >= 1 /\ q <= p /\ Power(b, k + 1) = b * p /\ Power(2, k + 1) = 2 * q
      BY <1>1, <2>2
    <3> HIDE DEF p, q
    <3>2. 2 * q <= 2 * p
      BY <3>1
    <3>3. 2 * p <= b * p
      BY <3>1, ProductGrows
    <3>4. b * p \in Nat
      BY <3>1
    <3> QED
      BY <3>1, <3>2, <3>3, <3>4
  <2> HIDE DEF T
  <2> QED
    BY <2>1, <2>2, Counting
<1>3. ASSUME NEW k \in Nat PROVE Power(b, k) < Power(b, k + 1)
  <2> DEFINE p == Power(b, k)
  <2>1. p \in Nat /\ p >= 1 /\ Power(b, k + 1) = b * p
    BY <1>1, <1>2
  <2> HIDE DEF p
  <2>2. 2 * p <= b * p /\ b * p \in Nat
    BY <2>1, ProductGrows
  <2> QED
    BY <2>1, <2>2 DEF p
<1>4. ASSUME NEW k \in Nat PROVE \A d \in Nat : Power(b, k) <= Power(b, k + d)
  <2> DEFINE U == {d \in Nat : Power(b, k) <= Power(b, k + d)}
  <2>1. 0 \in U
    <3>1. k + 0 = k /\ Power(b, k) \in Nat
      BY <1>1
    <3> QED
      BY <3>1
  <2>2. ASSUME NEW d \in Nat, d \in U PROVE d + 1 \in U
    <3> DEFINE e == k + d
    <3>1. e \in Nat /\ k + (d + 1) = e + 1
      OBVIOUS
    <3>2. Power(b, k) <= Power(b, e)
      BY <2>2
    <3> HIDE DEF e
    <3>3. Power(b, e) < Power(b, e + 1) /\ Power(b, k) \in Nat /\ Power(b, e) \in Nat /\ Power(b, e + 1) \in Nat
      BY <1>1, <1>3, <3>1, SMTT(30)
    <3>4. Power(b, k) <= Power(b, e + 1)
      BY <3>2, <3>3
    <3> QED
      BY <3>1, <3>4
  <2> HIDE DEF U
  <2>3. \A d \in Nat : d \in U
    BY <2>1, <2>2, Counting
  <2> QED
    BY <2>3 DEF U
<1>5. ASSUME NEW k \in Nat, NEW l \in Nat, k <= l PROVE Power(b, k) <= Power(b, l)
  <2>1. l - k \in Nat /\ k + (l - k) = l
    BY <1>5
  <2>2. Power(b, k) <= Power(b, k + (l - k))
    BY <1>4, <2>1
  <2> QED
    BY <2>1, <2>2
<1> QED
  BY <1>1, <1>2, <1>3, <1>5

\* Division leaves a remainder.
LEMMA Divided ==
  ASSUME NEW n \in Nat, NEW b \in Nat \ {0}
  PROVE  n \div b \in Nat /\ n % b \in 0 .. b - 1 /\ n = (b * (n \div b)) + (n % b)
OBVIOUS

\* The quotient is the only one.
LEMMA Quotient ==
  ASSUME NEW n \in Nat, NEW b \in Nat \ {0}, NEW q \in Nat, b * q <= n, n < b * (q + 1)
  PROVE  n \div b = q
<1> DEFINE d == n \div b
           r == n % b
<1>1. d \in Nat /\ r \in 0 .. b - 1 /\ n = (b * d) + r
  BY Divided
<1> HIDE DEF d, r
<1>2. b * (q + 1) = (b * q) + b /\ b * q \in Nat /\ b * d \in Nat /\ b * (d + 1) = (b * d) + b
  BY <1>1
<1>3. ~(d < q)
  <2> SUFFICES ASSUME d < q PROVE FALSE
    OBVIOUS
  <2>1. b * (d + 1) <= b * q
    BY <1>1, ProductGrows
  <2> QED
    BY <1>1, <1>2, <2>1
<1>4. ~(q < d)
  <2> SUFFICES ASSUME q < d PROVE FALSE
    OBVIOUS
  <2>1. b * (q + 1) <= b * d
    BY <1>1, ProductGrows
  <2> QED
    BY <1>1, <1>2, <2>1
<1> QED
  BY <1>1, <1>3, <1>4 DEF d

\* Dividing by b and then by c is dividing by their product.
LEMMA DividedTwice ==
  ASSUME NEW n \in Nat, NEW b \in Nat \ {0}, NEW c \in Nat \ {0}
  PROVE  n \div (b * c) = (n \div b) \div c
<1> DEFINE d == n \div b
           r == n % b
           e == d \div c
           s == d % c
<1>1. d \in Nat /\ r \in 0 .. b - 1 /\ n = (b * d) + r
  BY Divided
<1>2. e \in Nat /\ s \in 0 .. c - 1 /\ d = (c * e) + s
  BY <1>1, Divided
<1> HIDE DEF d, r, e, s
<1>3. b * c \in Nat \ {0} /\ c * e \in Nat /\ b * d \in Nat /\ b * (c * e) = (b * c) * e
  BY <1>1, <1>2
<1>4. (b * c) * (e + 1) = ((b * c) * e) + (b * c) /\ b * ((c * e) + c) = (b * (c * e)) + (b * c)
  BY <1>1, <1>2, <1>3
<1>5. b * (c * e) <= b * d
  <2>1. c * e <= d
    BY <1>2, <1>3
  <2> QED
    BY <1>1, <1>3, <2>1, ProductGrows
<1>6. b * (d + 1) <= b * ((c * e) + c) /\ b * (d + 1) = (b * d) + b
  <2>1. d + 1 <= (c * e) + c /\ (c * e) + c \in Nat /\ d + 1 \in Nat
    BY <1>1, <1>2, <1>3
  <2>2. b * (d + 1) <= b * ((c * e) + c)
    BY <2>1, ProductGrows
  <2> QED
    BY <1>1, <2>2
<1>7. (b * c) * e <= n /\ n < (b * c) * (e + 1)
  <2> DEFINE x == b * c
             y == x * e
             z == b * d
             w == b * (d + 1)
             v == x * (e + 1)
  <2>1. /\ y <= z /\ w = z + b /\ v = y + x /\ w <= v /\ n = z + r
        /\ x \in Nat /\ z \in Nat
    BY <1>1, <1>3, <1>4, <1>5, <1>6
  <2>2. y \in Nat
    BY <1>2, <2>1
  <2> HIDE DEF x, y, z, w, v
  <2>3. y <= n /\ n < v
    BY <1>1, <2>1, <2>2
  <2> QED
    BY <2>3 DEF x, y, v
<1>8. n \div (b * c) = e
  BY <1>2, <1>3, <1>7, Quotient
<1> QED
  BY <1>8 DEF e, d

-----------------------------------------------------------------------------
(* The numeral that __int_str writes.                                      *)

Radix(base) == IF base = 17 THEN 16 ELSE base
DigitsOf(base) == {Digit(r, base) : r \in Nat}

\* t spells n: it has as many digits as n needs, each the one of its place.
Spells(t, n, base) ==
  LET l == Len(t)
      b == Radix(base)
  IN /\ t \in Seq(DigitsOf(base)) /\ l \in Nat /\ l >= 1
     /\ n < Power(b, l) /\ (l > 1 => n >= Power(b, l - 1))
     /\ \A k \in 1 .. l : t[k] = Digit((n \div Power(b, l - k)) % b, base)

\* A digit below the base is spelt by itself.
LEMMA SpellsOne ==
  ASSUME NEW base \in {8, 10, 16, 17}, NEW n \in Nat, n < Radix(base)
  PROVE  Spells(<<Digit(n % Radix(base), base)>>, n, base)
<1> DEFINE b == Radix(base)
           d == Digit(n % b, base)
           t == <<d>>
<1>1. b \in Nat /\ b >= 2 /\ n < b
  BY DEF Radix
<1> HIDE DEF b
<1>2. Power(b, 0) = 1 /\ Power(b, 1) = b
  <2>1. Power(b, 0) = 1 /\ \A k \in Nat : Power(b, k + 1) = b * Power(b, k)
    BY <1>1, Powers
  <2>2. Power(b, 0 + 1) = b * Power(b, 0)
    BY <2>1
  <2>3. 0 + 1 = 1 /\ b * 1 = b
    BY <1>1
  <2> QED
    BY <2>1, <2>2, <2>3
<1>3. d \in DigitsOf(base)
  <2>1. n % b \in Nat
    BY <1>1
  <2> QED
    BY <2>1 DEF DigitsOf
<1>4. n \div 1 = n
  OBVIOUS
<1> HIDE DEF d
<1>5. t \in Seq(DigitsOf(base)) /\ Len(t) = 1 /\ t[1] = d
  BY <1>3
<1> HIDE DEF t
<1>6. \A k \in 1 .. Len(t) : t[k] = Digit((n \div Power(b, Len(t) - k)) % b, base)
  <2> SUFFICES ASSUME NEW k \in 1 .. Len(t) PROVE t[k] = Digit((n \div Power(b, Len(t) - k)) % b, base)
    OBVIOUS
  <2>1. k = 1 /\ Len(t) - k = 0
    BY <1>5
  <2>2. (n \div Power(b, Len(t) - k)) = n
    BY <1>2, <1>4, <2>1
  <2> QED
    BY <1>5, <2>1, <2>2 DEF d
<1>7. n < Power(b, Len(t)) /\ ~(Len(t) > 1) /\ Len(t) \in Nat /\ Len(t) >= 1
  BY <1>1, <1>2, <1>5
<1>8. Spells(t, n, base)
  BY <1>5, <1>6, <1>7 DEF Spells, b
<1> QED
  BY <1>8 DEF t, d, b

\* The digits of n are those of its quotient and then the remainder.
LEMMA SpellsMore ==
  ASSUME NEW base \in {8, 10, 16, 17}, NEW n \in Nat, n >= Radix(base),
         NEW t, Spells(t, n \div Radix(base), base)
  PROVE  Spells(t \o <<Digit(n % Radix(base), base)>>, n, base)
<1> DEFINE b == Radix(base)
           q == n \div b
           r == n % b
           l == Len(t)
           d == Digit(r, base)
           u == t \o <<d>>
           D == DigitsOf(base)
<1>1. b \in Nat \ {0} /\ b >= 2 /\ n >= b
  BY DEF Radix
<1> HIDE DEF b
<1>2. q \in Nat /\ r \in 0 .. b - 1 /\ n = (b * q) + r
  BY <1>1, Divided
<1> HIDE DEF q, r
<1>3. /\ t \in Seq(D) /\ l \in Nat /\ l >= 1 /\ q < Power(b, l) /\ (l > 1 => q >= Power(b, l - 1))
      /\ \A k \in 1 .. l : t[k] = Digit((q \div Power(b, l - k)) % b, base)
  BY DEF Spells, b, q
<1>4. d \in D
  <2>1. r \in Nat
    BY <1>1, <1>2
  <2> QED
    BY <2>1 DEF DigitsOf
<1> HIDE DEF d, D
<1>5. /\ u \in Seq(D) /\ Len(u) = l + 1
      /\ \A k \in 1 .. l : u[k] = t[k]
      /\ u[l + 1] = d
  BY <1>3, <1>4
<1> HIDE DEF u, l
<1>6. /\ Power(b, 0) = 1
      /\ \A k \in Nat : Power(b, k) \in Nat \ {0} /\ Power(b, k + 1) = b * Power(b, k)
  <2>1. \A k \in Nat : Power(b, k) \in Nat /\ Power(b, k) >= 1
    BY <1>1, PowersGrow
  <2>2. \A k \in Nat : Power(b, k) \in Nat \ {0}
    BY <2>1
  <2> QED
    BY <1>1, <2>2, Powers
<1>7. n < Power(b, l + 1)
  <2> DEFINE p == Power(b, l)
             v == b * (q + 1)
             w == b * q
  <2>1. p \in Nat /\ q + 1 <= p /\ Power(b, l + 1) = b * p
    <3>1. p \in Nat /\ q < p /\ Power(b, l + 1) = b * p
      BY <1>3, <1>6
    <3> HIDE DEF p
    <3> QED
      BY <1>2, <3>1
  <2> HIDE DEF p
  <2>2. v <= b * p
    BY <1>1, <1>2, <2>1, ProductGrows
  <2>3. v = w + b /\ w \in Nat
    BY <1>1, <1>2
  <2>4. b * p \in Nat
    BY <1>1, <2>1
  <2>5. n = w + r
    BY <1>2
  <2> HIDE DEF v, w
  <2>6. n < b * p
    BY <1>1, <1>2, <2>2, <2>3, <2>4, <2>5
  <2> QED
    BY <2>1, <2>6
<1>8. n >= Power(b, l)
  <2>1. CASE l > 1
    <3> DEFINE p == Power(b, l - 1)
               w == b * q
    <3>1. l - 1 \in Nat /\ (l - 1) + 1 = l
      BY <1>3, <2>1
    <3>2. p \in Nat /\ p <= q /\ Power(b, l) = b * p
      BY <1>3, <1>6, <2>1, <3>1
    <3> HIDE DEF p
    <3>3. b * p <= w /\ w \in Nat /\ b * p \in Nat
      BY <1>1, <1>2, <3>2, ProductGrows
    <3>4. n = w + r
      BY <1>2
    <3> HIDE DEF w
    <3> QED
      BY <1>1, <1>2, <3>2, <3>3, <3>4
  <2>2. CASE ~(l > 1)
    <3>1. l = 0 + 1
      BY <1>3, <2>2
    <3>2. Power(b, l) = b * 1
      BY <1>6, <3>1
    <3> QED
      BY <1>1, <3>2
  <2> QED
    BY <2>1, <2>2
<1>9. ASSUME NEW k \in 1 .. l + 1
      PROVE  u[k] = Digit((n \div Power(b, (l + 1) - k)) % b, base)
  <2>1. CASE k = l + 1
    <3>1. (l + 1) - k = 0
      BY <1>3, <2>1
    <3>2. n \div Power(b, (l + 1) - k) = n
      <4>1. n \div 1 = n
        OBVIOUS
      <4> QED
        BY <1>6, <3>1, <4>1
    <3> QED
      BY <1>5, <2>1, <3>2 DEF d, r
  <2>2. CASE k # l + 1
    <3> DEFINE j == l - k
    <3>1. k \in 1 .. l /\ j \in Nat /\ (l + 1) - k = j + 1
      BY <1>3, <2>2
    <3>2. u[k] = Digit((q \div Power(b, j)) % b, base)
      BY <1>3, <1>5, <3>1
    <3> HIDE DEF j
    <3>3. Power(b, j) \in Nat \ {0} /\ Power(b, (l + 1) - k) = b * Power(b, j)
      BY <1>6, <3>1
    <3>4. n \div (b * Power(b, j)) = (n \div b) \div Power(b, j)
      BY <1>1, <3>3, DividedTwice
    <3>5. n \div Power(b, (l + 1) - k) = q \div Power(b, j)
      BY <3>3, <3>4 DEF q
    <3> QED
      BY <3>2, <3>5
  <2> QED
    BY <2>1, <2>2
<1>10. Len(u) \in Nat /\ Len(u) >= 1 /\ Len(u) - 1 = l
  BY <1>3, <1>5
<1>11. Spells(u, n, base)
  BY <1>5, <1>7, <1>8, <1>9, <1>10 DEF Spells, b, D
<1> QED
  BY <1>11 DEF u, d, r, b

\* What __int_str writes of a number from 0 on spells it.
LEMMA NumeralSpells ==
  ASSUME NEW base \in {8, 10, 16, 17}, NEW i \in Nat
  PROVE  Spells(Numeral(i, base), i, base)
<1> DEFINE b == Radix(base)
           sign == IF i < 0 THEN -1 ELSE 1
           D == DigitsOf(base)
           Unit(n) == Digit(sign * (n % b), base)
           S == Seq(D)
           Stop == 0 .. b - 1
           first == [n \in Nat |-> <<Unit(n)>>]
           next == [n \in Nat |-> [t \in S |-> t \o <<Unit(n)>>]]
           down == [n \in Nat |-> n \div b]
           Goes(f) == f = [n \in Nat |-> (IF n < b THEN <<>> ELSE f[n \div b]) \o <<Digit(sign * (n % b), base)>>]
           numeral == CHOOSE f : Goes(f)
<1>1. b \in Nat \ {0} /\ b >= 2 /\ sign = 1
  BY DEF Radix
<1>2. Numeral(i, base) = numeral[i]
  <2>1. Numeral(i, base) = numeral[sign * i]
    BY DEF Numeral, Radix
  <2>2. sign * i = i
    BY <1>1
  <2> HIDE DEF numeral, sign
  <2> QED
    BY <2>1, <2>2
<1> HIDE DEF b, sign
<1>3. ASSUME NEW n \in Nat PROVE Unit(n) = Digit(n % b, base) /\ Unit(n) \in D
  <2>1. n % b \in Nat /\ sign * (n % b) = n % b
    BY <1>1
  <2> QED
    BY <2>1 DEF DigitsOf
<1>4. ASSUME NEW n \in Nat, n >= b PROVE n \div b \in 0 .. n - 1
  <2> DEFINE q == n \div b
             r == n % b
             w == b * q
  <2>1. q \in Nat /\ r \in 0 .. b - 1 /\ n = w + r
    BY <1>1, Divided
  <2> HIDE DEF q, r
  <2>2. 2 * q <= w /\ w \in Nat
    BY <1>1, <2>1, ProductGrows
  <2>3. q < n
    <3>1. CASE q = 0
      BY <1>1, <1>4, <3>1
    <3>2. CASE q # 0
      <4> HIDE DEF w
      <4> QED
        BY <1>1, <2>1, <2>2, <3>2
    <3> QED
      BY <3>1, <3>2
  <2> QED
    BY <2>1, <2>3 DEF q
<1> HIDE DEF D, Unit
<1>5. \E f : Goes(f)
  <2>1. Recursion(S, Stop, first, next, down)
    <3>1. first \in [Nat -> S]
      BY <1>3
    <3>2. ASSUME NEW n \in Nat PROVE next[n] \in [S -> S]
      <4>1. Unit(n) \in D
        BY <1>3
      <4>2. ASSUME NEW t \in S PROVE t \o <<Unit(n)>> \in S
        BY <4>1
      <4> QED
        BY <4>2
    <3>3. ASSUME NEW n \in Nat, n \notin Stop PROVE down[n] \in 0 .. n - 1
      <4>1. n >= b
        BY <1>1, <3>3
      <4> QED
        BY <1>4, <4>1
    <3>4. 0 \in Stop
      BY <1>1
    <3>5. next \in [Nat -> [S -> S]]
      BY <3>2
    <3> HIDE DEF S, Stop, first, next, down
    <3> QED
      BY <3>1, <3>3, <3>4, <3>5 DEF Recursion
  <2> HIDE DEF first, next, down, Stop, S
  <2>2. PICK f : Recursive(f, S, Stop, first, next, down)
    BY <2>1, DescendsEverywhere
  <2>3. /\ f \in [Nat -> S]
        /\ \A n \in Nat : f[n] = IF n \in Stop THEN first[n] ELSE next[n][f[down[n]]]
    BY <2>2 DEF Recursive
  <2>4. ASSUME NEW n \in Nat PROVE f[n] = (IF n < b THEN <<>> ELSE f[n \div b]) \o <<Unit(n)>>
    <3>1. CASE n < b
      <4>1. n \in Stop
        BY <1>1, <3>1 DEF Stop
      <4>2. f[n] = <<Unit(n)>>
        BY <2>3, <4>1 DEF first
      <4>3. <<>> \o <<Unit(n)>> = <<Unit(n)>>
        OBVIOUS
      <4> QED
        BY <3>1, <4>2, <4>3
    <3>2. CASE ~(n < b)
      <4>1. n \notin Stop /\ down[n] = n \div b /\ n \div b \in Nat
        BY <1>1, <3>2 DEF Stop, down
      <4>2. f[n] = next[n][f[n \div b]] /\ f[n \div b] \in S
        BY <2>3, <4>1
      <4>3. next[n] = [t \in S |-> t \o <<Unit(n)>>]
        BY DEF next
      <4>4. f[n] = f[n \div b] \o <<Unit(n)>>
        BY <4>2, <4>3
      <4> QED
        BY <3>2, <4>4
    <3> QED
      BY <3>1, <3>2
  <2>5. f = [n \in Nat |-> f[n]]
    BY <2>3
  <2>6. Goes(f)
    BY <2>4, <2>5 DEF Unit
  <2> QED
    BY <2>6
<1>6. \A n \in Nat : numeral[n] = (IF n < b THEN <<>> ELSE numeral[n \div b]) \o <<Unit(n)>>
  <2>1. Goes(numeral)
    BY <1>5
  <2> HIDE DEF numeral
  <2> QED
    BY <2>1 DEF Unit
<1> HIDE DEF numeral
<1> DEFINE T == {n \in Nat : Spells(numeral[n], n, base)}
<1>7. ASSUME NEW n \in Nat, \A m \in Nat : m < n => m \in T PROVE n \in T
  <2>1. CASE n < b
    <3>1. numeral[n] = <<>> \o <<Digit(n % b, base)>>
      BY <1>3, <1>6, <2>1
    <3>2. <<>> \o <<Digit(n % b, base)>> = <<Digit(n % b, base)>>
      OBVIOUS
    <3>3. Spells(<<Digit(n % b, base)>>, n, base)
      BY <2>1, SpellsOne DEF b
    <3> QED
      BY <3>1, <3>2, <3>3
  <2>2. CASE ~(n < b)
    <3> DEFINE q == n \div b
               t == numeral[q]
    <3>1. n >= b /\ q \in 0 .. n - 1
      BY <1>1, <1>4, <2>2
    <3>2. Spells(t, q, base)
      BY <1>7, <3>1
    <3>3. numeral[n] = t \o <<Digit(n % b, base)>>
      BY <1>3, <1>6, <2>2
    <3> HIDE DEF t
    <3>4. Spells(t \o <<Digit(n % b, base)>>, n, base)
      BY <3>1, <3>2, SpellsMore DEF b, q
    <3> QED
      BY <3>3, <3>4
  <2> QED
    BY <2>1, <2>2
<1>8. i \in T
  <2> HIDE DEF T
  <2> QED
    BY <1>7, Strongly
<1> QED
  BY <1>2, <1>8

\* The marks of a base's digits.
Marked(marks, base) == \A r \in 0 .. Radix(base) - 1 : Ch(marks[r + 1]) = Digit(r, base)

\* Below 10 small and capital digits are the same.
LEMMA MarksAgree ==
  /\ Marked(Small, 8) /\ Marked(Small, 10) /\ Marked(Small, 17)
  /\ Marked(Capital, 8) /\ Marked(Capital, 10) /\ Marked(Capital, 16)
  /\ \A r \in 0 .. 9 : Digit(r, 16) = Ch(Small[r + 1])
<1>1. \A r \in 0 .. 9 : Small[r + 1] = Capital[r + 1]
  <2>1. \A r \in 0 .. 9 : r \in {0, 1, 2, 3, 4, 5, 6, 7, 8, 9}
    OBVIOUS
  <2> QED
    BY <2>1 DEF Small, Capital
<1>2. Radix(8) = 8 /\ Radix(10) = 10 /\ Radix(16) = 16 /\ Radix(17) = 16
  BY DEF Radix
<1>3. \A r \in Nat : /\ Digit(r, 8) = Ch(Capital[r + 1]) /\ Digit(r, 10) = Ch(Capital[r + 1])
                     /\ Digit(r, 16) = Ch(Capital[r + 1]) /\ Digit(r, 17) = Ch(Small[r + 1])
  BY DEF Digit
<1>4. /\ \A r \in 0 .. 8 - 1 : r \in Nat /\ r \in 0 .. 9 /\ \A s \in 0 .. 10 - 1 : s \in Nat /\ s \in 0 .. 9
      /\ \A r \in 0 .. 16 - 1 : r \in Nat
  OBVIOUS
<1> QED
  BY <1>1, <1>2, <1>3, <1>4 DEF Marked

\* The digits that C gives a number of the widest type are those __int_str writes.
LEMMA DigitsAsC ==
  ASSUME NEW base \in {8, 10, 16, 17}, NEW n \in Nat, n < Power(2, LongBits),
         NEW marks, Marked(marks, base)
  PROVE  /\ Numeral(n, base) = CDigits(n, Radix(base), marks)
         /\ Len(Numeral(n, base)) \in Nat /\ Numeral(n, base) \in Seq(DigitsOf(base))
<1> DEFINE b == Radix(base)
           t == Numeral(n, base)
           l == Len(t)
           Long(k) == n < Power(b, k) /\ (k > 1 => n >= Power(b, k - 1))
           length == CHOOSE k \in 1 .. LongBits : Long(k)
<1>1. b \in Nat \ {0} /\ b >= 2 /\ LongBits \in Nat
  BY PrintfAssumption DEF Radix
<1>2. /\ t \in Seq(DigitsOf(base)) /\ l \in Nat /\ l >= 1 /\ Long(l)
      /\ \A k \in 1 .. l : t[k] = Digit((n \div Power(b, l - k)) % b, base)
  BY NumeralSpells DEF Spells
<1> HIDE DEF t, b
<1>3. /\ \A k \in Nat : Power(b, k) \in Nat /\ Power(b, k) >= 1 /\ Power(2, k) <= Power(b, k)
      /\ \A k, m \in Nat : k <= m => Power(b, k) <= Power(b, m)
  BY <1>1, PowersGrow
<1>4. \A k \in Nat : Power(2, k) \in Nat
  BY Powers
<1>5. l <= LongBits
  <2> SUFFICES ASSUME l > LongBits PROVE FALSE
    BY <1>1, <1>2
  <2>1. l - 1 \in Nat /\ LongBits <= l - 1 /\ l > 1
    BY <1>1, <1>2, PrintfAssumption
  <2>2. Power(b, LongBits) <= Power(b, l - 1) /\ n >= Power(b, l - 1) /\ Power(2, LongBits) <= Power(b, LongBits)
    BY <1>1, <1>2, <1>3, <2>1
  <2>3. Power(b, LongBits) \in Nat /\ Power(b, l - 1) \in Nat /\ Power(2, LongBits) \in Nat
    BY <1>1, <1>3, <1>4, <2>1
  <2> QED
    BY <2>2, <2>3
<1>6. ASSUME NEW k \in Nat, NEW m \in Nat, k >= 1, k < m, Long(k), Long(m) PROVE FALSE
  <2>1. m - 1 \in Nat /\ k <= m - 1 /\ m > 1
    BY <1>6
  <2>2. n < Power(b, k) /\ Power(b, k) <= Power(b, m - 1) /\ n >= Power(b, m - 1)
    BY <1>3, <1>6, <2>1
  <2>3. Power(b, k) \in Nat /\ Power(b, m - 1) \in Nat
    BY <1>3, <2>1
  <2> QED
    BY <2>2, <2>3
<1>7. length = l
  <2>1. l \in 1 .. LongBits /\ Long(l)
    BY <1>1, <1>2, <1>5
  <2> HIDE DEF Long, l
  <2>2. length \in 1 .. LongBits /\ Long(length)
    BY <2>1
  <2> HIDE DEF length
  <2>3. length \in Nat /\ length >= 1 /\ l \in Nat /\ l >= 1
    BY <1>1, <2>1, <2>2
  <2>4. ~(length < l) /\ ~(l < length)
    BY <1>6, <2>1, <2>2, <2>3
  <2> QED
    BY <2>3, <2>4
<1> DEFINE c == CDigits(n, b, marks)
<1>8. c = [k \in 1 .. length |-> Ch(marks[((n \div Power(b, length - k)) % b) + 1])]
  BY DEF CDigits
<1> HIDE DEF length, l, Long
<1>9. c = [k \in 1 .. l |-> Ch(marks[((n \div Power(b, l - k)) % b) + 1])]
  BY <1>7, <1>8
<1> HIDE DEF c
<1>10. ASSUME NEW k \in 1 .. l PROVE c[k] = t[k]
  <2> DEFINE r == (n \div Power(b, l - k)) % b
  <2>1. r \in 0 .. b - 1
    <3> DEFINE p == Power(b, l - k)
    <3>1. l - k \in Nat
      BY <1>2
    <3>2. p \in Nat \ {0}
      <4>1. p \in Nat /\ p >= 1
        BY <1>3, <3>1
      <4> QED
        BY <4>1
    <3> HIDE DEF p
    <3>3. n \div p \in Nat
      BY <3>2, Divided
    <3>4. (n \div p) % b \in 0 .. b - 1
      BY <1>1, <3>3, Divided
    <3> QED
      BY <3>4 DEF p
  <2>2. c[k] = Ch(marks[r + 1])
    BY <1>9
  <2>3. t[k] = Digit(r, base)
    BY <1>2
  <2> HIDE DEF r
  <2>4. Ch(marks[r + 1]) = Digit(r, base)
    BY <2>1 DEF Marked, b
  <2> QED
    BY <2>2, <2>3, <2>4
<1>11. c = t
  <2>1. DOMAIN c = 1 .. l /\ c = [k \in 1 .. l |-> c[k]]
    BY <1>9
  <2>2. DOMAIN t = 1 .. l /\ t = [k \in 1 .. l |-> t[k]]
    BY <1>2 DEF l
  <2> QED
    BY <1>10, <2>1, <2>2
<1> QED
  BY <1>2, <1>11 DEF c, t, b, l

-----------------------------------------------------------------------------
(* One directive.                                                          *)

\* The types: each has twice as many values as it has from 0 on, and the wider ones more.
LEMMA Widths ==
  /\ IntBits \in Nat /\ LongBits \in Nat
  /\ \A bits \in {ShortBits, IntBits, LongBits} :
       /\ Power(2, bits) \in Nat /\ Power(2, bits - 1) \in Nat
       /\ Power(2, bits) = 2 * Power(2, bits - 1) /\ Power(2, bits - 1) >= 8
  /\ \A bits \in {ShortBits, IntBits} : Power(2, bits) <= Power(2, LongBits - 1)
<1>1. /\ ShortBits \in Nat /\ IntBits \in Nat /\ LongBits \in Nat
      /\ 4 <= ShortBits /\ ShortBits < IntBits /\ IntBits < LongBits
  BY PrintfAssumption
<1>2. /\ \A k \in Nat : Power(2, k) \in Nat /\ Power(2, k + 1) = 2 * Power(2, k)
      /\ \A k, l \in Nat : k <= l => Power(2, k) <= Power(2, l)
      /\ Power(2, 0) = 1
  BY Powers, PowersGrow
<1>3. Power(2, 3) = 8
  <2>1. Power(2, 1) = 2
    <3>1. Power(2, 0 + 1) = 2 * Power(2, 0)
      BY <1>2
    <3>2. 0 + 1 = 1
      OBVIOUS
    <3> QED
      BY <1>2, <3>1, <3>2
  <2>2. Power(2, 2) = 4
    <3>1. Power(2, 1 + 1) = 2 * Power(2, 1)
      BY <1>2
    <3>2. 1 + 1 = 2
      OBVIOUS
    <3> QED
      BY <2>1, <3>1, <3>2
  <2>3. Power(2, 2 + 1) = 2 * Power(2, 2)
    BY <1>2
  <2>4. 2 + 1 = 3
    OBVIOUS
  <2> QED
    BY <2>2, <2>3, <2>4
<1>4. ASSUME NEW bits \in {ShortBits, IntBits, LongBits}
      PROVE  /\ Power(2, bits) \in Nat /\ Power(2, bits - 1) \in Nat
             /\ Power(2, bits) = 2 * Power(2, bits - 1) /\ Power(2, bits - 1) >= 8
  <2>1. bits \in Nat /\ bits - 1 \in Nat /\ (bits - 1) + 1 = bits /\ 3 <= bits - 1
    BY <1>1
  <2>2. Power(2, (bits - 1) + 1) = 2 * Power(2, bits - 1) /\ Power(2, 3) <= Power(2, bits - 1)
    BY <1>2, <2>1
  <2> QED
    BY <1>2, <1>3, <2>1, <2>2
<1>5. ASSUME NEW bits \in {ShortBits, IntBits} PROVE Power(2, bits) <= Power(2, LongBits - 1)
  <2>1. bits \in Nat /\ LongBits - 1 \in Nat /\ bits <= LongBits - 1
    BY <1>1
  <2> QED
    BY <1>2, <2>1
<1> QED
  BY <1>1, <1>4, <1>5

\* Numbers that a type has are taken as they are.
LEMMA Converted ==
  ASSUME NEW bits \in {ShortBits, IntBits, LongBits}, NEW v \in Int
  PROVE  /\ Unsigned(v, bits) \in Nat /\ Unsigned(v, bits) < Power(2, bits)
         /\ Signed(v, bits) \in Int
         /\ -Power(2, bits - 1) <= Signed(v, bits) /\ Signed(v, bits) < Power(2, bits - 1)
         /\ 0 <= v /\ v < Power(2, bits) => Unsigned(v, bits) = v
         /\ 0 <= v /\ v < Power(2, bits - 1) => Signed(v, bits) = v
         /\ v = -1 => Signed(v, bits) = -1
<1> DEFINE p == Power(2, bits)
           h == Power(2, bits - 1)
           u == v % p
<1>1. p \in Nat /\ h \in Nat /\ p = 2 * h /\ h >= 8
  BY Widths
<1>2. Unsigned(v, bits) = u /\ Signed(v, bits) = IF u < h THEN u ELSE u - p
  BY DEF Unsigned, Signed
<1> HIDE DEF p, h
<1>3. u \in 0 .. p - 1 /\ (0 <= v /\ v < p => u = v)
  BY <1>1
<1>4. v = -1 => u = p - 1
  BY <1>1
<1> HIDE DEF u
<1> SUFFICES /\ u \in Nat /\ u < p
             /\ (IF u < h THEN u ELSE u - p) \in Int
             /\ -h <= (IF u < h THEN u ELSE u - p) /\ (IF u < h THEN u ELSE u - p) < h
             /\ 0 <= v /\ v < p => u = v
             /\ 0 <= v /\ v < h => (IF u < h THEN u ELSE u - p) = v
             /\ v = -1 => (IF u < h THEN u ELSE u - p) = -1
  BY <1>2 DEF p, h
<1> QED
  BY <1>1, <1>3, <1>4

\* Spaces or zeros before a number.
LEMMA Repeated ==
  ASSUME NEW c, NEW n \in Nat
  PROVE  /\ Repeat(c, n) \in Seq({Ch(c)}) /\ Len(Repeat(c, n)) = n
         /\ n = 0 => Repeat(c, n) = <<>>
         /\ n = 1 => Repeat(c, n) = <<Ch(c)>>
<1> DEFINE r == [k \in 1 .. n |-> Ch(c)]
           x == Ch(c)
<1>1. r = [k \in 1 .. n |-> x]
  OBVIOUS
<1> HIDE DEF x, r
<1>2. r \in [1 .. n -> {x}] /\ DOMAIN r = 1 .. n /\ \A k \in 1 .. n : r[k] = x
  BY <1>1
<1>3. r \in Seq({x})
  BY <1>2, SeqDef
<1>4. Len(r) = n
  BY <1>2, <1>3, LenProperties
<1>5. n = 0 => r = <<>>
  BY <1>3, <1>4, EmptySeq
<1>6. n = 1 => r = <<x>>
  <2> SUFFICES ASSUME n = 1 PROVE r = <<x>>
    OBVIOUS
  <2> DEFINE s == <<x>>
  <2>1. s \in Seq({x}) /\ Len(s) = 1 /\ s[1] = x
    OBVIOUS
  <2> HIDE DEF s
  <2>2. \A k \in 1 .. Len(r) : r[k] = s[k]
    BY <1>2, <1>4, <2>1
  <2>3. r = s
    BY <1>3, <1>4, <2>1, <2>2, SeqEqual
  <2> QED
    BY <2>3 DEF s
<1> QED
  BY <1>3, <1>4, <1>5, <1>6 DEF Repeat, r, x

\* What a supported directive takes from the arguments is what C says it is.
LEMMA TakenAsC ==
  ASSUME NEW slot, slot.num \in Int, NEW d, NEW width, Supported(slot, d, width)
  PROVE  LET v == CValue(slot, d) IN
         /\ Taken(slot, d) = v /\ v \in Int
         /\ v < 0 => Signed(-v, LongBits) = -v /\ -v \in Nat /\ -v < Power(2, LongBits)
         /\ v >= 0 => v \in Nat /\ v < Power(2, LongBits)
<1> DEFINE bits == BitsOf(d.length)
           n == slot.num
           v == CValue(slot, d)
           m == Power(2, LongBits - 1)
           w == Power(2, LongBits)
<1>1. bits \in {ShortBits, IntBits, LongBits}
  BY DEF BitsOf
<1>2. /\ m \in Nat /\ w = 2 * m /\ m >= 8
      /\ \A k \in {ShortBits, IntBits} : Power(2, k) <= m
      /\ \A k \in {ShortBits, IntBits, LongBits} :
           /\ Power(2, k) \in Nat /\ Power(2, k - 1) \in Nat /\ Power(2, k) = 2 * Power(2, k - 1)
  BY Widths
<1>3. v # -m
  BY DEF Supported
<1>4. d.specifier \notin {"d", "i"} => v < m
  BY DEF Supported
<1>5. d.specifier # "p"
  BY DEF Supported
<1> HIDE DEF bits
<1>6. CASE d.specifier \in {"d", "i"}
  <2>1. v = Signed(n, bits) /\ Taken(slot, d) = Signed(n, bits)
    BY <1>6 DEF CValue, Taken, bits
  <2> DEFINE h == Power(2, bits - 1)
  <2>2. v \in Int /\ -h <= v /\ v < h /\ h \in Nat
    BY <1>1, <1>2, <2>1, Converted, ZenonT(60)
  <2>3. h <= m
    <3>1. CASE bits = LongBits
      BY <1>2, <3>1
    <3>2. CASE bits \in {ShortBits, IntBits}
      <4>1. Power(2, bits) <= m /\ Power(2, bits) = 2 * h
        BY <1>2, <3>2
      <4> HIDE DEF h
      <4> QED
        BY <1>2, <2>2, <4>1
    <3> QED
      BY <1>1, <3>1, <3>2
  <2> HIDE DEF h, v, m, w
  <2>4. /\ v < 0 => -v \in Nat /\ -v < m /\ -v < w
        /\ v >= 0 => v \in Nat /\ v < w
    BY <1>2, <1>3, <2>2, <2>3
  <2>5. v < 0 => Signed(-v, LongBits) = -v
    <3> DEFINE x == -v
    <3> SUFFICES ASSUME v < 0 PROVE Signed(x, LongBits) = x
      OBVIOUS
    <3>1. x \in Int /\ 0 <= x /\ x < Power(2, LongBits - 1)
      BY <2>2, <2>4 DEF m
    <3> HIDE DEF x
    <3> QED
      BY <3>1, Converted
  <2> QED
    BY <2>1, <2>2, <2>4, <2>5 DEF v, w
<1>7. CASE d.specifier \notin {"d", "i"}
  <2>1. v = Unsigned(n, bits) /\ Taken(slot, d) = Signed(v, LongBits)
    BY <1>5, <1>7 DEF CValue, Taken, bits
  <2>2. v \in Nat /\ v < m
    BY <1>1, <1>4, <1>7, <2>1, Converted, SMTT(30)
  <2> HIDE DEF v, m, w
  <2>3. v \in Int /\ 0 <= v /\ v < Power(2, LongBits - 1)
    BY <2>2 DEF m
  <2>4. Signed(v, LongBits) = v
    BY <2>3, Converted
  <2>5. v < w /\ ~(v < 0)
    BY <1>2, <2>2
  <2> QED
    BY <2>1, <2>2, <2>3, <2>4, <2>5 DEF v, w
<1> QED
  BY <1>6, <1>7

\* The numbers of a supported directive, by the program's base and by C's.
LEMMA BaseAsC ==
  ASSUME NEW slot, NEW d, NEW width, Supported(slot, d, width)
  PROVE  LET base == CASE d.specifier = "o" -> 8 [] d.specifier \in {"x", "X"} -> 16 [] OTHER -> 10
             marks == IF d.specifier = "X" THEN Capital ELSE Small
         IN /\ BaseOf(d.specifier) \in {8, 10, 16, 17}
            /\ base = Radix(BaseOf(d.specifier)) /\ Marked(marks, BaseOf(d.specifier))
<1>1. d.specifier \in {"d", "i", "u", "x", "X", "o"}
  BY DEF Supported
<1>2. CASE d.specifier = "o"
  BY <1>2, MarksAgree DEF BaseOf, Radix
<1>3. CASE d.specifier = "x"
  BY <1>3, MarksAgree DEF BaseOf, Radix
<1>4. CASE d.specifier = "X"
  BY <1>4, MarksAgree DEF BaseOf, Radix
<1>5. CASE d.specifier \in {"d", "i", "u"}
  BY <1>5, MarksAgree DEF BaseOf, Radix
<1> QED
  BY <1>1, <1>2, <1>3, <1>4, <1>5

\* A sequence over a set is one over a larger set.
LEMMA LargerSeq ==
  ASSUME NEW S, NEW T, S \subseteq T, NEW s \in Seq(S)
  PROVE  s \in Seq(T)
OBVIOUS

\* Spaces or zeros.
LEMMA PaddingText ==
  ASSUME NEW S, NEW c, Ch(c) \in S, NEW n \in Nat
  PROVE  Repeat(c, n) \in Seq(S)
<1> DEFINE r == Repeat(c, n)
           C == {Ch(c)}
<1>1. r \in Seq(C) /\ C \subseteq S
  BY Repeated
<1> HIDE DEF r, C
<1>2. r \in Seq(S)
  BY <1>1, LargerSeq
<1> QED
  BY <1>2 DEF r

Regrouped(r, s, t) == (r \o s) \o t = r \o (s \o t)

\* Three texts one after another.
LEMMA ThreeTexts ==
  ASSUME NEW S, NEW r \in Seq(S), NEW s \in Seq(S), NEW t \in Seq(S)
  PROVE  Regrouped(r, s, t)
BY ConcatAssociative DEF Regrouped

\* __int_str writes a number of a supported directive as C says.
LEMMA IntStrAsC ==
  ASSUME NEW slot, slot.num \in Int, NEW d, NEW width \in Int, Supported(slot, d, width)
  PROVE  /\ IntStr(Taken(slot, d), BaseOf(d.specifier), d, width) = CText(slot, d, width)
         /\ \E S : CText(slot, d, width) \in Seq(S)
<1> DEFINE v == CValue(slot, d)
           n == IF v < 0 THEN -v ELSE v
           base == BaseOf(d.specifier)
           marks == IF d.specifier = "X" THEN Capital ELSE Small
           radix == CASE d.specifier = "o" -> 8 [] d.specifier \in {"x", "X"} -> 16 [] OTHER -> 10
           digits == CDigits(n, radix, marks)
           signed == d.specifier \in {"d", "i"}
           sign == IF v < 0 THEN <<Ch("-")>>
                   ELSE IF signed /\ d.plus THEN <<Ch("+")>>
                   ELSE IF signed /\ d.space THEN <<Ch(" ")>> ELSE <<>>
           fill == width - Len(sign) - Len(digits)
           room == IF fill > 0 THEN fill ELSE 0
           text == Unpadded(v, base, d)
           missing == width - Len(text)
           mark == IF d.zero THEN "0" ELSE " "
           padding == Repeat(mark, IF missing < 0 THEN 0 ELSE missing)
<1>1. Taken(slot, d) = v /\ v \in Int /\ n \in Nat /\ n < Power(2, LongBits) /\ (v < 0 => Signed(-v, LongBits) = -v)
  BY TakenAsC
<1>2. base \in {8, 10, 16, 17} /\ radix = Radix(base) /\ Marked(marks, base)
  BY BaseAsC
<1>3. ~signed => ~d.plus /\ ~d.space
  BY DEF Supported
<1>4. d.zero => ~d.left /\ ~d.plus /\ ~d.space /\ v >= 0
  BY DEF Supported
<1>5. IntStr(Taken(slot, d), base, d, width) = IF d.left THEN text \o padding ELSE padding \o text
  BY <1>1 DEF IntStr
<1>6. CText(slot, d, width) =
        CASE d.left -> sign \o digits \o Repeat(" ", room)
          [] ~d.left /\ d.zero -> sign \o Repeat("0", room) \o digits
          [] OTHER -> Repeat(" ", room) \o sign \o digits
  BY DEF CText
<1> HIDE DEF v, base, marks, radix
<1>7. Numeral(n, base) = digits /\ Len(digits) \in Nat /\ digits \in Seq(DigitsOf(base))
  <2> HIDE DEF n
  <2> QED
    BY <1>1, <1>2, DigitsAsC
<1>8. Numeral(IF v < 0 THEN Signed(-v, LongBits) ELSE v, base) = digits
  BY <1>1, <1>7
<1> HIDE DEF n, digits
<1> DEFINE A == DigitsOf(base) \cup {Ch("-"), Ch("+"), Ch(" "), Ch("0")}
<1>9. digits \in Seq(A) /\ sign \in Seq(A)
  <2>1. digits \in Seq(A)
    <3>1. DigitsOf(base) \subseteq A
      OBVIOUS
    <3> HIDE DEF A
    <3> QED
      BY <1>7, <3>1
  <2>2. sign \in Seq(A)
    <3>1. <<Ch("-")>> \in Seq(A) /\ <<Ch("+")>> \in Seq(A) /\ <<Ch(" ")>> \in Seq(A) /\ <<>> \in Seq(A)
      OBVIOUS
    <3> HIDE DEF A
    <3> QED
      BY <3>1
  <2> QED
    BY <2>1, <2>2
<1>10. text = sign \o digits
  <2> DEFINE lead == IF v < 0 THEN Repeat("-", 1)
                     ELSE IF d.plus THEN Repeat("+", 1)
                     ELSE IF d.space THEN Repeat(" ", 1) ELSE <<>>
  <2>1. text = lead \o Numeral(IF v < 0 THEN Signed(-v, LongBits) ELSE v, base)
    BY DEF Unpadded
  <2>2. \A c : Repeat(c, 1) = <<Ch(c)>>
    BY Repeated
  <2>3. lead = sign
    <3>1. CASE v < 0
      BY <2>2, <3>1
    <3>2. CASE ~(v < 0) /\ signed
      <4>1. Repeat("+", 1) = <<Ch("+")>> /\ Repeat(" ", 1) = <<Ch(" ")>>
        BY <2>2
      <4> QED
        BY <3>2, <4>1, Zenon
    <3>3. CASE ~(v < 0) /\ ~signed
      <4>1. ~d.plus /\ ~d.space
        BY <1>3, <3>3
      <4>2. lead = <<>>
        BY <3>3, <4>1, Zenon
      <4>3. sign = <<>>
        BY <3>3, Zenon
      <4> QED
        BY <4>2, <4>3
    <3> QED
      BY <3>1, <3>2, <3>3
  <2> HIDE DEF lead, text, sign
  <2> QED
    BY <1>8, <2>1, <2>3
<1>11. d.zero => sign = <<>>
  BY <1>1, <1>4
<1>12. IntStr(Taken(slot, d), base, d, width) =
         IF d.left THEN (sign \o digits) \o Repeat(mark, room) ELSE Repeat(mark, room) \o (sign \o digits)
  <2>1. Len(sign \o digits) = Len(sign) + Len(digits) /\ Len(sign) \in Nat /\ Len(digits) \in Nat
    <3> HIDE DEF A, sign
    <3> QED
      BY <1>9
  <2> HIDE DEF sign, text
  <2>2. missing = fill /\ fill \in Int
    BY <1>10, <2>1
  <2> HIDE DEF missing, fill, mark
  <2>3. (IF missing < 0 THEN 0 ELSE missing) = room
    BY <2>2
  <2> HIDE DEF room
  <2> QED
    BY <1>5, <1>10, <2>3
<1>13. room \in Nat
  <2>1. fill \in Int
    <3>1. Len(sign) \in Nat /\ Len(digits) \in Nat
      <4> HIDE DEF A, sign
      <4> QED
        BY <1>9
    <3> HIDE DEF sign
    <3> QED
      BY <3>1
  <2> HIDE DEF fill
  <2> QED
    BY <2>1
<1>14. /\ Repeat(mark, room) \in Seq(A)
       /\ Repeat(mark, room) \o (sign \o digits) = (Repeat(mark, room) \o sign) \o digits
  <2>1. Ch(mark) \in A
    OBVIOUS
  <2>2. sign \in Seq(A) /\ digits \in Seq(A)
    BY <1>9
  <2> DEFINE r == Repeat(mark, room)
  <2> HIDE DEF room, sign, A, mark, fill, text, missing, padding
  <2>3. r \in Seq(A)
    BY <1>13, <2>1, PaddingText
  <2>4. (r \o sign) \o digits = r \o (sign \o digits)
    <3> HIDE DEF r
    <3>1. Regrouped(r, sign, digits)
      BY <2>2, <2>3, ThreeTexts, SMTT(30)
    <3> QED
      BY <3>1 DEF Regrouped
  <2> QED
    BY <2>3, <2>4
<1> HIDE DEF room, A
<1>15. ASSUME d.left PROVE IntStr(Taken(slot, d), base, d, width) = CText(slot, d, width)
  <2>1. mark = " "
    BY <1>4, <1>15
  <2> QED
    BY <1>6, <1>12, <1>15, <2>1
<1>16. ASSUME ~d.left /\ d.zero PROVE IntStr(Taken(slot, d), base, d, width) = CText(slot, d, width)
  <2> DEFINE r == Repeat(mark, room)
  <2>1. mark = "0" /\ sign = <<>>
    BY <1>11, <1>16, SMTT(30)
  <2>2. CText(slot, d, width) = sign \o r \o digits
    BY <1>6, <1>16, <2>1
  <2> HIDE DEF r, sign, mark
  <2>3. r \in Seq(A)
    BY <1>14 DEF r
  <2>4. <<>> \o digits = digits /\ <<>> \o r = r
    BY <1>9, <2>3, ConcatEmptySeq
  <2>5. IntStr(Taken(slot, d), base, d, width) = r \o (sign \o digits)
    BY <1>12, <1>16, <2>1 DEF r
  <2> QED
    BY <2>1, <2>2, <2>4, <2>5
<1>17. ASSUME ~d.left /\ ~d.zero PROVE IntStr(Taken(slot, d), base, d, width) = CText(slot, d, width)
  <2>1. mark = " "
    BY <1>17
  <2>2. CText(slot, d, width) = Repeat(mark, room) \o sign \o digits
    BY <1>6, <1>17, <2>1
  <2> HIDE DEF mark, sign
  <2>3. IntStr(Taken(slot, d), base, d, width) = Repeat(mark, room) \o (sign \o digits)
    BY <1>12, <1>17, <2>1
  <2> QED
    BY <1>14, <2>2, <2>3
<1>18. IntStr(Taken(slot, d), base, d, width) = CText(slot, d, width)
  BY <1>15, <1>16, <1>17, Zenon
<1>19. CText(slot, d, width) \in Seq(A)
  <2> DEFINE r == Repeat(mark, room)
             t == IF d.left THEN (sign \o digits) \o r ELSE r \o (sign \o digits)
  <2>1. CText(slot, d, width) = t
    BY <1>12, <1>18
  <2>2. r \in Seq(A) /\ digits \in Seq(A) /\ sign \in Seq(A)
    BY <1>9, <1>14
  <2> HIDE DEF r, sign
  <2>3. t \in Seq(A)
    <3>1. (sign \o digits) \o r \in Seq(A) /\ r \o (sign \o digits) \in Seq(A)
      BY <2>2, ConcatProperties
    <3> QED
      BY <3>1
  <2> HIDE DEF t
  <2> QED
    BY <2>1, <2>3
<1> QED
  BY <1>18, <1>19 DEF base

\* A number below the base has one digit.
LEMMA OneDigit ==
  ASSUME NEW base \in {8, 10, 16, 17}, NEW n \in Nat, n < Radix(base)
  PROVE  Numeral(n, base) = <<Digit(n, base)>>
<1> DEFINE t == Numeral(n, base)
           b == Radix(base)
           l == Len(t)
           d == Digit(n, base)
<1>1. b \in Nat \ {0} /\ b >= 2
  BY DEF Radix
<1>2. /\ t \in Seq(DigitsOf(base)) /\ l \in Nat /\ l >= 1 /\ (l > 1 => n >= Power(b, l - 1))
      /\ \A k \in 1 .. l : t[k] = Digit((n \div Power(b, l - k)) % b, base)
  BY NumeralSpells DEF Spells
<1> HIDE DEF t
<1>3. /\ Power(b, 0) = 1 /\ Power(b, 0 + 1) = b * Power(b, 0)
      /\ \A k, m \in Nat : k <= m => Power(b, k) <= Power(b, m)
      /\ \A k \in Nat : Power(b, k) \in Nat
  BY <1>1, Powers, PowersGrow
<1> HIDE DEF b, d, l
<1>4. l = 1
  <2>3. l \in Nat /\ l >= 1
    BY <1>2
  <2> SUFFICES ASSUME l > 1 PROVE FALSE
    BY <2>3
  <2>1. l - 1 \in Nat /\ 1 <= l - 1 /\ 0 + 1 = 1 /\ b * 1 = b
    BY <1>1, <1>2
  <2>2. Power(b, 1) = b /\ Power(b, 1) <= Power(b, l - 1) /\ Power(b, l - 1) \in Nat
    BY <1>3, <2>1
  <2>4. n < b
    BY DEF b
  <2> QED
    BY <1>1, <1>2, <2>2, <2>4
<1>5. t[1] = d
  <2>1. t[1] = Digit((n \div Power(b, 0)) % b, base)
    <3>1. 1 \in 1 .. l /\ l - 1 = 0
      BY <1>4
    <3> QED
      BY <1>2, <3>1
  <2>2. (n \div 1) % b = n
    <3>1. n \div 1 = n /\ n < b
      BY DEF b
    <3> QED
      BY <1>1, <3>1
  <2> QED
    BY <1>3, <2>1, <2>2 DEF d
<1>6. t = <<d>>
  BY <1>2, <1>4, <1>5 DEF l
<1> QED
  BY <1>6 DEF t, d

\* What C says of a plain %x or %u.
LEMMA PlainText ==
  ASSUME NEW n \in Nat, n < Power(2, IntBits), NEW c \in {"x", "u"}
  PROVE  LET base == IF c = "x" THEN 16 ELSE 10 IN
         /\ Supported(Num(n), Directive(c), 0)
         /\ CText(Num(n), Directive(c), 0) = CDigits(n, base, Small)
<1> DEFINE d == Directive(c)
           slot == Num(n)
           base == IF c = "x" THEN 16 ELSE 10
           digits == CDigits(n, base, Small)
<1>1. /\ d.specifier = c /\ d.length = "" /\ ~d.alt /\ ~d.zero /\ ~d.left /\ ~d.plus /\ ~d.space
      /\ slot.num = n
  BY DEF Directive, Num
<1> HIDE DEF d, slot
<1>2. CValue(slot, d) = n
  <2>1. CValue(slot, d) = Unsigned(n, IntBits)
    BY <1>1 DEF CValue, BitsOf
  <2>2. Unsigned(n, IntBits) = n
    BY Converted
  <2> QED
    BY <2>1, <2>2
<1>3. n < Power(2, LongBits - 1) /\ n # -Power(2, LongBits - 1)
  <2>1. Power(2, IntBits) <= Power(2, LongBits - 1) /\ Power(2, IntBits) \in Nat /\ Power(2, LongBits - 1) \in Nat
    BY Widths
  <2> QED
    BY <2>1
<1>4. Supported(slot, d, 0)
  <2>1. d.specifier \in {"d", "i", "u", "x", "X", "o"} /\ d.length \notin {"hh", "L"} /\ 0 >= 0
    <3>1. c \in {"d", "i", "u", "x", "X", "o"} /\ "" \notin {"hh", "L"} /\ 0 >= 0
      OBVIOUS
    <3> QED
      BY <1>1, <3>1, Zenon
  <2>2. CValue(slot, d) < Power(2, LongBits - 1) /\ CValue(slot, d) # -Power(2, LongBits - 1)
    BY <1>2, <1>3
  <2> QED
    BY <1>1, <2>1, <2>2, Zenon DEF Supported
<1>5. digits \in Seq(DigitsOf(IF c = "x" THEN 17 ELSE 10)) /\ Len(digits) \in Nat
  <2> DEFINE place == IF c = "x" THEN 17 ELSE 10
  <2>1. place \in {8, 10, 16, 17} /\ Radix(place) = base /\ Marked(Small, place)
    BY MarksAgree DEF Radix
  <2>2. n < Power(2, LongBits)
    <3>1. Power(2, LongBits - 1) \in Nat /\ Power(2, LongBits) = 2 * Power(2, LongBits - 1)
      BY Widths
    <3> QED
      BY <1>3, <3>1
  <2> HIDE DEF place, digits
  <2>3. Numeral(n, place) = CDigits(n, Radix(place), Small) /\ Len(Numeral(n, place)) \in Nat
        /\ Numeral(n, place) \in Seq(DigitsOf(place))
    BY <2>1, <2>2, DigitsAsC
  <2>4. digits = CDigits(n, Radix(place), Small)
    BY <2>1 DEF digits
  <2> QED
    BY <2>3, <2>4 DEF place
<1>6. CText(slot, d, 0) = Repeat(" ", 0) \o <<>> \o digits
  <2> DEFINE v == CValue(slot, d)
             marks == IF d.specifier = "X" THEN Capital ELSE Small
             radix == CASE d.specifier = "o" -> 8 [] d.specifier \in {"x", "X"} -> 16 [] OTHER -> 10
             D == CDigits(IF v < 0 THEN -v ELSE v, radix, marks)
             signed == d.specifier \in {"d", "i"}
             sign == IF v < 0 THEN <<Ch("-")>>
                     ELSE IF signed /\ d.plus THEN <<Ch("+")>>
                     ELSE IF signed /\ d.space THEN <<Ch(" ")>> ELSE <<>>
             fill == 0 - Len(sign) - Len(D)
             room == IF fill > 0 THEN fill ELSE 0
  <2>1. CText(slot, d, 0) =
          CASE d.left -> sign \o D \o Repeat(" ", room)
            [] ~d.left /\ d.zero -> sign \o Repeat("0", room) \o D
            [] OTHER -> Repeat(" ", room) \o sign \o D
    BY DEF CText
  <2>2. marks = Small /\ radix = base /\ sign = <<>> /\ ~(v < 0)
    <3>1. v = n /\ ~(v < 0)
      BY <1>2
    <3>2. marks = Small /\ radix = base
      BY <1>1
    <3>3. ~signed
      BY <1>1
    <3> HIDE DEF v, signed
    <3> QED
      BY <3>1, <3>2, <3>3
  <2>3. D = digits
    BY <1>2, <2>2
  <2> HIDE DEF D, sign, digits
  <2>4. room = 0
    <3>1. Len(sign) = 0 /\ Len(D) \in Nat
      BY <1>5, <2>2, <2>3
    <3> QED
      BY <3>1
  <2> HIDE DEF room
  <2>5. CText(slot, d, 0) = Repeat(" ", room) \o sign \o D
    BY <1>1, <2>1
  <2> QED
    BY <2>2, <2>3, <2>4, <2>5
<1>7. Repeat(" ", 0) = <<>> /\ <<>> \o <<>> = <<>>
  <2>1. Repeat(" ", 0) = <<>>
    BY Repeated
  <2>2. <<>> \in Seq({}) /\ <<>> \o <<>> = <<>>
    BY EmptySeq, ConcatEmptySeq
  <2> QED
    BY <2>1, <2>2
<1> HIDE DEF digits
<1>8. <<>> \o digits = digits
  BY <1>5, ConcatEmptySeq
<1>9. CText(slot, d, 0) = digits
  BY <1>6, <1>7, <1>8
<1> QED
  BY <1>4, <1>9 DEF slot, d, digits

-----------------------------------------------------------------------------
(* printf.                                                                 *)

\* printf goes through its format item by item.
LEMMA VprintfRuns ==
  ASSUME NEW format, NEW args, NEW N \in Nat, Len(format) = N,
         NEW s, s[0] = [out |-> <<>>, args |-> args],
         \A n \in 1 .. N : s[n] = Item(s[n - 1], format[n])
  PROVE  Vprintf(format, args) = s[N]
<1> DEFINE start == [out |-> <<>>, args |-> args]
           Goes(f) == f = [n \in 0 .. Len(format) |->
                            IF n = 0 THEN [out |-> <<>>, args |-> args] ELSE Item(f[n - 1], format[n])]
           after == CHOOSE f : Goes(f)
           Step(r, n) == Item(r, format[n])
           g == [n \in 0 .. N |-> s[n]]
<1>1. Vprintf(format, args) = after[N]
  BY DEF Vprintf
<1> HIDE DEF start, Step
<1>2. Goes(g)
  <2>1. ASSUME NEW n \in 0 .. N PROVE g[n] = IF n = 0 THEN start ELSE Step(g[n - 1], n)
    <3>1. CASE n = 0
      BY <3>1 DEF start
    <3>2. CASE n # 0
      <4>1. n \in 1 .. N /\ n - 1 \in 0 .. N
        BY <3>2
      <4>2. g[n - 1] = s[n - 1] /\ g[n] = s[n]
        BY <4>1
      <4> HIDE DEF g
      <4> QED
        BY <3>2, <4>1, <4>2 DEF Step
    <3> QED
      BY <3>1, <3>2
  <2>2. g = [n \in 0 .. N |-> g[n]]
    OBVIOUS
  <2> HIDE DEF g
  <2>3. g = [n \in 0 .. N |-> IF n = 0 THEN start ELSE Step(g[n - 1], n)]
    BY <2>1, <2>2
  <2> QED
    BY <2>3 DEF Step, start
<1>3. Goes(after)
  <2> HIDE DEF g, Goes
  <2> QED
    BY <1>2
<1> HIDE DEF after, g
<1>4. /\ \A n \in 0 .. N : after[n] = IF n = 0 THEN start ELSE Step(after[n - 1], n)
      /\ \A n \in 0 .. N : g[n] = IF n = 0 THEN start ELSE Step(g[n - 1], n)
  BY <1>2, <1>3 DEF Step, start
<1> HIDE DEF Goes
<1> DEFINE T == {n \in Nat : n <= N => after[n] = g[n]}
<1>5. 0 \in T
  BY <1>4
<1>6. ASSUME NEW n \in Nat, n \in T PROVE n + 1 \in T
  <2> SUFFICES ASSUME n + 1 <= N PROVE after[n + 1] = g[n + 1]
    OBVIOUS
  <2> DEFINE m == n + 1
  <2>1. m \in 0 .. N /\ m # 0 /\ m - 1 = n /\ n <= N
    OBVIOUS
  <2>2. after[n] = g[n]
    BY <1>6, <2>1
  <2> HIDE DEF m
  <2>3. after[m] = Step(after[m - 1], m) /\ g[m] = Step(g[m - 1], m)
    BY <1>4, <2>1
  <2>4. after[m] = g[m]
    BY <2>1, <2>2, <2>3
  <2> QED
    BY <2>4 DEF m
<1>7. N \in T
  <2> HIDE DEF T
  <2> QED
    BY <1>5, <1>6, Counting
<1> QED
  BY <1>1, <1>7 DEF g

\* The width a directive takes, and the arguments left for it.
WidthOf(s, d) == IF d.star THEN Signed(Head(s.args).num, IntBits) ELSE d.width
ArgsOf(s, d) == IF d.star THEN Tail(s.args) ELSE s.args

\* A supported directive takes its width if it has a star, then its argument, and writes
\* what C says.
LEMMA ConvertAsC ==
  ASSUME NEW s, NEW d, WidthOf(s, d) \in Int, Head(ArgsOf(s, d)).num \in Int,
         Supported(Head(ArgsOf(s, d)), d, WidthOf(s, d))
  PROVE  Convert(s, d) = [out |-> s.out \o CText(Head(ArgsOf(s, d)), d, WidthOf(s, d)),
                          args |-> Tail(ArgsOf(s, d))]
<1> DEFINE width == WidthOf(s, d)
           args == ArgsOf(s, d)
           slot == Head(args)
           Done(text) == [out |-> s.out \o text, args |-> Tail(args)]
           number == IntStr(Taken(slot, d), BaseOf(d.specifier), d, width)
<1> HIDE DEF width, args, slot
<1>1. d.specifier \in {"d", "i", "u", "x", "X", "o"} /\ d.length \notin {"hh", "L"} /\ ~d.alt
  BY DEF Supported
<1>2. SpecifierOf(d) \in Numbers /\ d.length # "L"
  BY <1>1 DEF SpecifierOf, Numbers
<1>3. Prefix(d) = <<>>
  BY <1>1 DEF Prefix
<1> USE DEF slot
<1>4. Convert(s, d) = Done(Prefix(d) \o number)
  <2> DEFINE w == IF d.star THEN Signed(Head(s.args).num, IntBits) ELSE d.width
             a == IF d.star THEN Tail(s.args) ELSE s.args
             Out(text) == [out |-> s.out \o text, args |-> Tail(a)]
  <2>1. SpecifierOf(d) \notin {"c", "s"}
    BY <1>1 DEF SpecifierOf
  <2>2. Convert(s, d) = Out(Prefix(d) \o IntStr(Taken(Head(a), d), BaseOf(d.specifier), d, w))
    BY <1>2, <2>1 DEF Convert
  <2>3. w = width /\ a = args
    BY DEF WidthOf, ArgsOf, width, args
  <2> HIDE DEF w, a, width, args
  <2> QED
    BY <2>2, <2>3
<1>5. number = CText(slot, d, width) /\ \E S : CText(slot, d, width) \in Seq(S)
  BY IntStrAsC DEF width, args
<1> HIDE DEF number
<1>6. <<>> \o number = number
  BY <1>5, ConcatEmptySeq
<1>7. Prefix(d) \o number = CText(slot, d, width)
  BY <1>3, <1>5, <1>6
<1> QED
  BY <1>4, <1>7 DEF width, args

\* A text around one directive.
LEMMA OnePrinted ==
  ASSUME NEW S, \A e \in S : e.kind # "directive", NEW before \in Seq(S), NEW e \in S,
         NEW d, d.kind = "directive", NEW args
  PROVE  Printf(before \o <<d>> \o <<e>>, args) =
           Append(Convert([out |-> before, args |-> args], d).out, e)
<1> DEFINE format == before \o <<d>> \o <<e>>
           l == Len(before)
           N == l + 2
           Before(n) == [out |-> SubSeq(before, 1, n), args |-> args]
           converted == Convert([out |-> before, args |-> args], d)
           last == [out |-> Append(converted.out, e), args |-> converted.args]
           s == [n \in 0 .. N |-> IF n <= l THEN Before(n) ELSE IF n = l + 1 THEN converted ELSE last]
           D == S \cup {d}
<1>1. l \in Nat /\ N \in Nat /\ l + 1 \in Nat
  BY LenProperties
<1>2. /\ Len(format) = N
      /\ \A n \in 1 .. l : format[n] = before[n] /\ before[n] \in S
      /\ format[l + 1] = d /\ format[l + 2] = e
  <2>1. before \in Seq(D)
    <3>1. S \subseteq D
      OBVIOUS
    <3> HIDE DEF D
    <3> QED
      BY <3>1, LargerSeq
  <2>2. d \in D /\ e \in D
    OBVIOUS
  <2> HIDE DEF D
  <2> QED
    BY <2>1, <2>2
<1> HIDE DEF format
<1>3. SubSeq(before, 1, 0) = <<>> /\ SubSeq(before, 1, l) = before
  OBVIOUS
<1>4. ASSUME NEW n \in 1 .. l PROVE SubSeq(before, 1, n) = Append(SubSeq(before, 1, n - 1), before[n])
  <2> DEFINE u == SubSeq(before, 1, n)
             v == SubSeq(before, 1, n - 1)
             w == Append(v, before[n])
  <2>1. before[n] \in S /\ n \in Nat /\ n - 1 \in Nat /\ n <= l
    BY <1>1, <1>2
  <2>2. u \in Seq(S) /\ Len(u) = n /\ \A k \in 1 .. n : u[k] = before[k]
    BY <2>1
  <2>3. v \in Seq(S) /\ Len(v) = n - 1 /\ \A k \in 1 .. n - 1 : v[k] = before[k]
    BY <2>1
  <2> HIDE DEF u, v
  <2>4. w \in Seq(S) /\ Len(w) = n /\ \A k \in 1 .. n - 1 : w[k] = v[k]
    BY <2>1, <2>3
  <2>5. w[n] = before[n]
    BY <2>1, <2>3
  <2> HIDE DEF w
  <2>6. \A k \in 1 .. Len(u) : u[k] = w[k]
    BY <2>1, <2>2, <2>3, <2>4, <2>5
  <2>7. u = w
    BY <2>2, <2>4, <2>6, SeqEqual
  <2> QED
    BY <2>7 DEF u, v, w
<1>5. s[0] = [out |-> <<>>, args |-> args]
  <2>1. s[0] = Before(0)
    BY <1>1
  <2> QED
    BY <1>3, <2>1
<1> HIDE DEF converted
<1>6. ASSUME NEW n \in 1 .. N PROVE s[n] = Item(s[n - 1], format[n])
  <2>1. CASE n <= l
    <3> DEFINE x == before[n]
    <3>1. s[n] = Before(n) /\ s[n - 1] = Before(n - 1)
      BY <1>1, <2>1
    <3>2. n \in 1 .. l
      BY <1>1, <2>1
    <3>3. format[n] = x /\ x.kind # "directive"
      BY <1>2, <3>2
    <3>4. Before(n) = [out |-> Append(SubSeq(before, 1, n - 1), x), args |-> args]
      BY <1>4, <3>2
    <3> HIDE DEF s, x
    <3> QED
      BY <3>1, <3>3, <3>4 DEF Item
  <2>2. CASE n = l + 1
    <3>1. s[n] = converted /\ s[n - 1] = Before(l)
      BY <1>1, <2>2
    <3>2. Before(l) = [out |-> before, args |-> args]
      BY <1>3
    <3>3. format[n] = d
      BY <1>2, <2>2
    <3> HIDE DEF s
    <3> QED
      BY <3>1, <3>2, <3>3 DEF Item, converted
  <2>3. CASE n = l + 2
    <3>1. s[n] = last /\ s[n - 1] = converted
      BY <1>1, <2>3
    <3>2. format[n] = e /\ e.kind # "directive"
      BY <1>2, <2>3
    <3> HIDE DEF s
    <3> QED
      BY <3>1, <3>2 DEF Item
  <2> QED
    BY <1>1, <2>1, <2>2, <2>3
<1>7. s[N] = last
  BY <1>1
<1> HIDE DEF s, N
<1>8. Vprintf(format, args) = s[N]
  BY <1>1, <1>2, <1>5, <1>6, VprintfRuns
<1>9. Printf(format, args) = Append(converted.out, e)
  BY <1>7, <1>8 DEF Printf
<1> QED
  BY <1>9 DEF format, converted

\* Three items.
LEMMA ThreePrinted ==
  ASSUME NEW a, NEW b, NEW c, NEW args
  PROVE  Printf(<<a, b, c>>, args) = Item(Item(Item([out |-> <<>>, args |-> args], a), b), c).out
<1> DEFINE format == <<a, b, c>>
           s0 == [out |-> <<>>, args |-> args]
           s1 == Item(s0, a)
           s2 == Item(s1, b)
           s3 == Item(s2, c)
           s == [n \in 0 .. 3 |-> IF n = 0 THEN s0 ELSE IF n = 1 THEN s1 ELSE IF n = 2 THEN s2 ELSE s3]
           N == 3
<1>1. Len(format) = N /\ format[1] = a /\ format[2] = b /\ format[3] = c /\ N \in Nat
  OBVIOUS
<1> HIDE DEF format
<1>2. s[0] = s0 /\ s[1] = s1 /\ s[2] = s2 /\ s[3] = s3
  <2> HIDE DEF s0, s1, s2, s3
  <2> QED
    OBVIOUS
<1> HIDE DEF s
<1>3. ASSUME NEW n \in 1 .. N PROVE s[n] = Item(s[n - 1], format[n])
  <2>1. CASE n = 1
    <3>1. n - 1 = 0
      BY <2>1
    <3> QED
      BY <1>1, <1>2, <2>1, <3>1
  <2>2. CASE n = 2
    <3>1. n - 1 = 1
      BY <2>2
    <3> HIDE DEF s1
    <3> QED
      BY <1>1, <1>2, <2>2, <3>1
  <2>3. CASE n = 3
    <3>1. n - 1 = 2
      BY <2>3
    <3> HIDE DEF s2
    <3> QED
      BY <1>1, <1>2, <2>3, <3>1
  <2> QED
    BY <2>1, <2>2, <2>3
<1>4. s[0] = [out |-> <<>>, args |-> args]
  BY <1>2
<1> HIDE DEF s0, s1, s2, s3, N
<1>5. Vprintf(format, args) = s[N]
  BY <1>1, <1>3, <1>4, VprintfRuns
<1> QED
  BY <1>2, <1>5 DEF Printf, format, s0, s1, s2, s3, N

\* One more text after a sequence of them.
LEMMA Appended ==
  ASSUME NEW S, NEW s \in Seq(S), NEW e \in S
  PROVE  /\ Append(s, e) \in Seq(S) /\ Len(Append(s, e)) = Len(s) + 1 /\ Len(s) \in Nat
         /\ \A i \in 1 .. Len(s) : Append(s, e)[i] = s[i]
         /\ Append(s, e)[Len(s) + 1] = e /\ Append(s, e) = s \o <<e>>
OBVIOUS

\* Two arguments.
LEMMA TwoArguments ==
  ASSUME NEW a, NEW b
  PROVE  Head(<<a>>) = a /\ Head(<<a, b>>) = a /\ Tail(<<a, b>>) = <<b>> /\ <<a>> \o <<b>> = <<a, b>>
<1>1. Head(<<a>>) = a /\ Head(<<a, b>>) = a
  OBVIOUS
<1>2. <<a>> \o <<b>> = <<a, b>>
  <2> DEFINE s == <<a>> \o <<b>>
             t == <<a, b>>
  <2>1. s \in Seq({a, b}) /\ Len(s) = 2 /\ s[1] = a /\ s[2] = b
    OBVIOUS
  <2>2. t \in Seq({a, b}) /\ Len(t) = 2 /\ t[1] = a /\ t[2] = b
    OBVIOUS
  <2> HIDE DEF s, t
  <2>3. \A k \in 1 .. Len(s) : s[k] = t[k]
    <3>1. \A k \in 1 .. 2 : k = 1 \/ k = 2
      OBVIOUS
    <3> QED
      BY <2>1, <2>2, <3>1
  <2>4. s = t
    BY <2>1, <2>2, <2>3, SeqEqual
  <2> QED
    BY <2>4 DEF s, t
<1>3. Tail(<<a, b>>) = <<b>>
  OBVIOUS
<1> QED
  BY <1>1, <1>2, <1>3, Zenon

\* An argument before two.
LEMMA ThreeArguments ==
  ASSUME NEW a, NEW b, NEW c
  PROVE  Head(<<a>> \o <<b, c>>) = a /\ Tail(<<a>> \o <<b, c>>) = <<b, c>>
<1>1. <<a>> \o <<b, c>> = <<a, b, c>>
  <2> DEFINE s == <<a>> \o <<b, c>>
             t == <<a, b, c>>
  <2>1. s \in Seq({a, b, c}) /\ Len(s) = 3 /\ s[1] = a /\ s[2] = b /\ s[3] = c
    OBVIOUS
  <2>2. t \in Seq({a, b, c}) /\ Len(t) = 3 /\ t[1] = a /\ t[2] = b /\ t[3] = c
    OBVIOUS
  <2> HIDE DEF s, t
  <2>3. \A k \in 1 .. Len(s) : s[k] = t[k]
    <3>1. \A k \in 1 .. 3 : k = 1 \/ k = 2 \/ k = 3
      OBVIOUS
    <3> QED
      BY <2>1, <2>2, <3>1
  <2>4. s = t
    BY <2>1, <2>2, <2>3, SeqEqual
  <2> QED
    BY <2>4 DEF s, t
<1>2. Head(<<a, b, c>>) = a
  OBVIOUS
<1>3. Tail(<<a, b, c>>) = <<b, c>>
  <2> DEFINE s == <<a, b, c>>
             t == <<b, c>>
             u == Tail(s)
  <2>1. s \in Seq({a, b, c}) /\ Len(s) = 3 /\ s[2] = b /\ s[3] = c
    OBVIOUS
  <2>2. t \in Seq({a, b, c}) /\ Len(t) = 2 /\ t[1] = b /\ t[2] = c
    OBVIOUS
  <2> HIDE DEF s, t
  <2>3. u \in Seq({a, b, c}) /\ Len(u) = 2 /\ u[1] = s[2] /\ u[2] = s[3]
    <3>1. s # <<>>
      BY <2>1, EmptySeq
    <3>2. /\ u \in Seq({a, b, c}) /\ Len(u) = Len(s) - 1
          /\ \A i \in 1 .. Len(u) : u[i] = s[i + 1]
      BY <2>1, <3>1, HeadTailProperties
    <3>3. Len(s) - 1 = 2 /\ 1 \in 1 .. 2 /\ 2 \in 1 .. 2 /\ 1 + 1 = 2 /\ 2 + 1 = 3
      BY <2>1
    <3> HIDE DEF u
    <3> QED
      BY <3>2, <3>3
  <2> HIDE DEF u
  <2>4. \A k \in 1 .. Len(u) : u[k] = t[k]
    <3>1. \A k \in 1 .. 2 : k = 1 \/ k = 2
      OBVIOUS
    <3> QED
      BY <2>1, <2>2, <2>3, <3>1
  <2>5. u = t
    BY <2>2, <2>3, <2>4, SeqEqual
  <2> QED
    BY <2>5 DEF s, t, u
<1> QED
  BY <1>1, <1>2, <1>3, Zenon

\* printf with a supported directive, a comma and %u of 7.
LEMMA DirectivePrinted ==
  ASSUME NEW d \in Directives, NEW slot \in Slots,
         NEW width \in IF d.star THEN {-1, 3} ELSE {d.width}, Supported(slot, d, width)
  PROVE  Printf(<<d, Ch(","), Directive("u")>>,
                (IF d.star THEN <<Num(width)>> ELSE <<>>) \o <<slot, Num(7)>>)
           = CText(slot, d, width) \o <<Ch(","), Ch("7")>>
<1> DEFINE u == Directive("u")
           comma == Ch(",")
           seven == Num(7)
           rest == <<slot, seven>>
           args == (IF d.star THEN <<Num(width)>> ELSE <<>>) \o rest
           start == [out |-> <<>>, args |-> args]
           text == CText(slot, d, width)
           one == Item(start, d)
           two == Item(one, comma)
           three == Item(two, u)
<1>1. d.kind = "directive" /\ d.width \in Nat /\ slot.num \in Nat
  BY DirectivesAssumption
<1>2. width \in Int /\ width >= 0
  <2>1. width \in Int
    BY <1>1
  <2> QED
    BY <2>1 DEF Supported
<1>3. Head(rest) = slot /\ Tail(rest) = <<seven>>
  <2> HIDE DEF seven
  <2> QED
    BY TwoArguments
<1>4. WidthOf(start, d) = width
  <2>1. CASE d.star
    <3> DEFINE first == Num(width)
    <3>1. first.num = width /\ start.args = args
      BY DEF Num
    <3>2. width = 3
      BY <1>2, <2>1
    <3>3. 8 <= Power(2, IntBits - 1) /\ Power(2, IntBits - 1) \in Nat
      BY Widths
    <3>4. Signed(width, IntBits) = width
      BY <3>2, <3>3, Converted
    <3>5. args = <<first>> \o <<slot, seven>>
      BY <2>1
    <3> HIDE DEF first, args, seven, start
    <3>6. Head(args) = first
      <4>1. Head(<<first>> \o <<slot, seven>>) = first
        BY ThreeArguments, Zenon
      <4> QED
        BY <3>5, <4>1, Zenon
    <3> QED
      BY <2>1, <3>1, <3>4, <3>6 DEF WidthOf
  <2>2. CASE ~d.star
    BY <2>2 DEF WidthOf
  <2> QED
    BY <2>1, <2>2
<1>5. ArgsOf(start, d) = rest
  <2>1. CASE d.star
    <3> DEFINE first == Num(width)
    <3>1. args = <<first>> \o <<slot, seven>> /\ start.args = args
      BY <2>1
    <3> HIDE DEF first, args, seven, start
    <3>2. Tail(args) = <<slot, seven>>
      <4>1. Tail(<<first>> \o <<slot, seven>>) = <<slot, seven>>
        BY ThreeArguments, Zenon
      <4> QED
        BY <3>1, <4>1, Zenon
    <3> QED
      BY <2>1, <3>1, <3>2 DEF ArgsOf
  <2>2. CASE ~d.star
    <3> HIDE DEF seven
    <3>1. <<>> \o rest = rest
      OBVIOUS
    <3> QED
      BY <2>2, <3>1 DEF ArgsOf
  <2> QED
    BY <2>1, <2>2
<1> HIDE DEF args, rest
<1>6. one = [out |-> <<>> \o text, args |-> <<seven>>]
  <2>1. start.out = <<>>
    OBVIOUS
  <2>2. one = Convert(start, d)
    BY <1>1 DEF Item
  <2> HIDE DEF start, one
  <2>3. Convert(start, d) = [out |-> start.out \o CText(Head(ArgsOf(start, d)), d, WidthOf(start, d)),
                             args |-> Tail(ArgsOf(start, d))]
    <3>1. WidthOf(start, d) \in Int /\ Head(ArgsOf(start, d)).num \in Int
      BY <1>1, <1>2, <1>3, <1>4, <1>5
    <3>2. Supported(Head(ArgsOf(start, d)), d, WidthOf(start, d))
      BY <1>3, <1>4, <1>5
    <3> QED
      BY <3>1, <3>2, ConvertAsC, Zenon
  <2> QED
    BY <1>3, <1>4, <1>5, <2>1, <2>2, <2>3
<1>7. PICK S : text \in Seq(S)
  BY <1>1, <1>2, IntStrAsC
<1>8. one = [out |-> text, args |-> <<seven>>]
  <2>1. <<>> \o text = text
    BY <1>7, ConcatEmptySeq
  <2> QED
    BY <1>6, <2>1
<1> HIDE DEF one, text
<1>9. two = [out |-> Append(text, comma), args |-> <<seven>>]
  <2>1. comma.kind # "directive"
    BY DEF Ch
  <2> HIDE DEF comma
  <2> QED
    BY <1>8, <2>1 DEF Item
<1> HIDE DEF two
<1>10. 7 < Power(2, IntBits)
  <2>1. Power(2, IntBits - 1) \in Nat /\ Power(2, IntBits) = 2 * Power(2, IntBits - 1) /\ Power(2, IntBits - 1) >= 8
    BY Widths
  <2> QED
    BY <2>1
<1>11. Supported(seven, u, 0) /\ CText(seven, u, 0) = <<Ch("7")>>
  <2>1. Supported(seven, u, 0) /\ CText(seven, u, 0) = CDigits(7, 10, Small)
    BY <1>10, PlainText
  <2>2. Radix(10) = 10 /\ Numeral(7, 10) = <<Digit(7, 10)>>
    <3>1. 7 < Radix(10) /\ Radix(10) = 10
      BY DEF Radix
    <3> QED
      BY <3>1, OneDigit
  <2>3. Numeral(7, 10) = CDigits(7, Radix(10), Small)
    <3>1. Power(2, LongBits - 1) \in Nat /\ Power(2, LongBits) = 2 * Power(2, LongBits - 1) /\ Power(2, LongBits - 1) >= 8
      BY Widths
    <3>2. 7 < Power(2, LongBits)
      BY <3>1
    <3> QED
      BY <3>2, DigitsAsC, MarksAgree
  <2>4. Digit(7, 10) = Ch("7")
    BY DEF Digit, Capital
  <2> QED
    BY <2>1, <2>2, <2>3, <2>4
<1>12. three = [out |-> Append(text, comma) \o <<Ch("7")>>, args |-> Tail(<<seven>>)]
  <2>1. u.kind = "directive" /\ ~u.star /\ u.width = 0
    BY DEF Directive
  <2>2. seven.num = 7
    BY DEF Num
  <2>3. three = Convert(two, u)
    BY <2>1 DEF Item
  <2> HIDE DEF u, seven, three, comma
  <2>4. two.args = <<seven>> /\ two.out = Append(text, comma) /\ Head(<<seven>>) = seven
    BY <1>9, TwoArguments
  <2>5. WidthOf(two, u) = 0 /\ ArgsOf(two, u) = two.args
    BY <2>1 DEF WidthOf, ArgsOf
  <2>6. Convert(two, u) = [out |-> two.out \o CText(Head(ArgsOf(two, u)), u, WidthOf(two, u)),
                           args |-> Tail(ArgsOf(two, u))]
    <3>1. WidthOf(two, u) \in Int /\ Head(ArgsOf(two, u)).num \in Int
      BY <2>2, <2>4, <2>5
    <3>2. Supported(Head(ArgsOf(two, u)), u, WidthOf(two, u))
      BY <1>11, <2>4, <2>5
    <3> QED
      BY <3>1, <3>2, ConvertAsC, Zenon
  <2> QED
    BY <1>11, <2>3, <2>4, <2>5, <2>6
<1>13. Append(text, comma) \o <<Ch("7")>> = text \o <<comma, Ch("7")>>
  <2> DEFINE x == Ch("7")
             A == S \cup {comma, x}
  <2>1. S \subseteq A /\ comma \in A /\ x \in A
    OBVIOUS
  <2> HIDE DEF A, comma, x
  <2>2. text \in Seq(A)
    BY <1>7, <2>1, LargerSeq
  <2>3. Append(text, comma) = text \o <<comma>> /\ <<comma>> \in Seq(A) /\ <<x>> \in Seq(A)
    BY <2>1, <2>2
  <2>4. (text \o <<comma>>) \o <<x>> = text \o (<<comma>> \o <<x>>)
    BY <2>2, <2>3, ConcatAssociative
  <2>5. <<comma>> \o <<x>> = <<comma, x>>
    BY TwoArguments
  <2>6. Append(text, comma) \o <<x>> = text \o <<comma, x>>
    BY <2>3, <2>4, <2>5
  <2> QED
    BY <2>6 DEF x
<1>14. Printf(<<d, comma, u>>, args) = three.out
  BY ThreePrinted, ZenonT(60) DEF one, two
<1> HIDE DEF three
<1>15. Printf(<<d, comma, u>>, args) = text \o <<comma, Ch("7")>>
  BY <1>12, <1>13, <1>14
<1> QED
  BY <1>15 DEF u, comma, text, args, rest, seven

\* printf writes what C says of every directive it supports, whatever the widths of the
\* types, and goes on with the next argument.
THEOREM PrintfIsC ==
  PanicSpec => []PrintsAsC
<1>1. PanicInit => PrintsAsC
  BY DEF PanicInit, PrintsAsC
<1>2. PrintsAsC /\ [PanicNext]_allVars => PrintsAsC'
  <2> SUFFICES ASSUME PrintsAsC, [PanicNext]_allVars PROVE PrintsAsC'
    OBVIOUS
  <2>1. ASSUME pc' # "printed" PROVE PrintsAsC'
    BY <2>1 DEF PrintsAsC
  <2>2. ASSUME UNCHANGED <<pc, conversion>> PROVE PrintsAsC'
    BY <2>2 DEF PrintsAsC
  <2>3. CASE UNCHANGED allVars \/ Program
    BY <2>2, <2>3 DEF allVars, panicVars, Program
  <2>4. CASE Exception \/ ReadRegisters \/ PrintFunction \/ Halt
    BY <2>1, <2>4 DEF Exception, ReadRegisters, PrintFunction, Halt
  <2>5. CASE PrintReport \/ PrintCaller
    BY <2>2, <2>5 DEF PrintReport, PrintCaller
  <2>6. CASE PrintfAlone
    <3>1. PICK d \in Directives, slot \in Slots :
            \E width \in IF d.star THEN {-1, 3} ELSE {d.width} :
              conversion' =
                [directive |-> d, width |-> width, slot |-> slot,
                 text |-> Printf(<<d, Ch(","), Directive("u")>>,
                                 (IF d.star THEN <<Num(width)>> ELSE <<>>) \o <<slot, Num(7)>>)]
      BY <2>6 DEF PrintfAlone
    <3>2. PICK width \in IF d.star THEN {-1, 3} ELSE {d.width} :
              conversion' =
                [directive |-> d, width |-> width, slot |-> slot,
                 text |-> Printf(<<d, Ch(","), Directive("u")>>,
                                 (IF d.star THEN <<Num(width)>> ELSE <<>>) \o <<slot, Num(7)>>)]
      BY <3>1
    <3> DEFINE text == Printf(<<d, Ch(","), Directive("u")>>,
                              (IF d.star THEN <<Num(width)>> ELSE <<>>) \o <<slot, Num(7)>>)
    <3>3. Supported(slot, d, width) => text = CText(slot, d, width) \o <<Ch(","), Ch("7")>>
      BY DirectivePrinted
    <3>4. conversion' = [directive |-> d, width |-> width, slot |-> slot, text |-> text]
      BY <3>2
    <3> HIDE DEF text
    <3>5. /\ conversion'.directive = d /\ conversion'.width = width
          /\ conversion'.slot = slot /\ conversion'.text = text
      BY <3>4
    <3> QED
      BY <3>3, <3>5 DEF PrintsAsC
  <2> QED
    BY <2>3, <2>4, <2>5, <2>6 DEF PanicNext, Handler
<1> QED
  BY <1>1, <1>2, PTL DEF PanicSpec

-----------------------------------------------------------------------------
(* What the report tells.                                                  *)

\* A %x after some text and before a newline prints the digits of its number.
LEMMA HexPrinted ==
  ASSUME NEW before \in {Tabs(1), Tabs(2), Entry}, NEW n \in Nat, n < Power(2, IntBits)
  PROVE  Hex(before, n) = before \o CDigits(n, 16, Small) \o Newlines(1)
<1> DEFINE newline == [kind |-> "newline"]
           tab == [kind |-> "tab"]
           mark == Ch(">")
           S == {newline, tab, mark}
           d == Directive("x")
           slot == Num(n)
           start == [out |-> before, args |-> <<slot>>]
           digits == CDigits(n, 16, Small)
<1>1. \A e \in S : e.kind # "directive"
  BY DEF Ch
<1>2. newline \in S /\ tab \in S /\ mark \in S
  OBVIOUS
<1>3. Newlines(1) = <<newline>>
  <2> DEFINE N == Newlines(1)
             t == <<newline>>
  <2>1. N = [k \in 1 .. 1 |-> newline]
    BY DEF Newlines
  <2> HIDE DEF newline
  <2>2. N \in [1 .. 1 -> {newline}] /\ N[1] = newline
    BY <2>1
  <2>3. N \in Seq({newline}) /\ DOMAIN N = 1 .. 1
    <3>1. \A m \in Nat : N \in [1 .. m -> {newline}] => N \in Seq({newline})
      BY SeqDef
    <3> HIDE DEF N
    <3> QED
      BY <2>2, <3>1
  <2>4. t \in Seq({newline}) /\ Len(t) = 1 /\ t[1] = newline
    OBVIOUS
  <2> HIDE DEF N, t
  <2>5. Len(N) = 1
    BY <2>3, LenProperties
  <2>6. N = t
    BY <2>2, <2>3, <2>4, <2>5, SeqEqual
  <2> QED
    BY <2>6 DEF N, t
<1> HIDE DEF S, newline
<1>4. \A k \in Nat : Tabs(k) \in Seq(S)
  <2> SUFFICES ASSUME NEW k \in Nat PROVE Tabs(k) \in Seq(S)
    OBVIOUS
  <2>1. Tabs(k) = [i \in 1 .. k |-> tab]
    BY DEF Tabs
  <2> HIDE DEF tab
  <2>2. Tabs(k) \in [1 .. k -> S]
    BY <1>2, <2>1
  <2> QED
    BY <2>2, SeqDef
<1>5. before \in Seq(S)
  <2>1. Entry \in Seq(S)
    <3>1. Tabs(3) \in Seq(S)
      BY <1>4
    <3> DEFINE t == Tabs(3)
    <3> HIDE DEF t, mark
    <3>2. t \in Seq(S)
      BY <3>1 DEF t
    <3>3. t \o <<mark>> \in Seq(S)
      BY <1>2, <3>2
    <3> QED
      BY <3>3 DEF Entry, t, mark
  <2> QED
    BY <1>4, <2>1
<1> HIDE DEF mark, tab
<1>6. d.kind = "directive" /\ ~d.star /\ d.width = 0 /\ slot.num = n
  BY DEF Directive, Num
<1>7. Supported(slot, d, 0) /\ CText(slot, d, 0) = digits
  BY PlainText
<1>8. PICK D : digits \in Seq(D)
  <2>1. \E D : CText(slot, d, 0) \in Seq(D)
    BY <1>6, <1>7, IntStrAsC
  <2> QED
    BY <1>7, <2>1
<1> HIDE DEF d, slot, digits
<1>9. Convert(start, d).out = before \o digits
  <2>1. start.out = before /\ start.args = <<slot>> /\ Head(<<slot>>) = slot
    BY TwoArguments
  <2> HIDE DEF start
  <2>2. WidthOf(start, d) = 0 /\ Head(ArgsOf(start, d)) = slot
    BY <1>6, <2>1 DEF WidthOf, ArgsOf
  <2>3. WidthOf(start, d) \in Int /\ Head(ArgsOf(start, d)).num \in Int
    BY <1>6, <2>2
  <2>4. Supported(Head(ArgsOf(start, d)), d, WidthOf(start, d))
    BY <1>7, <2>2
  <2>5. Convert(start, d) = [out |-> start.out \o CText(Head(ArgsOf(start, d)), d, WidthOf(start, d)),
                             args |-> Tail(ArgsOf(start, d))]
    BY <2>3, <2>4, ConvertAsC, Zenon
  <2>6. Convert(start, d) = [out |-> before \o digits, args |-> Tail(ArgsOf(start, d))]
    BY <1>7, <2>1, <2>2, <2>5, Zenon
  <2> QED
    BY <2>6
<1> DEFINE c == Convert(start, d).out
<1>10. Printf(before \o <<d>> \o <<newline>>, <<slot>>) = Append(c, newline)
  BY <1>1, <1>2, <1>5, <1>6, OnePrinted
<1> HIDE DEF c, start
<1>11. Append(before \o digits, newline) = before \o digits \o <<newline>>
  <2> DEFINE A == S \cup D
             t == before \o digits
  <2>1. S \subseteq A /\ D \subseteq A
    OBVIOUS
  <2> HIDE DEF A
  <2>2. before \in Seq(A) /\ digits \in Seq(A) /\ newline \in A
    BY <1>2, <1>5, <1>8, <2>1
  <2>3. t \in Seq(A)
    BY <2>2, ConcatProperties
  <2> HIDE DEF t
  <2>4. Append(t, newline) = t \o <<newline>>
    BY <2>2, <2>3, Appended
  <2> QED
    BY <2>4 DEF t
<1>12. Hex(before, n) = Printf(before \o <<d>> \o <<newline>>, <<slot>>)
  BY <1>3 DEF Hex, d, slot
<1>13. Hex(before, n) = before \o digits \o <<newline>>
  BY <1>9, <1>10, <1>11, <1>12 DEF c, start
<1> QED
  BY <1>3, <1>13 DEF digits

\* What the report on an exception shows first, and last.
LEMMA ReportParts ==
  ASSUME NEW c \in Crashes, crash = c, regs = RegistersOf(c)
  PROVE  /\ Report \in Seq(ReportTexts) /\ Len(Report) \in Nat /\ Len(Report) >= 3
         /\ Report[1] = Message(c.vector)
         /\ Report[2] = Hex(Tabs(1), IF c.vector \in PushErrorCode THEN c.error ELSE 0)
         /\ c.vector = 14 => Report[3] = Hex(Tabs(2), c.fault)
         /\ Report[Len(Report)] = Hex(Entry, c.addr[1])
<1> DEFINE error == IF c.vector \in PushErrorCode THEN c.error ELSE 0
           S == ReportTexts
           R == Report
           message == Message(regs["interrupt_number"])
           number == Hex(Tabs(1), regs["error_code"])
           fault == Hex(Tabs(2), regs["cr2"])
           present == Label(IF Bit(regs["error_code"], 0) THEN "protected" ELSE "absent")
           executed == (IF Bit(regs["error_code"], 4) THEN <<Label("executed")>> ELSE <<>>)
           who == <<Label(IF Bit(regs["error_code"], 1) THEN "write" ELSE "read"),
                    Label(IF Bit(regs["error_code"], 2) THEN "userspace" ELSE "kernel")>>
           last == Hex(Entry, InstructionPointer)
           more == (IF regs["interrupt_number"] # 14 THEN <<>> ELSE <<fault, present>> \o executed \o who)
<1>1. /\ regs["error_code"] = error /\ regs["interrupt_number"] = c.vector
      /\ regs["cr2"] = c.fault /\ InstructionPointer = c.addr[1]
  BY RegistersRead, LinkedInstruction
<1>2. /\ message = Message(c.vector) /\ number = Hex(Tabs(1), error)
      /\ fault = Hex(Tabs(2), c.fault) /\ last = Hex(Entry, c.addr[1])
  BY <1>1
<1>3. R \in Seq(S)
  BY ReportTold
<1>4. R = <<message, number>> \o more \o <<last>>
  BY DEF Report
<1>5. message \in S /\ number \in S /\ fault \in S /\ last \in S
  BY <1>2, CrashesAssumption DEF ReportTexts
<1>6. \A n \in {"protected", "absent", "executed", "write", "read", "userspace", "kernel"} : Label(n) \in S
  BY DEF ReportTexts
<1>7. present \in S /\ executed \in Seq(S) /\ who \in Seq(S)
  BY <1>6
<1> HIDE DEF S, R, message, number, fault, present, executed, who, last, error
<1>8. more \in Seq(S) /\ (c.vector = 14 => Len(more) >= 1 /\ more[1] = fault)
  <2> DEFINE pair == <<fault, present>>
             rest == executed \o who
             all == pair \o executed \o who
  <2>1. pair \in Seq(S) /\ Len(pair) = 2 /\ pair[1] = fault /\ rest \in Seq(S)
    BY <1>5, <1>7
  <2>2. all = pair \o rest
    BY <1>7, <2>1, ConcatAssociative
  <2> HIDE DEF pair, rest, all
  <2>3. all \in Seq(S) /\ Len(all) >= 1 /\ all[1] = fault
    <3>1. 1 \in 1 .. Len(pair) /\ Len(rest) \in Nat
      BY <2>1, LenProperties
    <3>2. all \in Seq(S) /\ Len(all) = Len(pair) + Len(rest)
      BY <2>1, <2>2, ConcatProperties
    <3>3. all[1] = pair[1]
      <4>1. 1 \in 1 .. Len(pair) + Len(rest) /\ 1 <= Len(pair)
        BY <2>1, <3>1
      <4>2. \A k \in 1 .. Len(pair) + Len(rest) :
              all[k] = IF k <= Len(pair) THEN pair[k] ELSE rest[k - Len(pair)]
        BY <2>1, <2>2, ConcatProperties
      <4> QED
        BY <4>1, <4>2
    <3> QED
      BY <2>1, <3>1, <3>2, <3>3
  <2>4. <<>> \in Seq(S)
    OBVIOUS
  <2>5. more = IF c.vector # 14 THEN <<>> ELSE all
    BY <1>1 DEF all, pair
  <2> HIDE DEF more
  <2> QED
    BY <2>3, <2>4, <2>5
<1> HIDE DEF more
<1> DEFINE head == <<message, number>>
           front == head \o more
<1>9. head \in Seq(S) /\ Len(head) = 2 /\ head[1] = message /\ head[2] = number
  BY <1>5
<1> HIDE DEF head
<1>10. /\ front \in Seq(S) /\ Len(front) = 2 + Len(more) /\ Len(more) \in Nat
       /\ front[1] = message /\ front[2] = number
       /\ Len(more) >= 1 => front[3] = more[1]
  <2>1. more \in Seq(S) /\ head \in Seq(S)
    BY <1>8, <1>9
  <2>2. Len(more) \in Nat
    BY <2>1, LenProperties
  <2>3. /\ front \in Seq(S) /\ Len(front) = Len(head) + Len(more)
        /\ \A k \in 1 .. Len(head) + Len(more) :
             front[k] = IF k <= Len(head) THEN head[k] ELSE more[k - Len(head)]
    BY <2>1, ConcatProperties
  <2> HIDE DEF front
  <2> QED
    BY <1>9, <2>2, <2>3
<1>11. R = front \o <<last>>
  BY <1>4 DEF head
<1> HIDE DEF front
<1>12. /\ Len(R) = Len(front) + 1 /\ R[Len(front) + 1] = last
       /\ \A k \in 1 .. Len(front) : R[k] = front[k]
  <2>1. front \o <<last>> = Append(front, last)
    BY <1>5, <1>10, Appended
  <2> DEFINE a == Append(front, last)
  <2>2. Len(a) = Len(front) + 1 /\ a[Len(front) + 1] = last /\ \A k \in 1 .. Len(front) : a[k] = front[k]
    BY <1>5, <1>10, Appended
  <2> HIDE DEF a
  <2> QED
    BY <1>11, <2>1, <2>2 DEF a
<1>13. /\ Len(R) \in Nat /\ Len(R) >= 3 /\ R[Len(R)] = last /\ R[1] = message /\ R[2] = number
       /\ c.vector = 14 => R[3] = fault
  <2> DEFINE l == Len(front)
  <2>1. l \in Nat /\ l >= 2 /\ (c.vector = 14 => l >= 3 /\ front[3] = fault)
    BY <1>8, <1>10
  <2> HIDE DEF l
  <2>2. R[1] = message /\ R[2] = number
    <3>1. 1 \in 1 .. l /\ 2 \in 1 .. l
      BY <2>1
    <3> QED
      BY <1>10, <1>12, <3>1 DEF l
  <2>3. c.vector = 14 => R[3] = fault
    <3>1. c.vector = 14 => 3 \in 1 .. l
      BY <2>1
    <3> QED
      BY <1>12, <2>1, <3>1 DEF l
  <2>4. Len(R) = l + 1 /\ R[l + 1] = last
    BY <1>12 DEF l
  <2> QED
    BY <2>1, <2>2, <2>3, <2>4
<1> QED
  BY <1>2, <1>3, <1>13 DEF R, S, error

\* What is printed so far: the texts of the report, in order, and then a text for every
\* label of the trace.
ReportShown ==
  /\ pc \in {"program", "cleared"} => line = 0 /\ shown = <<>> /\ trace = <<>>
  /\ pc = "report" => Len(shown) = line /\ trace = <<>>
  /\ pc \in {"report", "trace", "halted"} =>
       /\ shown \in Seq(ReportTexts) /\ trace \in Seq(LabelNames)
       /\ \A k \in 1 .. Len(shown) : k <= Len(Report) => shown[k] = Report[k]
  /\ pc \in {"trace", "halted"} => Len(shown) = Len(Report) + Len(trace)

\* A label more.
LEMMA LabelShown ==
  ASSUME InReport, ReportShown, pc \in {"report", "trace"}, pc = "report" => line = Len(Report),
         NEW addr, ShowLabel(get_symbol_label(addr)), pc' = "trace", UNCHANGED <<regs, crash, line>>
  PROVE  ReportShown'
<1> DEFINE name == get_symbol_label(addr)
           text == Label(name)
           R == Report
           s == shown
           t == trace
           s1 == shown'
           t1 == trace'
<1>1. name \in LabelNames /\ text \in ReportTexts
  BY LabelTold
<1>2. s1 = Append(s, text) /\ t1 = Append(t, name)
  BY DEF ShowLabel, Show
<1>3. Report' = R
  BY DEF Report, InstructionPointer, kaslr_slide
<1>4. Len(R) \in Nat
  BY ReportParts DEF InReport
<1>5. /\ s \in Seq(ReportTexts) /\ t \in Seq(LabelNames) /\ Len(s) = Len(R) + Len(t)
      /\ \A k \in 1 .. Len(s) : k <= Len(R) => s[k] = R[k]
  <2>1. s \in Seq(ReportTexts) /\ t \in Seq(LabelNames) /\ \A k \in 1 .. Len(s) : k <= Len(R) => s[k] = R[k]
    BY DEF ReportShown
  <2>2. CASE pc = "report"
    <3>1. t = <<>> /\ Len(s) = Len(R) /\ Len(<<>>) = 0
      BY <2>2 DEF ReportShown
    <3> HIDE DEF R, s, t
    <3> QED
      BY <1>4, <2>1, <3>1
  <2>3. CASE pc = "trace"
    BY <2>1, <2>3 DEF ReportShown
  <2> QED
    BY <2>2, <2>3
<1> SUFFICES /\ s1 \in Seq(ReportTexts) /\ t1 \in Seq(LabelNames)
             /\ \A k \in 1 .. Len(s1) : k <= Len(R) => s1[k] = R[k]
             /\ Len(s1) = Len(R) + Len(t1)
  BY <1>3 DEF ReportShown
<1> HIDE DEF name, text, R, s, t, s1, t1
<1>6. /\ s1 \in Seq(ReportTexts) /\ Len(s1) = Len(s) + 1 /\ Len(s) \in Nat
      /\ \A k \in 1 .. Len(s) : s1[k] = s[k]
  <2>1. s \in Seq(ReportTexts) /\ text \in ReportTexts
    BY <1>1, <1>5
  <2>2. Len(s) \in Nat
    BY <2>1, LenProperties
  <2>3. /\ Append(s, text) \in Seq(ReportTexts) /\ Len(Append(s, text)) = Len(s) + 1
        /\ \A k \in 1 .. Len(s) : Append(s, text)[k] = s[k]
    BY <2>1, Appended
  <2> QED
    BY <1>2, <2>2, <2>3
<1>7. t1 \in Seq(LabelNames) /\ Len(t1) = Len(t) + 1 /\ Len(t) \in Nat
  <2>1. t \in Seq(LabelNames) /\ name \in LabelNames
    BY <1>1, <1>5
  <2>2. Len(t) \in Nat
    BY <2>1, LenProperties
  <2>3. Append(t, name) \in Seq(LabelNames) /\ Len(Append(t, name)) = Len(t) + 1
    BY <2>1, Appended
  <2> QED
    BY <1>2, <2>2, <2>3
<1>8. ASSUME NEW k \in 1 .. Len(s1), k <= Len(R) PROVE s1[k] = R[k]
  <2>1. k \in 1 .. Len(s)
    BY <1>4, <1>5, <1>6, <1>7, <1>8
  <2> QED
    BY <1>5, <1>6, <1>8, <2>1
<1> QED
  BY <1>4, <1>5, <1>6, <1>7, <1>8

\* A text of the report more.
LEMMA TextShown ==
  ASSUME InReport, ReportShown, PrintReport
  PROVE  ReportShown'
<1> DEFINE R == Report
           s == shown
           s1 == shown'
           n == line
           n1 == line'
           text == R[n + 1]
<1>1. /\ s1 = Append(s, text) /\ n1 = n + 1 /\ n < Len(R) /\ pc = "report" /\ pc' = "report"
      /\ trace' = trace /\ trace = <<>>
  BY DEF PrintReport, Show, ReportShown
<1>2. Report' = R
  BY DEF PrintReport, Report, InstructionPointer, kaslr_slide
<1>3. R \in Seq(ReportTexts) /\ Len(R) \in Nat
  BY <1>1, ReportParts DEF InReport
<1>4. /\ s \in Seq(ReportTexts) /\ Len(s) = n /\ n \in Nat
      /\ \A k \in 1 .. Len(s) : k <= Len(R) => s[k] = R[k]
  BY <1>1 DEF ReportShown, InReport
<1>5. <<>> \in Seq(LabelNames)
  OBVIOUS
<1> SUFFICES /\ Len(s1) = n1 /\ s1 \in Seq(ReportTexts)
             /\ \A k \in 1 .. Len(s1) : k <= Len(R) => s1[k] = R[k]
  BY <1>1, <1>2, <1>5 DEF ReportShown
<1> HIDE DEF R, s, s1, n, n1
<1>6. text \in ReportTexts
  <2>1. n + 1 \in 1 .. Len(R)
    BY <1>1, <1>3, <1>4
  <2> QED
    BY <1>3, <2>1, ElementOfSeq
<1> HIDE DEF text
<1>7. /\ s1 \in Seq(ReportTexts) /\ Len(s1) = Len(s) + 1
      /\ \A k \in 1 .. Len(s) : s1[k] = s[k]
      /\ s1[Len(s) + 1] = text
  BY <1>1, <1>4, <1>6, Appended
<1>8. ASSUME NEW k \in 1 .. Len(s1), k <= Len(R) PROVE s1[k] = R[k]
  <2>1. CASE k = n + 1
    BY <1>4, <1>7, <2>1 DEF text
  <2>2. CASE k # n + 1
    <3>1. k \in 1 .. Len(s)
      BY <1>4, <1>7, <1>8, <2>2
    <3> QED
      BY <1>4, <1>7, <1>8, <3>1
  <2> QED
    BY <2>1, <2>2
<1>9. Len(s1) = n1
  BY <1>1, <1>3, <1>4, <1>7
<1> QED
  BY <1>7, <1>8, <1>9

\* The report of every exception tells what happened, wherever the kernel was loaded.
THEOREM ReportTrue ==
  PanicSpec => []ReportTellsCrash
<1> DEFINE RInv == InReport /\ ReportShown
<1>1. PanicInit => RInv
  BY DEF PanicInit, InReport, ReportShown
<1>2. RInv /\ [PanicNext]_allVars => RInv'
  <2> SUFFICES ASSUME InReport, ReportShown, [PanicNext]_allVars PROVE RInv'
    OBVIOUS
  <2>1. InReport'
    BY ReportStays
  <2>2. ASSUME UNCHANGED <<regs, crash, line, shown, trace, pc>> PROVE ReportShown'
    <3>1. Report' = Report
      BY <2>2 DEF Report, InstructionPointer, kaslr_slide
    <3> QED
      BY <2>2, <3>1 DEF ReportShown
  <2>3. CASE UNCHANGED allVars \/ Program
    BY <2>1, <2>2, <2>3 DEF allVars, panicVars, Program
  <2>4. CASE PrintfAlone
    BY <2>1, <2>4 DEF PrintfAlone, ReportShown
  <2>5. CASE Exception
    BY <2>1, <2>5 DEF Exception, ReportShown
  <2>6. CASE ReadRegisters
    <3>1. pc = "cleared" /\ pc' = "report" /\ UNCHANGED <<line, shown, trace>>
      BY <2>6 DEF ReadRegisters
    <3>2. line = 0 /\ shown = <<>> /\ trace = <<>>
      BY <3>1 DEF ReportShown
    <3>3. /\ Len(<<>>) = 0 /\ <<>> \in Seq(ReportTexts) /\ <<>> \in Seq(LabelNames)
          /\ 1 .. 0 = {}
      OBVIOUS
    <3> QED
      BY <2>1, <3>1, <3>2, <3>3 DEF ReportShown
  <2>7. CASE PrintReport
    BY <2>1, <2>7, TextShown
  <2>8. CASE PrintFunction
    <3>1. /\ pc = "report" /\ line = Len(Report) /\ ShowLabel(get_symbol_label(InstructionPointer))
          /\ pc' = "trace" /\ UNCHANGED <<regs, crash, line>>
      BY <2>8 DEF PrintFunction
    <3> QED
      BY <2>1, <3>1, LabelShown
  <2>9. CASE PrintCaller
    <3>1. /\ pc = "trace" /\ ShowLabel(get_symbol_label(WordAbove(crash, rbp) - kaslr_slide))
          /\ pc' = "trace" /\ UNCHANGED <<regs, crash, line>>
      BY <2>9 DEF PrintCaller
    <3> QED
      BY <2>1, <3>1, LabelShown
  <2>10. CASE Halt
    <3>1. pc = "trace" /\ pc' = "halted" /\ UNCHANGED <<regs, crash, line, shown, trace>>
      BY <2>10 DEF Halt
    <3>2. Report' = Report
      BY <3>1 DEF Report, InstructionPointer, kaslr_slide
    <3> QED
      BY <2>1, <3>1, <3>2 DEF ReportShown
  <2> QED
    BY <2>3, <2>4, <2>5, <2>6, <2>7, <2>8, <2>9, <2>10 DEF PanicNext, Handler
<1>3. RInv => ReportTellsCrash
  <2> SUFFICES ASSUME InReport, ReportShown, pc = "halted" PROVE ReportTellsCrash
    BY DEF ReportTellsCrash
  <2> DEFINE R == Report
             l == Len(R)
             s == shown
             t == trace
             c == crash
             error == IF c.vector \in PushErrorCode THEN c.error ELSE 0
             first == c.addr[1]
             fault == c.fault
  <2>1. crash \in Crashes /\ regs = RegistersOf(crash)
    BY DEF InReport
  <2>2. /\ l \in Nat /\ l >= 3 /\ R[1] = Message(c.vector) /\ R[2] = Hex(Tabs(1), error)
        /\ c.vector = 14 => R[3] = Hex(Tabs(2), fault)
        /\ R[l] = Hex(Entry, first)
    BY <2>1, ReportParts
  <2>3. /\ t \in Seq(LabelNames) /\ Len(s) = l + Len(t)
        /\ \A k \in 1 .. Len(s) : k <= l => s[k] = R[k]
    BY DEF ReportShown
  <2>4. error \in Nat /\ error < Power(2, IntBits) /\ fault \in Nat
    <3>1. c.error \in Nat /\ c.fault \in Nat /\ c.error < Power(2, IntBits)
      BY <2>1, CrashesAssumption
    <3>2. 0 < Power(2, IntBits)
      <4>1. Power(2, IntBits) \in Nat /\ Power(2, IntBits) >= 1
        BY PowersGrow, PrintfAssumption
      <4> QED
        BY <4>1
    <3> QED
      BY <3>1, <3>2
  <2>5. first \in Nat /\ first < Power(2, IntBits)
    <3>1. first \in Nat
      BY <2>1, LinkedInstruction
    <3>2. first < KernelEnd
      <4>1. c.addr \in Seq(Nat) /\ c.addr # <<>>
        BY <2>1, CrashesAssumption
      <4>2. 1 \in DOMAIN c.addr
        <5> DEFINE a == c.addr
        <5>1. a \in Seq(Nat) /\ a # <<>>
          BY <4>1
        <5> HIDE DEF a
        <5>2. 1 \in DOMAIN a
          BY <5>1, EmptySeq
        <5> QED
          BY <5>2 DEF a
      <4> QED
        BY <2>1, <4>2, SymtabAssumption
    <3>3. KernelEnd \in Nat /\ KernelEnd <= Power(2, IntBits) /\ Power(2, IntBits) \in Nat
      BY SymtabAssumption, PowersGrow, PrintfAssumption
    <3> HIDE DEF first
    <3> QED
      BY <3>1, <3>2, <3>3
  <2> HIDE DEF R, s, t, c, l, error, first, fault
  <2>6. s[1] = R[1] /\ s[2] = R[2] /\ s[3] = R[3] /\ s[l] = R[l] /\ Len(s) - Len(t) = l
    <3>1. Len(t) \in Nat
      BY <2>3
    <3>2. \A k \in {1, 2, 3, l} : k \in 1 .. Len(s) /\ k <= l
      BY <2>2, <2>3, <3>1
    <3>3. Len(s) - Len(t) = l
      BY <2>2, <2>3, <3>1
    <3> QED
      BY <2>3, <3>2, <3>3
  <2>7. /\ Hex(Tabs(1), error) = Tabs(1) \o CDigits(error, 16, Small) \o Newlines(1)
        /\ Hex(Entry, first) = Entry \o CDigits(first, 16, Small) \o Newlines(1)
        /\ fault < Power(2, IntBits) =>
             Hex(Tabs(2), fault) = Tabs(2) \o CDigits(fault, 16, Small) \o Newlines(1)
    BY <2>4, <2>5, HexPrinted
  <2>8. /\ s[1] = Message(c.vector)
        /\ s[2] = Tabs(1) \o CDigits(error, 16, Small) \o Newlines(1)
        /\ c.vector = 14 /\ fault < Power(2, IntBits) =>
             s[3] = Tabs(2) \o CDigits(fault, 16, Small) \o Newlines(1)
        /\ s[Len(s) - Len(t)] = Entry \o CDigits(first, 16, Small) \o Newlines(1)
    BY <2>2, <2>6, <2>7
  <2> QED
    BY <2>8 DEF ReportTellsCrash, s, t, c, error, first, fault
<1> HIDE DEF RInv
<1> QED
  BY <1>1, <1>2, <1>3, PTL DEF PanicSpec
=============================================================================
