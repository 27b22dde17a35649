------------------------------ MODULE Terminal ------------------------------
(***************************************************************************)
(* What the kernel's terminal promises to whoever writes to it: a grid of  *)
(* lines and a cursor.  Text fills a line and goes on in the next, the     *)
(* lines move up when the last one is full, and each character keeps the   *)
(* colour last named in its own string.                                    *)
(***************************************************************************)
EXTENDS Integers, Sequences

CONSTANTS Width, Height,
          Texts           \* strings: sequences of symbols (below)

\* A symbol is a control character, a colour code or a visible character.
Newline == [kind |-> "newline"]
Tab == [kind |-> "tab"]
Backspace == [kind |-> "backspace"]
Colour(c) == [kind |-> "colour", colour |-> c]
Visible(ch) == [kind |-> "char", char |-> ch]

Zero == [char |-> "nul", colour |-> "BLACK"]
Junk == [char |-> "?", colour |-> "BROWN"]
Blank == [char |-> " ", colour |-> "BLACK"]

VARIABLES lines, row, column,
          fill,           \* what a line that scrolls in is filled with
          said            \* the last call

vars == <<lines, row, column, fill, said>>
Terminal == [lines |-> lines, row |-> row, column |-> column]

Down(t) ==
  IF t.row < Height - 1 THEN [t EXCEPT !.row = @ + 1]
  ELSE [t EXCEPT !.lines = [y \in 0 .. Height - 1 |->
          IF y < Height - 1 THEN t.lines[y + 1] ELSE [x \in 0 .. Width - 1 |-> fill]]]

Show(t, entry) ==
  LET shown == [t EXCEPT !.lines[t.row][t.column] = entry] IN
  IF t.column < Width - 1 THEN [shown EXCEPT !.column = @ + 1]
  ELSE [Down(shown) EXCEPT !.column = 0]

\* A newline in the last column ends the line twice.
NextLine(t) ==
  [Down(IF t.column = Width - 1 THEN Down(t) ELSE t) EXCEPT !.column = 0]

\* Before the first column there is the last one of the line above.
Erase(t) ==
  LET back == IF t.column > 0 THEN [t EXCEPT !.column = @ - 1]
              ELSE IF t.row > 0 THEN [t EXCEPT !.column = Width - 1, !.row = @ - 1] ELSE t
  IN [back EXCEPT !.lines[back.row][back.column] = Blank]

Put(t, symbol, colour) ==
  CASE symbol.kind = "newline" -> NextLine(t)
    [] symbol.kind = "tab" -> [t EXCEPT !.column = ((@ \div 4) + 1) * 4]
    [] symbol.kind = "backspace" -> Erase(t)
    [] symbol.kind = "char" -> Show(t, [char |-> symbol.char, colour |-> colour])
    [] OTHER -> t

\* The colour last named before position n.
ColourAt(text, default, n) ==
  LET named == {k \in 1 .. n : text[k].kind = "colour"}
  IN IF named = {} THEN default ELSE text[CHOOSE k \in named : \A l \in named : l <= k].colour

Texting(t, text, default) ==
  LET after[n \in 0 .. Len(text)] ==
        IF n = 0 THEN t ELSE Put(after[n - 1], text[n], ColourAt(text, default, n))
  IN after

Text(t, text, default) == Texting(t, text, default)[Len(text)]

Ruler ==
  [n \in 1 .. Width |-> Visible(IF n % 2 = 1 THEN "-" ELSE "=")]

Init ==
  /\ lines = [y \in 0 .. Height - 1 |-> [x \in 0 .. Width - 1 |-> Zero]]
  /\ row = 0 /\ column = 0 /\ fill \in {Zero, Junk}
  /\ said = [by |-> "nobody", text |-> <<>>]

Marker ==
  LET chars == <<"$", "T", "E", "R", "M", "_", "L", "I", "N", "E", "!">>
  IN [n \in 1 .. 11 |-> Visible(chars[n])]

MarksLine(text) == text \in {SubSeq(Marker, 1, n) : n \in 0 .. 11}

\* The marker and its beginnings, the empty string among them, draw a line across the
\* screen; printf writes in white.
After(call) ==
  CASE call.by = "write" /\ MarksLine(call.text) -> Text(Terminal, Ruler, "WHITE")
    [] call.by = "write" /\ ~MarksLine(call.text) -> Text(Terminal, call.text, "LIGHT_GREY")
    [] call.by = "printf" -> Text(Terminal, call.text, "WHITE")
    [] call.by = "clear" -> [lines |-> [y \in 0 .. Height - 1 |-> [x \in 0 .. Width - 1 |-> Blank]],
                             row |-> 0, column |-> 0]

Say ==
  /\ said'.by \in {"write", "printf", "clear"} /\ said'.text \in Texts
  /\ LET t == After(said') IN lines' = t.lines /\ row' = t.row /\ column' = t.column
  /\ UNCHANGED fill

Spec == Init /\ [][Say]_vars
=============================================================================
