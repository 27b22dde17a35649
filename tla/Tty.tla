--------------------------------- MODULE Tty ---------------------------------
(***************************************************************************)
(* The terminal, drivers/tty/tty.cpp: a flat text buffer in memory, shown  *)
(* on the framebuffer cell by cell.  It is written to in system calls, with*)
(* interrupts off, and by the exception handler.                           *)
(***************************************************************************)
EXTENDS Integers, Sequences

CONSTANTS
  framebuffer_width, framebuffer_height,  \* pixels
  Texts,              \* strings, as in module Terminal
  Reports,            \* strings that exception_handler prints besides
  MaxWrites           \* bound: calls

Colours ==
  {"BLACK", "BLUE", "GREEN", "CYAN", "RED", "MAGENTA", "BROWN", "LIGHT_GREY", "DARK_GREY", "LIGHT_BLUE",
   "LIGHT_GREEN", "LIGHT_CYAN", "LIGHT_RED", "LIGHT_MAGENTA", "LIGHT_BROWN", "WHITE"}

Symbols == [kind : {"newline", "tab", "backspace"}]
           \cup [kind : {"colour"}, colour : Colours] \cup [kind : {"char"}, char : STRING]

\* Only write looks for the codes of colours.
Plain(text) == \A n \in DOMAIN text : text[n].kind # "colour"

\* tty.h; write looks at a string with a $ either for this marker or for codes.
terminal_line ==
  LET chars == <<"$", "T", "E", "R", "M", "_", "L", "I", "N", "E", "!">>
  IN [n \in 1 .. 11 |-> [kind |-> "char", char |-> chars[n]]]

\* The loop ends with the first string: each of its beginnings is taken for the second.
strcomp(lhs, rhs) == \A n \in DOMAIN lhs : n <= Len(rhs) /\ lhs[n] = rhs[n]

\* Where the framebuffer is a whole number of cells wide, as in common modes.  What
\* follows a code is put as it is: it cannot be another code or the end of the string.
ASSUME TtyAssumption ==
  /\ framebuffer_width \in Nat /\ framebuffer_width % 8 = 0 /\ framebuffer_width > 32
  /\ framebuffer_height \in Nat /\ framebuffer_height >= 18
  /\ MaxWrites \in Nat
  /\ \A text \in Texts \cup Reports :
       /\ text \in Seq(Symbols)
       /\ \A n \in 1 .. Len(text) :
            text[n].kind = "colour" => n < Len(text) /\ text[n + 1].kind # "colour"
  /\ \A text \in Reports : Plain(text)
  /\ \A text \in Texts : strcomp(text, terminal_line)
                         \/ \A n \in DOMAIN text : text[n] # terminal_line[1]

VARIABLES
  text_buffer,        \* the cells put_entry_at can reach, from the buffer's first on
  screen,             \* what the framebuffer shows at each place
  row, column,
  writes,             \* calls so far
  said                \* ghost: the last call

vars == <<text_buffer, screen, row, column, writes, said>>

\* get_optimal_size
vga_width == framebuffer_width \div 8
vga_height == framebuffer_height \div 9

Cells == 0 .. (vga_height + 1) * vga_width
Places == (0 .. vga_width - 1) \X (0 .. vga_height - 1)

vga_entry(char, colour) == [char |-> char, colour |-> colour]
Zero == vga_entry("nul", "BLACK")
Junk == vga_entry("?", "BROWN")
Smeared == vga_entry("smeared", "BLACK")

\* memset clears the cells of the screen; what comes after them is as it was.
Init ==
  /\ \E junk \in {Zero, Junk} :
       text_buffer = [c \in Cells |-> IF c < vga_width * vga_height THEN Zero ELSE junk]
  /\ screen = [p \in Places |-> Zero]
  /\ row = 0 /\ column = 0 /\ writes = 0 /\ said = [by |-> "nobody", text |-> <<>>]

Tty == [text |-> text_buffer, screen |-> screen, row |-> row, column |-> column]

-----------------------------------------------------------------------------
\* Right of the last column the pixels fall on the first one, a line lower.
RenderEntryAt(t, x, y) ==
  IF <<x, y>> \in Places
  THEN [t EXCEPT !.screen[<<x, y>>] = t.text[y * vga_width + x]]
  ELSE IF <<0, y>> \in Places THEN [t EXCEPT !.screen[<<0, y>>] = Smeared] ELSE t

PutEntryAt(t, entry, x, y) ==
  IF x > vga_width \/ y > vga_height THEN t
  ELSE RenderEntryAt([t EXCEPT !.text[y * vga_width + x] = entry], x, y)

RenderBuffer(t) ==
  [t EXCEPT !.screen = [p \in Places |-> t.text[p[2] * vga_width + p[1]]]]

ClearedFirstRow(text) == [c \in Cells |-> IF c < vga_width THEN Zero ELSE text[c]]

\* Every cell of the screen takes over the one after it, also the last.
ShiftedOnce(text) ==
  [c \in Cells |-> IF c < vga_height * vga_width THEN text[c + 1] ELSE text[c]]

\* Slip: the cells move one time less.
ShiftedLess(text) ==
  LET after[n \in 0 .. vga_width] == IF n = 0 THEN text ELSE ShiftedOnce(after[n - 1])
  IN after[vga_width - 1]

Shifted(text) ==
  LET after[n \in 0 .. vga_width] == IF n = 0 THEN text ELSE ShiftedOnce(after[n - 1])
  IN after[vga_width]

\* Slip: the screen is left to the next write.
ShiftWithoutRender(t) ==
  [t EXCEPT !.text = Shifted(ClearedFirstRow(t.text)), !.row = @ - 1]

Shift(t) ==
  RenderBuffer([t EXCEPT !.text = Shifted(ClearedFirstRow(t.text)), !.row = @ - 1])

NextRow(t) ==
  IF t.row + 1 >= vga_height THEN Shift([t EXCEPT !.row = @ + 1]) ELSE [t EXCEPT !.row = @ + 1]

\* The column after this one, also for a newline.
Advance(t) ==
  IF t.column + 1 >= vga_width THEN NextRow([t EXCEPT !.column = 0])
  ELSE [t EXCEPT !.column = @ + 1]

Back(t) ==
  CASE t.column # 0 -> [t EXCEPT !.column = @ - 1]
    [] t.column = 0 /\ t.row # 0 -> [t EXCEPT !.column = vga_width - 1, !.row = @ - 1]
    [] OTHER -> t

PutChar(t, symbol, colour) ==
  CASE symbol.kind = "tab" -> [t EXCEPT !.column = ((@ \div 4) + 1) * 4]
    [] symbol.kind = "backspace" ->
         PutEntryAt(Back(t), vga_entry(" ", "BLACK"), Back(t).column, Back(t).row)
    [] symbol.kind = "newline" -> [NextRow(Advance(t)) EXCEPT !.column = 0]
    [] symbol.kind = "char" ->
         Advance(PutEntryAt(t, vga_entry(symbol.char, colour), t.column, t.row))

PutSymbol(s, symbol) ==
  IF symbol.kind = "colour" THEN [s EXCEPT !.colour = symbol.colour]
  ELSE [s EXCEPT !.tty = PutChar(s.tty, symbol, s.colour)]

\* The symbols of a string in turn, each with the colour of the codes before it.
Putting(t, text, colour) ==
  LET after[n \in 0 .. Len(text)] ==
        IF n = 0 THEN [tty |-> t, colour |-> colour] ELSE PutSymbol(after[n - 1], text[n])
  IN after

PutAll(t, text, colour) == Putting(t, text, colour)[Len(text)].tty

TerminalLine ==
  [n \in 1 .. vga_width |-> [kind |-> "char", char |-> IF (n - 1) % 2 = 0 THEN "-" ELSE "="]]

Written(t, text) ==
  IF strcomp(text, terminal_line) THEN PutAll(t, TerminalLine, "WHITE") ELSE PutAll(t, text, "LIGHT_GREY")

Becomes(t) ==
  text_buffer' = t.text /\ screen' = t.screen /\ row' = t.row /\ column' = t.column

Write(text) == Becomes(Written(Tty, text)) /\ said' = [by |-> "write", text |-> text]

\* displayString of printf, colour 15.
DisplayString(text) ==
  Becomes(PutAll(Tty, text, "WHITE")) /\ said' = [by |-> "printf", text |-> text]

\* clear: a space at every place, row by row, and the cursor home.
Clearing(t) ==
  LET after[n \in 0 .. vga_width * vga_height] ==
        IF n = 0 THEN t
        ELSE PutEntryAt(after[n - 1], vga_entry(" ", "BLACK"), (n - 1) % vga_width, (n - 1) \div vga_width)
  IN after

Cleared(t) == [Clearing(t)[vga_width * vga_height] EXCEPT !.row = 0, !.column = 0]

Clear == Becomes(Cleared(Tty)) /\ said' = [by |-> "clear", text |-> <<>>]

Next ==
  /\ writes < MaxWrites /\ writes' = writes + 1
  /\ Clear \/ \E text \in Texts : Write(text) \/ (Plain(text) /\ DisplayString(text))

Spec == Init /\ [][Next]_vars

-----------------------------------------------------------------------------
\* put_entry_at and shift leave no place of the screen behind the text buffer.
ScreenShowsBuffer ==
  \A p \in Places : screen[p] = text_buffer[p[2] * vga_width + p[1]]

\* The flat buffer with its scrolling by single cells, the colour codes and the
\* cursor arithmetic behave as the terminal of module Terminal.  A line that
\* scrolls in is filled with the cell after the last one of the screen.
Lines == [y \in 0 .. vga_height - 1 |-> [x \in 0 .. vga_width - 1 |-> text_buffer[y * vga_width + x]]]

AllTexts == {<<>>} \cup Texts \cup Reports

Abstract == INSTANCE Terminal WITH
  Width <- vga_width, Height <- vga_height, Texts <- AllTexts,
  lines <- Lines, fill <- text_buffer[vga_height * vga_width]

ImplementsTerminal == Abstract!Spec

=============================================================================
