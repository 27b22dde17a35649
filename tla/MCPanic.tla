------------------------------ MODULE MCPanic ------------------------------
(* A screen of 16 by 2 characters; as in the kernel, a tab follows a newline.*)
(* Three functions and data behind them, a slide that an unsigned int cannot *)
(* hold, and types of 4, 6 and 8 bits.                                       *)
EXTENDS Panic

Newline == [kind |-> "newline"]
Tab == [kind |-> "tab"]
Backspace == [kind |-> "backspace"]
Colour(c) == [kind |-> "colour", colour |-> c]

MCTexts ==
  {<<>>, terminal_line, <<Newline>>, <<Backspace>>, <<Ch("a")>>,
   <<Newline, Tab, Ch("b")>>,
   <<Colour("RED"), Ch(">"), Colour("CYAN")>> \o Repeat("c", 13)}

MCSymtab == <<[addr |-> 16, name |-> "a"], [addr |-> 20, name |-> "b"],
              [addr |-> 20, name |-> "c"], [addr |-> 24, name |-> "d"],
              [addr |-> 255, name |-> "none"]>>

\* Every kind of report, and every stack of at most four functions: <<"called", "entered",
\* "called">> is one inside a system call, <<"called", "none", "none", "called">> one inside
\* an irq that came before the interrupted function's push.
MCCrashes ==
  [vector : {0, 8, 13, 14}, error : {2, 21}, fault : {5, 200}, slide : {0, 128},
   addr : {<<site>> : site \in {16, 30}}, frame : {<<"called">>}, other : {<<0>>}]
  \cup UNION {[vector : {13}, error : {2}, fault : {5}, slide : {0, 128},
               addr : {SubSeq(<<site, 29, 18, 23>>, 1, n) : site \in {16, 19, 20}},
               frame : [1 .. n -> {"called", "entered", "none"}],
               other : {[k \in 1 .. n |-> word] : word \in {0, 150}}] : n \in 1 .. 4}
MCDirectives ==
  [kind : {"directive"}, left : BOOLEAN, plus : BOOLEAN, alt : {FALSE}, space : BOOLEAN,
   zero : BOOLEAN, star : {FALSE}, width : {0, 3}, length : {"", "h", "l", "hh"},
   specifier : {"d", "u", "x", "o"}]
  \cup {[Directive(s) EXCEPT !.star = TRUE, !.alt = a, !.length = l] :
         s \in {"i", "X", "p"}, a \in BOOLEAN, l \in {"", "L"}}
MCSlots == {Num(n) : n \in {0, 7, 8, 15, 31, 32, 63, 64, 127, 128, 255}}
=============================================================================
