------------------------------- MODULE Printf -------------------------------
(***************************************************************************)
(* printf, drivers/tty/printf.cpp: a format is a sequence of characters and*)
(* directives, an argument a slot of the variable argument list.  Numbers  *)
(* keep the widths of their types.  Floating point, which the kernel never *)
(* prints, %n and the precision of integers, which is skipped, are left out*)
(***************************************************************************)
EXTENDS Integers, Sequences, SequencesExt

CONSTANTS ShortBits, IntBits, LongBits   \* the widths of the types

ASSUME PrintfAssumption ==
  /\ {ShortBits, IntBits, LongBits} \subseteq Nat
  /\ 4 <= ShortBits /\ ShortBits < IntBits /\ IntBits < LongBits

Power(b, k) == LET power[m \in Nat] == IF m = 0 THEN 1 ELSE b * power[m - 1] IN power[k]

Ch(c) == [kind |-> "char", char |-> c]
Repeat(c, n) == [k \in 1 .. n |-> Ch(c)]

Unsigned(v, bits) == v % Power(2, bits)
Signed(v, bits) ==
  IF Unsigned(v, bits) < Power(2, bits - 1) THEN Unsigned(v, bits)
  ELSE Unsigned(v, bits) - Power(2, bits)

-----------------------------------------------------------------------------
\* __int_str.  Base 17 stands for 16 with small letters; a negative remainder
\* reads whatever lies before the table.
Small == <<"0", "1", "2", "3", "4", "5", "6", "7", "8", "9", "a", "b", "c", "d", "e", "f">>
Capital == <<"0", "1", "2", "3", "4", "5", "6", "7", "8", "9", "A", "B", "C", "D", "E", "F">>

Digit(r, base) ==
  Ch(IF r < 0 THEN "garbage" ELSE IF base = 17 THEN Small[r + 1] ELSE Capital[r + 1])

Numeral(i, base) ==
  LET b == IF base = 17 THEN 16 ELSE base
      sign == IF i < 0 THEN -1 ELSE 1
      numeral[n \in Nat] == (IF n < b THEN <<>> ELSE numeral[n \div b])
                            \o <<Digit(sign * (n % b), base)>>
  IN numeral[sign * i]

\* The smallest number is its own negation.
Unpadded(i, base, d) ==
  (IF i < 0 THEN Repeat("-", 1)
   ELSE IF d.plus THEN Repeat("+", 1)
   ELSE IF d.space THEN Repeat(" ", 1) ELSE <<>>)
  \o Numeral(IF i < 0 THEN Signed(-i, LongBits) ELSE i, base)

\* Slip: the sign is not counted.
IntStrUnsigned(i, base, d, width) ==
  LET text == Unpadded(i, base, d)
      missing == width - Len(Numeral(i, base))
      padding == Repeat(IF d.zero THEN "0" ELSE " ", IF missing < 0 THEN 0 ELSE missing)
  IN IF d.left THEN text \o padding ELSE padding \o text

\* Padding with zeros comes before the sign, and after the number if left.
IntStr(i, base, d, width) ==
  LET text == Unpadded(i, base, d)
      missing == width - Len(text)
      padding == Repeat(IF d.zero THEN "0" ELSE " ", IF missing < 0 THEN 0 ELSE missing)
  IN IF d.left THEN text \o padding ELSE padding \o text

-----------------------------------------------------------------------------
\* A directive: five flags, a width or "*" (star), a length and a specifier.
\* An argument slot holds a number or a text.
Num(n) == [num |-> n, text |-> <<>>]
Str(t) == [num |-> 0, text |-> t]

\* After hh the index stays on the second h, which is then the specifier.
SpecifierOf(d) == IF d.length = "hh" THEN "h" ELSE d.specifier
Left(d) == IF d.length = "hh" THEN <<Ch(d.specifier)>> ELSE <<>>

BitsOf(length) ==
  CASE length = "" -> IntBits
    [] length = "h" -> ShortBits
    [] OTHER -> LongBits

\* The argument as va_arg takes it, then as the intmax_t that __int_str takes.
Taken(slot, d) ==
  IF d.specifier \in {"d", "i"} THEN Signed(slot.num, BitsOf(d.length))
  ELSE Signed(Unsigned(slot.num, IF d.specifier = "p" THEN LongBits ELSE BitsOf(d.length)), LongBits)

BaseOf(specifier) ==
  CASE specifier = "o" -> 8
    [] specifier \in {"p", "X"} -> 16
    [] specifier = "x" -> 17
    [] OTHER -> 10

Prefix(d) ==
  CASE ~d.alt -> <<>>
    [] d.alt /\ d.specifier = "o" -> Repeat("0", 1)
    [] d.alt /\ d.specifier \in {"x", "X"} -> Repeat("0", 1) \o Repeat("x", 1)
    [] OTHER -> <<>>

Numbers == {"d", "i", "u", "x", "X", "o", "p"}

\* One directive; s is what was printed and the arguments left.
Convert(s, d) ==
  LET width == IF d.star THEN Signed(Head(s.args).num, IntBits) ELSE d.width
      args == IF d.star THEN Tail(s.args) ELSE s.args
      Shown(text) == [out |-> s.out \o text, args |-> Tail(args)]
  IN CASE SpecifierOf(d) \in Numbers /\ (d.length # "L" \/ d.specifier = "p") ->
            Shown(Prefix(d) \o IntStr(Taken(Head(args), d), BaseOf(d.specifier), d, width))
       [] SpecifierOf(d) \in {"c", "s"} -> Shown(Head(args).text)
       [] SpecifierOf(d) \in {"x", "X", "o"} /\ d.length = "L" ->
            [out |-> s.out \o Prefix(d), args |-> args]
       [] OTHER -> [out |-> s.out \o Left(d), args |-> args]

Item(s, item) ==
  IF item.kind = "directive" THEN Convert(s, item)
  ELSE [out |-> Append(s.out, item), args |-> s.args]

\* What is so after the first n items of the format.
Vprintf(format, args) ==
  LET after[n \in 0 .. Len(format)] ==
        IF n = 0 THEN [out |-> <<>>, args |-> args] ELSE Item(after[n - 1], format[n])
  IN after[Len(format)]

\* printf, as what it hands to put_char.
Printf(format, args) == Vprintf(format, args).out

Directive(specifier) ==
  [kind |-> "directive", left |-> FALSE, plus |-> FALSE, alt |-> FALSE, space |-> FALSE,
   zero |-> FALSE, star |-> FALSE, width |-> 0, length |-> "", specifier |-> specifier]

-----------------------------------------------------------------------------
\* What C says of a directive, by the places of the digits.
CValue(slot, d) ==
  IF d.specifier \in {"d", "i"} THEN Signed(slot.num, BitsOf(d.length))
  ELSE Unsigned(slot.num, BitsOf(d.length))

CDigits(n, base, marks) ==
  LET length == CHOOSE k \in 1 .. LongBits :
                  n < Power(base, k) /\ (k > 1 => n >= Power(base, k - 1))
  IN [k \in 1 .. length |-> Ch(marks[((n \div Power(base, length - k)) % base) + 1])]

CText(slot, d, width) ==
  LET v == CValue(slot, d)
      marks == IF d.specifier = "X" THEN Capital ELSE Small
      base == CASE d.specifier = "o" -> 8 [] d.specifier \in {"x", "X"} -> 16 [] OTHER -> 10
      digits == CDigits(IF v < 0 THEN -v ELSE v, base, marks)
      signed == d.specifier \in {"d", "i"}
      sign == IF v < 0 THEN <<Ch("-")>>
              ELSE IF signed /\ d.plus THEN <<Ch("+")>>
              ELSE IF signed /\ d.space THEN <<Ch(" ")>> ELSE <<>>
      fill == width - Len(sign) - Len(digits)
      room == IF fill > 0 THEN fill ELSE 0
  IN CASE d.left -> sign \o digits \o Repeat(" ", room)
       [] ~d.left /\ d.zero -> sign \o Repeat("0", room) \o digits
       [] OTHER -> Repeat(" ", room) \o sign \o digits

\* Where the program's printf is C's.  What is outside: hh and L, the alternative
\* form, %p, signs before unsigned numbers, zeros with a sign or on the left, numbers
\* of 64 bits with the highest one set, a negative width.
Supported(slot, d, width) ==
  /\ d.specifier \in {"d", "i", "u", "x", "X", "o"}
  /\ d.length \notin {"hh", "L"} /\ ~d.alt /\ width >= 0
  /\ d.zero => ~d.left /\ ~d.plus /\ ~d.space /\ CValue(slot, d) >= 0
  /\ d.specifier \notin {"d", "i"} => ~d.plus /\ ~d.space /\ CValue(slot, d) < Power(2, LongBits - 1)
  /\ CValue(slot, d) # -Power(2, LongBits - 1)
=============================================================================
