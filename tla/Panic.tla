-------------------------------- MODULE Panic --------------------------------
(***************************************************************************)
(* Fatal exceptions, cpu/interrupts.asm and cpu/interrupts.cpp: the stub   *)
(* of the vector and isr_common_stub lay out the registers, and            *)
(* exception_handler clears the terminal, prints a report on it, walks the *)
(* frames of the interrupted code, and halts.  printf is also called alone,*)
(* with any directive.                                                     *)
(***************************************************************************)
EXTENDS Tty, Printf

CONSTANTS
  Symtab,             \* gensyms.sh's table by address, with its sentinel: [addr, name]
  KernelEnd,          \* where the linked kernel ends
  Crashes,            \* the exceptions that may happen, see below
  Directives, Slots   \* what printf is called with: <<directive, width, slot>>

VARIABLES
  pc,                 \* "program", "cleared", "report", "trace", "halted"; "printed" after printf
  regs,               \* what exception_handler finds on its stack
  line,               \* lines of the report printed
  rbp,                \* the frame the walk is at, 0 at the end
  crash,              \* ghost: what happened
  trace,              \* ghost: the labels printed
  shown,              \* ghost: the texts of the report
  conversion          \* ghost: the last call of printf and its text

panicVars == <<pc, regs, line, rbp, crash, trace, shown, conversion>>
allVars == <<vars, panicVars>>

-----------------------------------------------------------------------------
\* An exception: its vector, error code and faulting address, and the active functions,
\* innermost first: addr is where each of them is, as linked, and the kernel is loaded
\* slide higher.  frame says what the k-th has linked into the chain of rbp:
\*   "called": its frame, right below the address it returns to in the next one;
\*   "entered": syscall_handler's frame, on the user's stack, below whatever word the
\*     program has there, as SYSCALL pushes nothing;
\*   "none": irq_common_stub links none, nor a function interrupted, by the exception or
\*     by the irq, before its push.
\* mnkentry and uentry push 0 as what the last frame saves; nothing called them, and some
\* word lies above that frame too.  Exceptions 17, 21, 29 and 30, whose stubs push a 0 on
\* top of the processor's error code, need features the kernel does not turn on.  An
\* error code has 32 bits.
ASSUME CrashesAssumption ==
  \A c \in Crashes : /\ c.vector \in (0 .. 31) \ {1, 17, 21, 29, 30}
                     /\ {c.vector, c.error, c.fault, c.slide} \subseteq Nat
                     /\ c.addr \in Seq(Nat) \ {<<>>}
                     /\ c.frame \in [DOMAIN c.addr -> {"called", "entered", "none"}]
                     /\ c.other \in [DOMAIN c.addr -> Nat]
                     /\ c.error < Power(2, IntBits)

\* gensyms.sh sorts the symbols by address; code runs in the kernel as linked, at 2 MiB.
ASSUME SymtabAssumption ==
  /\ Symtab \in Seq([addr : Nat, name : STRING]) \ {<<>>}
  /\ KernelEnd \in Nat /\ KernelEnd <= Power(2, IntBits)
  /\ \A i, j \in DOMAIN Symtab : i <= j => Symtab[i].addr <= Symtab[j].addr
  /\ KernelEnd <= Symtab[Len(Symtab)].addr
  /\ \A c \in Crashes : \A k \in DOMAIN c.addr : Symtab[1].addr <= c.addr[k] /\ c.addr[k] < KernelEnd

\* The flags are on or off, a written width is a number, and an argument is a word.
ASSUME DirectivesAssumption ==
  /\ Directives \subseteq
       [kind : {"directive"}, left : BOOLEAN, plus : BOOLEAN, alt : BOOLEAN, space : BOOLEAN,
        zero : BOOLEAN, star : BOOLEAN, width : Nat, length : STRING, specifier : STRING]
  /\ \A slot \in Slots : slot.num \in Nat

Frames(c) == {k \in DOMAIN c.addr : c.frame[k] # "none"}

\* The innermost frame outside of the k-th function; 0 is no frame.
FrameBeyond(c, k) ==
  LET beyond == {j \in Frames(c) : j > k}
  IN IF beyond = {} THEN 0 ELSE CHOOSE j \in beyond : \A i \in beyond : j <= i

FirstFrame(c) == FrameBeyond(c, 0)

\* Slip: the entry code does not clear rbp.
SavedRbpOfEntry(c, k) == IF FrameBeyond(c, k) = 0 THEN k ELSE FrameBeyond(c, k)

SavedRbp(c, k) == FrameBeyond(c, k)

\* The word above a frame is a return address where a call was made.
Called(c, k) == c.frame[k] = "called" /\ k < Len(c.addr)
WordAbove(c, k) == IF Called(c, k) THEN c.addr[k + 1] + c.slide ELSE c.other[k]

\* The processor pushes an error code for some vectors, and the stub of the others a 0.
PushErrorCode == {8, 10, 11, 12, 13, 14, 17, 21, 29, 30}

\* Slip: the 0 is pushed only where there is an error code.
StubPushesZeroWrongly(vector) == vector \in {8, 10, 11, 12, 13, 14}

StubPushesZero(vector) == vector \notin {8, 10, 11, 12, 13, 14}

Layout ==
  <<"cr4", "cr3", "cr2", "cr0", "ds", "rdi", "rsi", "rbp", "rbx", "rdx", "rcx", "rax",
    "interrupt_number", "error_code", "rip", "cs", "rflags", "rsp">>

ErrorWords(c) ==
  (IF c.vector \in PushErrorCode THEN <<c.error>> ELSE <<>>)
  \o (IF StubPushesZero(c.vector) THEN <<0>> ELSE <<>>)

\* In the order of the pushes; 99 is in whatever the report does not read.
Pushed(c) ==
  <<99, 99, 99, 99, c.addr[1] + c.slide>> \o ErrorWords(c)
  \o <<c.vector, 99, 99, 99, 99, FirstFrame(c), 99, 99, 99, 99, c.fault, 99, 99>>

RegistersOf(c) ==
  [field \in {Layout[k] : k \in DOMAIN Layout} |->
    Reverse(Pushed(c))[CHOOSE k \in DOMAIN Layout : Layout[k] = field]]

-----------------------------------------------------------------------------
kaslr_slide == crash.slide

\* $get_symbol_label: the first entry that holds the address.
get_symbol_label(addr) ==
  LET Holds(i) == /\ addr >= Symtab[i].addr /\ addr < Symtab[i + 1].addr
                  /\ addr < KernelEnd + kaslr_slide
      found == {i \in 1 .. Len(Symtab) - 1 : Holds(i)}
  IN IF found = {} THEN "unidentified" ELSE Symtab[CHOOSE i \in found : \A j \in found : i <= j].name

Newlines(n) == [k \in 1 .. n |-> [kind |-> "newline"]]
Tabs(n) == [k \in 1 .. n |-> [kind |-> "tab"]]
Entry == Tabs(3) \o <<Ch(">")>>

\* The texts of the report, wording cut short; the names of exceptions by number.
Message(vector) == Printf(Newlines(1) \o Tabs(1) \o <<Directive("s")>> \o Newlines(2), <<Str(<<Ch(ToString(vector))>>)>>)
Hex(before, n) == Printf(before \o <<Directive("x")>> \o Newlines(1), <<Num(n)>>)
Label(name) == Printf(Entry \o <<Directive("s")>> \o Newlines(1), <<Str(<<Ch(name)>>)>>)

InstructionPointer == regs["rip"] - kaslr_slide

Bit(n, k) == (n \div Power(2, k)) % 2 = 1

Report ==
  <<Message(regs["interrupt_number"]), Hex(Tabs(1), regs["error_code"])>>
  \o (IF regs["interrupt_number"] # 14 THEN <<>> ELSE
      <<Hex(Tabs(2), regs["cr2"]), Label(IF Bit(regs["error_code"], 0) THEN "protected" ELSE "absent")>>
      \o (IF Bit(regs["error_code"], 4) THEN <<Label("executed")>> ELSE <<>>)
      \o <<Label(IF Bit(regs["error_code"], 1) THEN "write" ELSE "read"),
           Label(IF Bit(regs["error_code"], 2) THEN "userspace" ELSE "kernel")>>)
  \o <<Hex(Entry, InstructionPointer)>>

-----------------------------------------------------------------------------
NoCrash == [vector |-> 0, error |-> 0, fault |-> 0, slide |-> 0,
            addr |-> <<>>, frame |-> <<>>, other |-> <<>>]

PanicInit ==
  /\ Init /\ pc = "program" /\ line = 0 /\ rbp = 0
  /\ crash = NoCrash /\ regs = [field \in {} |-> 0]
  /\ trace = <<>> /\ shown = <<>>
  /\ conversion = [directive |-> Directive("s"), width |-> 0, slot |-> Num(0), text |-> <<>>]

Program == pc = "program" /\ Next /\ UNCHANGED panicVars

\* The kernel's only formats are %s and %x; here is any directive, and the one after it.
PrintfAlone ==
  /\ pc = "program" /\ writes = 0 /\ pc' = "printed"
  /\ \E d \in Directives, slot \in Slots :
       \E width \in IF d.star THEN {-1, 3} ELSE {d.width} :
         conversion' =
           [directive |-> d, width |-> width, slot |-> slot,
            text |-> Printf(<<d, Ch(","), Directive("u")>>,
                            (IF d.star THEN <<Num(width)>> ELSE <<>>) \o <<slot, Num(7)>>)]
  /\ UNCHANGED <<vars, regs, line, rbp, crash, trace, shown>>

\* An exception that is not the debug one; the program makes no call any more.
Exception ==
  /\ pc = "program" /\ pc' = "cleared" /\ Clear /\ writes' = MaxWrites
  /\ UNCHANGED <<regs, line, rbp, crash, trace, shown, conversion>>

\* What was pushed before is first read here.
ReadRegisters ==
  /\ pc = "cleared" /\ pc' = "report"
  /\ \E c \in Crashes : crash' = c /\ regs' = RegistersOf(c)
  /\ UNCHANGED <<vars, line, rbp, trace, shown, conversion>>

Show(text) == DisplayString(text) /\ shown' = Append(shown, text) /\ UNCHANGED writes

PrintReport ==
  /\ pc = "report" /\ line < Len(Report)
  /\ Show(Report[line + 1]) /\ line' = line + 1
  /\ UNCHANGED <<pc, regs, rbp, crash, trace, conversion>>

ShowLabel(name) == Show(Label(name)) /\ trace' = Append(trace, name)

\* The interrupted function, then the walk from its rbp.
PrintFunction ==
  /\ pc = "report" /\ line = Len(Report) /\ pc' = "trace"
  /\ ShowLabel(get_symbol_label(InstructionPointer)) /\ rbp' = regs["rbp"]
  /\ UNCHANGED <<regs, line, crash, conversion>>

PrintCaller ==
  /\ pc = "trace" /\ rbp # 0
  /\ ShowLabel(get_symbol_label(WordAbove(crash, rbp) - kaslr_slide))
  /\ rbp' = SavedRbp(crash, rbp)
  /\ UNCHANGED <<pc, regs, line, crash, conversion>>

\* cli; hlt
Halt ==
  /\ pc = "trace" /\ rbp = 0 /\ pc' = "halted"
  /\ UNCHANGED <<vars, regs, line, rbp, crash, trace, shown, conversion>>

Handler == ReadRegisters \/ PrintReport \/ PrintFunction \/ PrintCaller \/ Halt

PanicNext == Program \/ PrintfAlone \/ Exception \/ Handler

PanicSpec == PanicInit /\ [][PanicNext]_allVars

-----------------------------------------------------------------------------
\* Every text that a report may consist of.
ReportTexts ==
  {Message(c.vector) : c \in Crashes} \cup {Hex(Tabs(1), e) : e \in {c.error : c \in Crashes} \cup {0}}
  \cup {Hex(Tabs(2), c.fault) : c \in Crashes} \cup {Hex(Entry, c.addr[1]) : c \in Crashes}
  \cup {Label(n) : n \in {Symtab[i].name : i \in 1 .. Len(Symtab) - 1} \cup {"unidentified",
          "protected", "absent", "executed", "write", "read", "userspace", "kernel"}}

ASSUME PanicAssumption == ReportTexts \subseteq Reports

\* Whatever the exception and wherever the kernel was loaded, what the stubs and the
\* processor pushed is read back in its place: the report names the exception, its
\* error code, a low enough faulting address, and the instruction as linked, by the
\* digits that C gives them.
ReportTellsCrash ==
  LET Line(before, n) == before \o CDigits(n, 16, Small) \o Newlines(1)
      error == IF crash.vector \in PushErrorCode THEN crash.error ELSE 0
  IN pc = "halted" =>
       /\ shown[1] = Message(crash.vector)
       /\ shown[2] = Line(Tabs(1), error)
       /\ crash.vector = 14 /\ crash.fault < Power(2, IntBits) => shown[3] = Line(Tabs(2), crash.fault)
       /\ shown[Len(shown) - Len(trace)] = Line(Entry, crash.addr[1])

\* The function an address belongs to.
Owner(addr) ==
  Symtab[CHOOSE i \in 1 .. Len(Symtab) : Symtab[i].addr <= addr
           /\ \A j \in 1 .. Len(Symtab) : Symtab[j].addr <= addr => j <= i].name

\* The stack trace of exception_handler names the interrupted function first, then has one
\* line for every frame, innermost first, and ends; a frame below a return address gives
\* the caller of its function.  Neither the caller of a function without a frame nor the
\* function that an irq interrupted or that made the system call is named, and the lines
\* for syscall_handler's frame and the last one show whatever word lies there.
TraceNamesCallers ==
  pc \in {"trace", "halted"} =>
    LET framed == Frames(crash)
        Line(k) == 1 + Cardinality({j \in framed : j <= k})
    IN /\ trace[1] = Owner(crash.addr[1])
       /\ \A k \in framed : Called(crash, k) /\ Line(k) <= Len(trace) =>
                            trace[Line(k)] = Owner(crash.addr[k + 1])
       /\ Len(trace) <= 1 + Cardinality(framed)
       /\ pc = "halted" => Len(trace) = 1 + Cardinality(framed)

\* printf writes what C says, where it supports the directive, and goes on with the
\* next argument.
PrintsAsC ==
  LET c == conversion IN
  pc = "printed" /\ Supported(c.slot, c.directive, c.width) =>
    c.text = CText(c.slot, c.directive, c.width) \o <<Ch(","), Ch("7")>>
=============================================================================
