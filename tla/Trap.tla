-------------------------------- MODULE Trap --------------------------------
(***************************************************************************)
(* How a program of the kernel is interrupted: the hand-over from mnkentry *)
(* to user mode (boot/kentry.asm, userspace/entry/uentry.asm), the system  *)
(* call path (cpu/syscalls.asm) and the interrupt path (the stubs of       *)
(* cpu/interrupts.asm, irq_handler and idt_set of cpu/interrupts.cpp, the  *)
(* end-of-interrupt of drivers/8259/pic.cpp).                              *)
(*                                                                         *)
(* One processor: pc is the code it is in, regs and flags its registers,   *)
(* sp the stack rsp points into.  Registers hold opaque values; what the   *)
(* model tracks is which value is where.  A stack is a sequence, its top   *)
(* first.  C code is called under the System V convention: it may change   *)
(* Volatile and keeps the rest.                                            *)
(***************************************************************************)
EXTENDS Segments, SequencesExt, FiniteSets

CONSTANTS
  Lines               \* the interrupt lines of the two 8259s that are unmasked

ASSUME LinesAssumption == Lines \subseteq (0 .. 15) \ {2}

VARIABLES
  pc, regs, flags, sp,
  seg,                \* the selectors in cs, ss and ds
  stack,              \* the contents of the boot, user and IST2 stacks
  routine,            \* which call of the boot code the program has come to
  irr, isr,           \* the 8259s: lines requested, lines in service
  before,             \* ghost: the processor as an interrupt found it
  caller,             \* ghost: the processor as a syscall left it
  debugged            \* ghost: a debug exception was raised

cpu == <<pc, seg, regs, flags, sp, stack, routine>>
pic == <<irr, isr>>
ghosts == <<before, caller, debugged>>
vars == <<cpu, pic, ghosts>>

\* What mnkentry and enter_userspace call through r14 with interrupts on: the
\* timer was started, and sti executed, inside mnkmain.
Routines == <<"enter_userspace", "request_page", "donate_to_userspace", "setup_syscalls">>

PushedRegs == <<"rax", "rcx", "rdx", "rbx", "rbp", "rsi", "rdi">>
Volatile == {"rax", "rcx", "rdx", "rsi", "rdi", "r8", "r9", "r10", "r11"}
Preserved == {"rbx", "rbp", "r12", "r13", "r14", "r15"}
Regs == Volatile \cup Preserved

AllFlags == {"", "IF", "TF", "IF TF"}
InterruptsOn == flags \in {"IF", "IF TF"}
SingleSteps == flags \in {"TF", "IF TF"}

StackNames == {"boot", "user", "irq"}
IrqCode == {"irq_stub", "irq_common_stub", "irq_handler", "irq_restore", "irq_iretq"}
Handling == pc \in IrqCode

Clobbered(R) == [r \in Regs |-> IF r \in R THEN "junk" ELSE regs[r]]

\* The general registers and what iretq and sysret bring back, kept only until
\* the return.
Snapshot == [regs |-> regs, flags |-> flags, seg |-> seg, sp |-> sp, pc |-> pc]
NoSnapshot == [regs |-> <<>>, flags |-> "", seg |-> <<>>, sp |-> "", pc |-> ""]

InUserMode == Rpl(seg.cs) = 3

\* A selector on a stack, among other values.
Word(selector) ==
  CASE selector = Null -> "null"
    [] selector = KernelCode -> "kernel code"
    [] selector = KernelData -> "kernel data"
    [] selector = UserData -> "user data"
    [] selector = UserCode -> "user code"
    [] OTHER -> "task"

SelectorIn(word) ==
  IF \E n \in Selectors : Word(n) = word THEN CHOOSE n \in Selectors : Word(n) = word ELSE Null

Init ==
  /\ pc = "lea" /\ flags = "IF" /\ sp = "boot"
  /\ seg = [cs |-> KernelCode, ss |-> KernelData, ds |-> KernelData]
  /\ regs = [r \in Regs |-> r]
  /\ stack = [s \in StackNames |-> <<>>]
  /\ routine = 1
  /\ irr = {} /\ isr = {}
  /\ before = NoSnapshot /\ caller = NoSnapshot /\ debugged = FALSE

-----------------------------------------------------------------------------
(* The 8259s.                                                              *)

\* The request line of the master a line arrives on: the slave is on line 2.
MasterLine(l) == IF l >= 8 THEN 2 ELSE l

Above(l, m) == \/ MasterLine(l) < MasterLine(m)
               \/ MasterLine(l) = MasterLine(m) /\ l < m

\* The line the pair asserts: nothing as urgent is requested or in service.
Asserted(l) ==
  /\ l \in irr
  /\ \A m \in irr \ {l} : Above(l, m)
  /\ \A m \in isr : m < 8 => MasterLine(l) < m
  /\ \A m \in isr : l >= 8 /\ m >= 8 => l < m

InService(l) == IF l >= 8 THEN {l, 2} ELSE {l}

\* A non-specific end of interrupt ends the most urgent service of a controller.
MostUrgent(S) == {l \in S : \A m \in S : l <= m}
Eoi(S, slave) == S \ MostUrgent({l \in S : (l >= 8) = slave})

\* Slip: only lines above the slave's first one are its own.
SendEoiAboveEight(S, l) == Eoi(IF l > 8 THEN Eoi(S, TRUE) ELSE S, FALSE)

\* The end of irq_handler, also pic_send_eoi.
SendEoi(S, l) == Eoi(IF l >= 8 THEN Eoi(S, TRUE) ELSE S, FALSE)

\* A device raises its line.
Raise(l) ==
  /\ l \notin irr
  /\ irr' = irr \cup {l}
  /\ UNCHANGED <<cpu, isr, ghosts>>

-----------------------------------------------------------------------------
(* The interrupt path.                                                     *)

\* Slip: a trap gate (0x8F) leaves IF as it is.
TrapGateFlags(f) == IF f \in {"IF", "IF TF"} THEN "IF" ELSE ""

\* The gates idt_set installs are interrupt gates (0x8E): IF and TF are cleared.
GateFlags(f) == ""

\* The master's lines are at vectors 32 to 39, the slave's at 40 to 47.
Vector(l) ==
  <<"32", "33", "34", "35", "36", "37", "38", "39",
    "40", "41", "42", "43", "44", "45", "46", "47">>[l + 1]

\* The processor takes an interrupt between two instructions.  The gate of an
\* irq has reservedIst = 2, so rsp is set to the top of one fixed stack.
Deliver(l) ==
  /\ InterruptsOn /\ Asserted(l)
  /\ irr' = irr \ {l} /\ isr' = isr \cup InService(l)
  /\ stack' = [stack EXCEPT !["irq"] = <<Vector(l), pc, Word(seg.cs), flags, sp, Word(seg.ss)>>]
  /\ seg' = [seg EXCEPT !.cs = GateSelector, !.ss = IF InUserMode THEN Null ELSE @]
  /\ sp' = "irq" /\ flags' = GateFlags(flags)
  /\ pc' = "irq_stub"
  /\ before' = Snapshot
  /\ UNCHANGED <<regs, routine, caller, debugged>>

\* irq0 .. irq15: push a filler and the number, and jump through r14.  The stub
\* entered is known by its vector, which Deliver left on top.
IrqStub ==
  /\ pc = "irq_stub"
  /\ stack' = [stack EXCEPT ![sp] = <<Head(@), "error_code">> \o Tail(@)]
  /\ regs' = [regs EXCEPT !["r14"] = "irq_common_stub"]
  /\ pc' = "irq_common_stub"
  /\ UNCHANGED <<seg, flags, sp, routine, pic, ghosts>>

PushAll == Reverse([n \in DOMAIN PushedRegs |-> regs[PushedRegs[n]]])

\* irq_common_stub up to the call: pusha, ds, and four control registers.
SaveState ==
  /\ pc = "irq_common_stub"
  /\ stack' = [stack EXCEPT ![sp] = <<"cr4", "cr3", "cr2", "cr0", Word(seg.ds)>> \o PushAll \o @]
  /\ seg' = [seg EXCEPT !.ds = KernelData]
  /\ regs' = [regs EXCEPT !["rax"] = "cr4", !["rdi"] = "rsp", !["r14"] = "irq_handler"]
  /\ pc' = "irq_handler"
  /\ UNCHANGED <<flags, sp, routine, pic, ghosts>>

\* The interrupt_number field of the structure the stub assembled.
InterruptNumber == stack[sp][6 + Len(PushedRegs)]

\* irq_handler: C code, ending with the end of interrupt.  With interrupts off
\* nothing can observe it half done.
IrqHandler ==
  /\ pc = "irq_handler"
  /\ \E l \in Lines :
       /\ InterruptNumber = Vector(l)
       /\ isr' = SendEoi(isr, l)
  /\ \E used \in {{}, Volatile} : regs' = Clobbered(used)
  /\ pc' = "irq_restore"
  /\ UNCHANGED <<seg, flags, sp, stack, routine, irr, ghosts>>

\* Slip: popa in the order of pusha.
PopInPushOrder(s) ==
  [r \in Regs |-> IF r \in Range(PushedRegs)
                  THEN s[CHOOSE n \in DOMAIN PushedRegs : PushedRegs[n] = r] ELSE regs[r]]

\* popa, of a stack with the saved registers on top.
PopAll(s) ==
  [r \in Regs |-> IF r \in Range(PushedRegs)
                  THEN s[Len(PushedRegs) + 1 - (CHOOSE n \in DOMAIN PushedRegs : PushedRegs[n] = r)]
                  ELSE regs[r]]

\* The rest of irq_common_stub: drop the control registers, ds, popa, add rsp, 16.
RestoreState ==
  LET saved == SubSeq(stack[sp], 6, Len(stack[sp])) IN
  /\ pc = "irq_restore"
  /\ regs' = PopAll(saved)
  /\ seg' = [seg EXCEPT !.ds = SelectorIn(stack[sp][5])]
  /\ stack' = [stack EXCEPT ![sp] = SubSeq(saved, Len(PushedRegs) + 3, Len(saved))]
  /\ pc' = "irq_iretq"
  /\ UNCHANGED <<flags, sp, routine, pic, ghosts>>

\* iretq: what is left on the stack is the frame the processor pushed.
IrqReturn ==
  LET frame == stack[sp] IN
  /\ pc = "irq_iretq"
  /\ pc' = frame[1] /\ flags' = frame[3] /\ sp' = frame[4]
  /\ seg' = [seg EXCEPT !.cs = SelectorIn(frame[2]), !.ss = SelectorIn(frame[5])]
  /\ stack' = [stack EXCEPT !["irq"] = SubSeq(frame, 6, Len(frame))]
  /\ before' = NoSnapshot
  /\ UNCHANGED <<regs, routine, pic, caller, debugged>>

InterruptPath == IrqStub \/ SaveState \/ IrqHandler \/ RestoreState \/ IrqReturn

\* isr1: the debug exception runs on IST1 and is a bare iretq.
DebugException ==
  /\ SingleSteps
  /\ debugged' = TRUE
  /\ UNCHANGED <<cpu, pic, before, caller>>

-----------------------------------------------------------------------------
(* The program: boot code, then user mode and its system calls.  It takes  *)
(* an instruction only when no interrupt is to be taken first.             *)

Runs == ~ (InterruptsOn /\ \E l \in Lines : Asserted(l))

Goto(label) == pc' = label

\* lea r14, [rel foo]
LoadTarget ==
  /\ pc = "lea" /\ Runs
  /\ regs' = [regs EXCEPT !["r14"] = Routines[routine]]
  /\ Goto("call")
  /\ UNCHANGED <<seg, flags, sp, stack, routine, pic, ghosts>>

\* call r14: to the routine, or to wherever r14 points.
CallTarget ==
  /\ pc = "call" /\ Runs
  /\ Goto(IF regs["r14"] = Routines[routine] THEN "callee" ELSE "astray")
  /\ UNCHANGED <<seg, regs, flags, sp, stack, routine, pic, ghosts>>

\* The routine runs.  enter_userspace is the code of the calls that follow; the
\* others are C code or keep C's convention, and return.  The page request_page
\* returned becomes the user stack, kept in rbx.
Callee ==
  /\ pc = "callee" /\ Runs
  /\ \E used \in {{}, Volatile} :
       regs' = [Clobbered(used) EXCEPT
                  !["rbx"] = IF Routines[routine] = "request_page" THEN "user" ELSE @]
  /\ IF routine < Len(Routines)
     THEN routine' = routine + 1 /\ Goto("lea")
     ELSE routine' = routine /\ Goto("lea_uentry")
  /\ UNCHANGED <<seg, flags, sp, stack, pic, ghosts>>

\* mov ds, and lea r14, [rel uentry], the frame below it already pushed.
LoadUserEntry ==
  /\ pc = "lea_uentry" /\ Runs
  /\ regs' = [regs EXCEPT !["r14"] = "uentry"]
  /\ seg' = [seg EXCEPT !.ds = UserData]
  /\ Goto("enter_user")
  /\ UNCHANGED <<flags, sp, stack, routine, pic, ghosts>>

\* push r14, iretq: to user mode, flags 0x202, on the stack rbx points to.
EnterUser ==
  /\ pc = "enter_user" /\ Runs
  /\ Goto(IF regs["r14"] = "uentry" THEN "user" ELSE "astray")
  /\ seg' = [seg EXCEPT !.cs = UserCode, !.ss = UserData]
  /\ flags' = "IF" /\ sp' = regs["rbx"]
  /\ UNCHANGED <<regs, stack, routine, pic, ghosts>>

\* syscall, from user mode: the processor keeps rip in rcx and rflags in r11.
\* IA32_FMASK is never written, so the flags stay as they are.
Syscall ==
  /\ pc = "user" /\ Runs
  /\ regs' = [regs EXCEPT !["rcx"] = "user", !["r11"] = flags]
  /\ seg' = [seg EXCEPT !.cs = SyscallSegments.cs, !.ss = SyscallSegments.ss]
  /\ Goto("syscall_handler")
  /\ caller' = Snapshot
  /\ UNCHANGED <<flags, sp, stack, routine, pic, before, debugged>>

\* syscall_handler's cli.
DisableInterrupts ==
  /\ pc = "syscall_handler" /\ Runs
  /\ flags' = IF SingleSteps THEN "TF" ELSE ""
  /\ Goto("syscall_switch")
  /\ UNCHANGED <<seg, regs, sp, stack, routine, pic, ghosts>>

\* push rbp, and the switch to the stack of tss_rsp0, through r11.
SwitchStack ==
  /\ pc = "syscall_switch"
  /\ stack' = [stack EXCEPT ![sp] = <<regs["rbp"]>> \o @, !["boot"] = <<regs["rcx"], sp>>]
  /\ regs' = [regs EXCEPT !["rbp"] = "rsp", !["r11"] = "rsp", !["r10"] = "syscall_table"]
  /\ sp' = "boot"
  /\ Goto("syscall_call")
  /\ UNCHANGED <<seg, flags, routine, pic, ghosts>>

\* call [rax]: the C function of the system call.
CallTable ==
  /\ pc = "syscall_call"
  /\ \E used \in {{}, Volatile} : regs' = Clobbered(used)
  /\ Goto("syscall_return")
  /\ UNCHANGED <<seg, flags, sp, stack, routine, pic, ghosts>>

\* The flags in a register: a value that is no copy of the flags has any bits.
FlagsIn(v) == IF v \in AllFlags THEN {v} ELSE AllFlags

\* Slip: pop rsp without the pop rbp that follows it.
PopCallerWithoutRbp(kernel, user) ==
  /\ regs' = [regs EXCEPT !["rcx"] = kernel[1], !["rbp"] = regs["rbp"]]
  /\ sp' = kernel[2]
  /\ stack' = [stack EXCEPT !["boot"] = <<>>, ![kernel[2]] = user]

\* pop rcx, pop rsp, pop rbp
PopCaller(kernel, user) ==
  /\ regs' = [regs EXCEPT !["rcx"] = kernel[1], !["rbp"] = Head(user)]
  /\ sp' = kernel[2]
  /\ stack' = [stack EXCEPT !["boot"] = <<>>, ![kernel[2]] = Tail(user)]

\* o64 sysret: rip from rcx and rflags from r11.
Sysret ==
  /\ pc = "syscall_return"
  /\ PopCaller(stack["boot"], stack[stack["boot"][2]])
  /\ pc' = regs'["rcx"] /\ seg' = [seg EXCEPT !.cs = SysretSegments.cs, !.ss = SysretSegments.ss]
  /\ flags' \in FlagsIn(regs["r11"])
  /\ caller' = NoSnapshot
  /\ UNCHANGED <<routine, pic, before, debugged>>

Program ==
  \/ LoadTarget \/ CallTarget \/ Callee \/ LoadUserEntry \/ EnterUser
  \/ Syscall \/ DisableInterrupts \/ SwitchStack \/ CallTable \/ Sysret

-----------------------------------------------------------------------------
Next ==
  \/ \E l \in Lines : Raise(l) \/ Deliver(l)
  \/ InterruptPath
  \/ DebugException
  \/ Program

\* The processor does not stop, and takes the interrupt that is asserted at the
\* next instruction, so one that is asserted again and again is taken.
Fairness ==
  /\ WF_vars(InterruptPath) /\ WF_vars(Program)
  /\ \A l \in Lines : SF_vars(Deliver(l))

Spec == Init /\ [][Next]_vars /\ Fairness

-----------------------------------------------------------------------------
\* Wherever the program is, the selectors it runs with name descriptors that fit:
\* cs a 64-bit code segment of the privilege it runs at, ss a writable segment of
\* that privilege (or null, in an interrupt from user mode), ds a data segment it
\* may use.  SYSRET and the frames of two iretq must find them in one table.
SegmentsFit ==
  LET cpl == Rpl(seg.cs) IN
  /\ IsCode(seg.cs) /\ Dpl(seg.cs) = cpl
  /\ \/ seg.ss = Null /\ cpl = 0
     \/ IsData(seg.ss) /\ Dpl(seg.ss) = cpl /\ Rpl(seg.ss) = cpl
  /\ IsData(seg.ds) /\ Dpl(seg.ds) >= cpl
  /\ InUserMode => pc \in {"user", "astray"}
  /\ IsTss(TaskRegister)

\* An interrupt is invisible to what it interrupts, as far as the stub saves it:
\* when iretq returns, the seven registers of pusha, the flags, the segments,
\* the stack and the place are what they were, whatever irq_handler's C code used.
InterruptTransparent ==
  [][Handling /\ ~Handling' =>
       /\ \A r \in Range(PushedRegs) : regs'[r] = before.regs[r]
       /\ <<pc', seg', flags', sp'>> = <<before.pc, before.seg, before.flags, before.sp>>
       /\ stack'["irq"] = <<>>]_vars

\* IST2 is one stack, reset at every irq: an irq must never arrive while another
\* is being handled, or it overwrites the frame the first one returns through.
OneFrameOnIst ==
  [][\A l \in Lines : Deliver(l) => ~Handling /\ stack["irq"] = <<>>]_vars

\* A system call comes back to its caller: rip, the segments, the stack, rbp and what C code
\* keeps, the scratch register r14 apart, are those at the syscall instruction.
SyscallReturns ==
  [][Sysret =>
       /\ \A r \in Preserved \ {"r14"} : regs'[r] = caller.regs[r]
       /\ <<pc', seg', sp'>> = <<caller.pc, caller.seg, caller.sp>>
       /\ stack'[sp'] = <<>>]_vars

\* A raised line is delivered, when the program keeps coming back to running with
\* interrupts on and nothing more urgent requested.
Quiet(l) == ~Handling /\ InterruptsOn /\ \A m \in irr : ~Above(m, l)
RaisedIsDelivered ==
  \A l \in Lines : []<>Quiet(l) => (l \in irr ~> l \notin irr)

\* docs/CALLING-CONVENTIONS.md:46-47: the address of foo is loaded into r14, and
\* the call is to foo.
CallsItsTarget == pc # "astray"

\* cpu/interrupts.asm:85-86: a debug exception is raised without reason, that
\* is, no code of the kernel turns single-stepping on.
NothingSingleSteps == ~debugged
=============================================================================
