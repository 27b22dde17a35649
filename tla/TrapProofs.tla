----------------------------- MODULE TrapProofs -----------------------------
(***************************************************************************)
(* Proofs about Trap, for every set of lines.                              *)
(***************************************************************************)
EXTENDS Trap, SequenceTheorems, TLAPS

\* Everything a register or a stack may hold.
Values ==
  Regs \cup AllFlags \cup StackNames
  \cup {"junk", "rsp", "cr0", "cr2", "cr3", "cr4", "error_code", "syscall_table"}
  \cup {"irq_common_stub", "irq_handler", "uentry"}
  \cup {"request_page", "donate_to_userspace", "setup_syscalls", "enter_userspace"}
  \cup {"lea", "call", "callee", "lea_uentry", "enter_user", "user", "astray", "syscall_handler"}
  \cup {"null", "kernel code", "kernel data", "user data", "user code", "task"}
  \cup {Vector(l) : l \in 0 .. 15}

PushedSet == {"rax", "rcx", "rdx", "rbx", "rbp", "rsi", "rdi"}
Kept == {"rbx", "rbp", "r12", "r13", "r15"}

-----------------------------------------------------------------------------
(* The descriptor table and the stub's list of registers, computed.        *)

\* What gdt_init and tss_install leave in the table, entry by entry.
LEMMA TableOfGdt ==
  /\ Len(Gdt) = 7
  /\ Gdt[2] = [flags |-> BaseDesc \cup {"EXECUTABLE"}, granularity |-> BaseGran]
  /\ Gdt[3] = [flags |-> BaseDesc, granularity |-> BaseGran]
  /\ Gdt[4] = [flags |-> BaseDesc \cup {"DPL"}, granularity |-> BaseGran]
  /\ Gdt[5] = [flags |-> BaseDesc \cup {"EXECUTABLE", "DPL"}, granularity |-> BaseGran]
  /\ Gdt[6] = [flags |-> {"ACCESS", "EXECUTABLE", "PRESENT"}, granularity |-> {}]
BY DEF Gdt, Install, InstallTss, MaxDescriptors

\* The seven registers the stub pushes are seven different ones.
LEMMA PushedList ==
  /\ Len(PushedRegs) = 7 /\ DOMAIN PushedRegs = 1 .. 7
  /\ Range(PushedRegs) = PushedSet
  /\ \A n \in 1 .. 7 : PushedRegs[n] \in PushedSet
  /\ \A n, m \in 1 .. 7 : PushedRegs[n] = PushedRegs[m] => n = m
BY DEF PushedRegs, PushedSet, Range

\* A selector pushed on a stack comes back as itself: no two share a word.
LEMMA WordsApart == \A s \in Selectors : SelectorIn(Word(s)) = s
<1>1. Selectors = {0, 8, 16, 27, 35, 40}
  BY DEF Selectors, Null, KernelCode, KernelData, UserData, UserCode, TaskRegister
<1>2. /\ Word(0) = "null" /\ Word(8) = "kernel code" /\ Word(16) = "kernel data"
      /\ Word(27) = "user data" /\ Word(35) = "user code" /\ Word(40) = "task"
  BY DEF Word, Null, KernelCode, KernelData, UserData, UserCode
<1>3. ASSUME NEW s \in Selectors, NEW t \in Selectors, Word(s) = Word(t)
      PROVE  s = t
  <2>1. CASE s = 0
    BY <1>1, <1>2, <1>3, <2>1, Zenon
  <2>2. CASE s = 8
    BY <1>1, <1>2, <1>3, <2>2, Zenon
  <2>3. CASE s = 16
    BY <1>1, <1>2, <1>3, <2>3, Zenon
  <2>4. CASE s = 27
    BY <1>1, <1>2, <1>3, <2>4, Zenon
  <2>5. CASE s = 35
    BY <1>1, <1>2, <1>3, <2>5, Zenon
  <2>6. CASE s = 40
    BY <1>1, <1>2, <1>3, <2>6, Zenon
  <2> QED
    BY <1>1, <2>1, <2>2, <2>3, <2>4, <2>5, <2>6
<1>4. ASSUME NEW s \in Selectors
      PROVE  SelectorIn(Word(s)) = s
  BY <1>3, <1>4 DEF SelectorIn
<1> QED
  BY <1>4

-----------------------------------------------------------------------------
(* Tops of stacks.                                                         *)

\* Pushing leaves what is below in place, further down.
LEMMA OnTop ==
  ASSUME NEW S, NEW p \in Seq(S), NEW s \in Seq(S)
  PROVE  /\ p \o s \in Seq(S)
         /\ Len(p \o s) = Len(p) + Len(s)
         /\ \A n \in 1 .. Len(p) : (p \o s)[n] = p[n]
         /\ \A n \in 1 .. Len(s) : (p \o s)[Len(p) + n] = s[n]
<1>1. Len(p) \in Nat /\ Len(s) \in Nat
  OBVIOUS
<1>2. /\ p \o s \in Seq(S)
      /\ Len(p \o s) = Len(p) + Len(s)
      /\ \A i \in 1 .. Len(p) + Len(s) : (p \o s)[i] = IF i <= Len(p) THEN p[i] ELSE s[i - Len(p)]
  BY ConcatProperties, Zenon
<1> DEFINE t == p \o s
<1> HIDE DEF t
<1>3. \A i \in 1 .. Len(p) + Len(s) : t[i] = IF i <= Len(p) THEN p[i] ELSE s[i - Len(p)]
  BY <1>2 DEF t
<1>4. \A n \in 1 .. Len(p) : t[n] = p[n]
  BY <1>1, <1>3
<1>5. ASSUME NEW n \in 1 .. Len(s)
      PROVE  t[Len(p) + n] = s[n]
  <2>1. Len(p) + n \in 1 .. Len(p) + Len(s) /\ ~(Len(p) + n <= Len(p))
        /\ (Len(p) + n) - Len(p) = n
    BY <1>1
  <2> QED
    BY <2>1, <1>3
<1> QED
  BY <1>2, <1>4, <1>5 DEF t

\* Dropping k words, add rsp or the pops, leaves the rest in order.
LEMMA Dropped ==
  ASSUME NEW S, NEW s \in Seq(S), NEW k \in Nat, k <= Len(s)
  PROVE  /\ SubSeq(s, k + 1, Len(s)) \in Seq(S)
         /\ Len(SubSeq(s, k + 1, Len(s))) = Len(s) - k
         /\ \A n \in 1 .. Len(s) - k : SubSeq(s, k + 1, Len(s))[n] = s[k + n]
<1> DEFINE first == k + 1
           last == Len(s)
           t == SubSeq(s, first, last)
<1>1. first \in Int /\ last \in Int /\ last \in Nat /\ \A i \in first .. last : s[i] \in S
  OBVIOUS
<1> HIDE DEF first, last
<1>2. /\ t \in Seq(S)
      /\ Len(t) = IF first <= last THEN last - first + 1 ELSE 0
      /\ \A i \in 1 .. last - first + 1 : t[i] = s[first + i - 1]
  BY <1>1, SubSeqProperties
<1> HIDE DEF t
<1>3. Len(t) = Len(s) - k /\ \A n \in 1 .. Len(s) - k : t[n] = s[k + n]
  BY <1>1, <1>2 DEF first, last
<1> QED
  BY <1>2, <1>3 DEF t, first, last

\* One pop takes the first word and moves the rest up.
LEMMA Popped ==
  ASSUME NEW S, NEW s \in Seq(S), Len(s) > 0
  PROVE  /\ Head(s) = s[1]
         /\ Tail(s) \in Seq(S) /\ Len(Tail(s)) = Len(s) - 1
         /\ \A n \in 1 .. Len(s) - 1 : Tail(s)[n] = s[n + 1]
<1>1. s # <<>>
  OBVIOUS
<1>2. /\ Tail(s) \in Seq(S)
      /\ Len(Tail(s)) = Len(s) - 1
      /\ \A i \in 1 .. Len(Tail(s)) : Tail(s)[i] = s[i + 1]
  BY <1>1, HeadTailProperties, Zenon
<1>3. \A n \in 1 .. Len(s) - 1 : Tail(s)[n] = s[n + 1]
  BY <1>2, Zenon
<1>4. Head(s) = s[1]
  BY <1>1
<1> QED
  BY <1>2, <1>3, <1>4, Zenon

-----------------------------------------------------------------------------
(* The strengthening.  Where the program is interrupted, the snapshot of   *)
(* before is what it goes on as; otherwise it is the processor itself.     *)

Suspended == IF Handling THEN before ELSE Snapshot

ProgramCode ==
  {"lea", "call", "callee", "lea_uentry", "enter_user", "user", "astray",
   "syscall_handler", "syscall_switch", "syscall_call", "syscall_return"}

InSyscall == {"syscall_handler", "syscall_switch", "syscall_call", "syscall_return"}
OnSystemStack == {"syscall_call", "syscall_return"}

Segs(cs, ss, ds) == [cs |-> cs, ss |-> ss, ds |-> ds]

\* The segments that belong to a place of the program.
SegmentsAt(p) ==
  /\ p.pc \in {"lea", "call", "callee", "lea_uentry"} =>
       p.seg = Segs(KernelCode, KernelData, KernelData)
  /\ p.pc = "user" => p.seg = Segs(UserCode, UserData, UserData)
  /\ p.pc = "astray" => \/ p.seg = Segs(KernelCode, KernelData, KernelData)
                        \/ p.seg = Segs(UserCode, UserData, UserData)
  /\ p.pc \in InSyscall \cup {"enter_user"} => p.seg = Segs(KernelCode, KernelData, UserData)

\* The user stack's address is in rbx from the call of request_page to iretq.
StackKept(p) ==
  \/ p.pc \in {"lea", "call", "callee"} /\ routine > 2
  \/ p.pc \in {"lea_uentry", "enter_user"}
  => p.regs["rbx"] = "user"

\* What a system call has to bring back is still there.
CallerKept(p) ==
  p.pc \in InSyscall =>
    /\ caller.pc = "user" /\ caller.sp = "user"
    /\ caller.seg = Segs(UserCode, UserData, UserData)
    /\ \A r \in Kept \ {"rbp"} : p.regs[r] = caller.regs[r]
    /\ p.pc \notin OnSystemStack => p.regs["rbp"] = caller.regs["rbp"] /\ p.regs["rcx"] = "user"

ProgramSound(p) ==
  /\ p.pc \in ProgramCode
  /\ p.regs \in [Regs -> Values]
  /\ p.flags \in AllFlags
  /\ p.sp \in {"boot", "user"}
  /\ p.pc \in {"user", "syscall_handler", "syscall_switch"} => p.sp = "user"
  /\ p.pc \in {"syscall_switch"} \cup OnSystemStack => p.flags \in {"", "TF"}
  /\ SegmentsAt(p) /\ StackKept(p) /\ CallerKept(p)

\* The words of the frame that iretq returns through lie behind k others.
FrameBehind(s, k) ==
  /\ Len(s) = k + 5
  /\ s[k + 1] = before.pc /\ s[k + 2] = Word(before.seg.cs) /\ s[k + 3] = before.flags
  /\ s[k + 4] = before.sp /\ s[k + 5] = Word(before.seg.ss)

SavedIn(s) ==
  /\ s[5] = Word(before.seg.ds)
  /\ \A n \in 1 .. 7 : s[5 + n] = before.regs[PushedRegs[8 - n]]

Untouched ==
  /\ seg.ds = before.seg.ds
  /\ \A r \in PushedSet : regs[r] = before.regs[r]

StackSound ==
  /\ stack \in [StackNames -> Seq(Values)]
  /\ IF Suspended.pc \in OnSystemStack
     THEN stack["boot"] = <<"user", "user">> /\ stack["user"] = <<caller.regs["rbp"]>>
     ELSE stack["user"] = <<>>
  /\ ~Handling => stack["irq"] = <<>>

HandlerSound ==
  Handling =>
    /\ regs \in [Regs -> Values]
    /\ sp = "irq" /\ flags = ""
    /\ seg.cs = KernelCode /\ seg.ss \in {Null, KernelData} /\ seg.ds \in {KernelData, UserData}
    /\ DOMAIN seg = {"cs", "ss", "ds"}
    /\ \A r \in {"r12", "r13", "r15"} : regs[r] = before.regs[r]
    /\ pc \in {"irq_stub", "irq_common_stub", "irq_iretq"} => Untouched
    /\ pc \in {"irq_handler", "irq_restore"} => SavedIn(stack["irq"])
    /\ pc = "irq_stub" => FrameBehind(stack["irq"], 1)
    /\ pc = "irq_common_stub" => FrameBehind(stack["irq"], 2)
    /\ pc \in {"irq_handler", "irq_restore"} => FrameBehind(stack["irq"], 14)
    /\ pc = "irq_iretq" => FrameBehind(stack["irq"], 0)

IInv ==
  /\ routine \in 1 .. 4
  /\ ProgramSound(Suspended)
  /\ StackSound
  /\ HandlerSound

-----------------------------------------------------------------------------
(* The strengthening is inductive: the program's steps.                    *)

USE DEF Handling, IrqCode

\* The boot code starts with nothing interrupted and no system call under way.
LEMMA Initial == Init => IInv
<1> SUFFICES ASSUME Init PROVE IInv
  OBVIOUS
<1>1. Suspended = Snapshot /\ ~Handling
  BY DEF Init, Suspended
<1>2. ProgramSound(Snapshot)
  BY DEF Init, Snapshot, ProgramSound, ProgramCode, SegmentsAt, StackKept, CallerKept, InSyscall, OnSystemStack,
         Segs, Regs, Volatile, Preserved, Values, AllFlags
<1>3. StackSound
  BY <1>1 DEF Init, Snapshot, StackSound, StackNames, OnSystemStack
<1> QED
  BY <1>1, <1>2, <1>3 DEF Init, IInv, HandlerSound

\* What the program's steps have in common.
LEMMA Running ==
  ASSUME IInv, ~Handling
  PROVE  /\ routine \in 1 .. 4 /\ ProgramSound(Snapshot) /\ Suspended = Snapshot
         /\ stack \in [StackNames -> Seq(Values)] /\ stack["irq"] = <<>>
         /\ pc \notin OnSystemStack => stack["user"] = <<>>
         /\ pc \in OnSystemStack => /\ stack["boot"] = <<"user", "user">>
                                    /\ stack["user"] = <<caller.regs["rbp"]>>
<1>1. Suspended = Snapshot /\ Snapshot.pc = pc
  BY DEF Suspended, Snapshot
<1> QED
  BY <1>1 DEF IInv, StackSound

\* A step that ends in the program keeps the strengthening when it keeps its parts.
LEMMA StillRunning ==
  ASSUME pc' \in ProgramCode, routine' \in 1 .. 4, ProgramSound(Snapshot)',
         stack' \in [StackNames -> Seq(Values)], stack'["irq"] = <<>>,
         pc' \notin OnSystemStack => stack'["user"] = <<>>,
         pc' \in OnSystemStack => /\ stack'["boot"] = <<"user", "user">>
                                  /\ stack'["user"] = <<caller'.regs["rbp"]>>
  PROVE  IInv' /\ ~Handling'
<1>1. ~Handling'
  BY DEF ProgramCode
<1>2. Suspended' = Snapshot' /\ (Snapshot.pc)' = pc'
  BY <1>1 DEF Suspended, Snapshot
<1> QED
  BY <1>1, <1>2 DEF IInv, StackSound, HandlerSound

\* C code changes the registers it may.
LEMMA Clobbering ==
  ASSUME NEW used \in {{}, Volatile}, regs \in [Regs -> Values]
  PROVE  /\ Clobbered(used) \in [Regs -> Values]
         /\ \A r \in Kept \cup {"r14"} : Clobbered(used)[r] = regs[r]
BY DEF Clobbered, Regs, Volatile, Preserved, Kept, Values

\* lea r14 changes only r14, which nothing relies on keeping.
LEMMA LoadTargetKeeps == IInv /\ LoadTarget => IInv' /\ ~Handling'
<1> SUFFICES ASSUME IInv, LoadTarget PROVE IInv' /\ ~Handling'
  OBVIOUS
<1>1. ~Handling /\ pc = "lea" /\ pc' = "call"
  BY DEF LoadTarget, Goto
<1>2. ProgramSound(Snapshot)
  BY <1>1, Running
<1>3. Routines[routine] \in Values
  <2>1. Routines[routine] \in {"request_page", "donate_to_userspace", "setup_syscalls", "enter_userspace"}
    BY <1>1, Running DEF Routines
  <2> QED
    BY <2>1 DEF Values
<1>4. ProgramSound(Snapshot)'
  BY <1>1, <1>2, <1>3 DEF LoadTarget, Snapshot, ProgramSound, ProgramCode, SegmentsAt, StackKept, CallerKept,
         InSyscall, OnSystemStack, Regs, Volatile, Preserved
<1> QED
  BY <1>1, <1>4, Running, StillRunning DEF LoadTarget, ProgramCode, OnSystemStack

\* The call changes only the place.
LEMMA CallTargetKeeps == IInv /\ CallTarget => IInv' /\ ~Handling'
<1> SUFFICES ASSUME IInv, CallTarget PROVE IInv' /\ ~Handling'
  OBVIOUS
<1>1. ~Handling /\ pc = "call" /\ pc' \in {"callee", "astray"}
  BY DEF CallTarget, Goto
<1>2. ProgramSound(Snapshot)
  BY <1>1, Running
<1>3. ProgramSound(Snapshot)'
  BY <1>1, <1>2 DEF CallTarget, Snapshot, ProgramSound, ProgramCode, SegmentsAt, StackKept, CallerKept,
         InSyscall, OnSystemStack
<1> QED
  BY <1>1, <1>3, Running, StillRunning DEF CallTarget, ProgramCode, OnSystemStack

\* The routines keep C's registers; from request_page on rbx is the user stack.
LEMMA CalleeKeeps == IInv /\ Callee => IInv' /\ ~Handling'
<1> SUFFICES ASSUME IInv, Callee PROVE IInv' /\ ~Handling'
  OBVIOUS
<1>1. ~Handling /\ pc = "callee" /\ pc' \in {"lea", "lea_uentry"}
  BY DEF Callee, Goto
<1>2. ProgramSound(Snapshot) /\ routine \in 1 .. 4
  BY <1>1, Running
<1>3. PICK used \in {{}, Volatile} :
        regs' = [Clobbered(used) EXCEPT
                   !["rbx"] = IF Routines[routine] = "request_page" THEN "user" ELSE @]
  BY DEF Callee
<1>4. /\ Clobbered(used) \in [Regs -> Values]
      /\ Clobbered(used)["rbx"] = regs["rbx"]
  BY <1>2, Clobbering DEF ProgramSound, Snapshot, Kept
<1>5. regs' \in [Regs -> Values]
  BY <1>3, <1>4 DEF Values, Regs, StackNames
<1>6. routine = 2 \/ regs["rbx"] = "user" => regs'["rbx"] = "user"
  BY <1>3, <1>4 DEF Routines, Regs, Preserved
<1>7. /\ routine < 4 => routine' = routine + 1 /\ pc' = "lea"
      /\ routine = 4 => routine' = routine /\ pc' = "lea_uentry"
  BY <1>2 DEF Callee, Goto, Routines
<1>8. StackKept(Snapshot)'
  <2>1. routine > 2 => regs["rbx"] = "user"
    BY <1>1, <1>2 DEF Snapshot, ProgramSound, StackKept
  <2>2. routine' > 2 \/ pc' = "lea_uentry" => regs'["rbx"] = "user"
    BY <1>2, <1>6, <1>7, <2>1
  <2> QED
    BY <1>1, <2>2 DEF Snapshot, StackKept
<1>9. ProgramSound(Snapshot)'
  BY <1>1, <1>2, <1>5, <1>8 DEF Callee, Snapshot, ProgramSound, ProgramCode, SegmentsAt, CallerKept,
         InSyscall, OnSystemStack
<1> QED
  BY <1>1, <1>2, <1>7, <1>9, Running, StillRunning DEF Callee, ProgramCode, OnSystemStack

\* enter_userspace loads the user's ds, with rbx untouched.
LEMMA LoadUserEntryKeeps == IInv /\ LoadUserEntry => IInv' /\ ~Handling'
<1> SUFFICES ASSUME IInv, LoadUserEntry PROVE IInv' /\ ~Handling'
  OBVIOUS
<1>1. ~Handling /\ pc = "lea_uentry" /\ pc' = "enter_user"
  BY DEF LoadUserEntry, Goto
<1>2. ProgramSound(Snapshot)
  BY <1>1, Running
<1>3. regs \in [Regs -> Values] /\ seg = Segs(KernelCode, KernelData, KernelData) /\ regs["rbx"] = "user"
  BY <1>1, <1>2 DEF Snapshot, ProgramSound, SegmentsAt, StackKept
<1>4. seg' = Segs(KernelCode, KernelData, UserData)
  BY <1>3 DEF LoadUserEntry, Segs
<1>5. regs' \in [Regs -> Values] /\ regs'["rbx"] = "user"
  BY <1>3 DEF LoadUserEntry, Regs, Preserved, Values
<1>6. ProgramSound(Snapshot)'
  BY <1>1, <1>2, <1>4, <1>5 DEF LoadUserEntry, Snapshot, ProgramSound, ProgramCode, SegmentsAt, StackKept,
         CallerKept, InSyscall, OnSystemStack
<1> QED
  BY <1>1, <1>6, Running, StillRunning DEF LoadUserEntry, ProgramCode, OnSystemStack

\* iretq enters user mode on the page request_page returned.
LEMMA EnterUserKeeps == IInv /\ EnterUser => IInv' /\ ~Handling'
<1> SUFFICES ASSUME IInv, EnterUser PROVE IInv' /\ ~Handling'
  OBVIOUS
<1>1. ~Handling /\ pc = "enter_user" /\ pc' \in {"user", "astray"}
  BY DEF EnterUser, Goto
<1>2. ProgramSound(Snapshot)
  BY <1>1, Running
<1>3. /\ regs \in [Regs -> Values] /\ seg = Segs(KernelCode, KernelData, UserData)
      /\ regs["rbx"] = "user"
  BY <1>1, <1>2 DEF Snapshot, ProgramSound, SegmentsAt, StackKept, InSyscall
<1>4. seg' = Segs(UserCode, UserData, UserData)
  BY <1>3 DEF EnterUser, Segs
<1>5. regs' = regs /\ sp' = "user" /\ flags' \in AllFlags
  BY <1>3 DEF EnterUser, AllFlags
<1>6. ProgramSound(Snapshot)'
  BY <1>1, <1>3, <1>4, <1>5 DEF Snapshot, ProgramSound, ProgramCode, SegmentsAt, StackKept,
         CallerKept, InSyscall, OnSystemStack
<1> QED
  BY <1>1, <1>6, Running, StillRunning DEF EnterUser, ProgramCode, OnSystemStack

\* syscall records the caller and leaves what C keeps as it was.
LEMMA SyscallKeeps == IInv /\ Syscall => IInv' /\ ~Handling'
<1> SUFFICES ASSUME IInv, Syscall PROVE IInv' /\ ~Handling'
  OBVIOUS
<1>1. ~Handling /\ pc = "user" /\ pc' = "syscall_handler"
  BY DEF Syscall, Goto
<1>2. ProgramSound(Snapshot)
  BY <1>1, Running
<1>3. seg = Segs(UserCode, UserData, UserData) /\ sp = "user" /\ regs \in [Regs -> Values] /\ flags \in AllFlags
  BY <1>1, <1>2 DEF ProgramSound, SegmentsAt, Snapshot
<1>4. seg' = Segs(KernelCode, KernelData, UserData)
  <2>1. SyscallSegments.cs = KernelCode /\ SyscallSegments.ss = KernelData
    BY DEF SyscallSegments, Star, KernelCode, KernelData
  <2> QED
    BY <1>3, <2>1 DEF Syscall, Segs
<1>5. /\ regs' \in [Regs -> Values] /\ regs'["rcx"] = "user"
      /\ \A r \in Kept : regs'[r] = regs[r]
  BY <1>3 DEF Syscall, Regs, Volatile, Preserved, Kept, Values, StackNames
<1>6. CallerKept(Snapshot)'
  BY <1>1, <1>3, <1>5 DEF Syscall, Snapshot, CallerKept, Kept
<1>7. ProgramSound(Snapshot)'
  BY <1>1, <1>3, <1>4, <1>5, <1>6 DEF Syscall, Snapshot, ProgramSound, ProgramCode, SegmentsAt, StackKept,
         InSyscall, OnSystemStack
<1> QED
  BY <1>1, <1>7, Running, StillRunning DEF Syscall, ProgramCode, OnSystemStack

\* cli: from here to sysret no interrupt is taken.
LEMMA DisableInterruptsKeeps == IInv /\ DisableInterrupts => IInv' /\ ~Handling'
<1> SUFFICES ASSUME IInv, DisableInterrupts PROVE IInv' /\ ~Handling'
  OBVIOUS
<1>1. ~Handling /\ pc = "syscall_handler" /\ pc' = "syscall_switch"
  BY DEF DisableInterrupts, Goto
<1>2. ProgramSound(Snapshot)
  BY <1>1, Running
<1>3. flags' \in {"", "TF"} /\ flags' \in AllFlags
  BY DEF DisableInterrupts, AllFlags
<1>4. CallerKept(Snapshot)'
  BY <1>1, <1>2 DEF DisableInterrupts, ghosts, Snapshot, ProgramSound, CallerKept, InSyscall, OnSystemStack
<1>5. ProgramSound(Snapshot)'
  BY <1>1, <1>2, <1>3, <1>4 DEF DisableInterrupts, Snapshot, ProgramSound, ProgramCode, SegmentsAt, StackKept,
         InSyscall, OnSystemStack
<1> QED
  BY <1>1, <1>5, Running, StillRunning DEF DisableInterrupts, ProgramCode, OnSystemStack

\* The handler's stack holds rip and rsp, the user's holds rbp.
LEMMA SwitchStackKeeps == IInv /\ SwitchStack => IInv' /\ ~Handling'
<1> SUFFICES ASSUME IInv, SwitchStack PROVE IInv' /\ ~Handling'
  OBVIOUS
<1>1. ~Handling /\ pc = "syscall_switch" /\ pc' = "syscall_call"
  BY DEF SwitchStack, Goto
<1>2. ProgramSound(Snapshot)
  BY <1>1, Running
<1>3. /\ sp = "user" /\ regs \in [Regs -> Values] /\ CallerKept(Snapshot)
      /\ seg = Segs(KernelCode, KernelData, UserData) /\ flags \in {"", "TF"} /\ flags \in AllFlags
  BY <1>1, <1>2 DEF Snapshot, ProgramSound, SegmentsAt, InSyscall
<1>4. regs["rbp"] = caller.regs["rbp"] /\ regs["rcx"] = "user"
  BY <1>1, <1>3 DEF Snapshot, CallerKept, InSyscall, OnSystemStack
<1>5. /\ stack \in [StackNames -> Seq(Values)] /\ stack["irq"] = <<>> /\ stack["user"] = <<>>
      /\ routine \in 1 .. 4
  BY <1>1, Running DEF OnSystemStack
<1>6. <<regs["rbp"]>> \o stack["user"] = <<caller.regs["rbp"]>>
  <2>1. regs["rbp"] \in Values
    BY <1>3 DEF Regs, Preserved
  <2>2. <<regs["rbp"]>> \in Seq(Values)
    BY <2>1
  <2> QED
    BY <1>4, <1>5, <2>2, ConcatEmptySeq
<1>7. /\ stack'["user"] = <<caller.regs["rbp"]>>
      /\ stack'["boot"] = <<"user", "user">> /\ stack'["irq"] = <<>>
  BY <1>3, <1>4, <1>5, <1>6 DEF SwitchStack, StackNames
<1>8. stack' \in [StackNames -> Seq(Values)]
  <2>1. <<"user", "user">> \in Seq(Values)
    <3>1. "user" \in Values
      BY DEF Values
    <3> QED
      BY <3>1
  <2>2. <<caller.regs["rbp"]>> \in Seq(Values)
    <3>1. caller.regs["rbp"] \in Values
      BY <1>3, <1>4 DEF Regs, Preserved
    <3> QED
      BY <3>1
  <2> QED
    BY <1>3, <1>4, <1>5, <1>6, <2>1, <2>2 DEF SwitchStack, StackNames
<1>9. regs' \in [Regs -> Values] /\ \A r \in Kept \ {"rbp"} : regs'[r] = regs[r]
  BY <1>3 DEF SwitchStack, Regs, Volatile, Preserved, Kept, Values
<1>10. CallerKept(Snapshot)'
  BY <1>1, <1>3, <1>9 DEF SwitchStack, ghosts, Snapshot, CallerKept, InSyscall, OnSystemStack
<1>11. ProgramSound(Snapshot)'
  BY <1>1, <1>3, <1>9, <1>10 DEF SwitchStack, Snapshot, ProgramSound, ProgramCode, SegmentsAt,
         StackKept, InSyscall, OnSystemStack
<1> QED
  BY <1>1, <1>5, <1>7, <1>8, <1>11, StillRunning DEF SwitchStack, ghosts, ProgramCode, OnSystemStack

\* The system call's C function keeps what the caller needs back.
LEMMA CallTableKeeps == IInv /\ CallTable => IInv' /\ ~Handling'
<1> SUFFICES ASSUME IInv, CallTable PROVE IInv' /\ ~Handling'
  OBVIOUS
<1>1. ~Handling /\ pc = "syscall_call" /\ pc' = "syscall_return"
  BY DEF CallTable, Goto
<1>2. ProgramSound(Snapshot)
  BY <1>1, Running
<1>3. PICK used \in {{}, Volatile} : regs' = Clobbered(used)
  BY DEF CallTable
<1>4. regs' \in [Regs -> Values] /\ \A r \in Kept : regs'[r] = regs[r]
  BY <1>2, <1>3, Clobbering DEF ProgramSound, Snapshot
<1>5. CallerKept(Snapshot)'
  BY <1>1, <1>2, <1>4 DEF CallTable, ghosts, Snapshot, ProgramSound, CallerKept, InSyscall, OnSystemStack
<1>6. ProgramSound(Snapshot)'
  BY <1>1, <1>2, <1>4, <1>5 DEF CallTable, Snapshot, ProgramSound, ProgramCode, SegmentsAt, StackKept,
         InSyscall, OnSystemStack
<1> QED
  BY <1>1, <1>6, Running, StillRunning DEF CallTable, ghosts, ProgramCode, OnSystemStack

\* What sysret brings back.
LEMMA Returning ==
  ASSUME IInv, Sysret
  PROVE  /\ ~Handling /\ pc' = "user" /\ sp' = "user"
         /\ seg' = Segs(UserCode, UserData, UserData)
         /\ regs' \in [Regs -> Values]
         /\ \A r \in Kept : regs'[r] = caller.regs[r]
         /\ caller.pc = "user" /\ caller.sp = "user" /\ caller.seg = Segs(UserCode, UserData, UserData)
         /\ stack' \in [StackNames -> Seq(Values)]
         /\ stack'["user"] = <<>> /\ stack'["irq"] = <<>>
<1>1. ~Handling /\ pc = "syscall_return"
  BY DEF Sysret
<1>2. ProgramSound(Snapshot)
  BY <1>1, Running
<1>3. /\ regs \in [Regs -> Values] /\ CallerKept(Snapshot)
      /\ seg = Segs(KernelCode, KernelData, UserData)
  BY <1>1, <1>2 DEF Snapshot, ProgramSound, SegmentsAt, InSyscall
<1>4. /\ \A r \in Kept \ {"rbp"} : regs[r] = caller.regs[r]
      /\ caller.pc = "user" /\ caller.sp = "user" /\ caller.seg = Segs(UserCode, UserData, UserData)
  BY <1>1, <1>3 DEF Snapshot, CallerKept, InSyscall
<1>5. /\ stack \in [StackNames -> Seq(Values)] /\ stack["irq"] = <<>>
      /\ stack["boot"] = <<"user", "user">> /\ stack["user"] = <<caller.regs["rbp"]>>
  BY <1>1, Running DEF OnSystemStack
<1>6. /\ stack["boot"][1] = "user" /\ stack["boot"][2] = "user"
  BY <1>5
<1>7. Head(stack["user"]) = caller.regs["rbp"] /\ Tail(stack["user"]) = <<>>
  BY <1>5
<1>8. /\ regs' = [regs EXCEPT !["rcx"] = "user", !["rbp"] = caller.regs["rbp"]]
      /\ sp' = "user"
      /\ stack' = [stack EXCEPT !["boot"] = <<>>, !["user"] = <<>>]
  BY <1>6, <1>7 DEF Sysret, PopCaller
<1>9. caller.regs["rbp"] \in Values
  <2>1. stack["user"] \in Seq(Values) /\ Len(stack["user"]) = 1
    BY <1>5 DEF StackNames
  <2> QED
    BY <1>5, <2>1
<1>10. /\ regs' \in [Regs -> Values] /\ regs'["rcx"] = "user"
       /\ \A r \in Kept : regs'[r] = caller.regs[r]
  BY <1>3, <1>4, <1>8, <1>9 DEF Regs, Volatile, Preserved, Kept, Values, StackNames
<1>11. /\ stack' \in [StackNames -> Seq(Values)]
       /\ stack'["user"] = <<>> /\ stack'["irq"] = <<>>
  BY <1>5, <1>8 DEF StackNames
<1>12. seg' = Segs(UserCode, UserData, UserData)
  <2>1. SysretSegments.cs = UserCode /\ SysretSegments.ss = UserData
    BY DEF SysretSegments, Star, UserCode, UserData
  <2> QED
    BY <1>3, <2>1 DEF Sysret, Segs
<1> QED
  BY <1>1, <1>4, <1>8, <1>10, <1>11, <1>12 DEF Sysret

\* After sysret the program is in user mode again, as it was.
LEMMA SysretKeeps == IInv /\ Sysret => IInv' /\ ~Handling'
<1> SUFFICES ASSUME IInv, Sysret PROVE IInv' /\ ~Handling'
  OBVIOUS
<1>1. flags' \in AllFlags
  BY DEF Sysret, FlagsIn, AllFlags
<1>2. ProgramSound(Snapshot)'
  BY <1>1, Returning DEF Snapshot, ProgramSound, ProgramCode, SegmentsAt, StackKept, CallerKept, InSyscall,
         OnSystemStack
<1>3. routine' \in 1 .. 4
  BY Returning, Running DEF Sysret
<1> QED
  BY <1>2, <1>3, Returning, StillRunning DEF ProgramCode, OnSystemStack

\* Every step of the program keeps the strengthening, outside the handler.
LEMMA ProgramKeeps == IInv /\ Program => IInv' /\ ~Handling /\ ~Handling'
<1>1. Program => ~Handling
  BY DEF Program, LoadTarget, CallTarget, Callee, LoadUserEntry, EnterUser, Syscall, DisableInterrupts,
         SwitchStack, CallTable, Sysret
<1> QED
  BY <1>1, LoadTargetKeeps, CallTargetKeeps, CalleeKeeps, LoadUserEntryKeeps, EnterUserKeeps, SyscallKeeps,
     DisableInterruptsKeeps, SwitchStackKeeps, CallTableKeeps, SysretKeeps DEF Program

-----------------------------------------------------------------------------
(* The strengthening is inductive: the steps of the interrupt path.        *)

\* While a handler runs, the program is what before holds.
LEMMA Interrupted ==
  ASSUME IInv, Handling
  PROVE  /\ routine \in 1 .. 4 /\ ProgramSound(before) /\ Suspended = before
         /\ stack \in [StackNames -> Seq(Values)] /\ stack["irq"] \in Seq(Values)
         /\ sp = "irq" /\ flags = "" /\ regs \in [Regs -> Values]
<1>1. Suspended = before
  BY DEF Suspended
<1> QED
  BY <1>1 DEF IInv, StackSound, HandlerSound, StackNames

\* A step inside the handler leaves the program and its stacks alone.
LEMMA StillHandling ==
  ASSUME IInv, Handling, pc' \in IrqCode, UNCHANGED <<before, caller, routine>>,
         NEW t \in Seq(Values), stack' = [stack EXCEPT !["irq"] = t], HandlerSound'
  PROVE  IInv' /\ Handling'
<1>1. Suspended' = before /\ Suspended = before /\ Handling'
  BY DEF Suspended
<1>2. ProgramSound(Suspended)'
  BY <1>1, Interrupted DEF ProgramSound, SegmentsAt, StackKept, CallerKept
<1>3. stack' \in [StackNames -> Seq(Values)]
  BY Interrupted DEF StackNames
<1>4. stack'["user"] = stack["user"] /\ stack'["boot"] = stack["boot"]
  BY Interrupted DEF StackNames
<1>5. StackSound'
  BY <1>1, <1>3, <1>4 DEF StackSound, IInv
<1> QED
  BY <1>1, <1>2, <1>5, Interrupted DEF IInv

\* An interrupt is taken where the program runs with interrupts on: neither in
\* a handler nor on the system call's stack.
LEMMA Delivery ==
  ASSUME IInv, NEW l \in Lines, Deliver(l)
  PROVE  /\ ~Handling /\ pc' = "irq_stub"
         /\ pc \notin {"syscall_switch"} \cup OnSystemStack
         /\ before' = Snapshot /\ stack["irq"] = <<>>
<1>1. flags \in {"IF", "IF TF"}
  BY DEF Deliver, InterruptsOn
<1>2. ~Handling
  BY <1>1 DEF IInv, HandlerSound
<1>3. pc \notin {"syscall_switch"} \cup OnSystemStack
  BY <1>1, <1>2, Running DEF ProgramSound, Snapshot
<1> QED
  BY <1>2, <1>3, Running DEF Deliver

\* Delivery suspends the program as it is and frames it on IST2.
LEMMA DeliverKeeps == ASSUME IInv, NEW l \in Lines, Deliver(l) PROVE IInv' /\ Handling'
<1>1. /\ ~Handling /\ pc' = "irq_stub" /\ before' = Snapshot
      /\ pc \notin {"syscall_switch"} \cup OnSystemStack
  BY Delivery
<1>2. ProgramSound(Snapshot) /\ routine \in 1 .. 4 /\ stack \in [StackNames -> Seq(Values)]
  BY <1>1, Running
<1>3. /\ pc \in ProgramCode /\ regs \in [Regs -> Values] /\ flags \in AllFlags
      /\ sp \in {"boot", "user"} /\ SegmentsAt(Snapshot)
  BY <1>2 DEF ProgramSound, Snapshot
<1>4. /\ seg.cs \in {KernelCode, UserCode} /\ seg.ss \in {KernelData, UserData}
      /\ seg.ds \in {KernelData, UserData} /\ DOMAIN seg = {"cs", "ss", "ds"}
      /\ seg.cs = KernelCode => seg.ss = KernelData
      /\ seg = Segs(seg.cs, seg.ss, seg.ds)
  <2>1. \/ seg = Segs(KernelCode, KernelData, KernelData)
        \/ seg = Segs(KernelCode, KernelData, UserData)
        \/ seg = Segs(UserCode, UserData, UserData)
    BY <1>3 DEF SegmentsAt, Snapshot, ProgramCode, InSyscall, OnSystemStack
  <2>2. KernelCode # UserCode
    BY DEF KernelCode, UserCode
  <2> QED
    BY <2>1, <2>2 DEF Segs
<1> DEFINE frame == <<Vector(l), pc, Word(seg.cs), flags, sp, Word(seg.ss)>>
<1>5. frame \in Seq(Values)
  <2>1. Vector(l) \in Values
    BY LinesAssumption DEF Values
  <2>2. pc \in Values /\ flags \in Values /\ sp \in Values
    BY <1>3, <1>1 DEF Values, ProgramCode, StackNames, OnSystemStack
  <2>3. Word(seg.cs) \in Values /\ Word(seg.ss) \in Values
    BY <1>4 DEF Word, Values
  <2> QED
    BY <2>1, <2>2, <2>3
<1>6. /\ stack' = [stack EXCEPT !["irq"] = frame] /\ stack'["irq"] = frame
      /\ stack' \in [StackNames -> Seq(Values)]
      /\ stack'["user"] = stack["user"]
  BY <1>2, <1>5 DEF Deliver, StackNames
<1>7. seg' = Segs(KernelCode, IF Rpl(seg.cs) = 3 THEN Null ELSE seg.ss, seg.ds)
  BY <1>4 DEF Deliver, InUserMode, Segs, GateSelector, KernelCode
<1>8. seg'.ss \in {Null, KernelData}
  <2>1. Rpl(UserCode) = 3
    BY DEF Rpl, UserCode
  <2> QED
    BY <1>4, <1>7, <2>1 DEF Segs
<1>9. Suspended' = Snapshot /\ UNCHANGED <<routine, caller, regs>>
  BY <1>1 DEF Deliver, Suspended
<1>10. ProgramSound(Suspended)'
  BY <1>2, <1>9 DEF ProgramSound, SegmentsAt, StackKept, CallerKept
<1>11. StackSound'
  <2>1. stack["user"] = <<>>
    BY <1>1, Running
  <2>2. Handling' /\ Suspended'.pc = pc
    BY <1>1, <1>9 DEF Snapshot
  <2> QED
    BY <1>1, <1>6, <2>1, <2>2 DEF StackSound
<1>12. HandlerSound'
  <2>1. /\ before'.pc = pc /\ before'.regs = regs /\ before'.flags = flags /\ before'.sp = sp
        /\ before'.seg = seg
    BY <1>1 DEF Snapshot
  <2>2. FrameBehind(stack["irq"], 1)'
    BY <1>6, <2>1 DEF FrameBehind
  <2>3. Untouched'
    BY <1>7, <1>9, <2>1 DEF Untouched, Segs
  <2>4. seg'.cs = KernelCode /\ seg'.ds = seg.ds /\ DOMAIN seg' = {"cs", "ss", "ds"}
    BY <1>7 DEF Segs
  <2>5. /\ regs' \in [Regs -> Values] /\ \A r \in {"r12", "r13", "r15"} : regs'[r] = before'.regs[r]
        /\ sp' = "irq" /\ flags' = ""
    BY <1>3, <1>9, <2>1 DEF Deliver, GateFlags
  <2> QED
    BY <1>1, <1>4, <1>8, <2>2, <2>3, <2>4, <2>5 DEF HandlerSound
<1> QED
  BY <1>1, <1>2, <1>9, <1>10, <1>11, <1>12 DEF IInv

\* The stub turns the pushed vector into two words above the frame.
LEMMA IrqStubKeeps == IInv /\ IrqStub => IInv' /\ Handling'
<1> SUFFICES ASSUME IInv, IrqStub PROVE IInv' /\ Handling'
  OBVIOUS
<1>1. Handling /\ pc = "irq_stub" /\ pc' = "irq_common_stub"
  BY DEF IrqStub
<1> DEFINE s == stack["irq"]
           p == <<Head(s), "error_code">>
           t == p \o Tail(s)
<1>2. s \in Seq(Values) /\ Len(s) = 6 /\ FrameBehind(s, 1) /\ Untouched
  <2>1. HandlerSound
    BY DEF IInv
  <2>2. FrameBehind(s, 1) /\ Untouched
    BY <1>1, <2>1 DEF HandlerSound
  <2>3. s \in Seq(Values)
    BY <1>1, Interrupted
  <2> QED
    BY <2>2, <2>3 DEF FrameBehind
<1>3. /\ Head(s) = s[1] /\ Tail(s) \in Seq(Values) /\ Len(Tail(s)) = 5
      /\ \A n \in 1 .. 5 : Tail(s)[n] = s[n + 1]
  <2> HIDE DEF s
  <2> DEFINE rest == Tail(s)
  <2>1. /\ Head(s) = s[1] /\ rest \in Seq(Values) /\ Len(rest) = Len(s) - 1
        /\ \A n \in 1 .. Len(s) - 1 : rest[n] = s[n + 1]
    <3>1. Len(s) > 0
      BY <1>2
    <3> QED
      BY <1>2, <3>1, Popped, Zenon
  <2> HIDE DEF rest
  <2>2. Len(s) - 1 = 5
    BY <1>2
  <2>3. Len(rest) = 5 /\ \A n \in 1 .. 5 : rest[n] = s[n + 1]
    BY <2>1, <2>2, Zenon
  <2> QED
    BY <2>1, <2>3 DEF rest
<1>4. p \in Seq(Values) /\ Len(p) = 2
  <2>1. s[1] \in Values
    BY <1>2
  <2>2. "error_code" \in Values
    BY DEF Values
  <2> QED
    BY <1>3, <2>1, <2>2
<1>5. /\ t \in Seq(Values) /\ Len(t) = 7
      /\ \A n \in 1 .. 5 : t[2 + n] = s[n + 1]
  <2> DEFINE rest == Tail(s)
  <2>1. rest \in Seq(Values) /\ Len(rest) = 5 /\ \A n \in 1 .. 5 : rest[n] = s[n + 1]
    BY <1>3
  <2> HIDE DEF p, rest
  <2> DEFINE u == p \o rest
  <2>2. /\ u \in Seq(Values) /\ Len(u) = Len(p) + Len(rest)
        /\ \A n \in 1 .. Len(rest) : u[Len(p) + n] = rest[n]
    <3>1. p \in Seq(Values) /\ rest \in Seq(Values)
      BY <1>4, <2>1
    <3> QED
      BY <3>1, OnTop
  <2> HIDE DEF u
  <2>3. Len(u) = 7 /\ \A n \in 1 .. 5 : u[2 + n] = s[n + 1]
    BY <1>4, <2>1, <2>2
  <2> QED
    BY <2>2, <2>3 DEF u, rest
<1>6. /\ stack' = [stack EXCEPT !["irq"] = t] /\ stack'["irq"] = t
      /\ UNCHANGED <<before, caller, routine, seg, flags, sp>>
  <2>1. sp = "irq" /\ stack \in [StackNames -> Seq(Values)]
    BY <1>1, Interrupted
  <2>2. /\ stack' = [stack EXCEPT ![sp] = <<Head(stack[sp]), "error_code">> \o Tail(stack[sp])]
        /\ UNCHANGED <<before, caller, routine, seg, flags, sp>>
    BY DEF IrqStub, ghosts
  <2>3. stack' = [stack EXCEPT !["irq"] = t]
    BY <2>1, <2>2, Zenon
  <2> HIDE DEF t
  <2> QED
    BY <2>1, <2>2, <2>3 DEF StackNames
<1> HIDE DEF s, p, t
<1>7. FrameBehind(stack["irq"], 2)'
  BY <1>2, <1>5, <1>6 DEF FrameBehind
<1>8. /\ regs' \in [Regs -> Values]
      /\ \A r \in PushedSet \cup {"r12", "r13", "r15"} : regs'[r] = regs[r]
  BY <1>1, Interrupted DEF IrqStub, Regs, Volatile, Preserved, PushedSet, Values
<1>9. Untouched'
  BY <1>2, <1>6, <1>8 DEF Untouched
<1>10. HandlerSound'
  BY <1>1, <1>6, <1>7, <1>8, <1>9 DEF HandlerSound, IInv
<1> QED
  BY <1>1, <1>5, <1>6, <1>10, StillHandling

\* The values of pusha, the last pushed on top.
LEMMA Pushed ==
  ASSUME regs \in [Regs -> Values]
  PROVE  /\ PushAll \in Seq(Values) /\ Len(PushAll) = 7
         /\ \A n \in 1 .. 7 : PushAll[n] = regs[PushedRegs[8 - n]]
<1> DEFINE list == [n \in 1 .. 7 |-> regs[PushedRegs[n]]]
<1>1. PushedSet \subseteq Regs
  BY DEF PushedSet, Regs, Volatile, Preserved
<1>2. list \in Seq(Values) /\ Len(list) = 7
  BY <1>1, PushedList
<1>3. PushAll = [n \in 1 .. 7 |-> list[(7 - n) + 1]]
  BY <1>2, PushedList DEF PushAll, Reverse
<1>4. \A n \in 1 .. 7 : 8 - n \in 1 .. 7 /\ (7 - n) + 1 = 8 - n
  OBVIOUS
<1>5. \A n \in 1 .. 7 : PushAll[n] = regs[PushedRegs[8 - n]] /\ PushAll[n] \in Values
  BY <1>1, <1>3, <1>4, PushedList
<1>6. PushAll \in Seq(Values) /\ Len(PushAll) = 7
  BY <1>3, <1>5
<1> QED
  BY <1>5, <1>6

\* The common stub saves ds and the seven registers above the frame.
LEMMA SaveStateKeeps == IInv /\ SaveState => IInv' /\ Handling'
<1> SUFFICES ASSUME IInv, SaveState PROVE IInv' /\ Handling'
  OBVIOUS
<1>1. Handling /\ pc = "irq_common_stub" /\ pc' = "irq_handler"
  BY DEF SaveState
<1> DEFINE s == stack["irq"]
           p == <<"cr4", "cr3", "cr2", "cr0", Word(seg.ds)>>
           q == p \o PushAll
           t == q \o s
<1>2. s \in Seq(Values) /\ Len(s) = 7 /\ FrameBehind(s, 2) /\ Untouched /\ regs \in [Regs -> Values]
  <2>1. HandlerSound
    BY DEF IInv
  <2>2. FrameBehind(s, 2) /\ Untouched
    BY <1>1, <2>1 DEF HandlerSound
  <2>3. s \in Seq(Values) /\ regs \in [Regs -> Values]
    BY <1>1, Interrupted
  <2> QED
    BY <2>2, <2>3 DEF FrameBehind
<1>3. p \in Seq(Values) /\ Len(p) = 5 /\ p[5] = Word(before.seg.ds)
  <2>1. Word(seg.ds) \in Values /\ {"cr0", "cr2", "cr3", "cr4"} \subseteq Values
    BY DEF Word, Values
  <2> QED
    BY <1>2, <2>1 DEF Untouched
<1>4. /\ PushAll \in Seq(Values) /\ Len(PushAll) = 7
      /\ \A n \in 1 .. 7 : PushAll[n] = before.regs[PushedRegs[8 - n]]
  <2>1. \A n \in 1 .. 7 : 8 - n \in 1 .. 7
    OBVIOUS
  <2>2. \A n \in 1 .. 7 : regs[PushedRegs[8 - n]] = before.regs[PushedRegs[8 - n]]
    BY <1>2, <2>1, PushedList DEF Untouched
  <2> QED
    BY <1>2, <2>2, Pushed
<1> HIDE DEF p
<1>5. /\ q \in Seq(Values) /\ Len(q) = 12 /\ q[5] = p[5]
      /\ \A n \in 1 .. 7 : q[5 + n] = PushAll[n]
  <2> DEFINE r == PushAll
  <2>1. p \in Seq(Values) /\ r \in Seq(Values)
    BY <1>3, <1>4
  <2> HIDE DEF r
  <2> DEFINE u == p \o r
  <2>2. /\ u \in Seq(Values) /\ Len(u) = Len(p) + Len(r)
        /\ \A n \in 1 .. Len(p) : u[n] = p[n]
        /\ \A n \in 1 .. Len(r) : u[Len(p) + n] = r[n]
    BY <2>1, OnTop
  <2> HIDE DEF u
  <2>3. Len(r) = 7 /\ Len(p) = 5
    BY <1>3, <1>4 DEF r
  <2>4. /\ Len(u) = 12 /\ u[5] = p[5]
        /\ \A n \in 1 .. 7 : u[5 + n] = r[n]
    BY <2>2, <2>3
  <2> QED
    BY <2>2, <2>4 DEF u, r
<1> HIDE DEF q
<1>6. /\ t \in Seq(Values) /\ Len(t) = 19
      /\ \A n \in 1 .. 12 : t[n] = q[n]
      /\ \A n \in 1 .. 7 : t[12 + n] = s[n]
  <2> HIDE DEF s
  <2>1. q \in Seq(Values) /\ s \in Seq(Values)
    BY <1>2, <1>5
  <2> DEFINE u == q \o s
  <2>2. /\ u \in Seq(Values) /\ Len(u) = Len(q) + Len(s)
        /\ \A n \in 1 .. Len(q) : u[n] = q[n]
        /\ \A n \in 1 .. Len(s) : u[Len(q) + n] = s[n]
    BY <2>1, OnTop
  <2> HIDE DEF u
  <2>3. /\ Len(u) = 19
        /\ \A n \in 1 .. 12 : u[n] = q[n]
        /\ \A n \in 1 .. 7 : u[12 + n] = s[n]
    BY <1>2, <1>5, <2>2
  <2> QED
    BY <2>2, <2>3 DEF u
<1> HIDE DEF t
<1>7. /\ stack' = [stack EXCEPT !["irq"] = t] /\ stack'["irq"] = t
      /\ UNCHANGED <<before, caller, routine, flags, sp>>
      /\ seg' = [seg EXCEPT !.ds = KernelData]
  <2>1. sp = "irq" /\ stack \in [StackNames -> Seq(Values)]
    BY <1>1, Interrupted
  <2>2. /\ stack' = [stack EXCEPT ![sp] = p \o PushAll \o stack[sp]]
        /\ UNCHANGED <<before, caller, routine, flags, sp>>
        /\ seg' = [seg EXCEPT !.ds = KernelData]
    BY DEF SaveState, ghosts, p
  <2>3. stack' = [stack EXCEPT !["irq"] = t]
    BY <2>1, <2>2, Zenon DEF t, q
  <2> QED
    BY <2>1, <2>2, <2>3 DEF StackNames
<1> HIDE DEF s
<1>8. SavedIn(stack["irq"])'
  <2>1. stack'["irq"][5] = Word(before.seg.ds)
    BY <1>3, <1>5, <1>6, <1>7
  <2>2. ASSUME NEW n \in 1 .. 7
        PROVE  stack'["irq"][5 + n] = before.regs[PushedRegs[8 - n]]
    <3> DEFINE m == 5 + n
    <3>1. m \in 1 .. 12
      OBVIOUS
    <3>2. q[m] = PushAll[n]
      BY <1>5
    <3> HIDE DEF m
    <3>3. t[m] = q[m]
      BY <1>6, <3>1
    <3>4. stack'["irq"][m] = t[m]
      BY <1>7, Zenon
    <3>5. PushAll[n] = before.regs[PushedRegs[8 - n]]
      BY <1>4, Zenon
    <3>6. stack'["irq"][m] = before.regs[PushedRegs[8 - n]]
      BY <3>2, <3>3, <3>4, <3>5, Zenon
    <3> QED
      BY <3>6 DEF m
  <2>3. before' = before
    BY <1>7
  <2> QED
    BY <2>1, <2>2, <2>3 DEF SavedIn
<1>9. FrameBehind(stack["irq"], 14)'
  BY <1>2, <1>6, <1>7 DEF FrameBehind
<1>10. /\ regs' \in [Regs -> Values]
       /\ \A r \in {"r12", "r13", "r15"} : regs'[r] = regs[r]
  BY <1>2 DEF SaveState, Regs, Volatile, Preserved, Values
<1>11. HandlerSound'
  BY <1>1, <1>7, <1>8, <1>9, <1>10 DEF HandlerSound, IInv
<1> QED
  BY <1>1, <1>6, <1>7, <1>11, StillHandling

\* irq_handler changes only the registers C may, all but r8 to r11 saved.
LEMMA IrqHandlerKeeps == IInv /\ IrqHandler => IInv' /\ Handling'
<1> SUFFICES ASSUME IInv, IrqHandler PROVE IInv' /\ Handling'
  OBVIOUS
<1>1. Handling /\ pc = "irq_handler" /\ pc' = "irq_restore"
  BY DEF IrqHandler
<1>2. UNCHANGED <<before, caller, routine, seg, flags, sp, stack>>
  BY DEF IrqHandler, ghosts
<1>3. /\ regs' \in [Regs -> Values]
      /\ \A r \in {"r12", "r13", "r15"} : regs'[r] = regs[r]
  BY <1>1, Interrupted, Clobbering DEF IrqHandler, Kept
<1>4. HandlerSound'
  BY <1>1, <1>2, <1>3 DEF HandlerSound, IInv, SavedIn, FrameBehind
<1>5. /\ stack["irq"] \in Seq(Values)
      /\ stack' = [stack EXCEPT !["irq"] = stack["irq"]]
  BY <1>1, <1>2, Interrupted DEF StackNames
<1> QED
  BY <1>1, <1>2, <1>4, <1>5, StillHandling

\* popa undoes pusha.
LEMMA PoppedBack ==
  ASSUME regs \in [Regs -> Values], NEW s \in Seq(Values), Len(s) = 14,
         \A n \in 1 .. 7 : s[n] = before.regs[PushedRegs[8 - n]]
  PROVE  /\ PopAll(s) \in [Regs -> Values]
         /\ \A r \in PushedSet : PopAll(s)[r] = before.regs[r]
         /\ \A r \in {"r12", "r13", "r15"} : PopAll(s)[r] = regs[r]
<1> DEFINE at == [r \in PushedSet |-> CHOOSE n \in DOMAIN PushedRegs : PushedRegs[n] = r]
<1>1. \A r \in PushedSet : at[r] \in 1 .. 7 /\ PushedRegs[at[r]] = r
  <2>1. \A r \in PushedSet : \E n \in DOMAIN PushedRegs : PushedRegs[n] = r
    BY DEF PushedSet, PushedRegs
  <2> QED
    BY <2>1, PushedList
<1>2. PopAll(s) = [r \in Regs |-> IF r \in PushedSet THEN s[Len(PushedRegs) + 1 - at[r]] ELSE regs[r]]
  <2>1. Range(PushedRegs) = PushedSet
    BY PushedList
  <2> QED
    BY <2>1 DEF PopAll
<1> HIDE DEF at
<1>3. PushedSet \subseteq Regs /\ {"r12", "r13", "r15"} \subseteq Regs \ PushedSet
  BY DEF PushedSet, Regs, Volatile, Preserved
<1>4. \A n \in 1 .. 14 : s[n] \in Values
  <2>1. \A n \in 1 .. Len(s) : s[n] \in Values
    BY ElementOfSeq, Zenon
  <2> QED
    BY <2>1
<1>5. ASSUME NEW r \in PushedSet
      PROVE  PopAll(s)[r] = before.regs[r] /\ PopAll(s)[r] \in Values
  <2> DEFINE k == at[r]
             n == Len(PushedRegs) + 1 - k
  <2>1. k \in 1 .. 7 /\ PushedRegs[k] = r
    BY <1>1, <1>5
  <2>2. PopAll(s)[r] = s[n]
    BY <1>2, <1>3, <1>5
  <2> HIDE DEF k
  <2>3. Len(PushedRegs) = 7
    BY PushedList
  <2>4. n \in 1 .. 7 /\ n \in 1 .. 14 /\ 8 - n = k
    BY <2>1, <2>3
  <2> HIDE DEF n
  <2>5. s[n] = before.regs[PushedRegs[8 - n]] /\ s[n] \in Values
    BY <1>4, <2>4
  <2> QED
    BY <2>1, <2>2, <2>4, <2>5
<1>6. ASSUME NEW r \in Regs \ PushedSet
      PROVE  PopAll(s)[r] = regs[r] /\ PopAll(s)[r] \in Values
  BY <1>2, <1>6
<1>7. PopAll(s) \in [Regs -> Values]
  <2>1. \A r \in Regs : PopAll(s)[r] \in Values
    BY <1>5, <1>6
  <2>2. PopAll(s) = [r \in Regs |-> PopAll(s)[r]]
    BY DEF PopAll
  <2> QED
    BY <2>1, <2>2
<1> QED
  BY <1>3, <1>5, <1>6, <1>7

\* The pops bring ds and the seven registers back and leave the frame on top.
LEMMA RestoreStateKeeps == IInv /\ RestoreState => IInv' /\ Handling'
<1> SUFFICES ASSUME IInv, RestoreState PROVE IInv' /\ Handling'
  OBVIOUS
<1>1. Handling /\ pc = "irq_restore" /\ pc' = "irq_iretq"
  BY DEF RestoreState
<1> DEFINE s == stack["irq"]
           saved == SubSeq(s, 6, Len(s))
           t == SubSeq(saved, 10, Len(saved))
<1>2. /\ s \in Seq(Values) /\ Len(s) = 19 /\ FrameBehind(s, 14) /\ SavedIn(s)
      /\ regs \in [Regs -> Values] /\ ProgramSound(before)
      /\ DOMAIN seg = {"cs", "ss", "ds"} /\ seg.cs = KernelCode /\ seg.ss \in {Null, KernelData}
      /\ \A r \in {"r12", "r13", "r15"} : regs[r] = before.regs[r]
  <2>1. HandlerSound
    BY DEF IInv
  <2>2. /\ FrameBehind(s, 14) /\ SavedIn(s)
        /\ DOMAIN seg = {"cs", "ss", "ds"} /\ seg.cs = KernelCode /\ seg.ss \in {Null, KernelData}
        /\ \A r \in {"r12", "r13", "r15"} : regs[r] = before.regs[r]
    BY <1>1, <2>1 DEF HandlerSound
  <2>3. s \in Seq(Values) /\ regs \in [Regs -> Values] /\ ProgramSound(before)
    BY <1>1, Interrupted
  <2> QED
    BY <2>2, <2>3 DEF FrameBehind
<1>3. /\ saved \in Seq(Values) /\ Len(saved) = 14
      /\ \A n \in 1 .. 14 : saved[n] = s[5 + n]
  <2> HIDE DEF s
  <2> DEFINE u == SubSeq(s, 5 + 1, Len(s))
  <2>1. 5 \in Nat /\ 5 <= Len(s)
    BY <1>2
  <2>2. u \in Seq(Values) /\ Len(u) = Len(s) - 5 /\ \A n \in 1 .. Len(s) - 5 : u[n] = s[5 + n]
    BY <1>2, <2>1, Dropped, Zenon
  <2>3. u = saved
    OBVIOUS
  <2> HIDE DEF u, saved
  <2> QED
    BY <1>2, <2>2, <2>3
<1> HIDE DEF saved
<1>4. /\ t \in Seq(Values) /\ Len(t) = 5
      /\ \A n \in 1 .. 5 : t[n] = saved[9 + n]
  <2> DEFINE u == SubSeq(saved, 9 + 1, Len(saved))
  <2>1. 9 \in Nat /\ 9 <= Len(saved)
    BY <1>3
  <2>2. u \in Seq(Values) /\ Len(u) = Len(saved) - 9
        /\ \A n \in 1 .. Len(saved) - 9 : u[n] = saved[9 + n]
    BY <1>3, <2>1, Dropped, Zenon
  <2>3. u = t
    OBVIOUS
  <2> HIDE DEF u, t
  <2> QED
    BY <1>3, <2>2, <2>3
<1> HIDE DEF t
<1>5. /\ stack' = [stack EXCEPT !["irq"] = t] /\ stack'["irq"] = t
      /\ UNCHANGED <<before, caller, routine, flags, sp>>
      /\ seg' = [seg EXCEPT !.ds = SelectorIn(s[5])]
      /\ regs' = PopAll(saved)
  <2>1. sp = "irq" /\ stack \in [StackNames -> Seq(Values)]
    BY <1>1, Interrupted
  <2>2. /\ stack' = [stack EXCEPT ![sp] = SubSeq(SubSeq(stack[sp], 6, Len(stack[sp])), 10,
                                               Len(SubSeq(stack[sp], 6, Len(stack[sp]))))]
        /\ UNCHANGED <<before, caller, routine, flags, sp>>
        /\ seg' = [seg EXCEPT !.ds = SelectorIn(stack[sp][5])]
        /\ regs' = PopAll(SubSeq(stack[sp], 6, Len(stack[sp])))
    <3>1. Len(PushedRegs) + 3 = 10
      BY PushedList
    <3> QED
      BY <3>1 DEF RestoreState, ghosts
  <2>3. stack' = [stack EXCEPT !["irq"] = t]
    BY <2>1, <2>2, Zenon DEF t, saved
  <2>4. seg' = [seg EXCEPT !.ds = SelectorIn(s[5])] /\ regs' = PopAll(saved)
    BY <2>1, <2>2, Zenon DEF saved
  <2> HIDE DEF s
  <2> QED
    BY <2>1, <2>2, <2>3, <2>4 DEF StackNames
<1> HIDE DEF s
<1>6. FrameBehind(stack["irq"], 0)'
  BY <1>2, <1>3, <1>4, <1>5 DEF FrameBehind
<1>7. before.seg.ds \in {KernelData, UserData}
  <2>1. before.pc \in ProgramCode /\ SegmentsAt(before)
    BY <1>2 DEF ProgramSound
  <2>2. \/ before.seg = Segs(KernelCode, KernelData, KernelData)
        \/ before.seg = Segs(KernelCode, KernelData, UserData)
        \/ before.seg = Segs(UserCode, UserData, UserData)
    BY <2>1 DEF SegmentsAt, ProgramCode, InSyscall
  <2> QED
    BY <2>2 DEF Segs
<1>8. SelectorIn(s[5]) = before.seg.ds
  <2>1. before.seg.ds \in Selectors
    BY <1>7 DEF Selectors
  <2> QED
    BY <1>2, <2>1, WordsApart DEF SavedIn
<1>9. \A n \in 1 .. 7 : saved[n] = before.regs[PushedRegs[8 - n]]
  BY <1>2, <1>3 DEF SavedIn
<1>10. /\ regs' \in [Regs -> Values]
       /\ \A r \in PushedSet : regs'[r] = before.regs[r]
       /\ \A r \in {"r12", "r13", "r15"} : regs'[r] = before.regs[r]
  BY <1>2, <1>3, <1>5, <1>9, PoppedBack
<1>11. Untouched'
  BY <1>2, <1>5, <1>8, <1>10 DEF Untouched
<1>12. HandlerSound'
  <2>1. seg'.cs = KernelCode /\ seg'.ss \in {Null, KernelData} /\ seg'.ds \in {KernelData, UserData}
        /\ DOMAIN seg' = {"cs", "ss", "ds"}
    BY <1>2, <1>5, <1>7, <1>8
  <2>2. sp' = "irq" /\ flags' = ""
    BY <1>1, <1>5, Interrupted
  <2> QED
    BY <1>1, <1>5, <1>6, <1>10, <1>11, <2>1, <2>2 DEF HandlerSound
<1> QED
  BY <1>1, <1>4, <1>5, <1>12, StillHandling

\* What iretq brings back.
LEMMA ComingBack ==
  ASSUME IInv, IrqReturn
  PROVE  /\ Handling /\ ~Handling'
         /\ pc' = before.pc /\ seg' = before.seg /\ flags' = before.flags /\ sp' = before.sp
         /\ \A r \in PushedSet \cup {"r12", "r13", "r15"} : regs'[r] = before.regs[r]
         /\ regs' \in [Regs -> Values]
         /\ stack' = [stack EXCEPT !["irq"] = <<>>]
<1>1. Handling /\ pc = "irq_iretq"
  BY DEF IrqReturn
<1> DEFINE s == stack["irq"]
<1>2. /\ s \in Seq(Values) /\ FrameBehind(s, 0) /\ Untouched
      /\ regs \in [Regs -> Values] /\ ProgramSound(before) /\ sp = "irq"
      /\ DOMAIN seg = {"cs", "ss", "ds"}
      /\ \A r \in {"r12", "r13", "r15"} : regs[r] = before.regs[r]
  <2>1. HandlerSound
    BY DEF IInv
  <2>2. /\ FrameBehind(s, 0) /\ Untouched /\ DOMAIN seg = {"cs", "ss", "ds"}
        /\ \A r \in {"r12", "r13", "r15"} : regs[r] = before.regs[r]
    BY <1>1, <2>1 DEF HandlerSound
  <2>3. s \in Seq(Values) /\ regs \in [Regs -> Values] /\ ProgramSound(before) /\ sp = "irq"
    BY <1>1, Interrupted
  <2> QED
    BY <2>2, <2>3
<1>3. /\ Len(s) = 5
      /\ s[1] = before.pc /\ s[2] = Word(before.seg.cs) /\ s[3] = before.flags
      /\ s[4] = before.sp /\ s[5] = Word(before.seg.ss)
  BY <1>2 DEF FrameBehind
<1>4. SubSeq(s, 6, Len(s)) = <<>>
  BY <1>2, <1>3, SubSeqEmpty
<1>5. /\ pc' = s[1] /\ flags' = s[3] /\ sp' = s[4]
      /\ seg' = [seg EXCEPT !.cs = SelectorIn(s[2]), !.ss = SelectorIn(s[5])]
      /\ stack' = [stack EXCEPT !["irq"] = <<>>]
      /\ regs' = regs
  BY <1>2, <1>4 DEF IrqReturn
<1> HIDE DEF s
<1>6. before.pc \in ProgramCode /\ SegmentsAt(before)
  BY <1>2 DEF ProgramSound
<1>7. /\ before.seg.cs \in Selectors /\ before.seg.ss \in Selectors
      /\ before.seg = Segs(before.seg.cs, before.seg.ss, before.seg.ds)
  <2>1. \/ before.seg = Segs(KernelCode, KernelData, KernelData)
        \/ before.seg = Segs(KernelCode, KernelData, UserData)
        \/ before.seg = Segs(UserCode, UserData, UserData)
    BY <1>6 DEF SegmentsAt, ProgramCode, InSyscall
  <2> QED
    BY <2>1 DEF Segs, Selectors
<1>8. seg' = before.seg
  <2>1. SelectorIn(s[2]) = before.seg.cs /\ SelectorIn(s[5]) = before.seg.ss
    BY <1>3, <1>7, WordsApart
  <2>2. seg' = Segs(before.seg.cs, before.seg.ss, seg.ds)
    BY <1>2, <1>5, <2>1 DEF Segs
  <2> QED
    BY <1>2, <1>7, <2>2 DEF Untouched
<1>9. ~Handling'
  BY <1>3, <1>5, <1>6 DEF ProgramCode
<1> QED
  BY <1>1, <1>2, <1>3, <1>5, <1>8, <1>9 DEF Untouched

\* iretq resumes the program, whose registers are those it is sound with.
LEMMA IrqReturnKeeps == IInv /\ IrqReturn => IInv' /\ ~Handling'
<1> SUFFICES ASSUME IInv, IrqReturn PROVE IInv' /\ ~Handling'
  OBVIOUS
<1>1. Handling /\ UNCHANGED <<caller, routine>>
  BY DEF IrqReturn
<1>2. ProgramSound(before) /\ Suspended = before /\ routine \in 1 .. 4 /\ StackSound
  BY <1>1, Interrupted DEF IInv
<1>3. /\ pc' = before.pc /\ seg' = before.seg /\ flags' = before.flags /\ sp' = before.sp
      /\ \A r \in PushedSet \cup {"r12", "r13", "r15"} : regs'[r] = before.regs[r]
      /\ regs' \in [Regs -> Values]
  BY ComingBack
<1>4. SegmentsAt(Snapshot)'
  BY <1>2, <1>3 DEF ProgramSound, SegmentsAt, Snapshot
<1>5. StackKept(Snapshot)'
  BY <1>1, <1>2, <1>3 DEF ProgramSound, StackKept, Snapshot, PushedSet
<1>6. CallerKept(Snapshot)'
  BY <1>1, <1>2, <1>3 DEF ProgramSound, CallerKept, Snapshot, PushedSet, Kept
<1>7. ProgramSound(Snapshot)'
  BY <1>2, <1>3, <1>4, <1>5, <1>6 DEF ProgramSound, Snapshot
<1>8. /\ stack \in [StackNames -> Seq(Values)]
      /\ pc' \notin OnSystemStack => stack["user"] = <<>>
      /\ pc' \in OnSystemStack => stack["boot"] = <<"user", "user">> /\ stack["user"] = <<caller.regs["rbp"]>>
  BY <1>2, <1>3 DEF StackSound
<1>9. /\ stack' \in [StackNames -> Seq(Values)] /\ stack'["irq"] = <<>>
      /\ stack'["user"] = stack["user"] /\ stack'["boot"] = stack["boot"]
  <2>1. stack' = [stack EXCEPT !["irq"] = <<>>]
    BY ComingBack
  <2>2. <<>> \in Seq(Values)
    OBVIOUS
  <2> QED
    BY <1>8, <2>1, <2>2 DEF StackNames
<1> QED
  BY <1>1, <1>2, <1>3, <1>7, <1>8, <1>9, StillRunning DEF ProgramSound

-----------------------------------------------------------------------------
(* The strengthening holds, and what follows from it.                      *)

\* A step that leaves the processor, the stacks and what is suspended alone: a
\* line is raised, or the debug exception comes and goes.
LEMMA AsideKeeps ==
  IInv /\ UNCHANGED <<cpu, before, caller>> => IInv' /\ (Handling' <=> Handling)
<1> SUFFICES ASSUME IInv, UNCHANGED <<cpu, before, caller>>
             PROVE  IInv' /\ (Handling' <=> Handling)
  OBVIOUS
<1>1. UNCHANGED <<pc, seg, regs, flags, sp, stack, routine, before, caller>>
  BY DEF cpu
<1>2. Suspended' = Suspended
  BY <1>1 DEF Suspended, Snapshot
<1>3. ProgramSound(Suspended)'
  BY <1>1, <1>2 DEF IInv, ProgramSound, SegmentsAt, StackKept, CallerKept
<1>4. StackSound'
  BY <1>1, <1>2 DEF IInv, StackSound
<1>5. HandlerSound'
  BY <1>1 DEF IInv, HandlerSound, Untouched, SavedIn, FrameBehind
<1> QED
  BY <1>1, <1>3, <1>4, <1>5 DEF IInv

\* The steps by what they do to the handler.
LEMMA Steps ==
  ASSUME IInv, [Next]_vars
  PROVE  /\ IInv'
         /\ Handling /\ ~Handling' => IrqReturn
<1>1. CASE Program
  BY <1>1, ProgramKeeps
<1>2. CASE InterruptPath
  BY <1>2, IrqStubKeeps, SaveStateKeeps, IrqHandlerKeeps, RestoreStateKeeps, IrqReturnKeeps DEF InterruptPath
<1>3. CASE \E l \in Lines : Deliver(l)
  BY <1>3, DeliverKeeps
<1>4. CASE \E l \in Lines : Raise(l)
  BY <1>4, AsideKeeps DEF Raise, ghosts
<1>5. CASE DebugException
  BY <1>5, AsideKeeps DEF DebugException
<1>6. CASE UNCHANGED vars
  BY <1>6, AsideKeeps DEF vars, ghosts
<1> QED
  BY <1>1, <1>2, <1>3, <1>4, <1>5, <1>6 DEF Next

\* The strengthening holds of every reachable state.
THEOREM Invariance == Spec => []IInv
<1>1. IInv /\ [Next]_vars => IInv'
  BY Steps
<1> QED
  BY <1>1, Initial, PTL DEF Spec

\* No interrupt is taken while another one is handled: the one stack of IST2 is
\* empty whenever the processor is switched to it.
THEOREM NoNesting == Spec => OneFrameOnIst
<1>1. IInv /\ [Next]_vars => [\A l \in Lines : Deliver(l) => ~Handling /\ stack["irq"] = <<>>]_vars
  BY Delivery
<1> QED
  BY <1>1, Invariance, PTL DEF Spec, OneFrameOnIst

\* The stub's pushes and pops, the frame of the processor and C's convention
\* together give the interrupted program its registers, segments, flags, stack
\* and place back, wherever the interrupt arrived.
THEOREM Transparent == Spec => InterruptTransparent
<1> DEFINE Same == /\ \A r \in Range(PushedRegs) : regs'[r] = before.regs[r]
                   /\ <<pc', seg', flags', sp'>> = <<before.pc, before.seg, before.flags, before.sp>>
                   /\ stack'["irq"] = <<>>
<1>1. IInv /\ IrqReturn => Same
  <2> SUFFICES ASSUME IInv, IrqReturn PROVE Same
    OBVIOUS
  <2>1. Range(PushedRegs) = PushedSet
    BY PushedList
  <2>2. /\ pc' = before.pc /\ seg' = before.seg /\ flags' = before.flags /\ sp' = before.sp
        /\ \A r \in PushedSet : regs'[r] = before.regs[r]
    BY ComingBack
  <2>3. stack'["irq"] = <<>>
    BY ComingBack, IrqReturnKeeps DEF IInv, StackSound
  <2> QED
    BY <2>1, <2>2, <2>3
<1>2. IInv /\ [Next]_vars => [Handling /\ ~Handling' => Same]_vars
  <2> HIDE DEF Same
  <2> QED
    BY <1>1, Steps
<1> QED
  BY <1>2, Invariance, PTL DEF Spec, InterruptTransparent

\* sysret goes back to the instruction after syscall, on the caller's stack with
\* what it pushed there gone, in the caller's segments, and with the registers C
\* keeps, r14 apart.
THEOREM CallsReturn == Spec => SyscallReturns
<1>1. IInv /\ Sysret =>
        /\ \A r \in Preserved \ {"r14"} : regs'[r] = caller.regs[r]
        /\ <<pc', seg', sp'>> = <<caller.pc, caller.seg, caller.sp>>
        /\ stack'[sp'] = <<>>
  <2> SUFFICES ASSUME IInv, Sysret
               PROVE  /\ \A r \in Preserved \ {"r14"} : regs'[r] = caller.regs[r]
                      /\ <<pc', seg', sp'>> = <<caller.pc, caller.seg, caller.sp>>
                      /\ stack'[sp'] = <<>>
    OBVIOUS
  <2>1. Preserved \ {"r14"} = Kept
    BY DEF Preserved, Kept
  <2> QED
    BY <2>1, Returning
<1> QED
  BY <1>1, Invariance, PTL DEF Spec, SyscallReturns

-----------------------------------------------------------------------------
(* The selectors and the table they select from.                           *)

\* What each selector of the code names in the table gdt_init builds.
LEMMA SelectorsFit ==
  /\ Rpl(KernelCode) = 0 /\ Rpl(UserCode) = 3 /\ Rpl(KernelData) = 0 /\ Rpl(UserData) = 3
  /\ IsCode(KernelCode) /\ Dpl(KernelCode) = 0 /\ IsCode(UserCode) /\ Dpl(UserCode) = 3
  /\ IsData(KernelData) /\ Dpl(KernelData) = 0 /\ IsData(UserData) /\ Dpl(UserData) = 3
  /\ IsTss(TaskRegister)
<1>1. /\ Descriptor(KernelCode) = Gdt[2] /\ Descriptor(KernelData) = Gdt[3]
      /\ Descriptor(UserData) = Gdt[4] /\ Descriptor(UserCode) = Gdt[5]
      /\ Descriptor(TaskRegister) = Gdt[6]
  BY DEF Descriptor, KernelCode, KernelData, UserData, UserCode, TaskRegister
<1>2. Rpl(KernelCode) = 0 /\ Rpl(UserCode) = 3 /\ Rpl(KernelData) = 0 /\ Rpl(UserData) = 3
  BY DEF Rpl, KernelCode, KernelData, UserData, UserCode
<1>3. IsCode(KernelCode) /\ Dpl(KernelCode) = 0
  BY <1>1, TableOfGdt DEF IsCode, Dpl, BaseDesc, BaseGran
<1>4. IsCode(UserCode) /\ Dpl(UserCode) = 3
  BY <1>1, TableOfGdt DEF IsCode, Dpl, BaseDesc, BaseGran
<1>5. IsData(KernelData) /\ Dpl(KernelData) = 0
  BY <1>1, TableOfGdt DEF IsData, Dpl, BaseDesc, BaseGran
<1>6. IsData(UserData) /\ Dpl(UserData) = 3
  BY <1>1, TableOfGdt DEF IsData, Dpl, BaseDesc, BaseGran
<1>7. IsTss(TaskRegister)
  BY <1>1, TableOfGdt DEF IsTss
<1> QED
  BY <1>2, <1>3, <1>4, <1>5, <1>6, <1>7

\* Wherever the processor is, cs, ss and ds name descriptors of the right kind
\* and privilege: gdt.cpp, the STAR, and the two frames agree.
THEOREM Fit == Spec => []SegmentsFit
<1>1. IInv => SegmentsFit
  <2> SUFFICES ASSUME IInv PROVE SegmentsFit
    OBVIOUS
  <2>1. CASE Handling
    <3>1. HandlerSound
      BY DEF IInv
    <3>2. seg.cs = KernelCode /\ seg.ss \in {Null, KernelData} /\ seg.ds \in {KernelData, UserData}
      BY <2>1, <3>1 DEF HandlerSound
    <3> QED
      BY <3>2, SelectorsFit DEF SegmentsFit, InUserMode
  <2>2. CASE ~Handling
    <3>1. pc \in ProgramCode /\ SegmentsAt(Snapshot)
      BY <2>2, Running DEF ProgramSound, Snapshot
    <3>2. \/ seg = Segs(KernelCode, KernelData, KernelData)
          \/ seg = Segs(KernelCode, KernelData, UserData)
          \/ seg = Segs(UserCode, UserData, UserData) /\ pc \in {"user", "astray"}
      BY <3>1 DEF SegmentsAt, Snapshot, ProgramCode, InSyscall
    <3> QED
      BY <3>2, SelectorsFit DEF SegmentsFit, InUserMode, Segs
  <2> QED
    BY <2>1, <2>2
<1> QED
  BY <1>1, Invariance, PTL
=============================================================================
