------------------------------ MODULE Segments ------------------------------
(***************************************************************************)
(* The descriptor tables of cpu/gdt.cpp, as far as long mode looks at      *)
(* them, and the selectors the kernel and the processor use: the table and *)
(* the code that names its entries are in five files (gdt.cpp, gdt.asm,    *)
(* interrupts.cpp, syscalls.asm, uentry.asm) that have to agree.  A byte   *)
(* of flags is the set of the names of its bits.                           *)
(***************************************************************************)
EXTENDS Integers, Sequences

MaxDescriptors == 16

\* gdt_install_descriptor; base and limit are 0 and play no part in long mode.
Install(gdt, access, granularity) ==
  IF Len(gdt) >= MaxDescriptors THEN gdt
  ELSE Append(gdt, [flags |-> access, granularity |-> granularity])

\* gdt_install_tss: a system descriptor is as long as two others.
InstallTss(gdt) ==
  IF Len(gdt) >= MaxDescriptors THEN gdt
  ELSE gdt \o <<[flags |-> {"ACCESS", "EXECUTABLE", "PRESENT"}, granularity |-> {}],
                [flags |-> {}, granularity |-> {}]>>

BaseDesc == {"PRESENT", "READWRITE", "CODEDATA"}
BaseGran == {"64BIT", "4K"}

\* Slip: the user segments in the order of the kernel's.
UserCodeFirst ==
  LET null == Install(<<>>, {}, {})
      code == Install(null, BaseDesc \cup {"EXECUTABLE"}, BaseGran)
      data == Install(code, BaseDesc, BaseGran)
      user_code == Install(data, BaseDesc \cup {"EXECUTABLE", "DPL"}, BaseGran)
      user_data == Install(user_code, BaseDesc \cup {"DPL"}, BaseGran)
  IN  InstallTss(user_data)

\* gdt_init, and tss_install after it.
Gdt ==
  LET null == Install(<<>>, {}, {})
      code == Install(null, BaseDesc \cup {"EXECUTABLE"}, BaseGran)
      data == Install(code, BaseDesc, BaseGran)
      user_data == Install(data, BaseDesc \cup {"DPL"}, BaseGran)
      user_code == Install(user_data, BaseDesc \cup {"EXECUTABLE", "DPL"}, BaseGran)
  IN  InstallTss(user_code)

-----------------------------------------------------------------------------
(* The selectors in the code: load_gdt, idt_set, the stubs; the frame and  *)
(* ds of enter_userspace; ltr; and the STAR that setup_syscalls writes,    *)
(* from which SYSCALL and SYSRET compute theirs.                           *)
KernelCode == 8
KernelData == 16
GateSelector == 8
UserData == 27
UserCode == 35
TaskRegister == 40

Star == [syscall |-> 8, sysret |-> 16]
SyscallSegments == [cs |-> Star.syscall, ss |-> Star.syscall + 8]
SysretSegments == [cs |-> Star.sysret + 16 + 3, ss |-> Star.sysret + 8 + 3]

Null == 0
Selectors == {Null, KernelCode, KernelData, UserData, UserCode, TaskRegister}

-----------------------------------------------------------------------------
(* What the processor wants of a descriptor.                               *)
Rpl(selector) == selector % 4
Descriptor(selector) == Gdt[(selector \div 8) + 1]
Dpl(selector) == IF "DPL" \in Descriptor(selector).flags THEN 3 ELSE 0

IsCode(selector) ==
  LET d == Descriptor(selector)
  IN  /\ {"PRESENT", "CODEDATA", "EXECUTABLE"} \subseteq d.flags
      /\ "64BIT" \in d.granularity

IsData(selector) ==
  LET d == Descriptor(selector)
  IN  /\ {"PRESENT", "CODEDATA", "READWRITE"} \subseteq d.flags
      /\ "EXECUTABLE" \notin d.flags

\* An available 64-bit TSS is type 9.
IsTss(selector) == Descriptor(selector).flags = {"ACCESS", "EXECUTABLE", "PRESENT"}
=============================================================================
