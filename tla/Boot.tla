-------------------------------- MODULE Boot --------------------------------
(***************************************************************************)
(* How the kernel builds its address space: configure_memory, setup_paging *)
(* and configure_graphics of boot/kconf.cpp, request_pages of pmm.cpp,     *)
(* tss_install of cpu/tss.cpp, and the hand-over to user mode (uentry.asm, *)
(* sys_allocate_page of syscalls.cpp), over modules Paging and Pmm.        *)
(*                                                                         *)
(* The code is straight-line: stage says how far it has come, i counts the *)
(* iterations of the stage's loop, and a stage goes on only when the       *)
(* map_memory call it made has returned.                                   *)
(***************************************************************************)
EXTENDS Paging

CONSTANTS
  FramebufferPage,    \* framebuffer_addr, a page number
  FramebufferSizes,   \* width * height * bytes per pixel, in bytes
  FramebufferSlack,   \* the extra bytes setup_paging maps: 1024
  HeapPage,           \* 0xffff800000000000, a page number
  HeapLoop,           \* iterations of the loop in configure_memory: 0x100
  UserEntry,          \* the page of uentry, inside the kernel image
  StackCalls,         \* nested map_memory calls the boot stack has room for
  MaxUserPages        \* bound: pages user mode asks for

VARIABLES
  stage,
  i,                  \* the loop counter of the stage
  fb_size,            \* the framebuffer's size in bytes
  stacks,             \* isr_stack, irq_stack, sgi_stack
  buffer,             \* gfx::buffer
  donated             \* ghost: the pages donated to user mode

bootVars == <<stage, i, fb_size, stacks, buffer, donated>>
vars == <<pmmVars, tableVars, bootVars>>

\* The addresses the boot maps exist and the heap's is above memory, which holds
\* the kernel.
ASSUME BootAssumption ==
  /\ HeapLoop \in Nat /\ HeapPage \in VirtualPages
  /\ FramebufferPage \in Nat /\ FramebufferSlack \in Nat /\ FramebufferSizes \subseteq Nat
  /\ \A size \in FramebufferSizes :
       FramebufferPage + ((size + FramebufferSlack + PageSize - 1) \div PageSize) \in VirtualPages
  /\ UserEntry \in pmm!KernelFrames
  /\ \A mm \in MemoryMaps :
       /\ pmm!TotalPages[mm] <= HeapPage
       /\ \A size \in FramebufferSizes :
            pmm!TotalPages[mm] + (size \div PageSize) + 1 \in VirtualPages
       /\ pmm!KernelFrames \subseteq pmm!MemoryFrames(mm)

FramebufferPages == (fb_size + FramebufferSlack + PageSize - 1) \div PageSize
BufferPages == (fb_size \div PageSize) + 1

\* The addresses that request_pages maps after the first one, which is mapped to
\* itself: they are in nobody's bitmap.
BufferRun == IF buffer = 0 THEN {} ELSE buffer + 1 .. buffer + BufferPages - 1

Init ==
  /\ pmm!Init
  /\ pml_4 = 0 /\ cr3 = FALSE /\ tables = <<>> /\ calls = <<>> /\ astray = FALSE
  /\ stage = "pmm" /\ i = 0
  /\ fb_size \in FramebufferSizes
  /\ stacks = <<>> /\ buffer = 0 /\ donated = {}

-----------------------------------------------------------------------------
At(s) == stage = s /\ calls = <<>>

Goto(s) == stage' = s /\ i' = 0

Again == stage' = stage /\ i' = i + 1

\* A step that leaves the page tables alone, and one that only calls map_memory.
NoTables == UNCHANGED <<pml_4, cr3, tables, calls, astray>>
JustMaps(v, p, pat) == MapMemory(v, p, pat) /\ UNCHANGED <<pml_4, cr3, tables, astray>>

\* The end of a loop.
LoopEnds(from, bound, to) ==
  /\ At(from) /\ i = bound
  /\ Goto(to)
  /\ NoTables
  /\ UNCHANGED <<pmmVars, fb_size, stacks, buffer, donated>>

\* pmm::initialize.
ConfigurePmm ==
  /\ At("pmm")
  /\ \E mm \in MemoryMaps : pmm!Initialize(mm)
  /\ Goto("root")
  /\ NoTables
  /\ UNCHANGED <<fb_size, stacks, buffer, donated>>

\* The first lines of setup_paging: the root table, mapped at its own address.
RootTable ==
  LET f == pmm!RequestedFrame IN
  /\ At("root")
  /\ pmm!RequestPage
  /\ pml_4' = f
  /\ tables' = [g \in {f} |-> EmptyTable]
  /\ calls' = <<[NewCall(f, f, FALSE) EXCEPT !.at = f]>>
  /\ Goto("identity")
  /\ UNCHANGED <<cr3, astray, fb_size, stacks, buffer, donated>>

\* All of memory at its own addresses.
IdentityMap ==
  /\ At("identity") /\ i < pmm!TotalPages[memory_map]
  /\ JustMaps(i, i, FALSE)
  /\ Again
  /\ UNCHANGED <<pmmVars, fb_size, stacks, buffer, donated>>

\* The framebuffer at its own address, write-combining.
MapFramebuffer ==
  /\ At("framebuffer") /\ i < FramebufferPages
  /\ JustMaps(FramebufferPage + i, FramebufferPage + i, TRUE)
  /\ Again
  /\ UNCHANGED <<pmmVars, fb_size, stacks, buffer, donated>>

LoadCr3 ==
  /\ At("cr3")
  /\ cr3' = TRUE
  /\ Goto("heap")
  /\ UNCHANGED <<pmmVars, pml_4, tables, calls, astray, fb_size, stacks, buffer, donated>>

\* The loop of configure_memory: pos is set anew in every iteration, so each
\* maps another frame at the same page.
MapHeap ==
  /\ At("heap") /\ i < HeapLoop
  /\ pmm!RequestPage
  /\ JustMaps(HeapPage, pmm!RequestedFrame, FALSE)
  /\ Again
  /\ UNCHANGED <<fb_size, stacks, buffer, donated>>

\* tss_install: three stack pages are requested, then mapped.
RequestStack ==
  /\ At("tss") /\ i < 3
  /\ pmm!RequestPage
  /\ stacks' = Append(stacks, pmm!RequestedFrame)
  /\ Again
  /\ NoTables
  /\ UNCHANGED <<fb_size, buffer, donated>>

MapStack ==
  /\ At("tss") /\ i \in 3 .. 5
  /\ JustMaps(stacks[i - 2], stacks[i - 2], FALSE)
  /\ Again
  /\ UNCHANGED <<pmmVars, fb_size, stacks, buffer, donated>>

\* configure_graphics calls request_pages(BufferPages): nullptr for a single
\* page; else one page at its own address and every further page at the address
\* that follows, wherever its frame is.
NoBuffer ==
  /\ At("graphics") /\ BufferPages <= 1
  /\ Goto("text")
  /\ NoTables
  /\ UNCHANGED <<pmmVars, fb_size, stacks, buffer, donated>>

FirstBufferPage ==
  /\ At("graphics") /\ BufferPages > 1
  /\ pmm!RequestPage
  /\ buffer' = pmm!RequestedFrame
  /\ JustMaps(pmm!RequestedFrame, pmm!RequestedFrame, FALSE)
  /\ stage' = "buffer" /\ i' = 1
  /\ UNCHANGED <<fb_size, stacks, donated>>

\* Slip: the offset is used as the address.
NextBufferPageAtOffset ==
  /\ At("buffer") /\ i < BufferPages
  /\ pmm!RequestPage
  /\ JustMaps(i, pmm!RequestedFrame, FALSE)
  /\ Again
  /\ UNCHANGED <<fb_size, stacks, buffer, donated>>

\* Slip: the addresses are counted from the one after the first page.
NextBufferPageOneOff ==
  /\ At("buffer") /\ i < BufferPages
  /\ pmm!RequestPage
  /\ JustMaps(buffer + i + 1, pmm!RequestedFrame, FALSE)
  /\ Again
  /\ UNCHANGED <<fb_size, stacks, buffer, donated>>

NextBufferPage ==
  /\ At("buffer") /\ i < BufferPages
  /\ pmm!RequestPage
  /\ JustMaps(buffer + i, pmm!RequestedFrame, FALSE)
  /\ Again
  /\ UNCHANGED <<fb_size, stacks, buffer, donated>>

\* tty::initialize takes one page for its text.  Stage "pci" is configure_pci,
\* module Pci, which leads to stage "entry".
TextBuffer ==
  /\ At("text")
  /\ pmm!RequestPage
  /\ Goto("pci")
  /\ NoTables
  /\ UNCHANGED <<fb_size, stacks, buffer, donated>>

\* configure_userspace donates the page of uentry.
DonateEntry ==
  /\ At("entry")
  /\ DonateToUserspace(UserEntry)
  /\ donated' = donated \cup {UserEntry}
  /\ Goto("stack")
  /\ UNCHANGED <<pmmVars, pml_4, cr3, calls, fb_size, stacks, buffer>>

\* A page is requested and donated: the user stack (enter_userspace), and then
\* whatever user mode asks for (sys_allocate_page).
RequestAndDonate ==
  /\ pmm!RequestPage
  /\ DonateToUserspace(pmm!RequestedFrame)
  /\ donated' = donated \cup {pmm!RequestedFrame}
  /\ UNCHANGED <<pml_4, cr3, calls, fb_size, stacks, buffer>>

UserStack == At("stack") /\ RequestAndDonate /\ Goto("user")

SysAllocatePage == At("user") /\ i < MaxUserPages /\ RequestAndDonate /\ Again

Next ==
  \/ ConfigurePmm \/ RootTable
  \/ IdentityMap \/ LoopEnds("identity", pmm!TotalPages[memory_map], "framebuffer")
  \/ MapFramebuffer \/ LoopEnds("framebuffer", FramebufferPages, "cr3")
  \/ LoadCr3
  \/ MapHeap \/ LoopEnds("heap", HeapLoop, "tss")
  \/ RequestStack \/ MapStack \/ LoopEnds("tss", 6, "graphics")
  \/ NoBuffer \/ FirstBufferPage
  \/ NextBufferPage \/ LoopEnds("buffer", BufferPages, "text")
  \/ TextBuffer \/ DonateEntry \/ UserStack \/ SysAllocatePage
  \/ (MapStep /\ UNCHANGED bootVars)

\* One CPU runs this code; interrupts it takes return to it.
Spec == Init /\ [][Next]_vars

-----------------------------------------------------------------------------
\* Once cr3 is loaded the kernel can reach every page table at its own address:
\* no table is allocated outside what setup_paging mapped, and request_pages,
\* which maps a run of addresses to whatever frames it gets, never takes the
\* address of a table away.  It holds because first fit never allocates below a
\* table and frames are not given back during the boot.
TablesReachable ==
  /\ ~astray
  /\ cr3 => \A f \in DOMAIN tables : Translate(f) = f

\* The tables form a tree of four levels: no table is at two levels, and each is
\* entered by exactly one entry of the level above, so writing one translation
\* never changes another.  This must hold while the nested calls of map_memory
\* are building it, too.
Slots(ts) == {s \in ts \X (0 .. Entries - 1) : Entry(s[1], s[2]).present}
Below(ts) == {Entry(s[1], s[2]).frame : s \in Slots(ts)}
ByLevel == LET l1 == Below({pml_4})
               l2 == Below(l1)
           IN  <<{pml_4}, l1, l2, Below(l2)>>

TableTree ==
  tables # <<>> =>
    /\ UNION {ByLevel[k] : k \in 1 .. 4} = DOMAIN tables
    /\ \A k, l \in 1 .. 4 : k # l => ByLevel[k] \cap ByLevel[l] = {}
    /\ \A k \in 1 .. 3 : Cardinality(Slots(ByLevel[k])) = Cardinality(ByLevel[k + 1])

\* A step changes the translation of no page but the one whose map_memory call
\* is at its last level, and that one becomes what the call asked for.
OnlyTheRequestedPage ==
  [][ \A v \in VirtualPages :
        Translate(v)' # Translate(v) =>
          calls # <<>> /\ Top.level = 3 /\ Top.v = v /\ Translate(v)' = Top.p ]_vars

\* map_memory nests no deeper than the one page of boot stack (kentry.asm) has
\* room for: every table is entered before the call that maps it, so the nested
\* call finds it instead of allocating it again.
NestingBounded == Len(calls) <= StackCalls

\* The frames request_page gives away, and the tables below the root that translate
\* the pages of a set: one for each region of each level.
Allocatable(mm) == pmm!MemoryFrames(mm) \ pmm!BootOwned(mm)

Region(v, level) ==
  CASE level = 3 -> Above(v)
    [] level = 2 -> Above(Above(v))
    [] level = 1 -> Above(Above(Above(v)))

TablesFor(S) == {<<level, Region(v, level)>> : level \in 1 .. 3, v \in S}

\* What bounds the nesting: any StackCalls frames that follow each other in
\* memory lie so close that fewer tables translate them.
FramesLieClose ==
  /\ StackCalls \in Nat \ {0}
  /\ \A mm \in MemoryMaps : \A a, b \in Allocatable(mm) :
       LET S == {f \in Allocatable(mm) : a <= f /\ f <= b}
       IN  Cardinality(S) = StackCalls => Cardinality(TablesFor(S)) < StackCalls - 1

\* User mode reaches exactly the pages donated to it, and through them no page
\* table and nothing that the boot reserved but the page of uentry.
UserReachesOnlyDonated ==
  LET reached == {v \in VirtualPages : UserCanReach(v)}
      behind  == {Translate(v) : v \in reached}
  IN  /\ reached = donated
      /\ behind \cap DOMAIN tables = {}
      /\ initialized => behind \cap pmm!Precious[memory_map] \subseteq {UserEntry}

\* The kernel executes at the addresses it was loaded to.
KernelStaysMapped ==
  cr3 => \A f \in pmm!KernelFrames : Translate(f) = f

\* Wherever the bootloader loads the kernel (res/limine.cfg asks for a random place),
\* its pages keep their addresses from everything the boot maps but request_pages: a
\* page that has lost its address lies on the run of the graphics buffer, and then
\* what is mapped there is a page of the buffer, none that anything else is in.
KernelLostOnlyToBuffer ==
  cr3 => \A f \in pmm!KernelFrames :
    Translate(f) # f =>
      /\ f \in BufferRun
      /\ Translate(f) \in held \ (DOMAIN tables \cup donated)

=============================================================================
