# A verification of micron

TLA+ models of the micron kernel and its user shell, TLC configurations that check
them on small instances, and proofs checked by TLAPS. Paths below are relative to
`src/kernel/src/` of the repository unless they start with `docs/`.

micron is a single-processor x86-64 kernel. It boots through stivale, takes over
memory, installs its tables, starts its drivers and enters one user program, a
shell. There is no scheduler and there are no processes: concurrency is interrupts
against the code they interrupt, and devices against drivers. Nothing is persisted,
so there is no recovery from crashes to model.

## Inventory

| Component | State | Operations | Works with |
|---|---|---|---|
| Physical memory manager, `memory/pmm.cpp`, `util/bitmap.cpp` | one bit per frame, three counters | initialize; request, lock, free, reserve, unreserve pages | called by paging, boot, AHCI, terminal, system calls; `request_pages` calls `map_memory` |
| Paging, `memory/paging.cpp` | the tree of tables | map_memory (recursive), get_physical_address, donate_to_userspace | takes frames from the manager |
| Boot, `boot/kconf.cpp`, `boot/kmain.cpp`, `cpu/tss.cpp` | what the steps leave behind | configure_memory, setup_paging, tss_install, configure_graphics, configure_userspace | everything |
| Interrupts, `cpu/interrupts.asm`, `cpu/interrupts.cpp`, `drivers/8259/pic.cpp` | registers, stacks, controller | stubs, irq_handler, iretq | interrupt all other code |
| System calls, `userspace/syscalls.asm` | caller's registers, two stacks | syscall_handler, sysret | called by the shell |
| Keyboard, `drivers/kbd/kbd.cpp` | six modifier flags, a table of subscribers | kbd_irq_handler, publish, subscribe, unsubscribe | calls the shell's keyboard_event inside the interrupt |
| Shell, `userspace/entry/umain.cpp` | command buffer, index, three flags | the prompt loop, the callback | shares its flags with the callback, without locks |
| Heap, `memory/heap.cpp` | a doubly linked list of segments | malloc, free, split, combine | used by AHCI only; nothing frees |
| AHCI, `drivers/disk/ahci/ahci.cpp` | port objects, device registers | initialize, command_read, command_write | heap, memory manager, a device that moves by itself |
| Terminal, `drivers/tty/tty.cpp` | flat text buffer, cursor, framebuffer | write, put_char, shift, clear | printf, system calls, exceptions |
| Timer and beeper, `scheduling/`, `drivers/audio/beeper/` | clock, divisors, gate | tick, sleep, beep | irq_handler ticks while sleep polls |
| Formatted output, `drivers/tty/printf.cpp` | none | printf, with __int_str for numbers | hands characters to the terminal |
| Fatal exceptions, `cpu/interrupts.asm`, `cpu/interrupts.cpp` | the registers the stubs push | isr_handler, exception_handler, $get_symbol_label | printf, the stack of what was interrupted |
| ACPI and PCI, `drivers/acpi/` | firmware tables, configuration space | get_table, enumerate_pci | maps what it reads, initializes AHCI controllers |
| Descriptor tables, `cpu/gdt.cpp` | the GDT | gdt_init, gdt_install_tss | every selector loaded anywhere |
| fonts, serial, power, cpuid, other utilities | little or none | | see "Not modelled" |

What is hard in this code, and what correctness means there:

- **Interrupts between any two instructions.** The stubs save some registers, all
  irqs share one stack, and system calls start on the user's stack. What is
  interrupted must go on as if nothing had happened, and no irq may arrive on top of
  another.
- **A callback inside an interrupt that shares flags with a loop.** The shell reads
  three flags and an index that its own callback writes. Buffer, index and echo must
  agree whatever the order.
- **Page tables built with page tables.** `map_memory` maps the tables it allocates by
  calling itself, and `request_pages` replaces identity mappings while they are in use.
- **Accounting.** Two counters and a bitmap are kept incrementally through five
  operations that may be repeated or overlap.
- **Pointer surgery in shared memory.** The heap's list lives between the blocks, and
  the AHCI driver's objects lie over its headers.
- **A device that moves by itself.** Busy loops without a limit, set-up that must not
  happen while the device runs, commands that fail, and a firmware that left anything
  behind.
- **Arithmetic at edges.** Divisors of 16 bits, scan codes moved in words and cut to
  bytes, cursor and scrolling by single cells, spare bits past the end of memory.

`PROJECT.json` lists the hazards by line with the properties that would catch them.

## Modules

| Module | Stands for | Extends or composes |
|---|---|---|
| `FrameAllocator` | abstract: who owns each frame, and true reports | |
| `Pmm` | the memory manager: each public operation is an action, the bitmap a set | refines `FrameAllocator` |
| `PmmProofs` | proofs about `Pmm` | |
| `Paging` | map_memory step by step with its calls as a stack; donation | |
| `Boot` | the boot sequence, and sys_allocate_page after it | `Paging` and `INSTANCE Pmm` |
| `Pci` | get_table and the PCI enumeration, a stage of the boot, with the memory AHCI's initialize takes | `Boot` |
| `BootProofs` | proofs about `Paging`, `Boot` and `Pci` | `INSTANCE PmmProofs` |
| `Segments` | the descriptor table and the selectors in five files, as constants | |
| `Trap` | hand-over from mnkentry, user mode, system calls and interrupts, instruction by instruction where an interrupt matters | `Segments` |
| `TrapProofs` | proofs about `Trap` and the table of `Segments` | |
| `Keyboard` | kbd_irq_handler | |
| `Keypresses` | a keyboard and a subscriber around it | `Keyboard` |
| `Subscribers` | the table of subscribers | `Keypresses` |
| `Shell` | the shell's loop and its callback | `Keyboard` |
| `KeyboardProofs` | proofs about `Keypresses`, `Subscribers` and `Shell` | |
| `Heap` | malloc and free as functions on memory words | |
| `HeapClient` | a client of them | `Heap` |
| `HeapProofs` | proofs about `Heap` and `HeapClient` | |
| `Ahci` | initialize, the two commands, and the device | `Heap` |
| `AhciProofs` | proofs about `Ahci` | |
| `Terminal` | abstract: lines of cells and a cursor | |
| `Tty` | the flat buffer and the framebuffer | refines `Terminal` |
| `Printf` | formatted output as a function, and what C says of it | |
| `Panic` | exceptions: the stubs' layout, the report, the stack walk | `Tty`, `Printf` |
| `PanicProofs` | proofs about `Tty`, `Printf` and `Panic` | |
| `Timer` | both channels, the tick, sleep by instructions, beep | |
| `TimerProofs` | proofs about `Timer` | |

Variables have the names of the source where the source has them; those marked
"ghost" in a module only record what a property talks about. Definitions commented
"Slip" are plausible mistakes that the properties have to notice; they belong to no
specification.

How state and actions correspond to the code:

- **Pmm.** `bitmap` is the set of bits that are 1, the three counters are the
  program's, and `held` and `aside` are what callers locked and reserved. A whole call
  is one action: the manager runs with interrupts off or before there are any. Which
  pages are freed is the caller's matter, limited to what it may free (`MayFree`):
  its own pages and clear ones.
- **Paging, Boot.** `tables` maps the frame of a table to its entries and `calls` is
  the stack of active `map_memory` calls, one step per level. `stage` and `i` are the
  place in the boot sequence and its loop counter. `astray` records a table used at an
  address that does not translate to itself once `cr3` is loaded.
- **Pci.** `walk` is the loop counters of the nested loops (configuration, bus, device,
  function), as many as are active; `enumerate_bus`, `enumerate_device` and
  `enumerate_function` begin alike, by mapping a page and reading the header in it, so
  `Enumerate` and the steps at the header serve all three. Each mapping runs
  `map_memory` of `Paging`. A controller's `initialize` is here with the mapping of its
  registers and the pages it requests for each port (`InitializeController`, `ProbePorts`,
  `ConfigurePorts`); its registers themselves are in `Ahci`, and the objects it takes from
  the heap change nothing here, as `malloc` asks for no page. `strayed` records the pages used while
  they were not mapped at their own addresses: of the RSDP, the XSDT and the tables, of a
  header, of registers, of a port's structures.
- **Segments, Trap.** The descriptor table is a constant sequence, since it is built once;
  `seg` is what cs, ss and ds hold, and moves with each gate, iretq, SYSCALL and SYSRET.
  A register file, three stacks and the controller's request and service
  sets. The C code of a handler is "any value in the registers it may use" (`Clobbered`).
  `before` and `caller` remember what was interrupted or called.
- **Keyboard, Shell.** A key is its scan code and one interrupt is one atomic `Key`
  action, since the gate disables interrupts; the program moves by the statements
  between which a key can tell the difference (`$print` character by character).
- **Subscribers.** The table and its length are the program's; publishing is what the
  key of `Keypresses` calls. The model has the callers that the kernel's convention
  allows: between keys, and unsubscribing what is subscribed.
- **Heap.** `mem` is the words the heap code reads and writes; headers are laid over
  them as in `heap.h`. A call is one function of memory.
- **Ahci.** The registers of each port are a record; each access the driver makes to a
  register that the device moves is a step, and the device's steps come in between.
- **Tty.** A cell is a record of character and colour; a call of write is one action
  (system calls run with interrupts off). `screen` is what each place of the
  framebuffer shows, and the ghost `said` is what was written since the last clear.
- **Printf, Panic.** A format is a sequence of characters and directives, and the text
  a function of it and the arguments; numbers have the widths of their types. An
  exception is described by its vector, error code, fault address and the stack it finds:
  the active functions, and what each has linked into the chain of rbp (`"called"`, a frame
  below its return address; `"entered"`, syscall_handler's frame on the user's stack, which has
  none above it; `"none"`, an irq stub or a function interrupted before its push). The words are
  pushed in the order of the stub and read back through the layout of
  `struct s_registers`. Each printf of `exception_handler` is a step on the terminal.
- **Timer.** Every instruction of `sleep.asm` that reads or writes shared state or the
  interrupt flag is an action; a tick that can be delivered goes first.

## Runs

| Run | Shows | Distinct states |
|---|---|---|
| `pmm` | Every bit has one owner, the counters agree with the bitmap, nothing precious is handed out, and the manager implements `FrameAllocator` | 5,104 |
| `boot` | Through the whole boot the tables stay one reachable tree, a call changes one translation only, the recursion stays shallow, the kernel loses only pages on the run of addresses of the graphics buffer, and to pages of that buffer, and user mode reaches only what it was given; ACPI's structures, headers, registers and the pages of the ports are mapped when they are used, and each controller is initialized once | 11,349 |
| `boot_high_kernel` | violated: loaded where the graphics buffer falls, the kernel is mapped away by `request_pages` | |
| `trap` | Interrupts leave no trace in what the stub saves, irqs never nest, system calls return to their callers, no request is left waiting, and every selector loaded fits its descriptor | 37,040 |
| `trap_calls` | violated: an interrupt between `lea r14` and `call r14` diverts the call | |
| `trap_debug` | violated: a system call returns with single-stepping on | |
| `keypresses` | No modifier sticks, and a subscriber knows exactly the keys that are down; each subscription hears each key once | 93,696 |
| `shell` | The buffer holds what was typed, the echo is complete unless a key was too quick, Enter is heard | 72,221 |
| `heap` | The list stays sound, blocks are the taken segments, and freed neighbours are joined | 29,324 |
| `ahci` | Port objects, structures and slots are not shared, set-up happens at rest, and initialize and commands return, from everything the firmware may leave in a port | 171,942 |
| `panic` | The screen shows the buffer, the terminal implements `Terminal`, also while a fatal exception writes its report; the report is true, the trace has a line for every frame, with the caller where there is a return address, and printf prints what C says | 55,061 |
| `timer` | No sleep is short, and every sleep ends | 16,456 |

### The three disagreements

1. `boot_high_kernel`. `request_pages` (`memory/pmm.cpp:184`) maps a run of addresses
   to whatever frames are free. When the kernel image lies in that run, its own
   addresses are mapped to other frames. `docs/CALLING-CONVENTIONS.md:26` promises that
   the kernel functions at any load address, and `res/limine.cfg` has it loaded at a random one.
   `boot` shows how far the damage goes (`KernelLostOnlyToBuffer`).
2. `trap_calls`. The stubs use r14 and do not restore it; the calling convention of
   `docs/CALLING-CONVENTIONS.md:46-47` keeps the target of a call there for an instruction.
3. `trap_debug`. `syscall_handler` uses r11, which holds the caller's flags until
   sysret (`userspace/syscalls.asm:58`). `cpu/interrupts.asm:85-86` wonders about the
   debug exceptions that follow.

### Bounds, and why they are enough

- `pmm`: 10 frames, 2-bit bitmap bytes, counters modulo 32. The scale keeps what matters:
  spare bits past the end of memory, a bitmap that ends inside a page, unaligned entries,
  holes, firmware memory past the counted end, whose frames are handed out once memory is full.
  All ranges of pages are tried.
- `boot`: tables of 4 entries and 80 frames, so all four levels are used, tables are
  allocated in every phase, and the graphics buffer is interrupted by used frames.
  `StackCalls` is what the one page of boot stack has room for: a call of `map_memory` keeps
  four indices, an entry and a few pointers, well below 300 bytes, so that ten fit beside
  their callers. Memory lasts for the
  boot, as on a real machine. `HeapLoop` stands for 0x100 repetitions of one mapping. Two
  PCI configurations, buses of 4 devices with 2 functions: controllers as a second
  function, alone, on the last device, behind an absent function, on the bus at
  `end_bus`, and with registers beside memory and far from it. One has a drive, for which pages are
  requested then and again by each controller after it. The kernel is on the run of
  the graphics buffer or below it; ACPI's structures are low, at the end of memory, on that run or
  past the end.
- `trap`: three lines, on both controllers, are enough for priorities and for the
  cascade. Stacks hold the words themselves, so nothing is bounded there.
- `keypresses`: keys of every class of the arithmetic and all modifiers. `KeysAssumption`
  says what the handler's arithmetic needs of a board. A table of 5 entries of which 3
  move stands for 256 and 64; two functions may subscribe repeatedly.
- `shell`: a buffer of 3 characters, indices -1 to 5, 4 echoed characters: the buffer's
  both ends, a full line, and two command lookups happen. Characters past `MaxIndex` are
  stored nowhere and end the ghosts' claims.
- `heap`: room for up to six segments and sizes on both sides of the rounding;
  `MaxSegments` is more than the headers that fit into the heap, so that it cuts no list
  short (`ClientAssumption`). When
  a length wraps the client stops and `wrapped` excuses the rest: that is the code's
  behaviour, not a choice of the model. `Wide` stands for 2^64.
- `ahci`: three ports, eight slots with half of the tables in the following page,
  two commands, each of which may complete, fail or find the device busy. One port is left in
  each combination of ST, FRE, CR, FR, an error, a busy drive, and commands issued or none;
  where there are several ports, all are off or running.
- `panic`: 16 by 3 characters and four calls reach wrapping, scrolling twice in one
  call, a backspace at the first place, the line marker and its shortest beginning; every report
  is longer than
  the screen. Types of 4, 6 and 8 bits, so that each truncation and each sign is met by the
  numbers at their edges; a load address that an unsigned int cannot hold; every stack of at
  most four functions, each with any of the three kinds of frame: inside system calls, inside irqs, and
  before a push.
- `timer`: durations 0 and 2, clock up to 4; `Capped` never hides a comparison that
  matters, which is an assumption of the module and used in its proof.

Deadlock is checked except where the system may stop: `boot` and its variant (the model
ends at `MaxUserPages`), `heap` (a wrapped list), `ahci` (a drive after an error, and
`MaxCommands`) and `panic` (`MaxWrites`, and a halt ends it).

### Fairness

- `Trap`: the processor executes (weak fairness of the program and of the handler). A
  line that is asserted again and again is taken (strong fairness of `Deliver`), as the
  processor looks at it after each instruction. `RaisedIsDelivered` still requires that
  nothing more urgent is always waiting.
- `Shell`: weak fairness of the program's step; nothing is assumed of keys.
- `Ahci`: weak fairness of the driver and of each port's engines and completions. A
  device must follow its command bits and answer in the end; it is free to fail.
- `Timer`: ticks keep coming, each one that can be delivered is, and instructions get
  their turn between ticks (strong, because a tick goes first whenever it can).

No other module states fairness; their properties are safety properties.

## Proofs

All theorems hold for every value of the constants that satisfies the modules' named
assumptions.

- **`PmmProofs`** (from `WrapAssumption` and `MapsAssumption`). `Invariance`: `Spec => []IInv`.
`Accounting`
  is not inductive alone, since the counters move by the number of bits that change and
  this is right only if the bit sets of boot, locked and reserved frames are disjoint,
  finite and add up to the bitmap; so `IInv` joins types, `OneOwner` and `Accounting`. Lemmas
  give the cardinality of a set that grows or shrinks and that modular sums commute with
  it. Consequences: `TypeCorrect`, `Ownerships`, `Accounts`, `FreeRam` (what is reported free is
  the number of clear frames) and `Refinement` (every step is a step or a stutter of
  `FrameAllocator`).
  `PreciousKept` needs more: `LayoutAssumption`, that memory begins at pages, and
  that firmware's entries also end at pages or lie below the first MiB. From it every frame of memory
  that holds a byte of something precious, counted in bytes and by every entry that is not
  conventional, is one that `initialize` counted in pages (`PreciousIsOwned`), so that it has an
  owner who is not a client. Bits past the end of memory are clear, whatever firmware has there; that
  they come last, by first fit, is why none is given away before memory is full.
- **`BootProofs`** (from `PagingAssumption`, `BootAssumption`,
  `PciAssumption` and those of `Pmm`). The boot is one long inductive argument, in layers:
  1. `Basic`: types, and *one place each*: every table but the root is entered in exactly one
     entry of exactly one table of the level above, also while the nested calls of
     `map_memory` build it; each call is at a table of its level, and tables are frames that
     the memory manager has given away. From it `TablesFormATree` (with a bijection between the
     entries in use and the tables below) and `OnePageAtATime` (a leaf belongs to one page only).
  2. `Reachable`: every table is mapped at its own address, or a call in progress will do
     that; the identity map is complete up to where its loop is; and the tables lie below
     every clear frame of memory (`FirstFitPart`). The last is why the run of addresses
     that `request_pages` moves, which begins at the lowest clear frame, meets no table, and it holds
     because first fit never goes back. From it `TablesStayReachable`.
  3. `BufferPart`: of the pages of memory that the run moved, which layer 2 leaves open, each is still
     mapped to itself or to a frame that is the buffer's alone. From it `KernelLostToBuffer`, wherever
     the kernel is. `UserPart` follows what user mode reaches through four levels of user flags, and
     `DevicePart` the pages the enumeration uses; the frame that a port requests was clear, so that
     the run has not moved it (`PortStep`), nor the one after it (`WritesNear`, `NextInMemory`).
     From them
     `UserKeptOut` and `DevicesStayReachable`.
  4. `FoundPart` and `LoopPart`: the controllers initialized are those that the counters of
     the enumeration have passed, where a function is *passed* if it is below the counters at the
     first place where they differ. One lemma for each way the counters move says what is newly
     passed: nothing, or the function under the last counter. `AddressOrder` turns the order of
     counters into the order of addresses (digits below `Devices` and `Functions`). From it
     `ControllersOrdered`.

  5. `FilledPart` and `NestPart`, for how deep `map_memory` nests. From the table that the outermost
     call has just taken, memory goes to tables only, without a gap (`TakenForTables`, by
     first fit), each nested call is for another of these tables (`MapTables`), and each
     table but the first was taken on the way to the address of one of them (`Chained`). If
     they were as many as `StackCalls`, one per region of their own addresses at each level
     would have to be enough for all but the first (`TooFewToFill`, by an injection from tables to
     regions), and there are too few such regions. From it `NestingStaysBounded`.

  Two hypotheses are not assumptions on constants of the code, and each is one that the
  code does not check. `[]MemoryLasts`: as long as somebody may still ask for a frame, one of memory is
  clear and not the last one. `map_memory` would take nullptr for a table, and half of a port's command
  tables are written in the frame after the one requested. It holds in every state of the run
  `boot`. Nothing is assumed of where the kernel is loaded or where the firmware
  has put ACPI's structures.
  `FramesLieClose`, only for the nesting: `StackCalls` frames that follow each other in the
  memory map (the reserved ones left out) need fewer than `StackCalls - 1` tables to be translated. With
  tables of 512 entries, frames within two regions of 2 MiB need at most six; frames scattered over
  the address space one by one would let the recursion run on. `MCBoot` has TLC check it of
  the maps of the run.
- **`TimerProofs`** (from `TimerAssumption`). `NoShortSleep`: the counted ticks never
  exceed the raised ones. The tick that waits counts in advance (`Counted`); that none
  waits when sleep resets the clock follows from `Window`: interrupts are on and the
  line unmasked wherever sleep is called, so a waiting tick would have come first. What
  is compared is no later than the clock because interrupts are off in between
  (`Compared`). `TypeCorrect` includes that the milliseconds stay below the frequency,
  though ticks come before there is one.
- **`TrapProofs`** (from `LinesAssumption`, that the unmasked lines are lines a device can
  be on). What an interrupt must bring back lies in five places: the frame the processor
  pushed, the words of the stub above it, the registers C keeps, and the two ghosts. So
  `IInv` says of the *suspended program* (the processor itself, or `before` while a
  handler runs) that it is at a place of the program with the registers, flags, stack and
  segments that belong there (`ProgramSound`), and of the handler that each word it will
  pop is where it will look: the frame behind 1, 2, 14 or 0 other words as the stub
  proceeds (`FrameBehind`), the saved registers in the order of `popa` (`SavedIn`), or
  still in place (`Untouched`). Neither half is inductive without the other: `iretq` makes
  `before` the processor again, and what `before` is sound about was sound when the
  gate was entered. That no interrupt nests follows from flags being empty in every
  handler. `Invariance` takes one lemma per action; from it `NoNesting`, `Transparent`,
  `CallsReturn` and, with the table computed entry by entry (`TableOfGdt`,
  `SelectorsFit`), `Fit`.
- **`KeyboardProofs`** (from `KeysAssumption`, and from `SubscribersAssumption`, that
  unsubscribe moves fewer entries than the table has). `OneCodePerKey`, `KeysApart` and
  `ModifierCodes` compute the handler's arithmetic for every key. From them follow
  `NoStuckModifier`, `KeysKnown` (with a bijection between held keys and codes) and
  `TypeCorrect`. `OnePlaceEach` is about the table: among the first `keyboard_subscribers`
  entries each function has as many places as subscriptions, and the table is never longer
  than what is moved, plus one. The step that matters is unsubscribing: the function's first
  entry exists (`Found`), exactly that one goes (`UnsubscribeRemoves`), and a bijection takes
  the places that are left to those after the move (`PlacesRemain`). From it `EachHears`.

  About the shell (from `ShellAssumption`, which includes that the bound on the index lets it
  leave the buffer), `LineKept`: the buffer holds the line, whatever is typed at whatever
  moment that is not excluded by name. `IInv` has what the property leaves out: where the shell
  stands between clearing the buffer and resetting the index the buffer is not the line,
  and whether something was stored since (`stray`) decides if it will be. `EchoComplete`: the
  screen follows the line. `EchoInv` says that it is at most one character behind, and that
  the flags tell which way: `event_occured` that the last character is still to be printed
  (`Awaiting`), `unhandled_backspace` that one printed is to be taken back (`Undone`); a key
  that comes while either waits is the one that the property excludes as too quick.
- **`HeapProofs`** (from `HeapAssumption` and `ClientAssumption`). The lemmas speak of a memory
  and a set S of segments: `List` says what a doubly linked list in address order is, by
  neighbours only, `Merged` that no two free ones follow each other, `Taken` which are not free.
  `SplitList` and `CombineList` take the list through the stores of split and combine one
  by one (headers do not overlap, so that a store into one leaves the others),
  `MallocTakes` and `FreeReleases` through the calls: malloc takes one segment and free
  gives one back, between whose two combines at most one free pair is left, and not after it
  (`AlmostMerged`). `IInv` says that some S is such a list and what the client holds are its
  taken segments; it is lost only when a length has wrapped. `WalkSeesAll` shows that S is what
  malloc's loop sees, as segments are at least a header long. From it `ListStaysSound`,
  `HeldAreTaken` and `FreeStaysMerged`.
- **`AhciProofs`** (from `HeapAssumption` and `AhciAssumption`; of the firmware only that
  no command is issued while ST is off, since the controller clears them then). `MovedAtRest`: a
  port's memory is moved only while both engines rest. `IInv` says
  what command_stop has achieved at each of its lines; it holds of hardware that moves by
  itself because an engine only follows the bits that the driver set. The other theorems
  need the heap under the driver's objects (`ObjectsInv`): an object lies over the header that
  malloc returned, so the first port's number makes the first segment's `length`, and later
  malloc calls find either the second segment (if there is room for it; its own object
  leaves it marked free) or nothing, and then write through NULL (`HeapShape`, `Held`). Hence
  `PortsStayKept` for two ports, and that the driver always works on a real port. `TableStaysFree`:
  from the choice of the slot to its issue only the device moves, and it only takes slots away
  (`TableInv`). `StructuresStayApart`: the pages of each port are an interval of their own
  (`PagesInv`); with tables in adjacent pages the last one lies in the page after that interval,
  at its end, where the next port has only the beginning taken, by its list.

- **`PanicProofs`** (from `TtyAssumption`, `CrashesAssumption`, `SymtabAssumption`, that the
  table of symbols is sorted and code lies between its first symbol and the kernel's end, linked
  below 4 GiB, `PanicAssumption`, that the reports are among the strings, `PrintfAssumption`, that
  the widths of the types grow and are at least 4 bits, and `DirectivesAssumption`, what a directive
  and an argument are). The repetitions in `Tty` are
  recursive functions of a number of steps. `Iterates` says once that such a function exists,
  by a least counterexample; from it the values step by step of scrolling (`ShiftedCells`), of
  a string (`PuttingSteps`) and of clearing (`ClearingSteps`). The cells are rows of a flat
  buffer: `Rows`, `PlaceCells` and `PlacesApart` are the arithmetic. `Good` is the inductive
  invariant: types, the cursor on the screen, and each place showing its cell. From it
  `ScreenInStep`. `TerminalImplemented` maps each step of a string: newline, tab, backspace, a
  character and a colour code to their counterparts in `Terminal` (`PutMapped`, `StringMapped`), the
  `vga_width` moves of all cells by one to one move of all lines (`ScrolledPicture`), and clear
  to lines of spaces (`ClearMapped`). Both have the hypothesis `[][TabsInLine]_vars`: no tab leaves its
  row. The code does not check it (`tty.cpp:245` moves the column past the width), and the
  screen is wrong when it fails. It holds on the run `panic`, whose tabs follow newlines
  as the kernel's do. `CallersNamed` needs no such thing: `Walk` says which frame the walk is at
  when so many lines are printed, whichever functions of the stack have none, `RegistersRead` that
  what the stub pushed is where
  `struct s_registers` looks for it, and `LabelIsOwner` that the loop over the symbols finds the
  last one that is not above the address. `PrintfIsC`: for every width of the types, every supported
  directive, width and argument, printf writes what C says and then the next argument.
  `Numeral` and `Power` recurse over numbers, by division and by one;
  `DescendsEverywhere` says that such a function exists on all numbers, and `Strongly` and
  `Counting` are induction, as least counterexamples in a set. `Spells` says what a numeral is
  without recursion: its length and each of its digits by its place. `NumeralSpells` shows that
  `__int_str` writes that, dividing by the base, and `DigitsAsC` that C's digits are the same;
  `TakenAsC` that the
  conversions of `va_arg` lose nothing of a supported argument, `IntStrAsC` sign and padding,
  `VprintfRuns` the loop over the format. `ReportTrue` follows from it and from
  `RegistersRead`: every number of the report is the right word in the right digits.
  `ReportShown` is its invariant: what is shown is the report's texts in their order
  as far as they are printed, and then one text for each label of the trace.

Every safety invariant and action property of the runs that are expected to pass is a theorem.
Only model-checked: all liveness, which is out of the prover's reach (`RaisedIsDelivered`,
`EnterIsHeard`,
`InitializeReturns`, `CommandReturns`, `SleepReturns`).

## Seen in the code, without a run

These are facts the models contain, or leave out, for which no text of the
repository says otherwise.

- `kconf.cpp:51` sets `pos` anew in each iteration: one heap page is mapped 0x100 times
  and 255 frames are lost. The heap and AHCI models assume the memory behind the heap.
- `heap.cpp:19` adds `size % 0x10 + 0x10` where rounding up was meant: a request of 40
  bytes gets 24. `heap.cpp:50` splits a segment that has no room for a second header, and the
  length wraps.
- `tty.cpp:34` requests one page of text buffer, which holds 2048 cells, for any mode.
- A tab near the right edge moves the column past the width (`tty.cpp:55`), and
  `strcomp` (`util/kutil.cpp:19`) accepts any beginning of the line marker, so the empty
  string and `$` draw a line.
- `timer.cpp:31` writes channel 0's divisor to channel 2, so every tone is the same.
- `sleep.asm:16` uses its caller's rbx.
- `kbd.cpp` looks for right ctrl and right alt at codes that its arithmetic does not
  give them; the handler never reports them.
- `ahci.cpp`: the port object lies over a segment header, so a third port shares the
  second's object; a table address loses its upper half and a sector number most of its
  bits; nothing recovers from an error; a second controller sets up the first one's ports
  again.
- The interrupt stubs do not save r8 to r11, which compiled C code may use.
- `ahci.cpp:100` shifts a table's address by 32 where it meant to take its upper half, and
  a sector number is cut to 8 bits before it is shifted. `ahci.cpp:28` maps one page of a
  controller's registers; those of ports 30 and 31 are in the next.
- `pci.cpp` stops before the last bus of a segment, and does not look at the bit that
  says whether a device has more functions than one. A missing MCFG is not noticed
  (`kconf.cpp:71`).
- ACPI structures inside the run of addresses that `request_pages` remaps for the graphics
  buffer lose their identity mapping, as the kernel does in `boot_high_kernel`; and those
  above the last conventional entry, rounded down to a MiB, are not mapped
  (`memory/pmm.cpp:49-54`). `DevicesReachable` has exactly these as its exception.
- Firmware memory that begins past that end is not reserved either. `request_page` gives its first
  frames away once memory is full, through the spare bits of the bitmap (`memory/pmm.cpp:94`).
- Exceptions 17, 21, 29 and 30 come with an error code, and their stubs push a 0 as well, so
  that every field of their report is displaced. They need features the kernel does not
  turn on.
- `exception_handler` prints 64-bit addresses with `%x`, which shows 32 bits. Its trace
  lacks the direct caller of a function interrupted before it has pushed its frame and, as
  `irq_common_stub` links no frame, the function that an irq interrupted. `syscall_handler` links
  its frame on the user's stack with no return address above it (`userspace/syscalls.asm:55-56`), so the
  trace shows the symbol of some word of the user's there, not the function that made the call. It
  ends with a line for whatever lies above the last frame.
- `printf`: after `hh` the second h is taken for the specifier; `%%` prints nothing; zeros are
  put before a sign and after a number on the left; an unsigned number of 64 bits with
  the highest bit set is printed as negative; `%#X` prints 0x; a width over 255 overflows a
  buffer. The kernel uses none of these.
- `keyboard_event_unsubscribe` of a function that is not subscribed drops entry 0 and leaves
  the length, so that null is called at the next key; more than 65 entries are not moved
  as a whole. Nothing calls it.

## Not modelled

The pixels of fonts (`gop.cpp`: tables of pixels, and plotting one character from them); the
serial port (`serial_msg` polls and keeps nothing, and its console is in no state a
machine can reach: `console::init` has no caller and irq 4 is never unmasked); floating
point, precisions and `%n` of printf; what the shell's commands print; power (nothing is
reached but a halt); boot structures, cpuid, page attributes, partition types (no code reads
them) and the build. `PROJECT.json` gives the reason for each.

## Plan

The order was: the memory manager with its abstraction and proofs; paging and boot on
top of it; interrupts and system calls; keyboard and shell; heap and AHCI; terminal;
timer. On that core followed the PCI enumeration as a stage of the boot, the descriptor
table and its selectors in `Trap`, the table of subscribers, exceptions with formatted
output on the terminal, and the proofs
about `Trap`, `Subscribers`, `Shell` and `Ahci`, then those about `Paging`, `Boot`,
`Pci`, `Heap`, `Tty`, `Panic` and `Printf`. What is left:

1. Models: a terminal whose text buffer is the page it really has (`tty.cpp:34`), and the heap
   behind the one page that `kconf.cpp:51` really maps.
2. Proofs: that no tab of a report leaves its row.
