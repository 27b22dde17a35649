------------------------------- MODULE Shell --------------------------------
(***************************************************************************)
(* The user program, userspace/entry/umain.cpp: a main loop that prompts,  *)
(* echoes and runs commands, and keyboard_event, which the keyboard        *)
(* interrupt calls between any two steps of it.  They share the command    *)
(* buffer, its index and three flags, with no lock.                        *)
(*                                                                         *)
(* The compiler runs with -O0 (kernel/Makefile:34), so each access of a    *)
(* shared variable is a step of its own; a system call runs with           *)
(* interrupts off.                                                         *)
(***************************************************************************)
EXTENDS Keyboard, SequencesExt

CONSTANTS
  kbdus, kbdus_s, kbdus_sc, \* kcascii.cpp: key code -> character, where there is one
  Commands,           \* the names $perform_command tries, in its order
  BufferSize,         \* characters in $command_buffer: one page
  MaxIndex,           \* bound: the buffer index
  MaxScreen           \* bound: characters echoed in a line

ASSUME ShellAssumption ==
  /\ BufferSize \in Nat \ {0} /\ MaxIndex \in Nat /\ MaxScreen \in Nat
  /\ BufferSize <= MaxIndex   \* the index can leave the buffer
  /\ BufferSize <= MaxScreen  \* and the echo of what it holds is whole
  /\ Commands \in Seq(Seq(STRING))

NUL == ""             \* the character 0
Rubout == "rubout"    \* the character 8, \b

VARIABLES
  pc,
  command_buffer_index, prompt_waiting, event_occured, unhandled_backspace,
  subscribed,         \* keyboard_event is a subscriber
  allocated,          \* $command_buffer is set
  memory,             \* the characters at $command_buffer, and one on either side
  from,               \* the index $print was given
  attempt,            \* the command name compared next
  line,               \* ghost: what was typed since the index was reset, if undisturbed
  disturbed,          \* ghost: the buffer or index was used outside its line
  stray,              \* ghost: a character was stored after the buffer was cleared
  screen,             \* ghost: what was echoed since the prompt, if not rushed
  rushed              \* ghost: a key came before the last one was echoed, or
                      \* the line filled the buffer

shared == <<command_buffer_index, prompt_waiting, event_occured, unhandled_backspace, memory>>
local == <<pc, from, attempt, subscribed, allocated>>
ghosts == <<line, disturbed, stray, screen, rushed>>
vars == <<mods, shared, local, ghosts>>

Cells == -1 .. MaxIndex
Empty == [c \in Cells |-> NUL]

Loop == {"poll", "test_event", "echo", "print", "event_done",
         "test_backspace", "erase", "erase_done"}

Init ==
  /\ KbdInit
  /\ pc = "subscribe" /\ from = 0 /\ attempt = 1
  /\ command_buffer_index = 0
  /\ prompt_waiting = FALSE /\ event_occured = FALSE /\ unhandled_backspace = FALSE
  /\ subscribed = FALSE /\ allocated = FALSE /\ memory = Empty
  /\ line = <<>> /\ disturbed = FALSE /\ stray = FALSE
  /\ screen = <<>> /\ rushed = FALSE

-----------------------------------------------------------------------------
(* keyboard_event.                                                         *)

keypad_period == 83

At(table, kc) == IF kc \in DOMAIN table THEN table[kc] ELSE NUL

kcascii(kc, shift, caps) ==
  CASE kc > keypad_period -> NUL
    [] ~shift /\ ~caps -> At(kbdus, kc)
    [] shift /\ ~caps -> At(kbdus_s, kc)
    [] shift /\ caps -> At(kbdus_sc, kc)
    [] OTHER -> NUL

i == command_buffer_index

\* A store at an index, lost to the rest of memory where that is outside Cells or
\* the buffer is not allocated yet.
Store(c, ch) == IF allocated THEN [memory EXCEPT ![c] = ch] ELSE memory

Outside(c) == ~allocated \/ c \notin 0 .. BufferSize - 1

\* Keys are told apart from the lines of the program only by when they come.
Unsettled == pc \in {"allocate", "clear_first"}
Pending == event_occured \/ unhandled_backspace
Echoing == pc \in {"echo", "print", "event_done", "erase", "erase_done"}

\* The ghost line is kept while nothing has disturbed it.
Kept(l) == IF disturbed' THEN <<>> ELSE l

Tab ==
  LET n == ((IF i < 0 THEN 0 ELSE i \div 4) + 1) * 4 IN
  /\ n <= MaxIndex
  /\ command_buffer_index' = n
  /\ disturbed' = (disturbed \/ Unsettled)
  /\ line' = Kept(line \o [c \in 1 .. n - Len(line) |-> NUL])
  /\ rushed' = (rushed \/ Pending \/ Echoing)
  /\ UNCHANGED <<prompt_waiting, event_occured, unhandled_backspace, memory, stray>>

\* There is no test for an empty line.
Backspace ==
  /\ i > -1
  /\ command_buffer_index' = i - 1
  /\ memory' = Store(i - 1, NUL)
  /\ unhandled_backspace' = TRUE
  /\ disturbed' = (disturbed \/ Unsettled \/ Outside(i - 1))
  /\ line' = Kept(Front(line))
  /\ rushed' = (rushed \/ Pending \/ Echoing \/ disturbed' \/ Last(line) = NUL)
  /\ UNCHANGED <<prompt_waiting, event_occured, stray>>

Enter ==
  /\ prompt_waiting' = FALSE
  /\ UNCHANGED <<command_buffer_index, event_occured, unhandled_backspace, memory,
                 line, disturbed, stray, rushed>>

Character(ch) ==
  /\ i < MaxIndex
  /\ memory' = Store(i, ch)
  /\ command_buffer_index' = i + 1
  /\ event_occured' = TRUE
  /\ disturbed' = (disturbed \/ Unsettled \/ Outside(i))
  /\ line' = Kept(Append(line, ch))
  /\ stray' = (stray \/ pc = "reset")
  /\ rushed' = (rushed \/ Pending \/ Echoing \/ i + 1 >= BufferSize)
  /\ UNCHANGED <<prompt_waiting, unhandled_backspace>>

KeyboardEvent(p) ==
  LET ch == kcascii(p.key_code, p.shifted, p.caps_lock) IN
  IF ~p.release_or_press \/ ch = NUL THEN UNCHANGED <<shared, line, disturbed, stray, rushed>>
  ELSE CASE ch = "\t" -> Tab
         [] ch = Rubout -> Backspace
         [] ch = "\n" -> Enter
         [] OTHER -> Character(ch)

\* The keyboard interrupt: the driver, then its subscriber.
Key ==
  /\ \E key \in Keys : \E scan \in {Make(key), Break(key)} :
       /\ KbdIrqHandler(scan)
       /\ IF subscribed THEN KeyboardEvent(PacketOf(scan))
          ELSE UNCHANGED <<shared, line, disturbed, stray, rushed>>
  /\ UNCHANGED <<local, screen>>

-----------------------------------------------------------------------------
(* umain and $prompt.                                                      *)

Goto(label) == pc' = label
NoKeys == UNCHANGED mods

\* $subscribe_keyboard_event, before the buffer exists.
Subscribe ==
  /\ pc = "subscribe" /\ Goto("allocate")
  /\ subscribed' = TRUE
  /\ NoKeys /\ UNCHANGED <<shared, from, attempt, allocated, ghosts>>

Allocate ==
  /\ pc = "allocate" /\ Goto("clear_first")
  /\ allocated' = TRUE
  /\ NoKeys /\ UNCHANGED <<shared, from, attempt, subscribed, ghosts>>

Cleared == [c \in Cells |-> IF c \in 0 .. BufferSize - 1 THEN NUL ELSE memory[c]]

\* $memset, in umain and at the end of $prompt.
Clear ==
  /\ \/ pc = "clear_first" /\ Goto("prompt")
     \/ pc = "clear" /\ Goto("reset")
  /\ memory' = Cleared
  /\ stray' = FALSE
  /\ NoKeys
  /\ UNCHANGED <<command_buffer_index, prompt_waiting, event_occured, unhandled_backspace,
                 from, attempt, subscribed, allocated, line, disturbed, screen, rushed>>

\* Slip: the end of $prompt without the index.
ResetNothing ==
  /\ pc = "reset" /\ Goto("prompt")
  /\ line' = <<>> /\ disturbed' = stray
  /\ NoKeys
  /\ UNCHANGED <<shared, from, attempt, subscribed, allocated, stray, screen, rushed>>

\* command_buffer_index = 0
Reset ==
  /\ pc = "reset" /\ Goto("prompt")
  /\ command_buffer_index' = 0
  /\ line' = <<>> /\ disturbed' = stray
  /\ NoKeys
  /\ UNCHANGED <<prompt_waiting, event_occured, unhandled_backspace, memory,
                 from, attempt, subscribed, allocated, stray, screen, rushed>>

\* The prompt is printed.
Prompt ==
  /\ pc = "prompt" /\ Goto("wait")
  /\ screen' = <<>> /\ rushed' = Pending
  /\ NoKeys
  /\ UNCHANGED <<shared, from, attempt, subscribed, allocated, line, disturbed, stray>>

\* prompt_waiting = true
Wait ==
  /\ pc = "wait" /\ Goto("poll")
  /\ prompt_waiting' = TRUE
  /\ NoKeys
  /\ UNCHANGED <<command_buffer_index, event_occured, unhandled_backspace, memory,
                 from, attempt, subscribed, allocated, ghosts>>

\* A step of the loop that reads the shared variables and goes on.
Test(label, yes, to, otherwise) ==
  /\ pc = label /\ Goto(IF yes THEN to ELSE otherwise)
  /\ NoKeys /\ UNCHANGED <<shared, from, attempt, subscribed, allocated, ghosts>>

Poll == Test("poll", prompt_waiting, "test_event", "newline")
TestEvent == Test("test_event", event_occured, "echo", "test_backspace")

\* Slip: the loop sets prompt_waiting again in each round.
TestBackspaceRearms == Test("test_backspace", unhandled_backspace, "erase", "wait")

TestBackspace == Test("test_backspace", unhandled_backspace, "erase", "poll")

\* &$command_buffer[command_buffer_index - 1]
Echo ==
  /\ pc = "echo" /\ Goto("print")
  /\ from' = i - 1
  /\ NoKeys /\ UNCHANGED <<shared, attempt, subscribed, allocated, ghosts>>

\* The C string at an index; memory past Cells is not modelled and ends it.
StringAt(c) ==
  LET ends == {e \in c .. MaxIndex : memory[e] = NUL} \cup {MaxIndex + 1}
      end == CHOOSE e \in ends : \A f \in ends : e <= f
  IN IF c \in Cells THEN [n \in 1 .. end - c |-> memory[c + n - 1]] ELSE <<>>

\* Slip: the echo starts at the index, one past the character.
PrintAtIndex == StringAt(from + 1)

Printed == StringAt(from)

Capped(s) == IF Len(s) <= MaxScreen THEN s ELSE SubSeq(s, 1, MaxScreen)

PrintText ==
  /\ pc = "print" /\ Goto("event_done")
  /\ screen' = IF rushed THEN <<>> ELSE Capped(screen \o Printed)
  /\ from' = 0
  /\ NoKeys /\ UNCHANGED <<shared, attempt, subscribed, allocated, line, disturbed, stray, rushed>>

EventDone ==
  /\ pc = "event_done" /\ Goto("test_backspace")
  /\ event_occured' = FALSE
  /\ NoKeys
  /\ UNCHANGED <<command_buffer_index, prompt_waiting, unhandled_backspace, memory,
                 from, attempt, subscribed, allocated, ghosts>>

\* $print("\b"): the terminal takes the last character back.
Erase ==
  /\ pc = "erase" /\ Goto("erase_done")
  /\ screen' = IF screen = <<>> THEN screen ELSE Front(screen)
  /\ NoKeys /\ UNCHANGED <<shared, from, attempt, subscribed, allocated, line, disturbed, stray, rushed>>

EraseDone ==
  /\ pc = "erase_done" /\ Goto("poll")
  /\ unhandled_backspace' = FALSE
  /\ NoKeys
  /\ UNCHANGED <<command_buffer_index, prompt_waiting, event_occured, memory,
                 from, attempt, subscribed, allocated, ghosts>>

\* The loop has ended: a new line, and $perform_command.
Newline ==
  /\ pc = "newline" /\ Goto("command")
  /\ NoKeys /\ UNCHANGED <<shared, from, attempt, subscribed, allocated, ghosts>>

\* $strcmp: true of any nonempty prefix of the name.
Matches(s, name) == s # <<>> /\ IsPrefix(s, name)

\* One comparison of $perform_command; a match, or the last one, ends it.
PerformCommand ==
  /\ pc = "command"
  /\ IF attempt > Len(Commands) \/ Matches(StringAt(0), Commands[attempt])
     THEN Goto("clear") /\ attempt' = 1
     ELSE Goto("command") /\ attempt' = attempt + 1
  /\ NoKeys /\ UNCHANGED <<shared, from, subscribed, allocated, ghosts>>

Step ==
  \/ Subscribe \/ Allocate \/ Clear \/ Reset \/ Prompt \/ Wait
  \/ Poll \/ TestEvent \/ TestBackspace \/ Echo \/ PrintText \/ EventDone \/ Erase \/ EraseDone
  \/ Newline \/ PerformCommand

Next == Key \/ Step

\* The program is the only one, and goes on between interrupts.
Spec == Init /\ [][Next]_vars /\ WF_vars(Step)

-----------------------------------------------------------------------------
\* The buffer holds the line that was typed, and the index is its end, at every
\* step of the program, unless a key came before the buffer was set up, stored a
\* character between $memset and the reset of the index, or left the buffer.
BufferIsLine ==
  (allocated /\ ~disturbed /\ pc \notin {"clear_first", "reset"}) =>
    /\ command_buffer_index = Len(line)
    /\ \A c \in 0 .. BufferSize - 1 :
         memory[c] = IF c < Len(line) THEN line[c + 1] ELSE NUL

\* A text is what was typed, without the characters 0 that a tab leaves.
Typed(l) == {n \in DOMAIN l : l[n] # NUL}
Shows(text, l) ==
  /\ Len(text) = Cardinality(Typed(l))
  /\ \A n \in Typed(l) : text[Cardinality({m \in Typed(l) : m <= n})] = l[n]

\* When the loop is idle the screen shows the line, if every key was pressed
\* after the one before it was echoed and the line left room for its final 0.
EchoIsComplete ==
  (pc = "poll" /\ prompt_waiting /\ ~Pending /\ ~rushed /\ ~disturbed) => Shows(screen, line)

\* Enter, pressed while the loop waits, ends it: a command is looked for, whatever
\* else is typed before the loop looks.
EnterIsHeard == (pc \in Loop /\ ~prompt_waiting) ~> (pc = "command")
=============================================================================
