# Formal models of the kernel

TLA+ models of the kernel in `student-distrib/` (a small Linux-like operating
system: one CPU, three text terminals, six processes, round-robin scheduling),
the TLC configurations that check them, and TLAPS proofs of the theorems that
matter most. `PROJECT.json` maps each definition to the lines it models.

    tlc -workers 2 -config ProcessSessions.cfg ProcessSessions.tla   # any run of section 3
    tlapm ProcessProofs.tla                                          # any module *Proofs

## 1. The system

One CPU runs user programs, system calls (`int 0x80`) and three interrupt
handlers: the PIT (100 Hz, the scheduler), the keyboard and the RTC (1024 Hz).
There is no lock but `cli`/`sti`. A routine between the two is atomic; a system
call elsewhere can be interrupted, and switched away from, at any instruction.

    keyboard --> line buffer --Enter--> copy, enter_flag --> terminal_read --> program
        | Alt+F1..F3                                                            |
        v                                                                int 0x80
    terminal_switch --> page at 160MB, line buffers, screens                    v
                            ^                                   open/close/read/write
    PIT --> start shells,   |                                   execute / halt / vidmap
            process_switch -+--> page at 128MB, tss.esp0, esp/ebp <-------------+
    RTC --> rtc_counter of each PCB --> rtc_read

| Component (files) | State | Operations | What is hard | What makes it correct |
|---|---|---|---|---|
| Process table (`system_call.c`, `pcb.c`) | `process_array`, the PCBs, `curr_pid`, `curr_parent_pid` | `execute`, `halt`, `restart_shell` and the PCB helpers | one relation kept in five places; six PCBs for all; `execute` and the scheduler both start shells | call chains per terminal, PCBs never shared, the machine agrees with the table |
| Scheduler (`scheduling.c`) | `active_tid`, `shell_tid`, `own_esp`, `own_ebp` | `pit_handler`, `process_switch` | a tick at any instruction with interrupts on, nested handlers, starting the shells | the right process on the right stack; no starvation; no lost EOI |
| Terminals (`terminal.c`) | `cur_display_tid`, `terminals[]` | `terminal_switch`, `terminal_read`, `terminal_write` | a switch while another terminal runs; a read during typing | the screen and the keys belong to the displayed terminal; a read returns its own line |
| Paging (`paging.c`) | the pages at 128MB and 160MB | `map_process`, `vid_mapping`, `vid_remapping` | the right value depends on who runs and who is displayed | a program draws on its own terminal |
| RTC (`rtc.c`) | `rtcfreq`, `rtc_counter` per PCB | `rtc_handler`, open, close, read, write | the handler counts between the instructions of a read; PCB reuse | the rate is kept, each read returns, no clock is inherited by the PCB's next owner |
| Keyboard (`keyboard_handler.c`) | `keyboard_buffer`, its copy, `overflow_bits`, modifier flags | `keyboard_handler`, `output_keyvalue`, `buffer_clear` | one buffer for three terminals; EOI after `sti`; the buffer's limit | typed lines reach their program unchanged |
| Console (`lib.c`, `terminal.c`) | `screen_x`, `screen_y`, video memory, and a copy of the three for each terminal | `putc`, `special_putc`, `terminal_special_putc`, scrolling | two programs writing to two screens with one code; tabs, wrapping, scrolling | each terminal behaves as a teletype of its own; cursors stay on the screen; erasing undoes typing |
| File descriptors (`system_call.c`) | `fd_array` of each PCB | `open`, `close`, `read`, `write` | reuse of PCBs and descriptors, failing half-way, index 8 | a descriptor is used only by its owner between open and close |
| File system (`filesystem.c`) | file positions, one `dir_readnum` | lookup, `read_data`, file and directory calls | 32-bit sums, ends of blocks and files, the shared directory position | reading returns the file's bytes in order; a listing returns each name |
| Interrupt controller (`i8259.c`) | masks | `enable_irq`, `disable_irq`, `send_eoi` | master and slave | each interrupt gets its EOI |
| IDT, linkage, exceptions (`idt.c`, `handler_link.S`) | gates | entry and return, exception handlers | the stack of an entry from user mode and one from the kernel differ; an exception stops everything | as part of the scheduler |
| Boot (`kernel.c`, `boot.S`, `x86_desc.S`) | initial state | `entry` | interrupts arrive before the first shell | the shells start |
| Command parsing (`system_call.c`), shell, cat, grep, ls, counter (`syscalls/`) | buffers of the programs | `parse_command`, `getargs`, the programs' loops, `itoa`, `strcpy`, `strncmp` | words and lines that the buffers cut | each command prints what it is to print, and ends |
| syserr (`syscalls/`) | which calls failed | eight tests of the system calls | other programs' calls between its own | its tests pass |
| Formatting, in-kernel tests, other programs | none of the kernel's | | | to the process table any program is one that makes any system call at any time |

The hazards of each part, at their lines, and the properties that watch them
are the `hazards` of `PROJECT.json`.

## 2. The modules

| Modules | Part | Abstract specification |
|---|---|---|
| `Process`, `ProcessSessions`, `ProcessProofs` | who owns the CPU, the display and the PCBs | `Sessions` |
| `Context` (extends `Process`), `ContextProofs` | kernel stacks and saved stack pointers | |
| `Rtc`, `RtcProofs` | the clocks of the processes | |
| `TerminalInput`, `TerminalInputProofs` | from the key to the line a program reads | |
| `Console`, `MCConsole`, `ConsoleProofs` | from a program's text to the screen | `Teletypes` |
| `FileSystem`, `Files`, `FilesProofs`; `Listing`, `MCListing`; `Syserr`, `MCSyserr`, `SyserrProofs` | descriptors, the calls on them, the image | `FileCalls` |
| `Programs`, `MCPrograms`, `ProgramsProofs` | the shell and the programs it runs | `OutputRight` says what each command is to print |

The parts are separate because the code separates them. `Rtc` and
`TerminalInput` share only the scheduling with `Process`, which they take from
its property `EveryTerminalRuns` as their fairness; `Console` shares with
`TerminalInput` only which line is being typed; `Programs` reads its files the
way `FileCalls` promises, which `Files` implements. `Context` extends `Process`
and each of its steps that is an operation of the process table *is* that
action of `Process`, so the two cannot disagree; `Syserr` and `Listing` extend
`Files` in the same way.

In each module some definitions have a neighbour with a longer name
(`FirstFree`, `FirstFreeNotLast`): the same definition with a plausible mistake.
`PROJECT.json` ("mutants") pairs each with the property that notices it.

### Process

The table and everything that decides who owns the CPU. Variables have the
code's names; PCB fields are functions of the pid. `prog_page` is whose image
is at 128MB, `vid_page` what 160MB maps to, `esp0` whose kernel stack the TSS
holds, `frozen` that an exception handler spins.

| Action | Code |
|---|---|
| `Execute` | `execute` up to its `sti` (system_call.c 240-350), for a valid program and a free PCB; all failing paths return before the first assignment |
| `HaltShell`, `HaltChild` | the two branches of `halt`, with `close_pcb` and `restart_shell` |
| `PitStartShell`, `PitStartFails`, `PitNextShell` | `pit_handler` while `shell_tid <= 2`: execute a shell (or find no PCB), or go to the next terminal |
| `PitSwitch` | `reschedule` and `process_switch` |
| `TerminalSwitch`, `Vidmap`, `Exception` | Alt+F1..F3; `vidmap`; any exception handler (`cli`, print, spin) |

Parsing the command and loading the file are abstracted to whether `execute`
gets as far as the PCB. `init_pcb` leaves `terminal_number` unset: it starts
with any value.

`EarlyInput` says whether a command can be executed while the shells are being
started (six ticks, 60 ms). The code does not prevent it. Properties marked
(boot) rest on it being false; `Process_early` checks what holds regardless and
`Process_early_roots` shows what breaks. `Faults` says whether a program may
raise an exception, which ends all liveness.

### Sessions and ProcessSessions

`Sessions` is the promise to the user: each terminal has a stack of nested
programs, only the terminal whose turn it is can change its own, and every
terminal has its turn again and again. `ProcessSessions` gives the refinement
mapping: the session of `t` is the sequence of all its processes in which each
has the one before it in `parent_pid`, from the shell to `cur_pid[t]`. A process
that such a chain misses, or a chain that forks, would leave the mapping
without a session and the step that made it without a counterpart.

### Context

The stacks below `Process`. Each kernel stack is a sequence of frames
(`syscall`, `exec`, `pit`, `kbd`, ...), each with the process that was current
when it was pushed. `own` and `saved` are the pointers the code keeps in the
PCBs, together with the frames there when they were stored: the code never
checks them, the properties do. A pointer that is stored again before it is
read is replaced by `NoPointer`, which finds nothing. Steps are separated where
interrupts are on: user mode, system calls, between `sti` and the `iret` of
`execute`, after the last `sti` of `pit_handler`, between the `sti` and the
`send_eoi` of `keyboard_handler`.

### Rtc

The handler and the calls of each process. `rtc_read` is three steps (copy the
target, leave the loop, reset the counter), with interrupts between them. The
frequency is a divisor of `MAX_FREQ`; the counter has a width (`INT_MAX`) and
wraps. `elapsed` and `began` are observers.

### TerminalInput

The line buffer, the copy made at Enter, the buffers that `terminal_switch`
saves and restores, and `terminal_read` in nine steps, one per access to shared
memory. `line`, `clipped`, `sent`, `pending` are observers: what the user sees
and has sent. `MaxLine` bounds what is typed. Not followed: a saved position
past the buffer, which needs two lines entered before one is read.

### Console and Teletypes

Video memory and the cursor belong to the displayed terminal; the others have
their text in `vid_buf` and their cursor in `x_position`, `y_position`, and
`terminal_switch` exchanges the two. A screen is a record of its cells and its
cursor, so that `special_putc` and its copy for a buffer,
`terminal_special_putc`, are functions from screen to screen.

| Action | Code |
|---|---|
| `terminal_write`, `WriteNext` | `terminal_write`, one step for each character, between its `cli` and `sti` |
| `terminal_switch` | the exchange of text and cursors |
| `Key`, `Backspace`, `ClearScreen` | the keyboard handler's output, Ctrl+L |
| `LineRead` | a read that clears the line buffers |
| `printf`, `PutcBegin`, `PutcEnd` | the message of `open` (system_call.c:124), written with interrupts on: each `putc` in two steps |

`Teletypes` is the promise: a page of cells and one position per terminal,
whoever is shown. Programs write on their own page; keys and messages go to the
shown one. There is no row or column in it: a tab is `TAB` cells further, a
newline the next multiple of `COLS`, and a position past the page moves it up.

With `Corners = FALSE` four cases are left out, each named in the module, in
which the code does not do this:

- `EdgeTab`: a tab at column 76 leaves the cursor at column 80 (`<=` at
  lib.c:253), and the next letter is written at the beginning of the next line;
- `TabAboveTop`: taking back a tab with the cursor in columns 1 to 3 of the
  first line puts it on row -1;
- `BottomMessage`: `putc` does not scroll; a message's newline on the last line
  puts the cursor on the row below the screen;
- anything that comes inside a `putc`: it sees a cursor that is half moved, and
  a switch there saves one terminal's and moves the other's.

`Corners = TRUE` has them, and `ScreensSeparate` is proved for it too.

### FileSystem, Files and FileCalls

`FileSystem` holds what never changes: the image, lookup by name and by index,
and `read_data` with its loop over the blocks (`Collect`), the block lengths
and the 32-bit sum `length + offset` (`WORD`). A byte is a block and a place in
it, so that a wrong, missing or repeated byte shows. `Files` has the
descriptors: `Execute` and `Halt` (what they do to `fd_array`), `OpenTerminal`,
`OpenFails`, `OpenFile`, `CloseFails`, `CloseWorks`, `ReadFails`, `ReadDevice`,
`ReadFile`, `ReadDir` with `DirFetch` and `DirAdvance`, `Write`, `getargs`.
A call touches only what is its process's own, and is one step, but for
`dir_read`: `dir_readnum` is one variable for all processes, read twice and
incremented with interrupts on. `answer` is an observer.

`FileCalls` is the promise to programs: an open file is the program's own, and
successive reads return its bytes, or the directory's names, in order. A file
with a block that the image lacks may give -1 or 0, and nothing else.
`SharedListing = FALSE` leaves out two directories read in turns, which breaks
the promise (`files_listing`). `PlainImage` says for which images and programs
the promise is meant: a file, the directory and the clock have one name each, a
name fits its field and is not read beyond a full one, and no sum of a file's
length and a number of bytes passes 2^32. TLC evaluates it for the image of the
run `files`.

Descriptor 8 passes the checks of `read`, `write` and `close`
(system_call.c:51). `fd_array[8]` is then bytes of the arguments, whose flags
are 0 while the arguments have at most four characters; longer ones are not
followed.

`Syserr` is the repository's own test of the system calls, as the list of its
calls with what each must return, run by one process while the other process
makes any calls. `Listing` adds what each process has been told of the
directory.

### Programs

`parse_command`, `getargs`, and the loops of shell, cat, grep, ls and counter
with the library functions they use. One command runs at a time: what two
programs can do to each other is in `Process` and `Files`. grep's buffer is
followed byte by byte: the read at `last`, the search line by line, the
`strcpy` of a cut line to the front. The buffer is never initialised, and grep
reads past what it holds: `data[last]` ends a search. Each call of
`do_one_file` gets any bytes of `Leftover` there (`Uninitialised`), and
`OutputRight` shows that they do not matter, with one exception:
`data[BUFSIZE]`, read when the buffer is full, must not be a newline.
`OutputRight` compares what was printed with `Due`, which knows no buffers, no
positions and no loops over them: words of a line are found by where they begin
(`WordBegins`), a number by its numeral, and what grep is to print by going
through the places of each file where a line begins (`FoundAt`, `FoundIn`).

A file may hold anything, and grep reads all of them, the executables too. It
stops copying at a NUL and cuts a line that is longer than its buffer: a file
without either is `PlainText`. Of other files `output` leaves out what grep
shows, while reads, buffer and loop are followed, so that what it shows of the
files after them is right and it ends. Assumed of the directory is that a name
fits the buffers of ls and cat, that only the directory's begins with a dot and
that no name is there twice (`DirectoryAssumption`); of what is typed, that a
line has no NUL or newline inside (`InputAssumption`).

## 3. The runs

| Run | What it shows | Bounds |
|---|---|---|
| `process` | the call chains and their copies (`CallChains`, `ForegroundOwned`, `RootsAreShells`, `MachineConsistent`, `ForegroundRuns`, `BootOrder`), the page at 160MB (`VideoConfined`, `VideoFollowsSwitch`), what a step may not touch (`LinksStable`, `OthersUntouched`), the refinement `ImplementsSessions`, and that every shell starts and every terminal runs (`EventuallyBooted`, `EveryTerminalRuns`) | the code's sizes: 6 PCBs, 3 terminals; no other bound; no exceptions |
| `process_early` | with commands during the start of the shells, and exceptions, the types and `MachineConsistent` still hold, and the table may be full for a shell | the same sizes |
| `context` | no stored stack pointer is ever wrong when it is loaded (`OwnIntact`, `SavedIntact`), the right process continues (`RightContext`), the keyboard is served again (`EoiPending`, `KeyboardServed`) | 5 PCBs (two children), 3 terminals; interrupts nest to 3 frames, which holds a key in a tick in an `execute`; one tick per `exec` window |
| `rtc` | `FreshClock`, `ClockRuns`, `RateKept`, `ReadsReturn` | 2 processes, 1 descriptor each, device at 4, counter from -7 to 6, so that it wraps |
| `terminal_input` | `LineDelivered`, `BuffersMatchScreens`, `LineAnswered` | 2 terminals, 2 characters per line, lines of up to 3, so that they overflow; one letter (what matters is where characters are) |
| `console` | `CursorInside`, `EraseUndoes`, `ScreensSeparate`, `ImplementsTeletypes` | 2 terminals, a screen of 2 lines of 3, tabs of 2, 5 characters put in all: enough to wrap, to scroll and to take a wrapped tab back; `Corners = FALSE` |
| `files` | `DescriptorsSound`, `TestsPass` and `ImplementsFileCalls`, with syserr among the calls of another process | 2 PCBs used again and again, 4 descriptors, blocks of 3 bytes, reads of 2 and 4: within a block, across two, to the end and past it; a directory with itself, a clock, a file of two blocks out of order and a file that cannot be read |
| `programs` | `OutputRight`, `CommandsEnd` | buffers of 3 bytes, words of up to 3 and 2 letters, all files of up to 6 characters of `a`, `b`, newline whose lines fit a buffer, so that each line is cut at each place, and a program that is no text; bytes left in grep's buffer are newlines or letters; 15 command lines at and past the limits; counter to 11, for two digits |

One deeper point on the bounds. `MaxTicksPerWindow = 1` is an assumption about
time: `execute` turns interrupts on for a handful of instructions (system_call.c
351-355). A pending tick is taken there; when the process comes back it is just
after another tick, and the next is 10 ms away. With two ticks in one such
window `OwnIntact` fails: the frames stored for the new shell are on the stack
of its caller and get overwritten. A comment in scheduling.c (line 58) says "we
don't want any interrupt when switch process"; this window is one.
`CHECK_DEADLOCK FALSE` appears where an exception stops the system, and where
only one property is asked.

### What the code does not meet

Four runs each check a statement the repository makes and TLC refutes:

| Run | Statement | What happens |
|---|---|---|
| `process_early_roots` | "when initialize, we set all shells' parent to be itself" (system_call.c:300) | so is any command typed in the first six ticks; when it halts, a shell restarts on the terminal numbered like its pid |
| `process_background_video` | a background program draws on its buffer (scheduling.c:102) | `vidmap` maps the screen for any caller, until its next slice |
| `context_boot_key` | "send EOI for every situation" (buglog.txt:21) | a key before the first shell: the tick between `sti` and `send_eoi` never returns, and neither keyboard nor RTC is served again |
| `files_listing` | a directory is read "until all files are read" (filesystem.c:105) | two processes list at the same time: the names are divided between them, or repeated |

Statements kept in the modules, which the code does not meet either and which
no run checks (each takes one line in a `.cfg`):

| Definition | Statement | What happens |
|---|---|---|
| `WaitsForInterrupt` (`Rtc`) | "Wait for the next rtc interrupt" (rtc.c:109) | a read that comes late returns at once: the counter ran before the call (rtc.c:134) |
| `BackspaceKeepsPrompt` (`TerminalInput`) | backspace must not delete what the terminal wrote (buglog.txt:47) | `overflow_bits` is not per terminal: after overflowing one, backspace on another erases its prompt (keyboard_handler.c:178) |
| `NewlineAtEnd` (`TerminalInput`, `Patient = FALSE`) | the newline comes at the end of the buffer (terminal.c:129) | a line typed ahead after Enter begins with a newline; the program reads an empty line (keyboard_handler.c:151) |
| `CharacterShown` (`Console`, `Corners = TRUE`) | "output a character to the console" (lib.c:213) | after a tab at column 76, or a message on the last line, a typed letter is not where the cursor was |

Noticed while modelling, with no statement to check against: an exception stops
all terminals, although `execute` documents 256 for a program ended by one
(system_call.c:242); `rtc_close` stops the clock for all descriptors of a
process, although its comment says "do nothing" (rtc.c:92), so `ClockRuns` is
stated for one descriptor; `LineDelivered` needs a user who waits for the prompt
(`Patient`), as one copy serves three terminals; a read of more bytes than
2^32 less the position wraps the test at filesystem.c:254 and is taken for a
short one; the name of an entry that fills its 32 characters has no NUL, and
`dir_read` counts the type after it too when more than 32 bytes are asked for
(`DentryNameLength`); grep cuts a line in two when `data[BUFSIZE]`, never
initialised, holds a newline (`OutputRight` fails without the last condition of
`Uninitialised`), a line longer than its buffer always, and stops copying at a NUL; `HaltShell` with a pid of 3 or more writes
past `terminals[]` and is not followed.

## 4. Fairness

- `Process`: weak fairness of `pit_handler`. The timer is never masked and all
  handlers but exceptions turn interrupts on again. Nothing is assumed of
  programs or users.
- `Context`: ticks go on (weak); the few instructions left of a handler or of
  `execute` can be interrupted by any tick but not by every tick (strong).
  Nothing makes a program or a key act.
- `Rtc`: the device goes on; a process in `rtc_read` runs while its counter is
  high, because it has a slice among any hundred interrupts and the counter
  takes 2^31 of them to wrap (strong).
- `TerminalInput`: weak fairness of each step of a read, by `EveryTerminalRuns`.
- `Programs`: weak fairness of the running program, for the same reason.
- `Console` and `Files` state no fairness: their properties are safety.

## 5. The proofs

All proofs are for every value of the constants that the named assumptions
allow, and of the further assumption where one is named here; each module's
last lemmas are `Init => IInv` and `IInv /\ [Next]_vars => IInv'`, with one step
per action.

`ProcessProofs`, for any number of PCBs up to 255 and any number of terminals
not above it (`SizeAssumption`):

- `TypeCorrect` needs no more: a tick indexes the PCBs with `cur_pid` of the
  next terminal, so its invariant adds that every terminal already passed has a
  process.
- `ChainsCorrect`, `MachineCorrect`, `ForegroundCorrect`, `RootsCorrect`,
  `SliceCorrect`, `ConfinedCorrect`, `BootCorrect`, `LinksCorrect`,
  `OthersCorrect`, `VideoCorrect` assume `~EarlyInput`; without it they are
  false (see `process_early_roots`). They rest on one inductive invariant,
  `IInv`, the conjunction of all the state invariants of the run `process`.
  None is inductive alone: a halt keeps `ForegroundOwned` because the parent is
  in use on the same terminal (`CallChains`); an execute keeps that because the
  running process is the foreground process of the active terminal
  (`ForegroundRuns`); a tick keeps that because every terminal has a process
  (`BootOrder`).
- `SessionsCorrect` (`~EarlyInput` too): `Process` implements `Sessions`, but for
  its fairness. The chains have any length and no induction over their length is
  available, so the invariant is that each terminal with a process has exactly
  one (`OneSession`), and a step is followed both ways: `CallsGrow` and
  `CallsShrink` make the chain of the next state from this one's, and show that
  any chain of the next state comes from one of this. That an ending process is
  nobody's parent, and a new one nobody's yet, is `CallChains` of `IInv`.
- `SessionsImplemented` is `ImplementsSessions` from `EveryTerminalRuns`: since
  only the foreground process of the active terminal runs (`ForegroundRuns`),
  a terminal that runs again and again has its turn again and again.

`RtcProofs`, for any number of processes and descriptors, frequencies and
counter width (`RtcAssumption`): `RtcTypes`, `ReadRate`, `CleanPcb`. Their
invariant adds that the counter never runs ahead of the interrupts since the
last return, and that a free PCB is in no read. `ClocksRun` holds for one
descriptor per process, the assumption of the theorem, and needs that a
frequency's target is not 0.

`TerminalInputProofs`, for any number of terminals, size of the buffer and
length of line (`InputAssumption`): `TypeCorrect`, whatever the user does, which
needs a bound on what a read has collected at each of its steps (`GotFits`);
`LinesDelivered` and `BuffersMatch` for a user who waits (`Patient`). Their
invariant says what the copy of the line, its position and the characters
collected are at each of the nine steps of a read, and that a line being read
is the only one: one copy serves all terminals.

`ContextProofs`, for any number of PCBs and terminals, with `~EarlyInput` and at
most one tick in each window of a few instructions (`MaxTicksPerWindow <= 1`,
see section 3; with two the theorems are false): `ContextTypeCorrect`,
`OwnCorrectly`, `SavedCorrectly`, `RightContextCorrect`, for any depth of
nesting. The invariant `CInv` says of every stored pointer and of the stack in
use what the next load needs. A terminal that waits for its slice has in `own` a
beginning, unchanged since it was stored, of its process's stack or of its
parent's (`OwnCorrect`); a process's `saved` is its parent's system call and the
frame of `execute` above it, still the first two of the parent's stack
(`SavedCorrect`); the CPU is on its process's own stack, on the parent's inside
`execute`, or, while the shells are started, above the frames stored for the
shell before it (`CpuCorrect`, `Guest`); the one tick that the window of such a
guest has room for is the one that counts the shells (`WindowCorrect`); and
before the first shell there is only the stack of `launch_tests`
(`BootCorrectly`). None of these is inductive without the rest and without
`IInv` of `ProcessProofs`, which says that no stack serves two terminals: each
step of `Context` is a step of `Process` or none, and keeps it by lemma
`ProcessKeeps`. `EoiCorrect` assumes besides that no key is pressed before the
first shell (`~KeysAtBoot`, as `context_boot_key` shows it must), and adds that
a keyboard handler's frame is above every `execute` on its stack, so that no
halt or start cuts it off (`KeyCorrect`).

`ConsoleProofs`, for any screen of two lines or more that is wider than a tab
(`ConsoleAssumption`): `CursorsInside`, for `Corners = FALSE`. Its invariant
adds that the stale copy of the displayed terminal's cursor is inside too.
`SeparateScreens` holds with the corner cases too: it needs only that there is
one copy for each terminal.

There too: `OneTeletypeEach`, that `Console` with `Corners = FALSE`
implements `Teletypes`. Three layers: arithmetic of cells (`CellFacts` to
`NextColumn`); what each branch of `special_putc` does to a screen, in terms of
a page and a position (`PutMoves`, `CharacterMoves`), with the scroll in one
lemma; and the mapping of each action (`MappedStep`). The invariant `Teletype`
adds to the two above that pages are whole, that there is something
left to put while a write or a `putc` is in progress, and that no write is in
progress inside a `putc`, where the mapping looks ahead to the cursor the
`putc` will leave. `TypedIsErased` (also `Corners = FALSE`) follows a key and
the backspace after it through the same three layers: what was put in place,
what scrolled the page, a tab and a control key's mark are taken back one lemma
each.

`FilesProofs`, for any image, number of processes and of descriptors, and width
of the position (`FileSystemAssumption`, `FilesAssumption`):

- `DescriptorsCorrect`, also with listings at the same time and with sums that
  wrap. Its core is `ReadStaysInside`: a position and what `read_data` returns
  from there never pass the end of a file that can be read.
- `ReadGives`: what the loop over the blocks (`Collect`) gathers, for every
  file, position inside it and length. Induction theorems are out of the
  prover's reach; instead the first round that would break `RoundCopies` (each
  round adds the rest of its block, or of what was asked for) is shown not to
  exist, since a set of numbers has a least member.
- `CallsKeepPromise`: `Files` implements `FileCalls`, for a `PlainImage` and
  `SharedListing = FALSE`. The mapping (`Handles`) says what file a descriptor
  stands for and where in it the next read begins. The invariant `FInv` adds to
  the descriptors' that each in use was opened by a name of its kind, and that
  while one process is inside `dir_read`, its directory is the only one open,
  there is an entry left, and the one fetched is still the next. Opening and
  reading are each one lemma; a read of a file is `ReadGives`.

`SyserrProofs`: `TestsAlwaysPass`, for any number of processes and descriptors
and any image with `.` and without the names the tests ask for in vain
(`TesterAssumption`). Its invariant says at each line of the tests which
descriptors of the tester are open and how many opens have failed.

`ProgramsProofs`, for any directory, contents and typed lines within the
assumptions named in section 2, any limits and any size of the buffers:
`OutputCorrect`. It has three parts.

- The pure functions. `ItoaIsNumeral` and `ParseRight` compare the code's loops
  with `Numeral` and with the words of the line. What is joined from parts is
  handled by `JoinedNext`, `JoinedMore` and `JoinedSplit`; where an induction
  would be needed, the least number that fails is shown not to exist
  (`SmallestMember`).
- A round of grep. `InBuffer` says that the buffer holds the file from a place
  on, as far as it is filled, and that the place begins a line, or ends one that
  was shown already but for its newline. From it, `RoundShows`: the round prints
  what is due from there to the end of what it has dealt with (`Taken`), since
  each line it searches ends in the file where it ends in the buffer
  (`SearchedEnds`) and a place of the buffer where no line begins shows nothing
  (`ShownIs`). `KeptIsBuffered` and `DoneIsBuffered` give `InBuffer`'s condition
  back for the next round, with and without the `strcpy` to the front. That a
  line fits the buffer is needed where a full buffer has no newline: the next
  byte must then be one.
- The inductive invariant `IInv` says for each program how far its output has
  come: cat's is the file up to its position, ls's and counter's the lines up to
  `dir` and `i`, grep's everything due for the entries before the open one and,
  in that one, if it is text, up to `position - last`, where what is in the
  buffer begins; if it is not, only that nothing of it is counted. It adds that
  the program and its argument are the ones `typed` names, and that
  `data[BUFSIZE]` is no newline (`Framed`), which each round keeps whatever the
  file holds (`RoundFramed`). `OutputRight` alone is not inductive, as it does
  not say where in a file a program is.

Only model-checked is liveness, since fairness and ENABLED are beyond the prover:
`EveryTerminalRuns`, on which `SessionsImplemented` rests, `EventuallyBooted`,
`ReadsReturn`, `KeyboardServed`, `LineAnswered` and `CommandsEnd`. Every other
property of a passing run is a theorem.

## 6. Plan

| # | Module | Covers | State |
|---|---|---|---|
| 1 | `Process`, `Sessions` | process table, scheduler | checked, safety and refinement proved |
| 2 | `Context` | stacks and interrupts | checked, safety proved |
| 3 | `Rtc` | clocks | checked, safety proved |
| 4 | `TerminalInput` | keyboard to program | checked, safety proved |
| 5 | `Console`, `Teletypes` | program to screen | checked, all proved |
| 6 | `FileSystem`, `Files`, `FileCalls` | descriptors and files | checked, refinement proved |
| 7 | `Programs`, `Syserr` | commands | checked, safety proved |
| 8 | `Pic` | masks and EOI, master and slave | open, joined with `Context` |
| 9 | keyboard modifiers | `shift`, `caps`, `ctrl` and the key table | open |

## 7. Not modelled

- The masks of the interrupt controllers, and the programming of PIT, RTC and
  PIC: `init` code that runs once.
- The modifier keys and the key table: flags with no concurrency.
- `printf`'s conversions, `memcpy`, `memset` and their like: modules that use
  them take them as assignments. `itoa` of the programs' library is in
  `Programs`.
- Descriptor formats, page-table bits and gates: data with no later change.
- `paging_init`'s fixed mappings; the loading of a program's image.
- hello, pingpong, testprint and fish, which only draw; sigtest, which needs
  signals the kernel answers with -1; emulate, which is not for this kernel.
- The memory outside the arrays, where the code would leave them (an index past
  `terminals[]`, `fd_array[8]` with long arguments, the cursor on row -1); the
  properties say when it cannot.
