------------------------------ MODULE Process ------------------------------
(***************************************************************************)
(* The process table of the kernel and everything that decides which       *)
(* process owns the processor: execute, halt and restart_shell             *)
(* (system_call.c), the PCB helpers (pcb.c), the PIT handler with the      *)
(* start of the shells and the round-robin switch (scheduling.c), the      *)
(* switch of the displayed terminal (terminal.c) and the page mappings     *)
(* these routines install (paging.c).                                      *)
(*                                                                         *)
(* There is one CPU.  Each of these routines runs from its cli() to its    *)
(* sti() with interrupts off, so each is one step here; the instructions   *)
(* after the sti() are the subject of module Context.                      *)
(*                                                                         *)
(* Some definitions are preceded by a variant of the same name with a      *)
(* suffix and no comment: the definition with a mistake in it, used to see *)
(* that the properties notice.                                             *)
(***************************************************************************)
EXTENDS Integers

CONSTANTS
  Process,             (* number of PCBs, hence of processes               *)
  terminal_total_num,  (* number of terminals, each with a shell           *)
  EarlyInput,          (* can a typed command reach a shell before every   *)
                       (* shell is started?                                *)
  Faults               (* can a user program raise a processor exception?  *)

(* terminal_number is a uint8_t and 255 marks a free PCB.                  *)
ASSUME SizeAssumption ==
  /\ Process \in 1..255
  /\ terminal_total_num \in 1..Process

ASSUME SwitchAssumption == EarlyInput \in BOOLEAN /\ Faults \in BOOLEAN

Pids  == 0 .. Process - 1
Terms == 0 .. terminal_total_num - 1

NoPid  == -1     (* terminals[t].cur_pid before the shell of t is started  *)
NoTerm == 255    (* pcb_t.terminal_number after close_pcb: (uint8_t)(-1)   *)
VIDEO  == -1     (* the physical page of the screen                        *)
NoPage == -2     (* the page at 160MB before it is mapped, or garbage      *)

VARIABLES
  process_array,    (* 1 for a PCB in use, 0 for a free one                *)
  parent_pid,       (* pcb_array[p]->parent_pid                            *)
  terminal_number,  (* pcb_array[p]->terminal_number                       *)
  cur_pid,          (* terminals[t].cur_pid, the process that reads there  *)
  curr_pid,         (* the process that owns the CPU                       *)
  curr_parent_pid,  (* its parent, a second copy of parent_pid             *)
  active_tid,       (* the terminal whose time slice it is                 *)
  shell_tid,        (* the next terminal to get a shell                    *)
  cur_display_tid,  (* the terminal on the screen                          *)
  prog_page,        (* whose 4MB page is mapped at 128MB                   *)
  vid_page,         (* what 160MB maps to: VIDEO or the buffer of a        *)
                    (* terminal                                            *)
  esp0,             (* whose kernel stack tss.esp0 points into             *)
  frozen            (* an exception handler spins with interrupts off      *)

table  == <<process_array, parent_pid, terminal_number>>
vars   == <<table, cur_pid, curr_pid, curr_parent_pid, active_tid, shell_tid,
            cur_display_tid, prog_page, vid_page, esp0, frozen>>

Booting == shell_tid < terminal_total_num
Live    == {p \in Pids : process_array[p] = 1}

(* A user process owns the CPU; before the first shell it is the idle loop *)
(* of launch_tests.                                                        *)
Running == Live # {}

(* A program can act on its own: until a line is typed each shell only     *)
(* waits in its first terminal_read.                                       *)
UserRuns == ~frozen /\ Running /\ (Booting => EarlyInput)

(* init_pcb leaves terminal_number as the memory happens to be.            *)
Init ==
  /\ process_array = [p \in Pids |-> 0]
  /\ parent_pid = [p \in Pids |-> 0]
  /\ \E garbage \in Terms \cup {NoTerm} :
        terminal_number = [p \in Pids |-> garbage]
  /\ cur_pid = [t \in Terms |-> NoPid]
  /\ curr_pid = 0 /\ curr_parent_pid = 0
  /\ active_tid = 0 /\ shell_tid = 0 /\ cur_display_tid = 0
  /\ prog_page = NoPid /\ vid_page = NoPage /\ esp0 = 0
  /\ frozen = FALSE

-----------------------------------------------------------------------------
(* The helpers of the system calls.                                        *)

FirstFreeAny(p) == process_array[p] = 0
FirstFreeUnchecked(p) == \A q \in Pids : q < p => process_array[q] = 1

(* create_process returns the lowest free index.                           *)
FirstFree(p) ==
  /\ process_array[p] = 0
  /\ \A q \in Pids : q < p => process_array[q] = 1

TableFull == \A p \in Pids : process_array[p] = 1

BoundParentShell(pid, parent) == IF pid = parent THEN pid ELSE active_tid
BoundParentNone(pid, parent) == IF pid = 0 THEN NoPid ELSE parent
BoundParentOld(pid, parent) == IF pid = 0 THEN 0 ELSE curr_parent_pid

(* bind_new_pcb: pid 0 is its own parent whatever the caller says.         *)
BoundParent(pid, parent) == IF pid = 0 THEN 0 ELSE parent

(* terminals[tid].vid_buf; an index past the array yields garbage.         *)
Buffer(tid) == IF tid \in Terms THEN tid ELSE NoPage

VideoPageShown(tid) ==
  IF tid = cur_display_tid THEN VIDEO ELSE Buffer(cur_display_tid)

(* The page a process of terminal tid draws on.                            *)
VideoPage(tid) == IF tid = cur_display_tid THEN VIDEO ELSE Buffer(tid)

SetForegroundShown(tid, p) ==
  cur_pid' = [t \in Terms |-> IF t = cur_display_tid THEN p ELSE cur_pid[t]]

(* terminals[tid].cur_pid = p                                              *)
SetForeground(tid, p) ==
  cur_pid' = [t \in Terms |-> IF t = tid THEN p ELSE cur_pid[t]]

MapProcessPageOnly(p) == prog_page' = p /\ UNCHANGED esp0

(* map_process and the TSS: the image and the kernel stack of p.           *)
MapProcess(p) == prog_page' = p /\ esp0' = p

-----------------------------------------------------------------------------
(* execute and halt.                                                       *)

(* execute once the file is known to be a program and a PCB was found.     *)
(* While the shells are started the new process goes to terminal shell_tid *)
(* and is its own parent, whoever called execute.                          *)
Launch(new) ==
  LET tid    == IF Booting THEN shell_tid ELSE terminal_number[curr_pid]
      parent == IF Booting THEN new ELSE curr_pid
  IN
  /\ FirstFree(new)
  /\ process_array' = [process_array EXCEPT ![new] = 1]
  /\ curr_pid' = new
  /\ curr_parent_pid' = parent
  /\ SetForeground(tid, new)
  /\ terminal_number' = [terminal_number EXCEPT ![new] = tid]
  /\ parent_pid' = [parent_pid EXCEPT ![new] = BoundParent(new, parent)]
  /\ MapProcess(new)
  /\ vid_page' = VideoPage(tid)

(* The running process executes a program.  Every failure of execute       *)
(* returns before the first assignment, so it is not a step.               *)
Execute ==
  /\ UserRuns
  /\ \E new \in Pids : Launch(new)
  /\ UNCHANGED <<active_tid, shell_tid, cur_display_tid, frozen>>

(* halt in a process that is its own parent: close_pcb, then restart_shell *)
(* takes the PCB again and makes it the shell of the terminal whose number *)
(* is its pid.  A pid past terminals[] writes to memory the model does not *)
(* have, and is not followed: RootsAreShells says when that cannot happen. *)
HaltShell ==
  /\ UserRuns
  /\ curr_pid = curr_parent_pid
  /\ curr_pid \in Terms
  /\ process_array' = [process_array EXCEPT ![curr_pid] = 1]
  /\ parent_pid' = [parent_pid EXCEPT ![curr_pid] = BoundParent(curr_pid, curr_pid)]
  /\ terminal_number' = [terminal_number EXCEPT ![curr_pid] = curr_pid]
  /\ SetForeground(curr_pid, curr_pid)
  /\ MapProcess(curr_pid)
  /\ vid_page' = VideoPage(curr_pid)
  /\ UNCHANGED <<curr_pid, curr_parent_pid, active_tid, shell_tid,
                 cur_display_tid, frozen>>

(* halt in a process that was executed by another one: the parent resumes. *)
HaltChild ==
  LET parent == curr_parent_pid
  IN
  /\ UserRuns
  /\ curr_pid # parent
  /\ process_array' = [process_array EXCEPT ![curr_pid] = 0]
  /\ parent_pid' = [parent_pid EXCEPT ![curr_pid] = 0]
  /\ terminal_number' = [terminal_number EXCEPT ![curr_pid] = NoTerm]
  /\ curr_pid' = parent
  /\ curr_parent_pid' = parent_pid'[parent]
  /\ SetForeground(terminal_number'[parent], parent)
  /\ MapProcess(parent)
  /\ UNCHANGED <<active_tid, shell_tid, cur_display_tid, vid_page, frozen>>

-----------------------------------------------------------------------------
(* The PIT handler.                                                        *)

(* No process on terminal shell_tid yet: execute("shell").                 *)
PitStartShell ==
  /\ ~frozen /\ Booting
  /\ cur_pid[shell_tid] = NoPid
  /\ active_tid' = shell_tid
  /\ \E new \in Pids : Launch(new)
  /\ UNCHANGED <<shell_tid, cur_display_tid, frozen>>

(* The same, but create_process finds no free PCB.                         *)
PitStartFails ==
  /\ ~frozen /\ Booting
  /\ cur_pid[shell_tid] = NoPid
  /\ TableFull
  /\ active_tid' = shell_tid
  /\ UNCHANGED <<table, cur_pid, curr_pid, curr_parent_pid, shell_tid,
                 cur_display_tid, prog_page, vid_page, esp0, frozen>>

PitNextShellStuck ==
  /\ ~frozen /\ Booting
  /\ cur_pid[shell_tid] # NoPid
  /\ active_tid' = shell_tid
  /\ UNCHANGED <<table, cur_pid, curr_pid, curr_parent_pid, shell_tid,
                 cur_display_tid, prog_page, vid_page, esp0, frozen>>

(* Terminal shell_tid has its process: on to the next terminal.            *)
PitNextShell ==
  /\ ~frozen /\ Booting
  /\ cur_pid[shell_tid] # NoPid
  /\ active_tid' = shell_tid
  /\ shell_tid' = shell_tid + 1
  /\ UNCHANGED <<table, cur_pid, curr_pid, curr_parent_pid, cur_display_tid,
                 prog_page, vid_page, esp0, frozen>>

rescheduleShort == (active_tid + 1) % (terminal_total_num - 1)

(* The terminal of the next slice.                                         *)
reschedule == (active_tid + 1) % terminal_total_num

(* process_switch: its foreground process gets the CPU.                    *)
PitSwitch ==
  LET next_sched_tid == reschedule
      next_pid       == cur_pid[next_sched_tid]
  IN
  /\ ~frozen /\ ~Booting
  /\ active_tid' = next_sched_tid
  /\ curr_pid' = next_pid
  /\ curr_parent_pid' = parent_pid[next_pid]
  /\ MapProcess(next_pid)
  /\ vid_page' = VideoPage(next_sched_tid)
  /\ UNCHANGED <<table, cur_pid, shell_tid, cur_display_tid, frozen>>

pit_handler == PitStartShell \/ PitStartFails \/ PitNextShell \/ PitSwitch

-----------------------------------------------------------------------------
(* Alt+F1..F3, vidmap, exceptions.                                         *)

TerminalSwitchNoRemap(to) ==
  /\ ~frozen
  /\ to # cur_display_tid
  /\ cur_display_tid' = to
  /\ UNCHANGED <<table, cur_pid, curr_pid, curr_parent_pid, active_tid,
                 shell_tid, prog_page, vid_page, esp0, frozen>>

(* terminal_switch to a terminal that is not on the screen.                *)
TerminalSwitch(to) ==
  /\ ~frozen
  /\ to # cur_display_tid
  /\ cur_display_tid' = to
  /\ vid_page' = IF curr_pid = cur_pid[to] THEN VIDEO
                 ELSE Buffer(terminal_number[curr_pid])
  /\ UNCHANGED <<table, cur_pid, curr_pid, curr_parent_pid, active_tid,
                 shell_tid, prog_page, esp0, frozen>>

(* vidmap with a valid pointer maps the screen, whichever terminal the     *)
(* caller is on.                                                           *)
Vidmap ==
  /\ UserRuns
  /\ vid_page' = VIDEO
  /\ UNCHANGED <<table, cur_pid, curr_pid, curr_parent_pid, active_tid,
                 shell_tid, cur_display_tid, prog_page, esp0, frozen>>

(* Every exception handler is cli(); printf; while(1);                     *)
Exception ==
  /\ Faults
  /\ UserRuns
  /\ frozen' = TRUE
  /\ UNCHANGED <<table, cur_pid, curr_pid, curr_parent_pid, active_tid,
                 shell_tid, cur_display_tid, prog_page, vid_page, esp0>>

Next ==
  \/ Execute
  \/ HaltShell
  \/ HaltChild
  \/ pit_handler
  \/ \E t \in Terms : TerminalSwitch(t)
  \/ Vidmap
  \/ Exception

(* The timer is never masked and, but for the exceptions, every handler    *)
(* turns interrupts on again, so a tick is always taken in the end.        *)
(* Nothing is assumed of programs or of the user.                          *)
Spec == Init /\ [][Next]_vars /\ WF_vars(pit_handler)

-----------------------------------------------------------------------------
(* Properties.  Those marked (boot) rest on ~EarlyInput.                   *)

(* Every variable holds a value of its C type that the code can produce;   *)
(* in particular curr_pid, which indexes pcb_array, is never the -1 of a   *)
(* terminal without a process.                                             *)
TypeOK ==
  /\ process_array \in [Pids -> {0, 1}]
  /\ parent_pid \in [Pids -> Pids]
  /\ terminal_number \in [Pids -> Terms \cup Pids \cup {NoTerm}]
  /\ cur_pid \in [Terms -> Pids \cup {NoPid}]
  /\ curr_pid \in Pids
  /\ curr_parent_pid \in Pids
  /\ active_tid \in Terms
  /\ shell_tid \in 0 .. terminal_total_num
  /\ cur_display_tid \in Terms
  /\ prog_page \in Pids \cup {NoPid}
  /\ vid_page \in Terms \cup {VIDEO, NoPage}
  /\ esp0 \in Pids
  /\ frozen \in BOOLEAN

(* (boot) The process a terminal would resume is in use and belongs to     *)
(* that terminal: no stale cur_pid survives a halt, a restart or the reuse *)
(* of a PCB by another terminal.                                           *)
ForegroundOwned ==
  \A t \in Terms : cur_pid[t] # NoPid =>
    cur_pid[t] \in Live /\ terminal_number[cur_pid[t]] = t

(* (boot) The processes of a terminal form call chains that end in its     *)
(* foreground process: a parent is in use and on the same terminal, waits  *)
(* for one child only, and is never itself in the foreground.              *)
CallChains ==
  \A p \in Live :
    /\ parent_pid[p] \in Live
    /\ terminal_number[p] \in Terms
    /\ terminal_number[parent_pid[p]] = terminal_number[p]
    /\ parent_pid[p] # p =>
         /\ cur_pid[terminal_number[p]] # parent_pid[p]
         /\ \A q \in Live \ {p, parent_pid[p]} : parent_pid[q] # parent_pid[p]

(* (boot) restart_shell takes a pid for the number of a terminal, so only  *)
(* the shell of terminal t may be its own parent, and its pid must be t.   *)
RootsAreShells ==
  \A p \in Live :
    /\ parent_pid[p] = p <=> p \in Terms
    /\ p \in Terms => terminal_number[p] = p

(* What execute, halt and the scheduler each write agrees: the running     *)
(* process has its PCB in use, its parent in curr_parent_pid, its image    *)
(* mapped at 128MB and its kernel stack in the TSS.                        *)
MachineConsistent ==
  Running =>
    /\ curr_pid \in Live
    /\ curr_parent_pid = parent_pid[curr_pid]
    /\ prog_page = curr_pid
    /\ esp0 = curr_pid

(* (boot) The CPU runs the foreground process of the active terminal.      *)
ForegroundRuns == Running => curr_pid = cur_pid[active_tid]

(* (boot) A process draws on the screen or on the buffer of its own        *)
(* terminal, never on the buffer of another one.                           *)
VideoConfined == Running => vid_page \in {VIDEO, active_tid}

(* (boot) The shells take the first pids in order, and a terminal has its  *)
(* process before shell_tid moves past it.                                 *)
BootOrder ==
  /\ \A t \in Terms : t < shell_tid => cur_pid[t] # NoPid
  /\ Booting =>
       /\ \A t \in Terms : t > shell_tid => cur_pid[t] = NoPid
       /\ \A p \in Pids : process_array[p] = 1 <=>
            p < shell_tid \/ (p = shell_tid /\ cur_pid[shell_tid] # NoPid)
       /\ cur_pid[shell_tid] # NoPid => active_tid = shell_tid
  /\ Running => cur_pid[active_tid] # NoPid
  /\ ~Booting => Terms \subseteq Live

(* The screen for the displayed terminal, else the terminal's own buffer.  *)
RightPage == IF active_tid = cur_display_tid THEN VIDEO ELSE active_tid

(* (boot) A switch, of the CPU by the scheduler or of the screen by the    *)
(* user, leaves the running process drawing where it should: on the screen *)
(* if and only if its terminal is displayed.                               *)
VideoFollows ==
  active_tid' # active_tid \/ (Running /\ cur_display_tid' # cur_display_tid)
    => vid_page' = RightPage'

VideoFollowsSwitch == [][VideoFollows]_vars

(* (boot) As long as a process is in use nobody changes its parent or its  *)
(* terminal, whatever the other terminals execute and halt.                *)
LinksKept ==
  \A p \in Live \cap Live' : /\ parent_pid'[p] = parent_pid[p]
                            /\ terminal_number'[p] = terminal_number[p]

LinksStable == [][LinksKept]_vars

(* (boot) Only the terminal whose slice it is can change its foreground    *)
(* process.                                                                *)
OthersKept == \A t \in Terms : cur_pid'[t] # cur_pid[t] => t = active_tid'

OthersUntouched == [][OthersKept]_vars

(* All the shells get started.                                             *)
EventuallyBooted == <>(~Booting)

(* Every terminal gets the CPU again and again, whatever is executed,      *)
(* halted or displayed in between.                                         *)
EveryTerminalRuns ==
  \A t \in Terms : []<>(Running /\ curr_pid = cur_pid[t])

-----------------------------------------------------------------------------
(* Statements of the sources that the code does not meet.                  *)

(* "otherwise user will draw on the buffer" (process_switch): the program  *)
(* of a background terminal never has the screen mapped.  vidmap maps it.  *)
BackgroundDrawsOnBuffer == Running => vid_page = RightPage
=============================================================================
