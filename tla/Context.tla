------------------------------ MODULE Context ------------------------------
(***************************************************************************)
(* The context switches under module Process: what is on each kernel stack *)
(* and the stack pointers that execute (saved_esp) and the scheduler       *)
(* (own_esp) keep in the PCBs.  The code trusts that a pointer still finds *)
(* the frames that were there when it was stored; OwnIntact and            *)
(* SavedIntact say that it does.                                           *)
(*                                                                         *)
(* Interrupts are on in user mode, in system calls, and in the short       *)
(* stretches between a sti() of a handler and its return.  These are the   *)
(* points between two steps here, and a tick or a key may come at each:    *)
(*   idle     launch_tests spins on the boot stack                         *)
(*   start    pit_handler before its first execute                         *)
(*   syscall  a system call, among them a terminal_read that waits         *)
(*   exec     execute between its sti and the cli before its iret          *)
(*   pit      pit_handler after its last sti                               *)
(*   kbd      keyboard_handler between its sti and its send_eoi            *)
(* Every frame also tells which process was current when it was pushed.    *)
(* Alt+F1..F3 (EOI first, nothing after), vidmap, exceptions and the RTC   *)
(* handler (interrupts off throughout) leave stacks and pointers alone.    *)
(***************************************************************************)
EXTENDS Process, Sequences, SequencesExt

CONSTANTS
  KeysAtBoot,          (* can a key be pressed before the first shell?     *)
  MaxTicksPerWindow,   (* ticks taken in one execute's exec window         *)
  MaxDepth             (* bound: no interrupt nests on this many frames    *)

ASSUME ContextAssumption ==
  KeysAtBoot \in BOOLEAN /\ MaxTicksPerWindow \in Nat /\ MaxDepth \in Nat

VARIABLES
  stacks,       (* the frames on the kernel stack of each process, the     *)
                (* oldest first; the boot stack is that of process 0       *)
  cpu,          (* the stack esp is on in kernel mode, or User             *)
  own,          (* own_esp and own_ebp of each PCB, with the frames there  *)
                (* when they were stored                                   *)
  saved,        (* saved_esp and saved_ebp, likewise                       *)
  window_ticks, (* ticks taken in the exec window of each process          *)
  in_service    (* the keyboard interrupt has had no EOI yet               *)

context == <<stacks, cpu, own, saved, window_ticks, in_service>>
allvars == <<vars, context>>

Frame(fn) == [fn |-> fn, pid |-> curr_pid]

(* A pointer that nothing reads before it is stored again is replaced by   *)
(* NoPointer, which finds no frame: a use of it would break the invariants.*)
NoPointer == [stk |-> 0, frames |-> <<>>]

User == -1

ContextInit ==
  /\ Init
  /\ stacks = [p \in Pids |-> IF p = 0 THEN <<Frame("idle")>> ELSE <<>>]
  /\ cpu = 0
  /\ own = [p \in Pids |-> NoPointer]
  /\ saved = [p \in Pids |-> NoPointer]
  /\ window_ticks = [p \in Pids |-> 0]
  /\ in_service = FALSE

Top == Last(stacks[cpu])

At(fn) == cpu # User /\ Top.fn = fn

Among(fn, frames) == \E f \in ToSet(frames) : f.fn = fn

OnStack(fn) == cpu # User /\ Among(fn, stacks[cpu])

(* An entry from user mode starts at the top of the stack tss.esp0 points  *)
(* to, over whatever is there; one from the kernel stays on its stack.     *)
EntryStack == IF cpu = User THEN esp0 ELSE cpu

EntryFrames(fn) ==
  Append(IF cpu = User THEN <<>> ELSE stacks[cpu], Frame(fn))

Enter(fn) ==
  /\ stacks' = [stacks EXCEPT ![EntryStack] = EntryFrames(fn)]
  /\ cpu' = EntryStack

LeaveToKernel == stacks' = [stacks EXCEPT ![cpu] = Front(@)] /\ UNCHANGED cpu

(* Return from the top frame; the oldest one was entered from user mode.   *)
Leave ==
  /\ stacks' = [stacks EXCEPT ![cpu] = Front(@)]
  /\ cpu' = IF Len(stacks[cpu]) = 1 THEN User ELSE cpu

PushExecParent(s, frames) ==
  LET with_exec == Append(frames, [fn |-> "exec", pid |-> curr_pid'])
  IN
  /\ stacks' = [stacks EXCEPT ![s] = with_exec]
  /\ cpu' = s
  /\ saved' = [saved EXCEPT ![curr_parent_pid'] = [stk |-> s, frames |-> with_exec]]
  /\ window_ticks' = [window_ticks EXCEPT ![curr_pid'] = 0]

(* execute on stack s above these frames: saved_esp is taken in its frame, *)
(* and halt will load it unless the program is its own parent.             *)
PushExec(s, frames) ==
  LET with_exec == Append(frames, [fn |-> "exec", pid |-> curr_pid'])
  IN
  /\ stacks' = [stacks EXCEPT ![s] = with_exec]
  /\ cpu' = s
  /\ saved' = [saved EXCEPT ![curr_pid'] =
                 IF parent_pid'[curr_pid'] = curr_pid' THEN NoPointer
                 ELSE [stk |-> s, frames |-> with_exec]]
  /\ window_ticks' = [window_ticks EXCEPT ![curr_pid'] = 0]

InterruptsNest == cpu # User => Len(stacks[cpu]) < MaxDepth

-----------------------------------------------------------------------------
(* User programs and system calls.                                         *)

Syscall ==
  /\ cpu = User
  /\ Enter("syscall")
  /\ UNCHANGED <<vars, own, saved, window_ticks, in_service>>

SyscallReturn ==
  /\ At("syscall")
  /\ Leave
  /\ UNCHANGED <<vars, own, saved, window_ticks, in_service>>

SyscallExecute ==
  /\ At("syscall")
  /\ Execute
  /\ PushExec(cpu, stacks[cpu])
  /\ UNCHANGED <<own, in_service>>

(* The cli and iret of execute: the frames stay until the program halts.   *)
EnterProgram ==
  /\ At("exec")
  /\ cpu' = User
  /\ window_ticks' = [window_ticks EXCEPT ![curr_pid] = 0]
  /\ UNCHANGED <<vars, stacks, own, saved, in_service>>

SyscallHaltShell ==
  /\ At("syscall")
  /\ HaltShell
  /\ PushExec(cpu, stacks[cpu])
  /\ UNCHANGED <<own, in_service>>

SyscallHaltOldStack ==
  /\ At("syscall")
  /\ HaltChild
  /\ saved' = [saved EXCEPT ![curr_pid] = NoPointer]
  /\ UNCHANGED <<stacks, cpu, own, window_ticks, in_service>>

(* halt goes on as the return of the execute that started the process.     *)
SyscallHaltChild ==
  LET resumed == saved[curr_pid]
  IN
  /\ At("syscall")
  /\ HaltChild
  /\ stacks' = [stacks EXCEPT ![curr_pid] = <<>>,
                              ![resumed.stk] = Front(resumed.frames)]
  /\ cpu' = resumed.stk
  /\ saved' = [saved EXCEPT ![curr_pid] = NoPointer]
  /\ UNCHANGED <<own, window_ticks, in_service>>

-----------------------------------------------------------------------------
(* Interrupts.                                                             *)

(* The programs whose execute has not left for user mode yet, below the    *)
(* frame the CPU is in.                                                    *)
Windows == IF cpu = User THEN {}
           ELSE {f.pid : f \in {g \in ToSet(stacks[cpu]) : g.fn = "exec"}}

(* A tick may be pending when execute turns interrupts on; how many more   *)
(* come in the same window is a matter of time.                            *)
TickAllowed ==
  InterruptsNest /\ \A p \in Windows : window_ticks[p] < MaxTicksPerWindow

CountTick ==
  window_ticks' = [p \in Pids |-> window_ticks[p] + (IF p \in Windows THEN 1 ELSE 0)]

(* The first tick turns interrupts on ...                                  *)
TickFirst ==
  /\ TickAllowed
  /\ Booting /\ shell_tid = 0 /\ cur_pid[0] = NoPid
  /\ Enter("start")
  /\ UNCHANGED <<vars, own, saved, window_ticks, in_service>>

(* ... and executes the first shell, never to return.                      *)
StartFirst ==
  /\ At("start")
  /\ PitStartShell
  /\ PushExec(cpu, stacks[cpu])
  /\ UNCHANGED <<own, in_service>>

StartNextUnsaved ==
  /\ TickAllowed
  /\ shell_tid > 0
  /\ PitStartShell
  /\ PushExec(EntryStack, EntryFrames("pit"))
  /\ UNCHANGED <<own, in_service>>

(* process_switch while the shells are started: the pointers of the shell  *)
(* before this one are stored in its PCB, then execute.                    *)
StartNext ==
  /\ TickAllowed
  /\ shell_tid > 0
  /\ PitStartShell
  /\ own' = [own EXCEPT ![shell_tid - 1] =
               [stk |-> EntryStack, frames |-> EntryFrames("pit")]]
  /\ PushExec(EntryStack, EntryFrames("pit"))
  /\ UNCHANGED in_service

TickNextShell ==
  /\ TickAllowed
  /\ PitNextShell
  /\ Enter("pit")
  /\ CountTick
  /\ UNCHANGED <<own, saved, in_service>>

(* process_switch: store the pointers of the current process and load      *)
(* those of the next one, whose frames then are what is on its stack.      *)
(* With one terminal the two are the same process.                         *)
TickSwitch ==
  /\ TickAllowed
  /\ PitSwitch
  /\ LET stored == [stk |-> EntryStack, frames |-> EntryFrames("pit")]
         resumed == IF curr_pid' = curr_pid THEN stored ELSE own[curr_pid']
     IN /\ own' = [own EXCEPT ![curr_pid] = stored, ![curr_pid'] = NoPointer]
        /\ stacks' = [stacks EXCEPT ![EntryStack] = EntryFrames("pit"),
                                    ![resumed.stk] = resumed.frames]
        /\ cpu' = resumed.stk
  /\ CountTick
  /\ UNCHANGED <<saved, in_service>>

PitReturn ==
  /\ At("pit")
  /\ Leave
  /\ UNCHANGED <<vars, own, saved, window_ticks, in_service>>

(* A key that is not Alt+F1..F3: the handler does its work with interrupts *)
(* off, then turns them on before it sends the EOI.                        *)
Key ==
  /\ ~in_service
  /\ InterruptsNest
  /\ ~Running => KeysAtBoot
  /\ Enter("kbd")
  /\ in_service' = TRUE
  /\ UNCHANGED <<vars, own, saved, window_ticks>>

KeyReturnNoEoi ==
  /\ At("kbd")
  /\ Leave
  /\ UNCHANGED <<vars, own, saved, window_ticks, in_service>>

KeyReturn ==
  /\ At("kbd")
  /\ Leave
  /\ in_service' = FALSE
  /\ UNCHANGED <<vars, own, saved, window_ticks>>

Tick == TickFirst \/ StartNext \/ TickNextShell \/ TickSwitch

ContextNext ==
  \/ Syscall \/ SyscallReturn \/ SyscallExecute \/ EnterProgram
  \/ SyscallHaltShell \/ SyscallHaltChild
  \/ TickFirst \/ StartFirst \/ StartNext \/ TickNextShell \/ TickSwitch
  \/ PitReturn \/ Key \/ KeyReturn

(* The timer goes on.  The last instructions of a handler may be           *)
(* interrupted by any tick but not by every tick: between two ticks the    *)
(* CPU has ten milliseconds for them.  It is needed for each tick that     *)
(* interrupted a keyboard handler, at every depth.                         *)
ContextSpec ==
  /\ ContextInit /\ [][ContextNext]_allvars
  /\ WF_allvars(Tick) /\ WF_allvars(StartFirst)
  /\ \A depth \in 1 .. MaxDepth :
       SF_allvars(PitReturn /\ OnStack("kbd") /\ Len(stacks[cpu]) = depth)
  /\ SF_allvars(PitReturn) /\ SF_allvars(KeyReturn) /\ SF_allvars(EnterProgram)

-----------------------------------------------------------------------------
(* Properties.                                                             *)

Frames == [fn : {"idle", "start", "syscall", "exec", "pit", "kbd"}, pid : Pids]

(* The bookkeeping has the intended shape, and in kernel mode there is a   *)
(* frame to be in.                                                         *)
ContextTypeOK ==
  /\ TypeOK
  /\ \A p \in Pids :
       /\ stacks[p] \in Seq(Frames) /\ Len(stacks[p]) <= MaxDepth + 2
       /\ own[p].stk \in Pids /\ own[p].frames \in Seq(Frames)
       /\ saved[p].stk \in Pids /\ saved[p].frames \in Seq(Frames)
       /\ window_ticks[p] \in 0 .. MaxTicksPerWindow
  /\ cpu \in Pids \cup {User}
  /\ cpu # User => stacks[cpu] # <<>>
  /\ in_service \in BOOLEAN

Intact(pointer) ==
  pointer.frames # <<>> /\ IsPrefix(pointer.frames, stacks[pointer.stk])

(* The stack pointer the scheduler will load for a terminal whose slice it *)
(* is not still finds the frames of that terminal's process.               *)
OwnIntact ==
  \A t \in Terms : (cur_pid[t] # NoPid /\ cur_pid[t] # curr_pid) =>
    /\ Intact(own[cur_pid[t]])
    /\ Last(own[cur_pid[t]].frames).pid = cur_pid[t]

(* The stack pointer halt will load still finds, on the parent's stack,    *)
(* the call of execute that started the process.                           *)
SavedIntact ==
  \A p \in Live \ Terms : /\ Intact(saved[p])
                          /\ saved[p].stk = parent_pid[p]

(* The frame the CPU is in belongs to the process that curr_pid says runs. *)
RightContext == (cpu # User /\ Running) => Top.pid = curr_pid

(* A keyboard interrupt without its EOI has a handler that will be         *)
(* resumed: on the current stack, or on one a stored pointer leads to.     *)
EoiPending ==
  in_service =>
    \/ OnStack("kbd")
    \/ \E t \in Terms : /\ cur_pid[t] \notin {NoPid, curr_pid}
                        /\ Among("kbd", own[cur_pid[t]].frames)

(* The keyboard, and the RTC behind it, are served again and again.        *)
KeyboardServed == []<>(~in_service)
=============================================================================
