-------------------------------- MODULE Rtc --------------------------------
(***************************************************************************)
(* The virtual real-time clocks (rtc.c).  The device interrupts at         *)
(* MAX_FREQ; each process has in its PCB the number of interrupts to wait  *)
(* for (rtcfreq, 0 for closed) and the number that came (rtc_counter).     *)
(*                                                                         *)
(* System calls run with interrupts on, so the handler can come between    *)
(* any two of their accesses: rtc_read is three steps.  The other calls    *)
(* touch the fields once, and execute and halt turn interrupts off.  A     *)
(* process that is not scheduled just takes no step.                       *)
(*                                                                         *)
(* A definition without a comment, before one whose name it extends, is    *)
(* that definition with a mistake in it.                                   *)
(***************************************************************************)
EXTENDS Integers

CONSTANTS
  Process,       (* number of PCBs                                         *)
  MAX_FREQ,      (* frequency of the device, a power of two                *)
  DEFAULT_FREQ,  (* frequency after open                                   *)
  Fds,           (* descriptors a process can have open on the rtc         *)
  INT_MAX        (* the largest int32_t                                    *)

ASSUME RtcAssumption ==
  /\ Process \in Nat \ {0}
  /\ MAX_FREQ \in Nat \ {0}
  /\ DEFAULT_FREQ \in 1 .. MAX_FREQ
  /\ Fds \in Nat \ {0}
  /\ INT_MAX \in Nat /\ INT_MAX > MAX_FREQ

Pids == 0 .. Process - 1

VARIABLES
  process_array,  (* 1 for a PCB in use                                    *)
  rtcfreq,        (* interrupts per read, 0 when the rtc is closed         *)
  rtc_counter,    (* interrupts counted since it was last reset            *)
  open,           (* number of the process's descriptors on the rtc        *)
  pc,             (* "user", or where the process is in rtc_read           *)
  target,         (* target_counter_val, the local variable of rtc_read    *)
  elapsed,        (* interrupts since the last return of a read, at most   *)
                  (* MAX_FREQ of them: not a variable of the code          *)
  began           (* has an interrupt come since the read began: not a     *)
                  (* variable of the code                                  *)

vars == <<process_array, rtcfreq, rtc_counter, open, pc, target, elapsed, began>>

Live == {p \in Pids : process_array[p] = 1}

Init ==
  /\ process_array = [p \in Pids |-> 0]
  /\ rtcfreq = [p \in Pids |-> 0]
  /\ rtc_counter = [p \in Pids |-> 0]
  /\ open = [p \in Pids |-> 0]
  /\ pc = [p \in Pids |-> "user"]
  /\ target = [p \in Pids |-> 0]
  /\ elapsed = [p \in Pids |-> 0]
  /\ began = [p \in Pids |-> FALSE]

ValidFreqUnbounded(freq) == \E k \in 1 .. freq : freq = 2 ^ k

(* freq_to_rate knows the powers of two from 2 to MAX_FREQ.                *)
ValidFreq(freq) == freq <= MAX_FREQ /\ \E k \in 1 .. freq : freq = 2 ^ k

(* An int32_t increment.                                                   *)
Increment(c) == IF c = INT_MAX THEN -INT_MAX - 1 ELSE c + 1

CountingInverted(p) == process_array[p] = 1 /\ rtcfreq[p] = 0

(* The handler counts for every process that has the rtc open.             *)
Counting(p) == process_array[p] = 1 /\ rtcfreq[p] # 0

-----------------------------------------------------------------------------
(* IRQ 8.                                                                  *)
rtc_handler ==
  /\ rtc_counter' = [p \in Pids |-> IF Counting(p) THEN Increment(rtc_counter[p])
                                    ELSE rtc_counter[p]]
  /\ elapsed' = [p \in Pids |-> IF elapsed[p] < MAX_FREQ THEN elapsed[p] + 1
                                ELSE elapsed[p]]
  /\ began' = [p \in Pids |-> pc[p] # "user"]
  /\ UNCHANGED <<process_array, rtcfreq, open, pc, target>>

-----------------------------------------------------------------------------
(* The system calls of process p.                                          *)

rtc_open(p) ==
  /\ p \in Live /\ pc[p] = "user"
  /\ open[p] < Fds
  /\ open' = [open EXCEPT ![p] = @ + 1]
  /\ rtcfreq' = [rtcfreq EXCEPT ![p] = MAX_FREQ \div DEFAULT_FREQ]
  /\ UNCHANGED <<process_array, rtc_counter, pc, target, elapsed, began>>

rtc_closeUnchecked(p) ==
  /\ p \in Live /\ pc[p] = "user"
  /\ open' = [open EXCEPT ![p] = @ - 1]
  /\ rtcfreq' = [rtcfreq EXCEPT ![p] = 0]
  /\ rtc_counter' = [rtc_counter EXCEPT ![p] = 0]
  /\ UNCHANGED <<process_array, pc, target, elapsed, began>>

(* Whichever descriptor it is, the process's clock stops.                  *)
rtc_close(p) ==
  /\ p \in Live /\ pc[p] = "user"
  /\ open[p] > 0
  /\ open' = [open EXCEPT ![p] = @ - 1]
  /\ rtcfreq' = [rtcfreq EXCEPT ![p] = 0]
  /\ rtc_counter' = [rtc_counter EXCEPT ![p] = 0]
  /\ UNCHANGED <<process_array, pc, target, elapsed, began>>

(* With a buffer of four bytes; any other call only returns -1.            *)
rtc_write(p) ==
  /\ p \in Live /\ pc[p] = "user"
  /\ open[p] > 0
  /\ \E freq \in 0 .. 2 * MAX_FREQ :
       /\ ValidFreq(freq)
       /\ rtcfreq' = [rtcfreq EXCEPT ![p] = MAX_FREQ \div freq]
  /\ UNCHANGED <<process_array, rtc_counter, open, pc, target, elapsed, began>>

(* rtc_read copies rtcfreq ...                                             *)
ReadStart(p) ==
  /\ p \in Live /\ pc[p] = "user"
  /\ open[p] > 0
  /\ target' = [target EXCEPT ![p] = rtcfreq[p]]
  /\ pc' = [pc EXCEPT ![p] = "wait"]
  /\ began' = [began EXCEPT ![p] = FALSE]
  /\ UNCHANGED <<process_array, rtcfreq, rtc_counter, open, elapsed>>

(* ... spins until the counter has reached it ...                          *)
ReadWaitOver(p) ==
  /\ pc[p] = "wait"
  /\ target[p] <= rtc_counter[p]
  /\ pc' = [pc EXCEPT ![p] = "reset"]
  /\ UNCHANGED <<process_array, rtcfreq, rtc_counter, open, target, elapsed, began>>

ReadReturnNoReset(p) ==
  /\ pc[p] = "reset"
  /\ pc' = [pc EXCEPT ![p] = "user"]
  /\ elapsed' = [elapsed EXCEPT ![p] = 0]
  /\ UNCHANGED <<process_array, rtcfreq, rtc_counter, open, target, began>>

(* ... and resets the counter; what came in between is not counted.        *)
ReadReturn(p) ==
  /\ pc[p] = "reset"
  /\ rtc_counter' = [rtc_counter EXCEPT ![p] = 0]
  /\ pc' = [pc EXCEPT ![p] = "user"]
  /\ elapsed' = [elapsed EXCEPT ![p] = 0]
  /\ UNCHANGED <<process_array, rtcfreq, open, target, began>>

-----------------------------------------------------------------------------
(* execute does not touch the rtc fields of the PCB it takes, close_pcb    *)
(* (called by halt) resets them and closes the descriptors.                *)

Execute(p) ==
  /\ p \notin Live
  /\ process_array' = [process_array EXCEPT ![p] = 1]
  /\ elapsed' = [elapsed EXCEPT ![p] = 0]
  /\ UNCHANGED <<rtcfreq, rtc_counter, open, pc, target, began>>

HaltKeeps(p) ==
  /\ p \in Live /\ pc[p] = "user"
  /\ process_array' = [process_array EXCEPT ![p] = 0]
  /\ open' = [open EXCEPT ![p] = 0]
  /\ UNCHANGED <<rtcfreq, rtc_counter, pc, target, elapsed, began>>

Halt(p) ==
  /\ p \in Live /\ pc[p] = "user"
  /\ process_array' = [process_array EXCEPT ![p] = 0]
  /\ rtcfreq' = [rtcfreq EXCEPT ![p] = 0]
  /\ rtc_counter' = [rtc_counter EXCEPT ![p] = 0]
  /\ open' = [open EXCEPT ![p] = 0]
  /\ UNCHANGED <<pc, target, elapsed, began>>

Next ==
  \/ rtc_handler
  \/ \E p \in Pids :
       \/ rtc_open(p) \/ rtc_close(p) \/ rtc_write(p)
       \/ ReadStart(p) \/ ReadWaitOver(p) \/ ReadReturn(p)
       \/ Execute(p) \/ Halt(p)

(* The device never stops, and a process inside rtc_read is the foreground *)
(* process of its terminal, which gets the CPU again and again (Process,   *)
(* EveryTerminalRuns).  Strong fairness: the counter stays at or above the *)
(* target for the INT_MAX - target interrupts before it wraps, and the     *)
(* process has a time slice among any hundred of them.                     *)
Spec ==
  /\ Init /\ [][Next]_vars
  /\ WF_vars(rtc_handler)
  /\ \A p \in Pids : SF_vars(ReadWaitOver(p)) /\ WF_vars(ReadReturn(p))

-----------------------------------------------------------------------------
(* Properties.                                                             *)

TypeOK ==
  /\ process_array \in [Pids -> {0, 1}]
  /\ rtcfreq \in [Pids -> 0 .. MAX_FREQ]
  /\ rtc_counter \in [Pids -> -INT_MAX - 1 .. INT_MAX]
  /\ open \in [Pids -> 0 .. Fds]
  /\ pc \in [Pids -> {"user", "wait", "reset"}]
  /\ target \in [Pids -> 0 .. MAX_FREQ]
  /\ elapsed \in [Pids -> 0 .. MAX_FREQ]
  /\ began \in [Pids -> BOOLEAN]

(* A process never finds its clock running, or interrupts counted, that    *)
(* were left by the PCB's previous owner.                                  *)
FreshClock ==
  \A p \in Pids \ Live : rtcfreq[p] = 0 /\ rtc_counter[p] = 0

(* With one descriptor, a process with the rtc open has a clock running:   *)
(* no read finds a target of 0 and spins without the CPU ever waiting.     *)
ClockRuns ==
  \A p \in Pids : /\ open[p] > 0 <=> rtcfreq[p] > 0
                  /\ pc[p] # "user" => target[p] = rtcfreq[p]

(* Reads do not return more often than the frequency asked for: between    *)
(* two returns the device interrupts at least as many times as the read    *)
(* has to wait for, even when the frequency was changed in between.        *)
RateKept ==
  \A p \in Pids : pc[p] = "reset" => elapsed[p] >= target[p]

(* Every read returns.                                                     *)
ReadsReturn == \A p \in Pids : pc[p] # "user" ~> pc[p] = "user"

-----------------------------------------------------------------------------
(* Statements of the sources that the code does not meet.                  *)

(* "Wait for the next rtc interrupt" (rtc_read).  The counter is not reset *)
(* when a read begins, so one can return without any interrupt.  No run    *)
(* checks it.                                                              *)
WaitsForInterrupt == \A p \in Pids : pc[p] = "reset" => began[p]
=============================================================================
