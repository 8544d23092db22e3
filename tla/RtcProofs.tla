----------------------------- MODULE RtcProofs -----------------------------
(***************************************************************************)
(* Proofs about Rtc, for any number of processes, any frequencies and any  *)
(* width of the counters.                                                  *)
(***************************************************************************)
EXTENDS Rtc, TLAPS

LEMMA DivisionBound ==
  ASSUME NEW m \in Nat, NEW f \in Nat, f > 0
  PROVE  m \div f \in 0 .. m
<1> DEFINE d == m \div f
<1>1. d \in Int /\ f * d <= m /\ m < f * d + f
  BY SMT
<1>2. d >= 0
  <2>1. SUFFICES ASSUME d <= -1 PROVE FALSE
    BY <1>1
  <2>2. f * d <= f * (-1)
    BY <2>1, <1>1, SMT
  <2> QED
    BY <2>2, <1>1, SMT
<1>3. d <= f * d
  BY <1>1, <1>2, SMT
<1> QED
  BY <1>1, <1>2, <1>3

(* ValidFreq(0) is false: the frequency is at least 1.                     *)
LEMMA TargetBound ==
  ASSUME NEW freq \in 0 .. 2 * MAX_FREQ, ValidFreq(freq)
  PROVE  MAX_FREQ \div freq \in 0 .. MAX_FREQ
<1>1. freq \in Nat /\ freq > 0 /\ MAX_FREQ \in Nat
  BY RtcAssumption DEF ValidFreq
<1> QED
  BY <1>1, DivisionBound

-----------------------------------------------------------------------------
(* A read cannot return early because the counter never runs ahead of the  *)
(* interrupts since the last return.  A new process starts with a counter  *)
(* of 0 because its PCB was left clean.                                    *)

UserWhenFree == \A p \in Pids \ Live : pc[p] = "user"

CounterBehind ==
  \A p \in Pids : rtc_counter[p] <= elapsed[p] \/ elapsed[p] = MAX_FREQ

IInv == TypeOK /\ FreshClock /\ UserWhenFree /\ CounterBehind /\ RateKept

LEMMA Numbers ==
  /\ MAX_FREQ \in Nat /\ MAX_FREQ > 0
  /\ MAX_FREQ \div DEFAULT_FREQ \in 0 .. MAX_FREQ
  /\ Fds \in Nat
  /\ INT_MAX \in Nat /\ INT_MAX > MAX_FREQ
<1>1. DEFAULT_FREQ \in Nat /\ DEFAULT_FREQ > 0 /\ MAX_FREQ \in Nat
  BY RtcAssumption
<1> QED
  BY <1>1, DivisionBound, RtcAssumption

LEMMA TypeKeeps == TypeOK /\ [Next]_vars => TypeOK'
<1> SUFFICES ASSUME TypeOK, [Next]_vars PROVE TypeOK'
  OBVIOUS
<1> USE Numbers DEF TypeOK
<1>1. CASE rtc_handler
  <2>1. ASSUME NEW p \in Pids
        PROVE  Increment(rtc_counter[p]) \in -INT_MAX - 1 .. INT_MAX
    BY DEF Increment
  <2>2. rtc_counter' \in [Pids -> -INT_MAX - 1 .. INT_MAX]
    BY <1>1, <2>1 DEF rtc_handler
  <2>3. elapsed' \in [Pids -> 0 .. MAX_FREQ]
    BY <1>1 DEF rtc_handler
  <2>4. began' \in [Pids -> BOOLEAN]
    BY <1>1 DEF rtc_handler
  <2> QED
    BY <1>1, <2>2, <2>3, <2>4 DEF rtc_handler
<1>2. ASSUME NEW p \in Pids, rtc_open(p) PROVE TypeOK'
  BY <1>2 DEF rtc_open
<1>3. ASSUME NEW p \in Pids, rtc_close(p) PROVE TypeOK'
  BY <1>3 DEF rtc_close
<1>4. ASSUME NEW p \in Pids, rtc_write(p) PROVE TypeOK'
  <2>1. rtcfreq' \in [Pids -> 0 .. MAX_FREQ]
    BY <1>4, TargetBound DEF rtc_write
  <2> QED
    BY <1>4, <2>1 DEF rtc_write
<1>5. ASSUME NEW p \in Pids, ReadStart(p) PROVE TypeOK'
  BY <1>5 DEF ReadStart
<1>6. ASSUME NEW p \in Pids, ReadWaitOver(p) PROVE TypeOK'
  BY <1>6 DEF ReadWaitOver
<1>7. ASSUME NEW p \in Pids, ReadReturn(p) PROVE TypeOK'
  BY <1>7 DEF ReadReturn
<1>8. ASSUME NEW p \in Pids, Execute(p) PROVE TypeOK'
  BY <1>8 DEF Execute
<1>9. ASSUME NEW p \in Pids, Halt(p) PROVE TypeOK'
  BY <1>9 DEF Halt
<1>10. CASE UNCHANGED vars
  BY <1>10 DEF vars
<1> QED
  BY <1>1, <1>2, <1>3, <1>4, <1>5, <1>6, <1>7, <1>8, <1>9, <1>10 DEF Next

LEMMA StepKeeps == IInv /\ [Next]_vars => IInv'
<1> SUFFICES ASSUME IInv, [Next]_vars, TypeOK' PROVE IInv'
  BY TypeKeeps DEF IInv
<1> USE Numbers DEF IInv, TypeOK, FreshClock, UserWhenFree, CounterBehind,
                    RateKept, Live
<1>1. CASE rtc_handler
  <2>1. \A p \in Pids : Increment(rtc_counter[p]) <= rtc_counter[p] + 1
    BY DEF Increment
  <2>2. CounterBehind'
    BY <1>1, <2>1 DEF rtc_handler
  <2>3. FreshClock' /\ UserWhenFree'
    BY <1>1 DEF rtc_handler, Counting
  <2>4. RateKept'
    BY <1>1 DEF rtc_handler
  <2> QED
    BY <2>2, <2>3, <2>4
<1>2. ASSUME NEW p \in Pids, rtc_open(p) PROVE IInv'
  BY <1>2 DEF rtc_open
<1>3. ASSUME NEW p \in Pids, rtc_close(p) PROVE IInv'
  BY <1>3 DEF rtc_close
<1>4. ASSUME NEW p \in Pids, rtc_write(p) PROVE IInv'
  BY <1>4 DEF rtc_write
<1>5. ASSUME NEW p \in Pids, ReadStart(p) PROVE IInv'
  BY <1>5 DEF ReadStart
(* The wait is over: the counter, and so the interrupts, reached target.   *)
<1>6. ASSUME NEW p \in Pids, ReadWaitOver(p) PROVE IInv'
  <2>1. p \in Live
    BY <1>6 DEF ReadWaitOver
  <2>2. elapsed[p] >= target[p]
    BY <1>6 DEF ReadWaitOver
  <2> QED
    BY <1>6, <2>1, <2>2 DEF ReadWaitOver
<1>7. ASSUME NEW p \in Pids, ReadReturn(p) PROVE IInv'
  BY <1>7 DEF ReadReturn
<1>8. ASSUME NEW p \in Pids, Execute(p) PROVE IInv'
  BY <1>8 DEF Execute
<1>9. ASSUME NEW p \in Pids, Halt(p) PROVE IInv'
  BY <1>9 DEF Halt
<1>10. CASE UNCHANGED vars
  BY <1>10 DEF vars
<1> QED
  BY <1>1, <1>2, <1>3, <1>4, <1>5, <1>6, <1>7, <1>8, <1>9, <1>10 DEF Next

LEMMA Inductive == Spec => []IInv
<1>1. Init => IInv
  <2> SUFFICES ASSUME Init PROVE IInv
    OBVIOUS
  <2>1. began \in [Pids -> BOOLEAN]
    BY Zenon DEF Init
  <2>2. TypeOK
    BY <2>1, Numbers DEF Init, TypeOK
  <2> QED
    BY <2>2, Numbers
       DEF Init, IInv, FreshClock, UserWhenFree, CounterBehind, RateKept, Live
<1> QED
  BY <1>1, StepKeeps, PTL DEF Spec

(* However many descriptors a process has on the rtc, and wherever the     *)
(* interrupts fall, its reads do not return faster than the frequency it   *)
(* set.                                                                    *)
THEOREM ReadRate == Spec => []RateKept
<1>1. IInv => RateKept
  BY DEF IInv
<1> QED
  BY <1>1, Inductive, PTL

(* A PCB that is free has no clock running and nothing counted.            *)
THEOREM CleanPcb == Spec => []FreshClock
<1>1. IInv => FreshClock
  BY DEF IInv
<1> QED
  BY <1>1, Inductive, PTL

(* Every field of the clocks stays in its range; no count of open          *)
(* descriptors ever becomes negative.                                      *)
THEOREM RtcTypes == Spec => []TypeOK
<1>1. IInv => TypeOK
  BY DEF IInv
<1> QED
  BY <1>1, Inductive, PTL
-----------------------------------------------------------------------------
(* The clock.  A close stops it whichever descriptor it closes, so that    *)
(* the number of descriptors matters.                                      *)

LEMMA DivisionPositive ==
  ASSUME NEW m \in Nat, NEW f \in Nat, f > 0, f <= m
  PROVE  m \div f > 0
<1> DEFINE d == m \div f
<1>1. d \in Int /\ m < f * d + f
  BY SMT
<1>2. d \in Nat
  BY DivisionBound
<1>3. d # 0
  BY <1>1, SMT
<1> QED
  BY <1>2, <1>3

ClockInv == TypeOK /\ ClockRuns

LEMMA ClockKeeps ==
  ASSUME Fds = 1, ClockInv, [Next]_vars PROVE ClockInv'
<1>1. TypeOK'
  BY TypeKeeps DEF ClockInv
<1> USE Numbers DEF ClockInv, TypeOK, ClockRuns
<1>2. CASE rtc_handler
  BY <1>1, <1>2 DEF rtc_handler
<1>3. ASSUME NEW p \in Pids, rtc_open(p) PROVE ClockInv'
  <2>1. MAX_FREQ \div DEFAULT_FREQ > 0
    BY RtcAssumption, DivisionPositive
  <2> QED
    BY <1>1, <1>3, <2>1 DEF rtc_open
<1>4. ASSUME NEW p \in Pids, rtc_close(p) PROVE ClockInv'
  BY <1>1, <1>4 DEF rtc_close
<1>5. ASSUME NEW p \in Pids, rtc_write(p) PROVE ClockInv'
  <2>1. PICK freq \in 0 .. 2 * MAX_FREQ :
          ValidFreq(freq) /\ rtcfreq' = [rtcfreq EXCEPT ![p] = MAX_FREQ \div freq]
    BY <1>5 DEF rtc_write
  <2>2. freq \in Nat /\ freq > 0 /\ freq <= MAX_FREQ
    BY <2>1 DEF ValidFreq
  <2>3. MAX_FREQ \div freq > 0
    BY <2>2, DivisionPositive
  <2> QED
    BY <1>1, <1>5, <2>1, <2>3 DEF rtc_write
<1>6. ASSUME NEW p \in Pids, ReadStart(p) PROVE ClockInv'
  BY <1>1, <1>6 DEF ReadStart
<1>7. ASSUME NEW p \in Pids, ReadWaitOver(p) PROVE ClockInv'
  BY <1>1, <1>7 DEF ReadWaitOver
<1>8. ASSUME NEW p \in Pids, ReadReturn(p) PROVE ClockInv'
  BY <1>1, <1>8 DEF ReadReturn
<1>9. ASSUME NEW p \in Pids, Execute(p) PROVE ClockInv'
  BY <1>1, <1>9 DEF Execute
<1>10. ASSUME NEW p \in Pids, Halt(p) PROVE ClockInv'
  BY <1>1, <1>10 DEF Halt
<1>11. CASE UNCHANGED vars
  BY <1>11 DEF vars
<1> QED
  BY <1>2, <1>3, <1>4, <1>5, <1>6, <1>7, <1>8, <1>9, <1>10, <1>11 DEF Next

(* With one descriptor on the rtc a process that has it open has a clock   *)
(* running, at every frequency it may set, and a read never waits for a    *)
(* frequency that has changed meanwhile.                                   *)
THEOREM ClocksRun ==
  ASSUME Fds = 1 PROVE Spec => []ClockRuns
<1>1. Init => ClockInv
  <2> SUFFICES ASSUME Init PROVE ClockInv
    OBVIOUS
  <2>1. began \in [Pids -> BOOLEAN]
    BY Zenon DEF Init
  <2> QED
    BY <2>1, Numbers DEF Init, ClockInv, TypeOK, ClockRuns
<1>2. ClockInv => ClockRuns
  BY DEF ClockInv
<1> QED
  BY <1>1, <1>2, ClockKeeps, PTL DEF Spec
=============================================================================
