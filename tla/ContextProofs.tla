---------------------------- MODULE ContextProofs ----------------------------
(***************************************************************************)
(* Proofs about Context, for any number of processes and terminals and any *)
(* depth of nested interrupts: every stack pointer the code stores still   *)
(* finds its frames when it is loaded.                                     *)
(***************************************************************************)
EXTENDS Context, ProcessProofs

-----------------------------------------------------------------------------
(* Sequences of frames.                                                    *)

LEMMA LongerThanEmpty ==
  ASSUME NEW s, Len(s) # 0
  PROVE  s # <<>>
<1>1. Len(<<>>) = 0
  OBVIOUS
<1> QED
  BY <1>1

LEMMA AppendFacts ==
  ASSUME NEW s \in Seq(Frames), NEW f \in Frames
  PROVE  /\ Append(s, f) \in Seq(Frames)
         /\ Len(Append(s, f)) = Len(s) + 1
         /\ \A i \in 1 .. Len(s) : Append(s, f)[i] = s[i]
         /\ Append(s, f)[Len(s) + 1] = f
         /\ Last(Append(s, f)) = f
         /\ Append(s, f) # <<>>
BY DEF Last

LEMMA SingleFacts ==
  ASSUME NEW f \in Frames
  PROVE  /\ Append(<<>>, f) \in Seq(Frames)
         /\ Len(Append(<<>>, f)) = 1
         /\ Last(Append(<<>>, f)) = f
<1>1. Append(<<>>, f) = <<f>>
  OBVIOUS
<1> QED
  BY <1>1 DEF Last

LEMMA FrontFacts ==
  ASSUME NEW s \in Seq(Frames), s # <<>>
  PROVE  /\ Front(s) \in Seq(Frames)
         /\ Len(Front(s)) = Len(s) - 1
         /\ \A i \in 1 .. Len(s) - 1 : Front(s)[i] = s[i]
         /\ Len(s) > 1 => Last(Front(s)) = s[Len(s) - 1] /\ Front(s) # <<>>
<1>1. Len(s) \in Nat /\ Len(s) > 0
  OBVIOUS
<1>2. ASSUME NEW n \in Nat, n <= Len(s)
      PROVE  /\ SubSeq(s, 1, n) \in Seq(Frames)
             /\ Len(SubSeq(s, 1, n)) = n
             /\ \A i \in 1 .. n : SubSeq(s, 1, n)[i] = s[i]
  <2>1. \A i \in 1 .. n : s[i] \in Frames
    BY <1>2
  <2> QED
    BY <1>2, <2>1
<1> DEFINE m == Len(s) - 1
<1>3. m \in Nat /\ m <= Len(s)
  BY <1>1
<1>4. Front(s) = SubSeq(s, 1, m)
  BY DEF Front
<1> HIDE DEF m
<1>5. /\ Front(s) \in Seq(Frames) /\ Len(Front(s)) = m
      /\ \A i \in 1 .. m : Front(s)[i] = s[i]
  BY <1>2, <1>3, <1>4
<1> QED
  BY <1>1, <1>5 DEF Last, m

LEMMA PrefixByIndex ==
  ASSUME NEW s \in Seq(Frames), NEW u \in Seq(Frames)
  PROVE  IsPrefix(s, u) <=> /\ Len(s) <= Len(u)
                            /\ \A i \in 1 .. Len(s) : s[i] = u[i]
<1>1. ASSUME Len(s) <= Len(u)
      PROVE  /\ SubSeq(s, 1, Len(s)) = s
             /\ SubSeq(u, 1, Len(s)) \in Seq(Frames)
             /\ Len(SubSeq(u, 1, Len(s))) = Len(s)
             /\ \A i \in 1 .. Len(s) : SubSeq(u, 1, Len(s))[i] = u[i]
  BY <1>1
<1>2. ASSUME NEW w \in Seq(Frames), Len(w) = Len(s),
             \A i \in 1 .. Len(s) : s[i] = w[i]
      PROVE  s = w
  BY <1>2
<1> QED
  BY <1>1, <1>2 DEF IsPrefix

LEMMA PrefixFacts ==
  ASSUME NEW s \in Seq(Frames), NEW u \in Seq(Frames)
  PROVE  /\ IsPrefix(s, s)
         /\ IsPrefix(s, u) => \A f \in Frames : IsPrefix(s, Append(u, f))
         /\ IsPrefix(s, u) /\ Len(s) < Len(u) => IsPrefix(s, Front(u))
         /\ \A w \in Seq(Frames) :
              IsPrefix(s, u) /\ IsPrefix(u, w) => IsPrefix(s, w)
<1>1. IsPrefix(s, s)
  BY PrefixByIndex
<1>2. ASSUME IsPrefix(s, u), NEW f \in Frames
      PROVE  IsPrefix(s, Append(u, f))
  <2> DEFINE w == Append(u, f)
  <2>1. /\ w \in Seq(Frames) /\ Len(w) = Len(u) + 1
        /\ \A i \in 1 .. Len(u) : w[i] = u[i]
    BY AppendFacts
  <2>2. Len(s) <= Len(u) /\ \A i \in 1 .. Len(s) : s[i] = u[i]
    BY <1>2, PrefixByIndex
  <2> HIDE DEF w
  <2>3. Len(s) <= Len(w) /\ \A i \in 1 .. Len(s) : s[i] = w[i]
    BY <2>1, <2>2
  <2>4. IsPrefix(s, w)
    BY <2>1, <2>3, PrefixByIndex
  <2> QED
    BY <2>4 DEF w
<1>3. ASSUME IsPrefix(s, u), Len(s) < Len(u)
      PROVE  IsPrefix(s, Front(u))
  <2> DEFINE w == Front(u)
  <2>1. u # <<>>
    BY <1>3
  <2>2. /\ w \in Seq(Frames) /\ Len(w) = Len(u) - 1
        /\ \A i \in 1 .. Len(u) - 1 : w[i] = u[i]
    BY <2>1, FrontFacts
  <2>3. Len(s) <= Len(u) /\ \A i \in 1 .. Len(s) : s[i] = u[i]
    BY <1>3, PrefixByIndex
  <2> HIDE DEF w
  <2>4. Len(s) <= Len(w) /\ \A i \in 1 .. Len(s) : s[i] = w[i]
    BY <1>3, <2>2, <2>3
  <2>5. IsPrefix(s, w)
    BY <2>2, <2>4, PrefixByIndex
  <2> QED
    BY <2>5 DEF w
<1>4. ASSUME NEW w \in Seq(Frames), IsPrefix(s, u), IsPrefix(u, w)
      PROVE  IsPrefix(s, w)
  BY <1>4, PrefixByIndex
<1> QED
  BY <1>1, <1>2, <1>3, <1>4

LEMMA AmongByIndex ==
  ASSUME NEW s \in Seq(Frames), NEW fn
  PROVE  Among(fn, s) <=> \E i \in 1 .. Len(s) : s[i].fn = fn
BY DEF Among, ToSet

-----------------------------------------------------------------------------
(* The inductive invariant.  OwnIntact and SavedIntact are kept by the     *)
(* next step only because each stack serves one terminal, whose shape says *)
(* which frames can still return: a system call is the first frame of its  *)
(* stack, an interrupt belongs to the process below it, and saved_esp is   *)
(* on top of exactly the system call that called execute.                  *)

Shaped(frames) ==
  /\ frames # <<>>
  /\ \A i \in 2 .. Len(frames) :
       /\ frames[i].fn # "syscall"
       /\ frames[i].fn \in {"pit", "kbd"} => frames[i - 1].pid = frames[i].pid

(* The boot is over on this stack: it does not return to launch_tests or   *)
(* to the first tick.                                                      *)
Started(frames) ==
  \A i \in 1 .. Len(frames) :
    frames[i].fn \in {"idle", "start"} =>
      \E j \in i + 1 .. Len(frames) : frames[j].fn = "exec"

(* Nothing executes a program from inside a keyboard handler.              *)
KeyAbove(frames) ==
  \A i, j \in 1 .. Len(frames) :
    i < j /\ frames[j].fn = "exec" => frames[i].fn # "kbd"

Pointers == [stk : Pids, frames : Seq(Frames)]

Typed ==
  /\ stacks \in [Pids -> Seq(Frames)]
  /\ \A p \in Pids : Len(stacks[p]) <= MaxDepth + 2
  /\ own \in [Pids -> Pointers]
  /\ saved \in [Pids -> Pointers]
  /\ window_ticks \in [Pids -> 0 .. MaxTicksPerWindow]
  /\ cpu \in Pids \cup {User}
  /\ in_service \in BOOLEAN

(* The call of execute that started p, on its parent's stack.              *)
ExecCall(p) == <<[fn |-> "syscall", pid |-> parent_pid[p]], [fn |-> "exec", pid |-> p]>>

SavedCorrect ==
  \A p \in Live \ Terms :
    /\ saved[p] = [stk |-> parent_pid[p], frames |-> ExecCall(p)]
    /\ IsPrefix(ExecCall(p), stacks[parent_pid[p]])

Suspended(t) == cur_pid[t] \notin {NoPid, curr_pid}

Resumable(p) ==
  /\ own[p].stk \in {p, parent_pid[p]}
  /\ Shaped(own[p].frames) /\ Started(own[p].frames)
  /\ Last(own[p].frames).pid = p
  /\ Len(own[p].frames) <= MaxDepth + 1
  /\ IsPrefix(own[p].frames, stacks[own[p].stk])
  /\ own[p].stk # p => IsPrefix(ExecCall(p), own[p].frames)

OwnCorrect == \A t \in Terms : Suspended(t) => Resumable(cur_pid[t])

(* While the shells are started, execute of a shell runs on the stack of   *)
(* the shell before it, above the frames own_esp was stored for.           *)
Guest ==
  LET host == curr_pid - 1
      base == Len(own[host].frames)
  IN
  /\ Running /\ cpu = host /\ host \in Terms /\ curr_pid \in Terms
  /\ cur_pid[host] = host /\ own[host].stk = host
  /\ Len(stacks[host]) > base
  /\ stacks[host][base + 1] = [fn |-> "exec", pid |-> curr_pid]
  /\ \A i \in base + 2 .. Len(stacks[host]) : stacks[host][i].fn \in {"pit", "kbd"}

(* The CPU is on the process's own stack, or on its parent's in execute.   *)
AtHome == cpu = curr_pid \/ (Running /\ cpu = parent_pid[curr_pid])

CpuCorrect ==
  cpu # User =>
    /\ Shaped(stacks[cpu])
    /\ Running => Started(stacks[cpu])
    /\ Last(stacks[cpu]).pid = curr_pid
    /\ AtHome \/ Guest

(* The one tick a window has room for goes to the count of the shells.     *)
WindowCorrect ==
  cpu # User /\ ~AtHome =>
    \/ shell_tid = curr_pid
    \/ shell_tid = curr_pid + 1 /\ window_ticks[curr_pid] >= 1

(* Before the first shell nothing has been executed, and launch_tests does *)
(* not return.                                                             *)
BootStack ==
  /\ cpu = 0 /\ curr_pid = 0
  /\ stacks[0][1].fn = "idle"
  /\ \A i \in 1 .. Len(stacks[0]) : stacks[0][i].fn # "exec"
  /\ Len(stacks[0]) <= MaxDepth + 1

BootCorrectly ==
  /\ Booting => \A p \in Live : p <= curr_pid
  /\ ~Running => BootStack

CInv == /\ IInv /\ Typed /\ SavedCorrect /\ OwnCorrect /\ CpuCorrect
        /\ WindowCorrect /\ BootCorrectly

-----------------------------------------------------------------------------
(* How the steps shape a stack.                                            *)

LEMMA ShapedAppend ==
  ASSUME NEW s \in Seq(Frames), NEW f \in Frames,
         s # <<>> => /\ Shaped(s) /\ f.fn # "syscall"
                     /\ f.fn \in {"pit", "kbd"} => Last(s).pid = f.pid
  PROVE  Shaped(Append(s, f))
<1> DEFINE w == Append(s, f)
<1>1. /\ w \in Seq(Frames) /\ Len(w) = Len(s) + 1 /\ w # <<>>
      /\ \A i \in 1 .. Len(s) : w[i] = s[i]
      /\ w[Len(s) + 1] = f
  BY AppendFacts
<1> HIDE DEF w
<1>2. Len(s) \in Nat
  OBVIOUS
<1>3. ASSUME NEW i \in 2 .. Len(w)
      PROVE  /\ w[i].fn # "syscall"
             /\ w[i].fn \in {"pit", "kbd"} => w[i - 1].pid = w[i].pid
  <2>1. CASE i <= Len(s)
    <3>1. s # <<>> /\ i \in 2 .. Len(s) /\ i - 1 \in 1 .. Len(s)
      BY <1>1, <2>1
    <3>2. w[i] = s[i] /\ w[i - 1] = s[i - 1]
      BY <3>1, <1>1
    <3> QED
      BY <3>1, <3>2 DEF Shaped
  <2>2. CASE i = Len(s) + 1
    <3>1. s # <<>> /\ i - 1 = Len(s) /\ i - 1 \in 1 .. Len(s)
      BY <1>1, <1>2, <2>2
    <3>2. w[i] = f /\ w[i - 1] = Last(s)
      BY <3>1, <2>2, <1>1 DEF Last
    <3> QED
      BY <3>1, <3>2
  <2> QED
    BY <1>1, <1>2, <2>1, <2>2
<1>4. Shaped(w)
  BY <1>1, <1>3 DEF Shaped
<1> QED
  BY <1>4 DEF w

LEMMA StartedAppend ==
  ASSUME NEW s \in Seq(Frames), NEW f \in Frames,
         \/ f.fn = "exec"
         \/ f.fn \notin {"idle", "start"} /\ Started(s)
  PROVE  Started(Append(s, f))
<1> DEFINE w == Append(s, f)
<1>1. /\ w \in Seq(Frames) /\ Len(w) = Len(s) + 1
      /\ \A i \in 1 .. Len(s) : w[i] = s[i]
      /\ w[Len(s) + 1] = f
  BY AppendFacts
<1> HIDE DEF w
<1>2. Len(s) \in Nat
  OBVIOUS
<1>3. ASSUME NEW i \in 1 .. Len(w), w[i].fn \in {"idle", "start"}
      PROVE  \E j \in i + 1 .. Len(w) : w[j].fn = "exec"
  <2>1. i \in 1 .. Len(s) /\ w[i] = s[i]
    BY <1>1, <1>2, <1>3
  <2>2. CASE f.fn = "exec"
    BY <2>1, <2>2, <1>1, <1>2
  <2>3. CASE Started(s)
    <3>1. PICK j \in i + 1 .. Len(s) : s[j].fn = "exec"
      BY <2>1, <2>3, <1>3 DEF Started
    <3>2. j \in i + 1 .. Len(w) /\ w[j] = s[j]
      BY <3>1, <2>1, <1>1, <1>2
    <3> QED
      BY <3>1, <3>2
  <2> QED
    BY <2>2, <2>3
<1>4. Started(w)
  BY <1>3 DEF Started
<1> QED
  BY <1>4 DEF w

(* A return, which is never that of execute, keeps the shape and goes back *)
(* to the process the handler interrupted.                                 *)
LEMMA ShapedFront ==
  ASSUME NEW s \in Seq(Frames), Shaped(s), Len(s) > 1,
         Last(s).fn \notin {"exec", "idle", "start"}
  PROVE  /\ Shaped(Front(s))
         /\ Started(s) => Started(Front(s))
         /\ Last(Front(s)).pid = Last(s).pid
<1> DEFINE w == Front(s)
           n == Len(s)
<1>1. n \in Nat /\ n > 1 /\ Last(s) = s[n]
  BY DEF Last
<1>2. s # <<>>
  BY DEF Shaped
<1>3. /\ w \in Seq(Frames) /\ Len(w) = n - 1 /\ w # <<>>
      /\ \A i \in 1 .. n - 1 : w[i] = s[i]
      /\ Last(w) = s[n - 1]
  BY <1>1, <1>2, FrontFacts
<1>4. s[n].fn \in {"pit", "kbd"}
  <2>1. s[n] \in Frames /\ n \in 2 .. Len(s)
    BY <1>1
  <2> QED
    BY <2>1, <1>1 DEF Shaped, Frames
<1> HIDE DEF w, n
<1>5. s[n - 1].pid = s[n].pid
  BY <1>1, <1>4 DEF Shaped, n
<1>6. Shaped(w)
  <2> SUFFICES ASSUME NEW i \in 2 .. Len(w)
               PROVE  /\ w[i].fn # "syscall"
                      /\ w[i].fn \in {"pit", "kbd"} => w[i - 1].pid = w[i].pid
    BY <1>3 DEF Shaped
  <2>1. /\ i \in 2 .. Len(s)
        /\ i \in 1 .. n - 1 /\ i - 1 \in 1 .. n - 1
    BY <1>1, <1>3 DEF n
  <2>2. w[i] = s[i] /\ w[i - 1] = s[i - 1]
    BY <2>1, <1>3
  <2> QED
    BY <2>1, <2>2 DEF Shaped
<1>7. ASSUME Started(s) PROVE Started(w)
  <2> SUFFICES ASSUME NEW i \in 1 .. Len(w), w[i].fn \in {"idle", "start"}
               PROVE  \E j \in i + 1 .. Len(w) : w[j].fn = "exec"
    BY DEF Started
  <2>1. i \in 1 .. Len(s) /\ w[i] = s[i]
    BY <1>1, <1>3 DEF n
  <2>2. PICK j \in i + 1 .. Len(s) : s[j].fn = "exec"
    BY <2>1, <1>7 DEF Started
  <2>3. j # n
    BY <2>2, <1>4
  <2>4. j \in i + 1 .. Len(w) /\ w[j] = s[j]
    BY <2>2, <2>3, <1>1, <1>3 DEF n
  <2> QED
    BY <2>2, <2>4
<1> QED
  BY <1>1, <1>3, <1>5, <1>6, <1>7 DEF w

-----------------------------------------------------------------------------
(* What the process table says of the stacks: each belongs to the terminal *)
(* of its process.                                                         *)

(* The processes of OwnCorrect after a step.                               *)
LEMMA OwnPrimed ==
  ASSUME \A t \in Terms : \A p :
           p = cur_pid'[t] /\ p \notin {NoPid, curr_pid'} => Resumable(p)'
  PROVE  OwnCorrect'
BY DEF OwnCorrect, Suspended, Resumable, ExecCall

LEMMA RunningFacts ==
  ASSUME IInv, Running
  PROVE  /\ curr_pid \in Live /\ curr_pid = cur_pid[active_tid]
         /\ terminal_number[curr_pid] = active_tid
         /\ curr_parent_pid = parent_pid[curr_pid]
         /\ parent_pid[curr_pid] \in Live
         /\ terminal_number[parent_pid[curr_pid]] = active_tid
         /\ active_tid \in Terms
         /\ esp0 = curr_pid
<1>1. curr_pid \in Live /\ curr_parent_pid = parent_pid[curr_pid] /\ esp0 = curr_pid
  BY DEF IInv, MachineConsistent
<1>2. curr_pid = cur_pid[active_tid] /\ active_tid \in Terms
  BY DEF IInv, ForegroundRuns, TypeOK
<1>3. terminal_number[curr_pid] = active_tid
  BY <1>1, <1>2, Numbers DEF IInv, TypeOK, ForegroundOwned
<1>4. parent_pid[curr_pid] \in Live
      /\ terminal_number[parent_pid[curr_pid]] = active_tid
  BY <1>1, <1>3 DEF IInv, CallChains
<1> QED
  BY <1>1, <1>2, <1>3, <1>4

LEMMA ForegroundFacts ==
  ASSUME IInv, NEW t \in Terms, cur_pid[t] # NoPid
  PROVE  /\ cur_pid[t] \in Live /\ terminal_number[cur_pid[t]] = t
         /\ parent_pid[cur_pid[t]] \in Live
         /\ terminal_number[parent_pid[cur_pid[t]]] = t
         /\ \A p \in Live \ Terms : parent_pid[p] # cur_pid[t]
<1>1. cur_pid[t] \in Live /\ terminal_number[cur_pid[t]] = t
  BY DEF IInv, ForegroundOwned
<1>2. parent_pid[cur_pid[t]] \in Live /\ terminal_number[parent_pid[cur_pid[t]]] = t
  BY <1>1 DEF IInv, CallChains
<1>3. ASSUME NEW p \in Live \ Terms, parent_pid[p] = cur_pid[t] PROVE FALSE
  <2>1. parent_pid[p] # p
    BY DEF IInv, RootsAreShells
  <2>2. /\ terminal_number[parent_pid[p]] = terminal_number[p]
        /\ cur_pid[terminal_number[p]] # parent_pid[p]
    BY <2>1 DEF IInv, CallChains
  <2> QED
    BY <1>1, <1>3, <2>2
<1> QED
  BY <1>1, <1>2, <1>3

LEMMA OnlyChild ==
  ASSUME IInv, NEW p \in Live \ Terms, NEW q \in Live \ Terms,
         parent_pid[p] = parent_pid[q]
  PROVE  p = q
<1>1. parent_pid[p] # p /\ parent_pid[q] # q
  BY DEF IInv, RootsAreShells
<1>2. \A r \in Live \ {p, parent_pid[p]} : parent_pid[r] # parent_pid[p]
  BY <1>1 DEF IInv, CallChains
<1> QED
  BY <1>1, <1>2

LEMMA PidFacts ==
  /\ Live \subseteq Pids /\ Terms \subseteq Pids
  /\ User \notin Pids /\ 0 \in Pids /\ 0 \in Terms
  /\ \A p \in Pids : p \in Nat
  /\ MaxDepth \in Nat /\ MaxTicksPerWindow \in Nat
BY SizeFacts, ContextAssumption, SMT DEF Live, User, Pids

(* No stored pointer leads to the stack of the running process, and one to *)
(* that of its parent is that of the execute that started the process.     *)
LEMMA OwnStacks ==
  ASSUME IInv, OwnCorrect, NEW t \in Terms, Suspended(t)
  PROVE  /\ cur_pid[t] \in Live /\ terminal_number[cur_pid[t]] = t
         /\ own[cur_pid[t]].stk \in Live
         /\ terminal_number[own[cur_pid[t]].stk] = t
         /\ Running => t # active_tid
<1>1. cur_pid[t] # NoPid /\ cur_pid[t] # curr_pid
  BY DEF Suspended
<1>2. /\ cur_pid[t] \in Live /\ terminal_number[cur_pid[t]] = t
      /\ parent_pid[cur_pid[t]] \in Live
      /\ terminal_number[parent_pid[cur_pid[t]]] = t
  BY <1>1, ForegroundFacts
<1>3. own[cur_pid[t]].stk \in {cur_pid[t], parent_pid[cur_pid[t]]}
  BY DEF OwnCorrect, Resumable
<1>4. Running => t # active_tid
  BY <1>1, RunningFacts
<1> QED
  BY <1>2, <1>3, <1>4

LEMMA OwnApart ==
  ASSUME IInv, OwnCorrect, Running, NEW t \in Terms, Suspended(t)
  PROVE  own[cur_pid[t]].stk \notin {curr_pid, parent_pid[curr_pid]}
BY OwnStacks, RunningFacts

LEMMA NoChild ==
  ASSUME IInv, Running, NEW p \in Live \ Terms
  PROVE  /\ parent_pid[p] # curr_pid
         /\ parent_pid[p] = parent_pid[curr_pid] /\ curr_pid \notin Terms
              => p = curr_pid
<1>1. parent_pid[p] # curr_pid
  BY RunningFacts, ForegroundFacts, PidFacts, Numbers
<1> QED
  BY <1>1, OnlyChild, RunningFacts

(* A shell is its own parent.                                              *)
LEMMA ShellRoot ==
  ASSUME IInv, NEW p \in Live \cap Terms
  PROVE  parent_pid[p] = p /\ terminal_number[p] = p
BY DEF IInv, RootsAreShells

LEMMA BootFacts ==
  ASSUME IInv, Booting
  PROVE  /\ Live \subseteq Terms
         /\ ~Running => shell_tid = 0
         /\ \A t \in Terms : cur_pid[t] # NoPid => cur_pid[t] = t
<1>1. \A p \in Live : p < shell_tid \/ p = shell_tid
  BY DEF IInv, BootOrder, Live
<1>2. Live \subseteq Terms
  BY <1>1, Numbers, PidFacts DEF Booting, Terms
<1>3. ASSUME ~Running PROVE shell_tid = 0
  <2>1. ASSUME shell_tid # 0 PROVE FALSE
    <3>1. 0 \in Pids /\ 0 < shell_tid
      BY <2>1, Numbers, PidFacts
    <3>2. 0 \in Live
      BY <3>1 DEF IInv, BootOrder, Live
    <3> QED
      BY <3>2, <1>3 DEF Running
  <2> QED
    BY <2>1
<1>4. ASSUME NEW t \in Terms, cur_pid[t] # NoPid PROVE cur_pid[t] = t
  <2>1. cur_pid[t] \in Live /\ terminal_number[cur_pid[t]] = t
    BY <1>4, ForegroundFacts
  <2> QED
    BY <2>1, <1>2, ShellRoot
<1> QED
  BY <1>2, <1>3, <1>4

LEMMA BootedRuns ==
  ASSUME IInv, ~Booting
  PROVE  Running /\ \A t \in Terms : cur_pid[t] # NoPid
<1>1. Terms \subseteq Live
  BY DEF IInv, BootOrder
<1>2. \A t \in Terms : t < shell_tid
  BY Numbers DEF Booting, Terms
<1> QED
  BY <1>1, <1>2, PidFacts DEF IInv, BootOrder, Running

-----------------------------------------------------------------------------
(* Entries and returns.                                                    *)

LEMMA ExecCallType ==
  ASSUME IInv, NEW p \in Live
  PROVE  /\ ExecCall(p) \in Seq(Frames) /\ Len(ExecCall(p)) = 2
         /\ ExecCall(p)[1] = [fn |-> "syscall", pid |-> parent_pid[p]]
         /\ ExecCall(p)[2] = [fn |-> "exec", pid |-> p]
<1>1. p \in Pids /\ parent_pid[p] \in Pids
  BY PidFacts DEF IInv, TypeOK
<1> QED
  BY <1>1 DEF ExecCall, Frames

(* What an entry from user mode finds on its stack is needed by nobody;    *)
(* one from the kernel leaves what is there.                               *)
LEMMA Entry ==
  ASSUME CInv, NEW fn \in {"start", "syscall", "pit", "kbd"}, InterruptsNest,
         fn = "syscall" => cpu = User, fn = "start" => ~Running
  PROVE  /\ EntryStack \in Pids
         /\ EntryFrames(fn) \in Seq(Frames)
         /\ Shaped(EntryFrames(fn))
         /\ Running => Started(EntryFrames(fn))
         /\ Last(EntryFrames(fn)) = [fn |-> fn, pid |-> curr_pid]
         /\ Len(EntryFrames(fn)) <= MaxDepth + 1
         /\ cpu = User => Running /\ EntryStack = curr_pid
         /\ cpu # User => /\ EntryStack = cpu
                          /\ EntryFrames(fn) = Append(stacks[cpu], Frame(fn))
         /\ \A t \in Terms : Suspended(t) /\ own[cur_pid[t]].stk = EntryStack
              => IsPrefix(own[cur_pid[t]].frames, EntryFrames(fn))
         /\ \A p \in Live \ Terms : parent_pid[p] = EntryStack
              => IsPrefix(ExecCall(p), EntryFrames(fn))
<1> USE PidFacts
<1>1. Frame(fn) = [fn |-> fn, pid |-> curr_pid] /\ Frame(fn) \in Frames
  BY DEF Frame, Frames, CInv, IInv, TypeOK
<1>2. fn \notin {"exec", "idle"} /\ (Running => fn # "start")
  OBVIOUS
<1>3. CASE cpu = User
  <2>1. Running
    BY <1>3 DEF CInv, BootCorrectly, BootStack
  <2>2. EntryStack = curr_pid /\ EntryStack \in Pids
    BY <1>3, <2>1, RunningFacts DEF EntryStack, CInv
  <2>3. /\ EntryFrames(fn) = Append(<<>>, Frame(fn))
        /\ <<>> \in Seq(Frames)
    BY <1>3 DEF EntryFrames
  <2>4. /\ EntryFrames(fn) \in Seq(Frames)
        /\ Len(EntryFrames(fn)) = 1
        /\ Last(EntryFrames(fn)) = Frame(fn)
    BY <1>1, <2>3, SingleFacts
  <2>5. Shaped(EntryFrames(fn))
    BY <1>1, <2>3, ShapedAppend
  <2>6. Started(EntryFrames(fn))
    <3>1. Started(<<>>)
      BY DEF Started
    <3> QED
      BY <1>1, <1>2, <2>1, <2>3, <3>1, StartedAppend
  <2>7. \A t \in Terms : Suspended(t) => own[cur_pid[t]].stk # EntryStack
    BY <2>1, <2>2, OwnApart DEF CInv
  <2>8. \A p \in Live \ Terms : parent_pid[p] # EntryStack
    BY <2>1, <2>2, NoChild DEF CInv
  <2>9. Len(EntryFrames(fn)) <= MaxDepth + 1
    BY <2>4
  <2> QED
    BY <1>1, <1>3, <2>1, <2>2, <2>4, <2>5, <2>6, <2>7, <2>8, <2>9
<1>4. CASE cpu # User
  <2>1. /\ EntryStack = cpu /\ cpu \in Pids
        /\ EntryFrames(fn) = Append(stacks[cpu], Frame(fn))
        /\ stacks[cpu] \in Seq(Frames)
    BY <1>4 DEF EntryStack, EntryFrames, CInv, Typed
  <2>2. /\ Shaped(stacks[cpu])
        /\ Running => Started(stacks[cpu])
        /\ Last(stacks[cpu]).pid = curr_pid
    BY <1>4 DEF CInv, CpuCorrect
  <2>3. /\ EntryFrames(fn) \in Seq(Frames)
        /\ Len(EntryFrames(fn)) = Len(stacks[cpu]) + 1
        /\ Last(EntryFrames(fn)) = Frame(fn)
    BY <1>1, <2>1, AppendFacts
  <2>4. Shaped(EntryFrames(fn))
    BY <1>1, <1>4, <2>1, <2>2, ShapedAppend
  <2>5. Running => Started(EntryFrames(fn))
    BY <1>1, <1>2, <2>1, <2>2, StartedAppend
  <2>6. Len(EntryFrames(fn)) <= MaxDepth + 1
    BY <1>4, <2>1, <2>3 DEF InterruptsNest
  <2>7. ASSUME NEW t \in Terms, Suspended(t), own[cur_pid[t]].stk = EntryStack
        PROVE  IsPrefix(own[cur_pid[t]].frames, EntryFrames(fn))
    <3>1. cur_pid[t] \in Pids /\ own[cur_pid[t]].frames \in Seq(Frames)
      BY <2>7, OwnStacks DEF CInv, Typed, Pointers
    <3>2. IsPrefix(own[cur_pid[t]].frames, stacks[cpu])
      BY <2>1, <2>7 DEF CInv, OwnCorrect, Resumable
    <3> QED
      BY <1>1, <2>1, <3>1, <3>2, PrefixFacts
  <2>8. ASSUME NEW p \in Live \ Terms, parent_pid[p] = EntryStack
        PROVE  IsPrefix(ExecCall(p), EntryFrames(fn))
    <3>1. IsPrefix(ExecCall(p), stacks[cpu])
      BY <2>1, <2>8 DEF CInv, SavedCorrect
    <3>2. ExecCall(p) \in Seq(Frames)
      BY ExecCallType DEF CInv
    <3>3. IsPrefix(ExecCall(p), Append(stacks[cpu], Frame(fn)))
      BY <1>1, <2>1, <3>1, <3>2, PrefixFacts
    <3> QED
      BY <2>1, <3>3
  <2> QED
    BY <1>1, <1>4, <2>1, <2>3, <2>4, <2>5, <2>6, <2>7, <2>8
<1> QED
  BY <1>3, <1>4

(* A step that changes one stack without touching the frames a stored      *)
(* pointer was stored for.                                                 *)
LEMMA StackStep ==
  ASSUME CInv, NEW e \in Pids, NEW w \in Seq(Frames),
         stacks' = [stacks EXCEPT ![e] = w], Len(w) <= MaxDepth + 2,
         \A t \in Terms : Suspended(t) /\ own[cur_pid[t]].stk = e
           => IsPrefix(own[cur_pid[t]].frames, w),
         \A p \in Live \ Terms : parent_pid[p] = e => IsPrefix(ExecCall(p), w),
         UNCHANGED <<table, cur_pid, curr_pid, own>>,
         saved' \in [Pids -> Pointers],
         \A p \in Live \ Terms : saved'[p] = saved[p],
         window_ticks' \in [Pids -> 0 .. MaxTicksPerWindow],
         cpu' \in Pids \cup {User}, in_service' \in BOOLEAN
  PROVE  Typed' /\ SavedCorrect' /\ OwnCorrect'
<1>1. /\ stacks' \in [Pids -> Seq(Frames)]
      /\ \A p \in Pids : stacks'[p] = IF p = e THEN w ELSE stacks[p]
  BY DEF CInv, Typed
<1>2. UNCHANGED <<process_array, parent_pid, terminal_number>>
  BY DEF table
<1>3. Live' = Live
  BY <1>2 DEF Live
<1>4. Typed'
  BY <1>1 DEF CInv, Typed
<1>5. SavedCorrect'
  <2> SUFFICES ASSUME NEW p \in Live \ Terms
               PROVE  /\ saved'[p] = [stk |-> parent_pid'[p], frames |-> ExecCall(p)']
                      /\ IsPrefix(ExecCall(p)', stacks'[parent_pid'[p]])
    BY <1>3 DEF SavedCorrect
  <2>1. ExecCall(p)' = ExecCall(p)
    BY <1>2 DEF ExecCall
  <2>2. parent_pid[p] \in Pids
    BY PidFacts DEF CInv, IInv, TypeOK
  <2>3. /\ saved[p] = [stk |-> parent_pid[p], frames |-> ExecCall(p)]
        /\ IsPrefix(ExecCall(p), stacks[parent_pid[p]])
    BY DEF CInv, SavedCorrect
  <2> QED
    BY <1>1, <1>2, <2>1, <2>2, <2>3
<1>6. OwnCorrect'
  <2> SUFFICES ASSUME NEW t \in Terms, NEW p, p = cur_pid[t], Suspended(t)
               PROVE  Resumable(p)'
    BY <1>2, OwnPrimed DEF Suspended
  <2>1. own[p].stk \in Pids
    BY OwnStacks, PidFacts DEF CInv
  <2>2. Resumable(p)
    BY DEF CInv, OwnCorrect
  <2>3. IsPrefix(own[p].frames, stacks'[own[p].stk])
    BY <2>1, <2>2, <1>1 DEF Resumable
  <2>4. ExecCall(p)' = ExecCall(p)
    BY <1>2 DEF ExecCall
  <2> QED
    BY <2>2, <2>3, <2>4, <1>2 DEF Resumable
<1> QED
  BY <1>4, <1>5, <1>6

(* The frames of a host are below those of its guest.                      *)
LEMMA GuestFacts ==
  ASSUME CInv, Guest
  PROVE  LET host == curr_pid - 1
         IN /\ host \in Terms /\ host \in Pids /\ Suspended(host)
            /\ cpu = host /\ cur_pid[host] = host /\ host \in Live
            /\ own[host].stk = host
            /\ own[host].frames \in Seq(Frames)
            /\ Len(own[host].frames) > 0
            /\ IsPrefix(own[host].frames, stacks[host])
            /\ \A t \in Terms : Suspended(t) /\ own[cur_pid[t]].stk = host => t = host
            /\ \A p \in Live \ Terms : parent_pid[p] # host
<1> DEFINE host == curr_pid - 1
<1> USE PidFacts
<1>1. /\ Running /\ host \in Terms /\ curr_pid \in Terms /\ cpu = host
      /\ cur_pid[host] = host /\ own[host].stk = host
  BY DEF Guest
<1>2. host \in Pids /\ host # NoPid /\ host # curr_pid
  BY <1>1, Numbers DEF CInv
<1>3. Suspended(host)
  BY <1>1, <1>2 DEF Suspended
<1>4. host \in Live /\ \A p \in Live \ Terms : parent_pid[p] # host
  BY <1>1, <1>2, ForegroundFacts DEF CInv
<1>5. own[host].frames \in Seq(Frames)
  BY <1>2 DEF CInv, Typed, Pointers
<1>6. Shaped(own[host].frames) /\ IsPrefix(own[host].frames, stacks[host])
  BY <1>1, <1>3 DEF CInv, OwnCorrect, Resumable
<1>7. Len(own[host].frames) > 0
  BY <1>5, <1>6 DEF Shaped
<1>8. ASSUME NEW t \in Terms, Suspended(t), own[cur_pid[t]].stk = host PROVE t = host
  <2>1. terminal_number[host] = t
    BY <1>8, OwnStacks DEF CInv
  <2> QED
    BY <2>1, <1>1, <1>4, ShellRoot DEF CInv
<1> QED
  BY <1>1, <1>2, <1>3, <1>4, <1>5, <1>6, <1>7, <1>8

LEMMA EnterKeeps ==
  ASSUME CInv, NEW fn \in {"start", "syscall", "pit", "kbd"}, InterruptsNest,
         fn = "syscall" => cpu = User, fn = "start" => ~Running, Enter(fn),
         UNCHANGED <<table, cur_pid, curr_pid, own, saved>>,
         window_ticks' \in [Pids -> 0 .. MaxTicksPerWindow],
         in_service' \in BOOLEAN
  PROVE  /\ Typed' /\ SavedCorrect' /\ OwnCorrect' /\ CpuCorrect'
         /\ cpu' # User
         /\ AtHome' <=> cpu = User \/ AtHome
         /\ ~Running => BootStack'
<1> DEFINE e == EntryStack
           w == EntryFrames(fn)
<1> USE PidFacts
<1>1. /\ e \in Pids /\ w \in Seq(Frames)
      /\ Shaped(w) /\ (Running => Started(w))
      /\ Last(w) = [fn |-> fn, pid |-> curr_pid]
      /\ Len(w) <= MaxDepth + 1
      /\ cpu = User => Running /\ e = curr_pid
      /\ cpu # User => e = cpu /\ w = Append(stacks[cpu], Frame(fn))
      /\ \A t \in Terms : Suspended(t) /\ own[cur_pid[t]].stk = e
           => IsPrefix(own[cur_pid[t]].frames, w)
      /\ \A p \in Live \ Terms : parent_pid[p] = e => IsPrefix(ExecCall(p), w)
  BY Entry
<1>2. stacks' = [stacks EXCEPT ![e] = w] /\ cpu' = e
  BY DEF Enter
<1> HIDE DEF e, w
<1>3. Len(w) <= MaxDepth + 2
  BY <1>1
<1>4. Typed' /\ SavedCorrect' /\ OwnCorrect'
  <2>1. /\ cpu' \in Pids \cup {User}
        /\ saved' \in [Pids -> Pointers]
        /\ \A p \in Live \ Terms : saved'[p] = saved[p]
    BY <1>1, <1>2 DEF CInv, Typed
  <2> QED
    BY <1>1, <1>2, <1>3, <2>1, StackStep
<1>5. stacks'[e] = w
  BY <1>1, <1>2 DEF CInv, Typed
<1>6. UNCHANGED <<process_array, parent_pid, terminal_number>>
  BY DEF table
<1>7. Live' = Live /\ Running' = Running
  BY <1>6 DEF Live, Running
<1>8. AtHome' <=> cpu = User \/ AtHome
  BY <1>1, <1>2, <1>6, <1>7 DEF AtHome
<1>9. ASSUME cpu # User
      PROVE  /\ Len(w) = Len(stacks[cpu]) + 1
             /\ \A i \in 1 .. Len(stacks[cpu]) : w[i] = stacks[cpu][i]
             /\ w[Len(stacks[cpu]) + 1] = Frame(fn)
             /\ stacks[cpu] \in Seq(Frames) /\ Len(stacks[cpu]) > 0
  <2>1. stacks[cpu] \in Seq(Frames) /\ Shaped(stacks[cpu])
    BY <1>9 DEF CInv, Typed, CpuCorrect
  <2>2. Frame(fn) \in Frames
    BY DEF Frame, Frames, CInv, IInv, TypeOK
  <2> QED
    BY <1>1, <1>9, <2>1, <2>2, AppendFacts DEF Shaped
<1>10. ASSUME cpu # User, Guest PROVE Guest'
  <2> DEFINE host == curr_pid - 1
             base == Len(own[host].frames)
  <2>1. /\ cpu = host /\ host \in Terms /\ curr_pid \in Terms /\ Running
        /\ cur_pid[host] = host /\ own[host].stk = host
        /\ Len(stacks[host]) > base
        /\ stacks[host][base + 1] = [fn |-> "exec", pid |-> curr_pid]
        /\ \A i \in base + 2 .. Len(stacks[host]) :
             stacks[host][i].fn \in {"pit", "kbd"}
    BY <1>10 DEF Guest
  <2>2. base \in Nat
    BY <1>10, GuestFacts
  <2>3. stacks'[host] = w /\ cpu' = host
    BY <1>1, <1>2, <1>5, <1>10, <2>1
  <2> DEFINE s == stacks[host]
  <2>4. /\ Len(s) \in Nat /\ Len(w) = Len(s) + 1 /\ w[Len(s) + 1] = Frame(fn)
        /\ \A i \in 1 .. Len(s) : w[i] = s[i]
    BY <1>9, <1>10, <2>1
  <2>5. Frame(fn).fn \in {"pit", "kbd"}
    BY <1>10, <2>1 DEF Frame
  <2>6. /\ Len(s) > base /\ s[base + 1] = [fn |-> "exec", pid |-> curr_pid]
        /\ \A i \in base + 2 .. Len(s) : s[i].fn \in {"pit", "kbd"}
    BY <2>1
  <2> HIDE DEF s, base
  <2>7. base + 1 \in 1 .. Len(s)
    BY <2>2, <2>4, <2>6
  <2>8. Len(w) > base /\ w[base + 1] = [fn |-> "exec", pid |-> curr_pid]
    BY <2>2, <2>4, <2>6, <2>7
  <2>9. ASSUME NEW i \in base + 2 .. Len(w) PROVE w[i].fn \in {"pit", "kbd"}
    <3>1. (i \in base + 2 .. Len(s) /\ i \in 1 .. Len(s)) \/ i = Len(s) + 1
      BY <2>2, <2>4
    <3> QED
      BY <3>1, <2>4, <2>5, <2>6
  <2> QED
    BY <2>1, <2>3, <2>8, <2>9, <1>7 DEF Guest, base
<1>11. CpuCorrect'
  <2>1. AtHome' \/ Guest'
    BY <1>8, <1>10 DEF CInv, CpuCorrect
  <2> QED
    BY <1>1, <1>2, <1>5, <1>7, <2>1 DEF CpuCorrect
<1>12. ASSUME ~Running PROVE BootStack'
  <2> DEFINE s == stacks[0]
  <2>1. /\ cpu = 0 /\ cpu # User /\ curr_pid = 0 /\ s[1].fn = "idle"
        /\ \A i \in 1 .. Len(s) : s[i].fn # "exec"
    BY <1>12 DEF CInv, BootCorrectly, BootStack
  <2>2. stacks'[0] = w /\ cpu' = 0
    BY <1>1, <1>2, <1>5, <2>1
  <2>3. /\ Len(w) = Len(s) + 1 /\ Len(s) \in Nat /\ Len(s) > 0
        /\ \A i \in 1 .. Len(s) : w[i] = s[i]
        /\ w[Len(s) + 1] = Frame(fn) /\ Frame(fn).fn # "exec"
    <3>1. Frame(fn).fn # "exec"
      BY DEF Frame
    <3>2. /\ Len(w) = Len(s) + 1 /\ s \in Seq(Frames) /\ Len(s) > 0
          /\ \A i \in 1 .. Len(s) : w[i] = s[i]
          /\ w[Len(s) + 1] = Frame(fn)
      <4>1. stacks[cpu] = s
        BY <2>1
      <4> QED
        BY ONLY <1>9, <2>1, <4>1
    <3> HIDE DEF s
    <3>3. Len(s) \in Nat
      BY ONLY <3>2
    <3> QED
      BY <3>1, <3>2, <3>3
  <2> HIDE DEF s
  <2>4. w[1].fn = "idle" /\ \A i \in 1 .. Len(w) : w[i].fn # "exec"
    BY <2>1, <2>3
  <2> QED
    BY <1>1, <2>1, <2>2, <2>4 DEF BootStack
<1> QED
  BY <1>1, <1>2, <1>4, <1>8, <1>11, <1>12

(* A handler or a system call returns.                                     *)
LEMMA LeaveKeeps ==
  ASSUME CInv, cpu # User, Last(stacks[cpu]).fn \in {"syscall", "pit", "kbd"}, Leave,
         UNCHANGED <<table, cur_pid, curr_pid, shell_tid, own, saved, window_ticks>>,
         in_service' \in BOOLEAN
  PROVE  /\ Typed' /\ SavedCorrect' /\ OwnCorrect' /\ CpuCorrect'
         /\ WindowCorrect' /\ BootCorrectly'
<1> DEFINE s == stacks[cpu]
           w == Front(s)
<1> USE PidFacts
<1>1. /\ cpu \in Pids /\ s \in Seq(Frames) /\ s # <<>>
      /\ Len(s) \in Nat /\ Len(s) > 0 /\ (Len(s) = 1 \/ Len(s) > 1)
      /\ Len(s) <= MaxDepth + 2
      /\ Shaped(s) /\ (Running => Started(s)) /\ Last(s).pid = curr_pid
      /\ AtHome \/ Guest
      /\ Last(s) = s[Len(s)]
  <2>1. cpu \in Pids /\ s \in Seq(Frames) /\ Len(s) <= MaxDepth + 2
    BY DEF CInv, Typed
  <2>2. /\ Shaped(s) /\ (Running => Started(s)) /\ Last(s).pid = curr_pid
        /\ AtHome \/ Guest
    BY DEF CInv, CpuCorrect
  <2>3. s # <<>> /\ Last(s) = s[Len(s)]
    BY <2>2 DEF Shaped, Last
  <2> HIDE DEF s
  <2>4. Len(s) \in Nat /\ Len(s) > 0
    BY <2>1, <2>3
  <2>5. \A n \in Nat : n > 0 => n = 1 \/ n > 1
    OBVIOUS
  <2> QED
    BY <2>1, <2>2, <2>3, <2>4, <2>5
<1>2. /\ w \in Seq(Frames) /\ Len(w) = Len(s) - 1
      /\ \A i \in 1 .. Len(s) - 1 : w[i] = s[i]
  BY <1>1, FrontFacts
<1>3. stacks' = [stacks EXCEPT ![cpu] = w]
      /\ cpu' = IF Len(s) = 1 THEN User ELSE cpu
  BY DEF Leave
<1>4. stacks'[cpu] = w
  BY <1>1, <1>3 DEF CInv, Typed
<1>5. UNCHANGED <<process_array, parent_pid, terminal_number>>
  BY DEF table
<1>6. Live' = Live /\ Running' = Running /\ Booting' = Booting
  BY <1>5 DEF Live, Running, Booting
<1>7. s[Len(s)].fn \notin {"exec", "idle", "start"}
  BY <1>1
<1>8. \A t \in Terms : Suspended(t) => Running
  BY OwnStacks DEF CInv, Running
<1> HIDE DEF s, w
<1>9. ASSUME NEW t \in Terms, Suspended(t), own[cur_pid[t]].stk = cpu
      PROVE  /\ Guest
             /\ IsPrefix(own[cur_pid[t]].frames, w)
  <2>1. cpu # curr_pid /\ cpu # parent_pid[curr_pid]
    BY <1>8, <1>9, OwnApart DEF CInv
  <2>2. Guest
    BY <2>1, <1>1 DEF AtHome
  <2> DEFINE host == curr_pid - 1
             base == Len(own[host].frames)
  <2>3. /\ t = host /\ cpu = host /\ cur_pid[t] = host
        /\ own[host].frames \in Seq(Frames)
        /\ IsPrefix(own[host].frames, s)
    BY <1>9, <2>2, GuestFacts DEF s
  <2>4. Len(s) > base /\ s[base + 1].fn = "exec"
    BY <2>2, <2>3 DEF Guest, s
  <2>5. base < Len(s) - 1 \/ base = Len(s) - 1
    BY <2>3, <2>4, <1>1
  <2>6. base # Len(s) - 1
    BY <2>4, <1>1, <1>7
  <2> QED
    BY <2>2, <2>3, <2>5, <2>6, <1>1, PrefixFacts DEF w
<1>10. ASSUME NEW p \in Live \ Terms, parent_pid[p] = cpu
       PROVE  IsPrefix(ExecCall(p), w) /\ Len(s) > 2
  <2>1. Running
    BY DEF Running
  <2>2. AtHome
    BY <1>1, <1>10, GuestFacts
  <2>3. IsPrefix(ExecCall(p), s)
    BY <1>10 DEF CInv, SavedCorrect, s
  <2>4. /\ ExecCall(p) \in Seq(Frames) /\ Len(ExecCall(p)) = 2
        /\ ExecCall(p)[2] = [fn |-> "exec", pid |-> p]
    BY ExecCallType DEF CInv
  <2>5. Len(s) >= 2 /\ s[2].fn = "exec"
    BY <1>1, <2>3, <2>4, PrefixByIndex
  <2>6. Len(s) > 2
    BY <1>1, <1>7, <2>5
  <2> QED
    BY <1>1, <2>3, <2>4, <2>6, PrefixFacts DEF w
<1>11. Typed' /\ SavedCorrect' /\ OwnCorrect'
  <2>1. Len(w) <= MaxDepth + 2
    BY <1>1, <1>2
  <2>2. /\ window_ticks' \in [Pids -> 0 .. MaxTicksPerWindow]
        /\ cpu' \in Pids \cup {User}
        /\ saved' \in [Pids -> Pointers]
        /\ \A p \in Live \ Terms : saved'[p] = saved[p]
    BY <1>3 DEF CInv, Typed
  <2> QED
    BY <1>1, <1>2, <1>3, <1>9, <1>10, <2>1, <2>2, StackStep
<1>12. AtHome /\ cpu' # User => AtHome'
  BY <1>3, <1>5, <1>6 DEF AtHome
<1>13. ASSUME Guest, cpu' # User PROVE Guest'
  <2> DEFINE host == curr_pid - 1
             base == Len(own[host].frames)
  <2>1. /\ cpu = host /\ host \in Terms /\ curr_pid \in Terms /\ Running
        /\ cur_pid[host] = host /\ own[host].stk = host
        /\ Len(s) > base
        /\ s[base + 1] = [fn |-> "exec", pid |-> curr_pid]
        /\ \A i \in base + 2 .. Len(s) : s[i].fn \in {"pit", "kbd"}
    BY <1>13 DEF Guest, s
  <2>2. base \in Nat /\ Suspended(host) /\ own[cur_pid[host]].stk = cpu
    BY <1>13, GuestFacts
  <2>3. stacks'[host] = w /\ cpu' = host
    BY <2>1, <1>3, <1>4, <1>13
  <2>4. /\ Len(s) > base /\ s[base + 1] = [fn |-> "exec", pid |-> curr_pid]
        /\ \A i \in base + 2 .. Len(s) : s[i].fn \in {"pit", "kbd"}
    BY <2>1
  <2> HIDE DEF base
  <2>5. base + 1 # Len(s)
    BY <2>4, <1>7
  <2>6. base + 1 \in 1 .. Len(s) - 1 /\ Len(w) > base
    BY <2>2, <2>4, <2>5, <1>1, <1>2
  <2>7. w[base + 1] = [fn |-> "exec", pid |-> curr_pid]
    BY <2>4, <2>6, <1>2
  <2>8. ASSUME NEW i \in base + 2 .. Len(w) PROVE w[i].fn \in {"pit", "kbd"}
    <3>1. i \in base + 2 .. Len(s) /\ i \in 1 .. Len(s) - 1
      BY <2>2, <1>1, <1>2
    <3> QED
      BY <3>1, <2>4, <1>2
  <2> QED
    BY <2>1, <2>3, <2>6, <2>7, <2>8, <1>6 DEF Guest, base
<1>14. CpuCorrect'
  <2> SUFFICES ASSUME cpu' # User PROVE CpuCorrect'
    BY DEF CpuCorrect
  <2>1. ~(Len(s) = 1) /\ cpu' = cpu
    BY <1>3
  <2>2. Len(s) > 1
    BY <2>1, <1>1, Zenon
  <2>3. Shaped(w) /\ (Running => Started(w)) /\ Last(w).pid = curr_pid
    BY <2>2, <1>1, <1>7, ShapedFront DEF w
  <2> QED
    BY <2>1, <2>3, <1>1, <1>4, <1>6, <1>12, <1>13 DEF CpuCorrect
<1>15. WindowCorrect'
  BY <1>3, <1>12 DEF CInv, WindowCorrect
<1>16. BootCorrectly'
  <2>1. ASSUME ~Running PROVE BootStack'
    <3>1. /\ cpu = 0 /\ curr_pid = 0 /\ s[1].fn = "idle" /\ Len(s) <= MaxDepth + 1
          /\ \A i \in 1 .. Len(s) : s[i].fn # "exec"
      BY <2>1 DEF CInv, BootCorrectly, BootStack, s
    <3>2. Len(s) > 1
      BY <3>1, <1>1, <1>7
    <3>3. /\ w[1] = s[1] /\ Len(w) <= MaxDepth + 1
          /\ \A i \in 1 .. Len(w) : w[i].fn # "exec"
      BY <3>1, <3>2, <1>1, <1>2
    <3>4. ~(Len(s) = 1)
      BY <3>2, <1>1
    <3>5. cpu' = 0
      BY <3>1, <3>4, <1>3, Zenon
    <3>6. stacks'[0] = w
      BY <3>1, <1>4
    <3> QED
      BY <3>1, <3>3, <3>5, <3>6 DEF BootStack
  <2> QED
    BY <2>1, <1>6 DEF CInv, BootCorrectly
<1> QED
  BY <1>11, <1>14, <1>15, <1>16

-----------------------------------------------------------------------------
(* The steps that leave the process table alone.                           *)

Kept == /\ Typed /\ SavedCorrect /\ OwnCorrect /\ CpuCorrect
        /\ WindowCorrect /\ BootCorrectly

LEMMA SyscallKeeps ==
  ASSUME CInv, Syscall
  PROVE  Kept'
<1>1. /\ cpu = User /\ Enter("syscall") /\ InterruptsNest
      /\ UNCHANGED <<vars, own, saved, window_ticks, in_service>>
  BY DEF Syscall, InterruptsNest
<1>2. UNCHANGED <<table, cur_pid, curr_pid, shell_tid>>
  BY <1>1 DEF vars
<1>3. /\ Typed' /\ SavedCorrect' /\ OwnCorrect' /\ CpuCorrect'
      /\ AtHome'
      /\ ~Running => BootStack'
  BY <1>1, <1>2, EnterKeeps DEF CInv, Typed
<1>4. Live' = Live /\ Running' = Running /\ Booting' = Booting
  BY <1>2 DEF Live, Running, Booting, table
<1> QED
  BY <1>2, <1>3, <1>4 DEF Kept, WindowCorrect, BootCorrectly, CInv

(* Before the first shell there is no execute to come from.                *)
LEMMA ExecRuns ==
  ASSUME CInv, cpu # User, Last(stacks[cpu]).fn = "exec"
  PROVE  Running
<1> SUFFICES ASSUME ~Running PROVE FALSE
  OBVIOUS
<1>1. cpu = 0 /\ \A i \in 1 .. Len(stacks[0]) : stacks[0][i].fn # "exec"
  BY DEF CInv, BootCorrectly, BootStack
<1>2. stacks[0] \in Seq(Frames) /\ stacks[0] # <<>>
  BY <1>1, PidFacts DEF CInv, Typed, CpuCorrect, Shaped
<1>3. Len(stacks[0]) \in 1 .. Len(stacks[0])
  BY <1>2
<1> QED
  BY <1>1, <1>3 DEF Last

LEMMA EnterProgramKeeps ==
  ASSUME CInv, EnterProgram
  PROVE  Kept'
<1> USE PidFacts
<1>1. /\ cpu # User /\ cpu' = User
      /\ window_ticks' = [window_ticks EXCEPT ![curr_pid] = 0]
      /\ UNCHANGED <<vars, stacks, own, saved, in_service>>
      /\ Last(stacks[cpu]).fn = "exec"
  BY DEF EnterProgram, At, Top
<1>2. UNCHANGED <<process_array, parent_pid, terminal_number, cur_pid, curr_pid, shell_tid>>
  BY <1>1 DEF vars, table
<1>3. Live' = Live /\ Running' = Running /\ Booting' = Booting
  BY <1>2 DEF Live, Running, Booting
<1>4. curr_pid \in Pids
  BY DEF CInv, IInv, TypeOK
<1>5. Typed'
  BY <1>1, <1>4 DEF CInv, Typed
<1>6. SavedCorrect' /\ OwnCorrect'
  BY <1>1, <1>2, <1>3
     DEF CInv, SavedCorrect, OwnCorrect, Resumable, Suspended, ExecCall
<1>7. CpuCorrect' /\ WindowCorrect'
  BY <1>1 DEF CpuCorrect, WindowCorrect
<1>8. Running
  BY <1>1, ExecRuns
<1>9. BootCorrectly'
  BY <1>2, <1>3, <1>8 DEF CInv, BootCorrectly
<1> QED
  BY <1>5, <1>6, <1>7, <1>9 DEF Kept

LEMMA ReturnKeeps ==
  ASSUME CInv, SyscallReturn \/ PitReturn \/ KeyReturn
  PROVE  Kept'
<1>1. /\ cpu # User /\ Last(stacks[cpu]).fn \in {"syscall", "pit", "kbd"} /\ Leave
      /\ UNCHANGED <<vars, own, saved, window_ticks>>
      /\ in_service' \in BOOLEAN
  BY DEF SyscallReturn, PitReturn, KeyReturn, At, Top, CInv, Typed
<1>2. UNCHANGED <<table, cur_pid, curr_pid, shell_tid, own, saved, window_ticks>>
  BY <1>1 DEF vars
<1> QED
  BY <1>1, <1>2, LeaveKeeps DEF Kept

LEMMA KeyKeeps ==
  ASSUME CInv, Key
  PROVE  Kept'
<1>1. /\ Enter("kbd") /\ InterruptsNest /\ in_service' \in BOOLEAN
      /\ UNCHANGED <<vars, own, saved, window_ticks>>
  BY DEF Key
<1>2. UNCHANGED <<table, cur_pid, curr_pid, shell_tid>>
  BY <1>1 DEF vars
<1>3. /\ Typed' /\ SavedCorrect' /\ OwnCorrect' /\ CpuCorrect'
      /\ AtHome' <=> cpu = User \/ AtHome
      /\ ~Running => BootStack'
  BY <1>1, <1>2, EnterKeeps DEF CInv, Typed
<1>4. Live' = Live /\ Running' = Running /\ Booting' = Booting
  BY <1>2 DEF Live, Running, Booting, table
<1> QED
  BY <1>1, <1>2, <1>3, <1>4 DEF Kept, WindowCorrect, BootCorrectly, CInv

LEMMA TickFirstKeeps ==
  ASSUME CInv, TickFirst
  PROVE  Kept'
<1> USE PidFacts
<1>1. /\ Enter("start") /\ InterruptsNest
      /\ Booting /\ shell_tid = 0 /\ cur_pid[0] = NoPid
      /\ UNCHANGED <<vars, own, saved, window_ticks, in_service>>
  BY DEF TickFirst, TickAllowed
<1>2. UNCHANGED <<table, cur_pid, curr_pid, shell_tid>>
  BY <1>1 DEF vars
<1>3. ~Running
  BY <1>1, Numbers DEF CInv, IInv, BootOrder, Running, Live
<1>4. /\ Typed' /\ SavedCorrect' /\ OwnCorrect' /\ CpuCorrect' /\ BootStack'
  BY <1>1, <1>2, <1>3, EnterKeeps DEF CInv, Typed
<1>5. Live' = Live /\ Running' = Running /\ Booting' = Booting
  BY <1>2 DEF Live, Running, Booting, table
<1>6. AtHome'
  BY <1>4 DEF BootStack, AtHome
<1> QED
  BY <1>1, <1>2, <1>4, <1>5, <1>6 DEF Kept, WindowCorrect, BootCorrectly, CInv

(* The tick a guest has room for.                                          *)
LEMMA GuestWindow ==
  ASSUME CInv, Guest
  PROVE  curr_pid \in Windows
<1> DEFINE host == curr_pid - 1
           base == Len(own[host].frames)
<1>1. /\ cpu = host /\ host \in Pids /\ base \in Nat /\ Len(stacks[host]) > base
      /\ stacks[host][base + 1] = [fn |-> "exec", pid |-> curr_pid]
  BY GuestFacts DEF Guest
<1>2. stacks[host] \in Seq(Frames) /\ cpu # User
  BY <1>1, PidFacts DEF CInv, Typed
<1> HIDE DEF base
<1>3. base + 1 \in DOMAIN stacks[host]
  BY <1>1, <1>2
<1>4. [fn |-> "exec", pid |-> curr_pid] \in ToSet(stacks[cpu])
  BY <1>1, <1>3 DEF ToSet
<1> QED
  BY <1>2, <1>4 DEF Windows

LEMMA CountTickType ==
  ASSUME CInv, TickAllowed, CountTick
  PROVE  /\ window_ticks' \in [Pids -> 0 .. MaxTicksPerWindow]
         /\ \A p \in Windows : window_ticks'[p] >= 1
<1>1. Windows \subseteq Pids
  <2> SUFFICES ASSUME NEW p \in Windows PROVE p \in Pids
    OBVIOUS
  <2>1. /\ cpu # User
        /\ \E i \in DOMAIN stacks[cpu] : p = stacks[cpu][i].pid
    BY DEF Windows, ToSet
  <2>2. stacks[cpu] \in Seq(Frames)
    BY <2>1 DEF CInv, Typed
  <2>3. \A i \in DOMAIN stacks[cpu] : stacks[cpu][i] \in Frames
    BY <2>2
  <2> QED
    BY <2>1, <2>3 DEF Frames
<1>2. \A p \in Pids : window_ticks[p] \in 0 .. MaxTicksPerWindow
  BY DEF CInv, Typed
<1>3. \A p \in Windows : window_ticks[p] < MaxTicksPerWindow
  BY DEF TickAllowed
<1>4. window_ticks' = [p \in Pids |-> window_ticks[p] + (IF p \in Windows THEN 1 ELSE 0)]
  BY DEF CountTick
<1>5. \A p \in Pids : window_ticks[p] + (IF p \in Windows THEN 1 ELSE 0)
                        \in 0 .. MaxTicksPerWindow
  BY <1>2, <1>3, PidFacts
<1> QED
  BY <1>1, <1>2, <1>4, <1>5

LEMMA TickNextShellKeeps ==
  ASSUME CInv, MaxTicksPerWindow <= 1, TickNextShell
  PROVE  Kept'
<1> USE PidFacts
<1>1. /\ Enter("pit") /\ InterruptsNest /\ CountTick /\ TickAllowed
      /\ Booting /\ shell_tid' = shell_tid + 1
      /\ UNCHANGED <<table, cur_pid, curr_pid, own, saved, in_service>>
  BY DEF TickNextShell, TickAllowed, PitNextShell
<1>2. /\ window_ticks' \in [Pids -> 0 .. MaxTicksPerWindow]
      /\ \A p \in Windows : window_ticks'[p] >= 1
  BY <1>1, CountTickType
<1>3. /\ Typed' /\ SavedCorrect' /\ OwnCorrect' /\ CpuCorrect'
      /\ AtHome' <=> cpu = User \/ AtHome
      /\ ~Running => BootStack'
  BY <1>1, <1>2, EnterKeeps DEF CInv, Typed
<1>4. Live' = Live /\ Running' = Running
  BY <1>1 DEF Live, Running, table
<1>5. WindowCorrect'
  <2> SUFFICES ASSUME ~AtHome'
               PROVE  shell_tid' = curr_pid + 1 /\ window_ticks'[curr_pid] >= 1
    BY <1>1 DEF WindowCorrect
  <2>1. cpu # User /\ ~AtHome
    BY <1>3
  <2>2. curr_pid \in Windows
    BY <2>1, GuestWindow DEF CInv, CpuCorrect
  <2>3. \/ shell_tid = curr_pid
        \/ shell_tid = curr_pid + 1 /\ window_ticks[curr_pid] >= 1
    BY <2>1 DEF CInv, WindowCorrect
  <2>4. curr_pid \in Pids
    BY DEF CInv, IInv, TypeOK
  <2>5. ~(window_ticks[curr_pid] >= 1)
    BY <1>1, <2>2, <2>4 DEF TickAllowed, CInv, Typed
  <2> QED
    BY <1>1, <1>2, <2>2, <2>3, <2>5
<1>6. BootCorrectly'
  BY <1>1, <1>3, <1>4 DEF BootCorrectly, CInv
<1> QED
  BY <1>3, <1>5, <1>6 DEF Kept

-----------------------------------------------------------------------------
(* What execute, halt and the scheduler do to the process table.           *)

LEMMA ExecuteFacts ==
  ASSUME IInv, ~EarlyInput, Execute
  PROVE  /\ Running /\ ~Booting /\ ~Booting'
         /\ curr_pid' \in Pids /\ curr_pid' \notin Live /\ curr_pid' \notin Terms
         /\ Live' = Live \cup {curr_pid'}
         /\ parent_pid'[curr_pid'] = curr_pid /\ curr_pid \in Live
         /\ \A p \in Live : parent_pid'[p] = parent_pid[p]
         /\ \A u \in Terms :
              cur_pid'[u] = IF u = active_tid THEN curr_pid' ELSE cur_pid[u]
<1> USE Numbers
<1>1. PICK new \in Pids : Launch(new)
  BY DEF Execute
<1>2. UserRuns /\ shell_tid' = shell_tid
  BY DEF Execute
<1>3. /\ ~Booting /\ Running
      /\ curr_pid \in Live /\ terminal_number[curr_pid] = active_tid
  BY <1>2, UserFacts DEF UserRuns
<1>4. Terms \subseteq Live
  BY <1>3 DEF IInv, BootOrder
<1>5. new \notin Live /\ new \notin Terms /\ new # 0
  BY <1>1, <1>4, SMT DEF Launch, FirstFree, Live, Terms
<1>6. /\ process_array' = [process_array EXCEPT ![new] = 1]
      /\ curr_pid' = new
      /\ cur_pid' = [u \in Terms |-> IF u = active_tid THEN new ELSE cur_pid[u]]
      /\ parent_pid' = [parent_pid EXCEPT ![new] = curr_pid]
  BY <1>1, <1>3, <1>5 DEF Launch, SetForeground, BoundParent
<1>7. Live' = Live \cup {new} /\ Live \subseteq Pids
  BY <1>6 DEF Live, IInv, TypeOK
<1>8. \A p \in Live : parent_pid'[p] = parent_pid[p]
  BY <1>5, <1>6, <1>7 DEF IInv, TypeOK
<1>9. parent_pid'[new] = curr_pid
  BY <1>6 DEF IInv, TypeOK
<1>10. ~Booting'
  BY <1>2, <1>3 DEF Booting
<1> QED
  BY <1>3, <1>5, <1>6, <1>7, <1>8, <1>9, <1>10

(* A restarted shell gets back the PCB it had.                             *)
LEMMA HaltShellFacts ==
  ASSUME IInv, ~EarlyInput, HaltShell
  PROVE  /\ Running /\ curr_pid \in Terms /\ curr_pid \in Live
         /\ UNCHANGED <<process_array, parent_pid, terminal_number, cur_pid,
                        curr_pid, shell_tid>>
         /\ parent_pid'[curr_pid] = curr_pid
<1> USE Numbers
<1>1. UserRuns /\ curr_pid = curr_parent_pid /\ curr_pid \in Terms
  BY DEF HaltShell
<1>2. /\ curr_pid \in Live
      /\ curr_pid = cur_pid[active_tid]
      /\ terminal_number[curr_pid] = active_tid
      /\ parent_pid[curr_pid] = curr_pid
  BY <1>1, UserFacts
<1>3. active_tid = curr_pid
  BY <1>1, <1>2 DEF IInv, RootsAreShells
<1>4. /\ process_array' = process_array
      /\ parent_pid' = parent_pid
      /\ terminal_number' = terminal_number
  BY <1>2, <1>3 DEF HaltShell, BoundParent, Live, IInv, TypeOK
<1>5. cur_pid' = cur_pid
  BY <1>2, <1>3 DEF HaltShell, SetForeground, IInv, TypeOK
<1>6. UNCHANGED <<curr_pid, shell_tid>> /\ Running
  BY <1>1 DEF HaltShell, UserRuns
<1> QED
  BY <1>1, <1>2, <1>4, <1>5, <1>6

LEMMA HaltChildFacts ==
  ASSUME IInv, ~EarlyInput, HaltChild
  PROVE  /\ Running /\ ~Booting /\ ~Booting'
         /\ curr_pid \in Live \ Terms
         /\ curr_pid' = parent_pid[curr_pid] /\ curr_pid' # curr_pid
         /\ curr_pid' \in Live'
         /\ Live' = Live \ {curr_pid}
         /\ \A p \in Live' : parent_pid'[p] = parent_pid[p]
         /\ \A u \in Terms :
              cur_pid'[u] = IF u = active_tid THEN curr_pid' ELSE cur_pid[u]
<1> USE Numbers
<1> DEFINE child == curr_pid
           parent == curr_parent_pid
<1>1. UserRuns /\ child # parent /\ shell_tid' = shell_tid
  BY DEF HaltChild
<1>2. /\ ~Booting /\ Running
      /\ child \in Live /\ terminal_number[child] = active_tid
      /\ parent = parent_pid[child]
      /\ parent \in Live /\ terminal_number[parent] = active_tid
  BY <1>1, UserFacts DEF UserRuns
<1>3. child \notin Terms
  BY <1>1, <1>2 DEF IInv, RootsAreShells
<1>4. /\ process_array' = [process_array EXCEPT ![child] = 0]
      /\ parent_pid' = [parent_pid EXCEPT ![child] = 0]
      /\ terminal_number' = [terminal_number EXCEPT ![child] = NoTerm]
      /\ curr_pid' = parent
  BY DEF HaltChild
<1>5. Live' = Live \ {child} /\ Live \subseteq Pids
  BY <1>4 DEF Live, IInv, TypeOK
<1>6. \A p \in Live' : /\ parent_pid'[p] = parent_pid[p]
                       /\ terminal_number'[p] = terminal_number[p]
  BY <1>4, <1>5 DEF IInv, TypeOK
<1>7. parent \in Live' /\ ~Booting'
  BY <1>1, <1>2, <1>5 DEF Booting
<1>8. cur_pid' = [u \in Terms |-> IF u = active_tid THEN parent ELSE cur_pid[u]]
  BY <1>2, <1>6, <1>7 DEF HaltChild, SetForeground
<1> QED
  BY <1>1, <1>2, <1>3, <1>4, <1>5, <1>6, <1>7, <1>8

LEMMA StartFacts ==
  ASSUME IInv, PitStartShell
  PROVE  LET new == curr_pid'
         IN /\ new = shell_tid /\ new \in Terms /\ new \in Pids /\ new \notin Live
            /\ Booting /\ shell_tid' = shell_tid
            /\ Live' = Live \cup {new}
            /\ parent_pid'[new] = new
            /\ \A p \in Live : p < new /\ parent_pid'[p] = parent_pid[p]
            /\ \A p \in Pids : p < new => p \in Live
            /\ \A u \in Terms : cur_pid'[u] = IF u = new THEN new ELSE cur_pid[u]
<1> USE Numbers
<1>1. PICK new \in Pids : Launch(new)
  BY DEF PitStartShell
<1>2. /\ Booting /\ cur_pid[shell_tid] = NoPid /\ shell_tid' = shell_tid
  BY DEF PitStartShell
<1>3. \A p \in Pids : process_array[p] = 1 <=> p < shell_tid
  BY <1>2 DEF IInv, BootOrder
<1>4. shell_tid \in Pids /\ shell_tid \in Terms
  BY <1>2 DEF Booting, Terms
<1>5. new = shell_tid
  <2>1. process_array[new] = 0 /\ \A q \in Pids : q < new => process_array[q] = 1
    BY <1>1 DEF Launch, FirstFree
  <2>2. ~(new < shell_tid)
    BY <2>1, <1>3
  <2>3. ~(shell_tid < new)
    BY <2>1, <1>3, <1>4
  <2> QED
    BY <2>2, <2>3, <1>4
<1>6. /\ process_array' = [process_array EXCEPT ![new] = 1]
      /\ curr_pid' = new
      /\ cur_pid' = [u \in Terms |-> IF u = new THEN new ELSE cur_pid[u]]
      /\ parent_pid' = [parent_pid EXCEPT ![new] = new]
  BY <1>1, <1>2, <1>5 DEF Launch, SetForeground, BoundParent
<1>7. Live' = Live \cup {new} /\ Live \subseteq Pids
  BY <1>6 DEF Live, IInv, TypeOK
<1>8. new \notin Live /\ \A p \in Live : p < new
  BY <1>3, <1>4, <1>5 DEF Live
<1>9. \A p \in Live : parent_pid'[p] = parent_pid[p]
  BY <1>6, <1>7, <1>8 DEF IInv, TypeOK
<1>10. parent_pid'[new] = new
  BY <1>6 DEF IInv, TypeOK
<1>11. \A p \in Pids : p < new => p \in Live
  BY <1>3, <1>5 DEF Live
<1> QED
  BY <1>2, <1>4, <1>5, <1>6, <1>7, <1>8, <1>9, <1>10, <1>11

LEMMA SwitchFacts ==
  ASSUME IInv, PitSwitch
  PROVE  /\ ~Booting /\ ~Booting' /\ Running
         /\ UNCHANGED table /\ UNCHANGED cur_pid /\ Live' = Live
         /\ reschedule \in Terms
         /\ curr_pid' = cur_pid[reschedule] /\ curr_pid' \in Live
<1> USE Numbers
<1>1. /\ ~Booting /\ curr_pid' = cur_pid[reschedule] /\ shell_tid' = shell_tid
      /\ UNCHANGED <<table, cur_pid>>
  BY DEF PitSwitch
<1>2. reschedule \in Terms
  BY DEF reschedule, IInv, TypeOK, Terms
<1>3. Running /\ cur_pid[reschedule] # NoPid
  BY <1>1, <1>2, BootedRuns
<1>4. Live' = Live /\ ~Booting'
  BY <1>1 DEF Live, Booting, table
<1> QED
  BY <1>1, <1>2, <1>3, <1>4, ForegroundFacts

-----------------------------------------------------------------------------
(* The steps of execute and halt.                                          *)

(* A system call is alone on the stack of the running process.             *)
LEMMA AtSyscall ==
  ASSUME CInv, At("syscall")
  PROVE  /\ Running /\ cpu = curr_pid /\ curr_pid \in Pids
         /\ stacks[cpu] \in Seq(Frames) /\ Len(stacks[cpu]) = 1
         /\ stacks[cpu][1] = [fn |-> "syscall", pid |-> curr_pid]
         /\ Shaped(stacks[cpu])
<1> DEFINE s == stacks[cpu]
<1> USE PidFacts
<1>1. cpu # User /\ s[Len(s)].fn = "syscall"
  BY DEF At, Top, Last
<1>2. /\ s \in Seq(Frames) /\ Shaped(s) /\ cpu \in Pids
      /\ s[Len(s)].pid = curr_pid
      /\ (AtHome \/ Guest)
  BY <1>1 DEF CInv, Typed, CpuCorrect, Last
<1> HIDE DEF s
<1>3. Len(s) \in Nat /\ Len(s) > 0
  BY <1>2 DEF Shaped
<1>4. Len(s) = 1
  <2>1. ~(Len(s) \in 2 .. Len(s))
    BY <1>1, <1>2 DEF Shaped
  <2>2. \A n \in Nat : n > 0 /\ ~(n \in 2 .. n) => n = 1
    OBVIOUS
  <2> QED
    BY <2>1, <2>2, <1>3
<1>5. s[1] = [fn |-> "syscall", pid |-> curr_pid]
  <2>1. s[1] \in Frames /\ s[1].fn = "syscall" /\ s[1].pid = curr_pid
    BY <1>1, <1>2, <1>4
  <2> QED
    BY <2>1 DEF Frames
<1>6. Running
  BY <1>1, <1>5 DEF CInv, BootCorrectly, BootStack, s
<1>7. ~Guest
  <2> SUFFICES ASSUME Guest PROVE FALSE
    OBVIOUS
  <2>1. Len(stacks[curr_pid - 1]) > Len(own[curr_pid - 1].frames) /\ cpu = curr_pid - 1
    BY DEF Guest
  <2>2. Len(own[curr_pid - 1].frames) > 0 /\ own[curr_pid - 1].frames \in Seq(Frames)
    BY GuestFacts
  <2> QED
    BY <2>1, <2>2, <1>4 DEF s
<1>8. cpu = curr_pid
  <2> SUFFICES ASSUME cpu # curr_pid PROVE FALSE
    OBVIOUS
  <2>1. cpu = parent_pid[curr_pid] /\ curr_pid \in Live
    BY <1>2, <1>6, <1>7, RunningFacts DEF AtHome, CInv
  <2>2. curr_pid \notin Terms
    BY <2>1, ShellRoot DEF CInv
  <2>3. IsPrefix(ExecCall(curr_pid), s)
    BY <2>1, <2>2 DEF CInv, SavedCorrect, s
  <2>4. ExecCall(curr_pid) \in Seq(Frames) /\ Len(ExecCall(curr_pid)) = 2
    BY <2>1, ExecCallType DEF CInv
  <2>5. Len(s) >= 2
    BY <2>3, <2>4, <1>2, PrefixByIndex
  <2> QED
    BY <2>5, <1>4
<1> QED
  BY <1>2, <1>4, <1>5, <1>6, <1>8 DEF s

(* Nothing that another terminal or a waiting parent needs is on the stack *)
(* of the running process.                                                 *)
LEMMA OwnStackFree ==
  ASSUME CInv, Running
  PROVE  /\ \A t \in Terms : Suspended(t) => own[cur_pid[t]].stk # curr_pid
         /\ \A p \in Live \ Terms : parent_pid[p] # curr_pid
BY OwnApart, NoChild DEF CInv

LEMMA SyscallHaltShellKeeps ==
  ASSUME CInv, ~EarlyInput, SyscallHaltShell
  PROVE  Kept'
<1> USE PidFacts
<1>1. /\ At("syscall") /\ HaltShell /\ PushExec(cpu, stacks[cpu])
      /\ UNCHANGED <<own, in_service>>
  BY DEF SyscallHaltShell
<1>2. /\ Running /\ curr_pid \in Terms /\ curr_pid \in Live
      /\ UNCHANGED <<process_array, parent_pid, terminal_number, cur_pid,
                     curr_pid, shell_tid>>
      /\ parent_pid'[curr_pid] = curr_pid
  BY <1>1, HaltShellFacts DEF CInv
<1> DEFINE s == stacks[cpu]
           f == [fn |-> "exec", pid |-> curr_pid]
           w == Append(s, f)
<1>3. /\ cpu = curr_pid /\ curr_pid \in Pids /\ s \in Seq(Frames)
      /\ Len(s) = 1 /\ Shaped(s)
  BY <1>1, AtSyscall
<1>4. f \in Frames
  BY <1>3 DEF Frames
<1>5. /\ w \in Seq(Frames) /\ Len(w) = 2 /\ Last(w) = f
      /\ Shaped(w) /\ Started(w)
  <2>1. w \in Seq(Frames) /\ Len(w) = Len(s) + 1 /\ Last(w) = f
    BY <1>3, <1>4, AppendFacts
  <2>2. Shaped(w)
    BY <1>3, <1>4, ShapedAppend
  <2>3. Started(w)
    BY <1>3, <1>4, StartedAppend
  <2> QED
    BY <2>1, <2>2, <2>3, <1>3
<1>6. /\ stacks' = [stacks EXCEPT ![curr_pid] = w] /\ cpu' = curr_pid
      /\ saved' = [saved EXCEPT ![curr_pid] = NoPointer]
      /\ window_ticks' = [window_ticks EXCEPT ![curr_pid] = 0]
  BY <1>1, <1>2, <1>3 DEF PushExec
<1>7. NoPointer \in Pointers
  <2>1. <<>> \in Seq(Frames)
    OBVIOUS
  <2> QED
    BY <2>1 DEF NoPointer, Pointers
<1> HIDE DEF w
<1>8. /\ saved' \in [Pids -> Pointers]
      /\ \A p \in Live \ Terms : saved'[p] = saved[p]
      /\ window_ticks' \in [Pids -> 0 .. MaxTicksPerWindow]
      /\ cpu' \in Pids \cup {User} /\ in_service' \in BOOLEAN
      /\ Len(w) <= MaxDepth + 2
  BY <1>1, <1>2, <1>3, <1>5, <1>6, <1>7 DEF CInv, Typed
<1>9. Typed' /\ SavedCorrect' /\ OwnCorrect'
  <2>1. /\ \A t \in Terms : Suspended(t) /\ own[cur_pid[t]].stk = curr_pid
             => IsPrefix(own[cur_pid[t]].frames, w)
        /\ \A p \in Live \ Terms : parent_pid[p] = curr_pid => IsPrefix(ExecCall(p), w)
    BY <1>2, OwnStackFree
  <2>2. UNCHANGED <<table, cur_pid, curr_pid, own>>
    BY <1>1, <1>2 DEF table
  <2> QED
    BY <2>1, <2>2, <1>3, <1>5, <1>6, <1>8, StackStep
<1>10. stacks'[curr_pid] = w
  BY <1>3, <1>6 DEF CInv, Typed
<1>11. Live' = Live /\ Running' = Running /\ Booting' = Booting
  BY <1>2 DEF Live, Running, Booting
<1>12. AtHome'
  BY <1>2, <1>6 DEF AtHome
<1>13. CpuCorrect'
  BY <1>2, <1>5, <1>6, <1>10, <1>12 DEF CpuCorrect
<1>14. WindowCorrect' /\ BootCorrectly'
  BY <1>2, <1>11, <1>12 DEF WindowCorrect, BootCorrectly, CInv
<1> QED
  BY <1>9, <1>13, <1>14 DEF Kept

(* execute: saved_esp finds exactly the system call below it.              *)
LEMMA SyscallExecuteKeeps ==
  ASSUME CInv, IInv', ~EarlyInput, SyscallExecute
  PROVE  Kept'
<1> USE PidFacts
<1>0. PICK new : new = curr_pid'
  OBVIOUS
<1> DEFINE s == stacks[cpu]
           f == [fn |-> "exec", pid |-> new]
           w == Append(s, f)
<1>1. /\ At("syscall") /\ Execute /\ PushExec(cpu, s)
      /\ UNCHANGED <<own, in_service>>
  BY DEF SyscallExecute
<1>2. /\ Running /\ ~Booting /\ ~Booting'
      /\ new \in Pids /\ new \notin Live /\ new \notin Terms
      /\ Live' = Live \cup {new}
      /\ parent_pid'[new] = curr_pid /\ curr_pid \in Live
      /\ \A p \in Live : parent_pid'[p] = parent_pid[p]
      /\ \A u \in Terms :
           cur_pid'[u] = IF u = active_tid THEN new ELSE cur_pid[u]
  BY <1>0, <1>1, ExecuteFacts DEF CInv
<1>3. /\ cpu = curr_pid /\ curr_pid \in Pids /\ s \in Seq(Frames)
      /\ Len(s) = 1 /\ Shaped(s)
      /\ s[1] = [fn |-> "syscall", pid |-> curr_pid]
  BY <1>1, AtSyscall
<1>4. f \in Frames /\ f.fn = "exec" /\ new # curr_pid
  BY <1>2 DEF Frames
<1> HIDE DEF s, f
<1>5. /\ w \in Seq(Frames) /\ Len(w) = 2 /\ Last(w) = f
      /\ w[1] = s[1] /\ w[2] = f
      /\ Shaped(w) /\ Started(w)
  <2>1. /\ w \in Seq(Frames) /\ Len(w) = Len(s) + 1 /\ Last(w) = f
        /\ \A i \in 1 .. Len(s) : w[i] = s[i]
        /\ w[Len(s) + 1] = f
    BY <1>3, <1>4, AppendFacts
  <2>2. Shaped(w)
    BY <1>3, <1>4, ShapedAppend
  <2>3. Started(w)
    BY <1>3, <1>4, StartedAppend
  <2> QED
    BY <2>1, <2>2, <2>3, <1>3
<1>6. /\ stacks' = [stacks EXCEPT ![curr_pid] = w] /\ cpu' = curr_pid
      /\ saved' = [saved EXCEPT ![new] = [stk |-> curr_pid, frames |-> w]]
      /\ window_ticks' = [window_ticks EXCEPT ![new] = 0]
  BY <1>0, <1>1, <1>2, <1>3, <1>4 DEF PushExec, s, f
<1> HIDE DEF w
<1>7. /\ \A p \in Pids : stacks'[p] = IF p = curr_pid THEN w ELSE stacks[p]
      /\ \A p \in Pids : saved'[p] = IF p = new THEN [stk |-> curr_pid, frames |-> w]
                                                ELSE saved[p]
  BY <1>6 DEF CInv, Typed
<1>8. Typed'
  <2>1. stacks' \in [Pids -> Seq(Frames)]
    BY <1>3, <1>5, <1>6 DEF CInv, Typed
  <2>2. saved' \in [Pids -> Pointers]
    BY <1>2, <1>3, <1>5, <1>6 DEF CInv, Typed, Pointers
  <2>3. window_ticks' \in [Pids -> 0 .. MaxTicksPerWindow]
    BY <1>2, <1>6 DEF CInv, Typed
  <2>4. \A p \in Pids : Len(stacks'[p]) <= MaxDepth + 2
    <3>1. Len(w) <= MaxDepth + 2
      BY <1>5
    <3> QED
      BY <3>1, <1>7 DEF CInv, Typed
  <2> QED
    BY <2>1, <2>2, <2>3, <2>4, <1>1, <1>3, <1>6 DEF CInv, Typed
<1>9. \A p \in Live : ExecCall(p)' = ExecCall(p) /\ p # new
  BY <1>2 DEF ExecCall
<1>10. ExecCall(new)' = w
  <2> DEFINE c == ExecCall(new)'
  <2>1. c = << [fn |-> "syscall", pid |-> curr_pid], f >>
    BY <1>2 DEF ExecCall, f
  <2> HIDE DEF c
  <2>2. w = <<w[1], w[2]>>
    BY <1>5
  <2> QED
    BY <2>1, <2>2, <1>3, <1>5 DEF c
<1>11. SavedCorrect'
  <2> SUFFICES ASSUME NEW p \in Live' \ Terms
               PROVE  /\ saved'[p] = [stk |-> parent_pid'[p], frames |-> ExecCall(p)']
                      /\ IsPrefix(ExecCall(p)', stacks'[parent_pid'[p]])
    BY DEF SavedCorrect
  <2>1. CASE p = new
    <3>1. IsPrefix(w, w)
      BY <1>5, PrefixFacts
    <3> QED
      BY <2>1, <3>1, <1>2, <1>3, <1>7, <1>10
  <2>2. CASE p \in Live
    <3>1. parent_pid[p] # curr_pid /\ parent_pid[p] \in Pids
      BY <2>2, <1>2, OwnStackFree DEF CInv, IInv, TypeOK
    <3>2. /\ saved[p] = [stk |-> parent_pid[p], frames |-> ExecCall(p)]
          /\ IsPrefix(ExecCall(p), stacks[parent_pid[p]])
      BY <2>2 DEF CInv, SavedCorrect
    <3>3. saved'[p] = saved[p] /\ stacks'[parent_pid[p]] = stacks[parent_pid[p]]
      BY <2>2, <3>1, <1>7, <1>9
    <3> QED
      BY <2>2, <3>2, <3>3, <1>2, <1>9
  <2> QED
    BY <2>1, <2>2, <1>2
<1>12. OwnCorrect'
  <2> SUFFICES ASSUME NEW t \in Terms, NEW p, p = cur_pid'[t], p # NoPid, p # new
               PROVE  Resumable(p)'
    BY <1>0, OwnPrimed
  <2>1. t # active_tid /\ p = cur_pid[t]
    BY <1>2
  <2>2. Suspended(t)
    BY <2>1, <1>2, ForegroundFacts, RunningFacts DEF Suspended, CInv
  <2>3. p \in Live /\ own[p].stk \in Pids /\ own[p].stk # curr_pid
    BY <2>1, <2>2, <1>2, OwnStacks, OwnStackFree DEF CInv
  <2>4. stacks'[own[p].stk] = stacks[own[p].stk]
    BY <2>3, <1>7
  <2>5. ExecCall(p)' = ExecCall(p) /\ parent_pid'[p] = parent_pid[p]
    BY <2>3, <1>2, <1>9
  <2>6. Resumable(p)
    BY <2>1, <2>2 DEF CInv, OwnCorrect
  <2> QED
    BY <2>4, <2>5, <2>6, <1>1 DEF Resumable
<1>13. Running' /\ AtHome'
  BY <1>0, <1>2, <1>6 DEF Running, AtHome
<1>14. CpuCorrect'
  BY <1>0, <1>3, <1>5, <1>6, <1>7, <1>13 DEF CpuCorrect, f
<1>15. WindowCorrect' /\ BootCorrectly'
  BY <1>2, <1>13 DEF WindowCorrect, BootCorrectly
<1> QED
  BY <1>8, <1>11, <1>12, <1>14, <1>15 DEF Kept

(* halt: saved_esp still finds the system call of the parent, which goes   *)
(* on as the return of its execute.                                        *)
LEMMA SyscallHaltChildKeeps ==
  ASSUME CInv, IInv', ~EarlyInput, SyscallHaltChild
  PROVE  Kept'
<1> USE PidFacts
<1>0. PICK parent : parent = curr_pid'
  OBVIOUS
<1> DEFINE child == curr_pid
           call == ExecCall(child)
           w == Front(call)
<1>1. /\ At("syscall") /\ HaltChild
      /\ stacks' = [stacks EXCEPT ![child] = <<>>,
                                  ![saved[child].stk] = Front(saved[child].frames)]
      /\ cpu' = saved[child].stk
      /\ saved' = [saved EXCEPT ![child] = NoPointer]
      /\ UNCHANGED <<own, window_ticks, in_service>>
  BY DEF SyscallHaltChild
<1>2. /\ Running /\ ~Booting /\ ~Booting'
      /\ child \in Live \ Terms
      /\ parent = parent_pid[child] /\ parent # child
      /\ parent \in Live'
      /\ Live' = Live \ {child}
      /\ \A p \in Live' : parent_pid'[p] = parent_pid[p]
      /\ \A u \in Terms :
           cur_pid'[u] = IF u = active_tid THEN parent ELSE cur_pid[u]
  BY <1>0, <1>1, HaltChildFacts DEF CInv
<1>3. saved[child] = [stk |-> parent, frames |-> call]
  BY <1>2 DEF CInv, SavedCorrect
<1>4. /\ call \in Seq(Frames) /\ Len(call) = 2
      /\ call[1] = [fn |-> "syscall", pid |-> parent]
  BY <1>2, ExecCallType DEF CInv
<1> HIDE DEF call
<1>5. w \in Seq(Frames) /\ Len(w) = 1 /\ w[1] = [fn |-> "syscall", pid |-> parent]
  <2>1. call # <<>>
    BY <1>4
  <2>2. /\ w \in Seq(Frames) /\ Len(w) = Len(call) - 1
        /\ \A i \in 1 .. Len(call) - 1 : w[i] = call[i]
    BY <2>1, <1>4, FrontFacts
  <2> QED
    BY <2>2, <1>4
<1>6. stacks' = [stacks EXCEPT ![child] = <<>>, ![parent] = w] /\ cpu' = parent
  BY <1>1, <1>3
<1> HIDE DEF w
<1>7. parent \in Pids /\ child \in Pids /\ parent \in Live
  BY <1>2
<1>8. \A p \in Pids : stacks'[p] = IF p = parent THEN w
                                   ELSE IF p = child THEN <<>> ELSE stacks[p]
  BY <1>6, <1>7 DEF CInv, Typed
<1>9. Typed'
  <2>1. <<>> \in Seq(Frames) /\ Len(<<>>) = 0
    OBVIOUS
  <2>2. stacks' \in [Pids -> Seq(Frames)]
    BY <2>1, <1>5, <1>6 DEF CInv, Typed
  <2>3. NoPointer \in Pointers
    BY <2>1 DEF NoPointer, Pointers
  <2>4. saved' \in [Pids -> Pointers]
    BY <2>3, <1>1 DEF CInv, Typed
  <2>5. ASSUME NEW p \in Pids PROVE Len(stacks'[p]) <= MaxDepth + 2
    <3>1. Len(w) <= MaxDepth + 2 /\ Len(<<>>) <= MaxDepth + 2
      BY <2>1, <1>5
    <3>2. Len(stacks[p]) <= MaxDepth + 2
      BY DEF CInv, Typed
    <3>3. stacks'[p] = w \/ stacks'[p] = <<>> \/ stacks'[p] = stacks[p]
      BY <1>8
    <3> QED
      BY <3>1, <3>2, <3>3
  <2> QED
    BY <2>2, <2>4, <2>5, <1>1, <1>6, <1>7 DEF CInv, Typed
<1>10. SavedCorrect'
  <2> SUFFICES ASSUME NEW p \in Live' \ Terms
               PROVE  /\ saved'[p] = [stk |-> parent_pid'[p], frames |-> ExecCall(p)']
                      /\ IsPrefix(ExecCall(p)', stacks'[parent_pid'[p]])
    BY DEF SavedCorrect
  <2>1. p \in Live \ Terms /\ p # child
    BY <1>2
  <2>2. ExecCall(p)' = ExecCall(p) /\ parent_pid'[p] = parent_pid[p]
    BY <1>2 DEF ExecCall
  <2>3. /\ saved[p] = [stk |-> parent_pid[p], frames |-> ExecCall(p)]
        /\ IsPrefix(ExecCall(p), stacks[parent_pid[p]])
    BY <2>1 DEF CInv, SavedCorrect
  <2>4. parent_pid[p] # child /\ parent_pid[p] \in Pids
    BY <2>1, <1>2, OwnStackFree DEF CInv, IInv, TypeOK
  <2>5. parent_pid[p] # parent
    BY <2>1, <1>2, OnlyChild DEF CInv
  <2>6. stacks'[parent_pid[p]] = stacks[parent_pid[p]]
    BY <2>4, <2>5, <1>8
  <2>7. saved'[p] = saved[p]
    BY <2>1, <1>1 DEF CInv, Typed
  <2> QED
    BY <2>2, <2>3, <2>6, <2>7
<1>11. OwnCorrect'
  <2> SUFFICES ASSUME NEW t \in Terms, NEW p, p = cur_pid'[t], p # NoPid, p # parent
               PROVE  Resumable(p)'
    BY <1>0, OwnPrimed
  <2>1. t # active_tid /\ p = cur_pid[t]
    BY <1>2
  <2>2. Suspended(t)
    BY <2>1, <1>2, ForegroundFacts, RunningFacts DEF Suspended, CInv
  <2>3. p \in Live /\ own[p].stk \in Pids /\ own[p].stk # child /\ own[p].stk # parent
    BY <2>1, <2>2, <1>2, OwnStacks, OwnApart DEF CInv
  <2>4. stacks'[own[p].stk] = stacks[own[p].stk]
    BY <2>3, <1>8
  <2>5. p # child
    BY <2>1, <2>2 DEF Suspended
  <2>6. ExecCall(p)' = ExecCall(p) /\ parent_pid'[p] = parent_pid[p]
    BY <2>3, <2>5, <1>2 DEF ExecCall
  <2>7. Resumable(p)
    BY <2>1, <2>2 DEF CInv, OwnCorrect
  <2> QED
    BY <2>4, <2>6, <2>7, <1>1 DEF Resumable
<1>12. Running' /\ AtHome'
  BY <1>0, <1>2, <1>6 DEF Running, AtHome
<1>13. CpuCorrect'
  <2>1. Shaped(w) /\ Started(w)
    <3>1. w # <<>> /\ ~(\E i \in 2 .. Len(w) : TRUE)
      BY <1>5
    <3>2. \A i \in 1 .. Len(w) : w[i].fn \notin {"idle", "start"}
      BY <1>5
    <3> QED
      BY <3>1, <3>2 DEF Shaped, Started
  <2>2. Last(w).pid = parent
    BY <1>5 DEF Last
  <2>3. stacks'[parent] = w
    BY <1>7, <1>8
  <2> QED
    BY <2>1, <2>2, <2>3, <1>0, <1>6, <1>12 DEF CpuCorrect
<1>14. WindowCorrect' /\ BootCorrectly'
  BY <1>2, <1>12 DEF WindowCorrect, BootCorrectly
<1> QED
  BY <1>9, <1>10, <1>11, <1>13, <1>14 DEF Kept

-----------------------------------------------------------------------------
(* The start of the shells.                                                *)

LEMMA StartStep ==
  ASSUME CInv, PitStartShell, NEW e \in Pids, NEW s \in Seq(Frames),
         Shaped(s), Len(s) <= MaxDepth + 1, PushExec(e, s),
         own' \in [Pids -> Pointers], in_service' \in BOOLEAN
  PROVE  LET f == [fn |-> "exec", pid |-> curr_pid']
             w == Append(s, f)
         IN /\ Typed' /\ SavedCorrect' /\ BootCorrectly' /\ Running'
            /\ w \in Seq(Frames) /\ Shaped(w) /\ Started(w) /\ Last(w) = f
            /\ Len(w) = Len(s) + 1 /\ w[Len(s) + 1] = f
            /\ \A i \in 1 .. Len(s) : w[i] = s[i]
            /\ \A p \in Pids : stacks'[p] = IF p = e THEN w ELSE stacks[p]
            /\ cpu' = e
<1> USE PidFacts
<1>0. PICK new : new = curr_pid'
  OBVIOUS
<1> DEFINE f == [fn |-> "exec", pid |-> new]
           w == Append(s, f)
<1>1. /\ new = shell_tid /\ new \in Terms /\ new \in Pids /\ new \notin Live
      /\ Booting /\ shell_tid' = shell_tid
      /\ Live' = Live \cup {new}
      /\ parent_pid'[new] = new
      /\ \A p \in Live : p < new
  BY <1>0, StartFacts DEF CInv
<1>2. f \in Frames /\ f.fn = "exec"
  BY <1>1 DEF Frames
<1> HIDE DEF f
<1>3. /\ w \in Seq(Frames) /\ Len(w) = Len(s) + 1 /\ w[Len(s) + 1] = f
      /\ Last(w) = f /\ w # <<>>
      /\ \A i \in 1 .. Len(s) : w[i] = s[i]
  BY <1>2, AppendFacts
<1>4. Shaped(w) /\ Started(w)
  BY <1>2, ShapedAppend, StartedAppend
<1>5. /\ stacks' = [stacks EXCEPT ![e] = w] /\ cpu' = e
      /\ saved' = [saved EXCEPT ![new] = NoPointer]
      /\ window_ticks' = [window_ticks EXCEPT ![new] = 0]
  BY <1>0, <1>1 DEF PushExec, f
<1> HIDE DEF w
<1>6. \A p \in Pids : stacks'[p] = IF p = e THEN w ELSE stacks[p]
  BY <1>5 DEF CInv, Typed
<1>7. Typed'
  <2>1. stacks' \in [Pids -> Seq(Frames)]
    BY <1>3, <1>5 DEF CInv, Typed
  <2>2. NoPointer \in Pointers
    <3>1. <<>> \in Seq(Frames)
      OBVIOUS
    <3> QED
      BY <3>1 DEF NoPointer, Pointers
  <2>3. saved' \in [Pids -> Pointers]
    BY <2>2, <1>1, <1>5 DEF CInv, Typed
  <2>4. window_ticks' \in [Pids -> 0 .. MaxTicksPerWindow]
    BY <1>1, <1>5 DEF CInv, Typed
  <2>5. \A p \in Pids : Len(stacks'[p]) <= MaxDepth + 2
    <3>1. Len(s) \in Nat
      OBVIOUS
    <3>2. Len(w) <= MaxDepth + 2
      BY <3>1, <1>3
    <3> QED
      BY <3>2, <1>6 DEF CInv, Typed
  <2> QED
    BY <2>1, <2>3, <2>4, <2>5, <1>5 DEF Typed
<1>8. Live \subseteq Terms
  BY <1>1, BootFacts DEF CInv
<1>9. SavedCorrect'
  <2>1. Live' \ Terms = {}
    BY <1>1, <1>8
  <2> QED
    BY <2>1 DEF SavedCorrect
<1>10. Running'
  BY <1>1 DEF Running
<1>11. BootCorrectly'
  <2>1. \A p \in Live' : p <= new
    BY <1>1
  <2> QED
    BY <2>1, <1>0, <1>10 DEF BootCorrectly
<1> QED
  BY <1>0, <1>3, <1>4, <1>5, <1>6, <1>7, <1>9, <1>10, <1>11 DEF w, f

(* Nor does the first tick's execute find a shell already running.         *)
LEMMA StartBoots ==
  ASSUME CInv, cpu # User, Last(stacks[cpu]).fn = "start"
  PROVE  ~Running
<1> DEFINE s == stacks[cpu]
<1> SUFFICES ASSUME Running PROVE FALSE
  OBVIOUS
<1>1. Started(s) /\ s \in Seq(Frames) /\ s # <<>>
  BY DEF CInv, CpuCorrect, Typed, Shaped
<1>2. Len(s) \in 1 .. Len(s) /\ s[Len(s)].fn = "start"
  BY <1>1 DEF Last
<1>3. \E j \in Len(s) + 1 .. Len(s) : TRUE
  BY <1>1, <1>2 DEF Started
<1> QED
  BY <1>1, <1>3

LEMMA StartFirstKeeps ==
  ASSUME CInv, StartFirst
  PROVE  Kept'
<1> USE PidFacts
<1>0. PICK new : new = curr_pid'
  OBVIOUS
<1> DEFINE s == stacks[cpu]
<1>1. /\ cpu # User /\ Last(s).fn = "start"
      /\ PitStartShell /\ PushExec(cpu, s)
      /\ UNCHANGED <<own, in_service>>
  BY DEF StartFirst, At, Top
<1>2. s \in Seq(Frames) /\ Shaped(s)
  BY <1>1 DEF CInv, Typed, CpuCorrect
<1>3. ~Running
  BY <1>1, StartBoots
<1>4. cpu = 0 /\ Len(s) <= MaxDepth + 1
  BY <1>3 DEF CInv, BootCorrectly, BootStack
<1>5. /\ new = shell_tid /\ Booting /\ shell_tid' = shell_tid
      /\ \A u \in Terms : cur_pid'[u] = IF u = new THEN new ELSE cur_pid[u]
  BY <1>0, <1>1, StartFacts DEF CInv
<1>6. new = 0
  BY <1>3, <1>5, BootFacts DEF CInv
<1> HIDE DEF s
<1>7. /\ Typed' /\ SavedCorrect' /\ BootCorrectly' /\ Running'
      /\ Shaped(stacks'[0]) /\ Started(stacks'[0])
      /\ Last(stacks'[0]).pid = new /\ cpu' = 0
  <2>1. own' \in [Pids -> Pointers] /\ in_service' \in BOOLEAN
    BY <1>1 DEF CInv, Typed
  <2> QED
    BY <2>1, <1>0, <1>1, <1>2, <1>4, StartStep
<1>8. OwnCorrect'
  <2>1. \A t \in Terms : cur_pid[t] = NoPid
    BY <1>3, ForegroundFacts DEF CInv, Running
  <2> QED
    BY <2>1, <1>0, <1>5, OwnPrimed
<1>9. AtHome'
  BY <1>0, <1>6, <1>7 DEF AtHome
<1>10. CpuCorrect' /\ WindowCorrect'
  BY <1>0, <1>7, <1>9 DEF CpuCorrect, WindowCorrect
<1> QED
  BY <1>7, <1>8, <1>10 DEF Kept

(* A tick in the window of a guest would be its second one.                *)
LEMMA NoGuestTick ==
  ASSUME CInv, MaxTicksPerWindow <= 1, TickAllowed,
         curr_pid \in Terms => shell_tid # curr_pid
  PROVE  cpu # User => AtHome
<1> SUFFICES ASSUME cpu # User, ~AtHome PROVE FALSE
  OBVIOUS
<1>1. Guest /\ curr_pid \in Windows
  BY GuestWindow DEF CInv, CpuCorrect
<1>2. window_ticks[curr_pid] >= 1
  BY <1>1 DEF CInv, WindowCorrect, Guest
<1>3. curr_pid \in Pids
  BY DEF CInv, IInv, TypeOK
<1> QED
  BY <1>1, <1>2, <1>3, PidFacts DEF TickAllowed, CInv, Typed

(* The shell that started last is the one that runs: its frames are those  *)
(* process_switch stores.                                                  *)
LEMMA StartNextFacts ==
  ASSUME CInv, MaxTicksPerWindow <= 1, StartNext
  PROVE  LET new == curr_pid'
             p == new - 1
         IN /\ new = shell_tid /\ new \in Terms /\ new \in Pids /\ new \notin Live
            /\ Booting /\ Running /\ shell_tid' = shell_tid
            /\ Live \subseteq Terms /\ Live' = Live \cup {new}
            /\ p \in Pids /\ p \in Live /\ p \in Terms /\ p # new /\ p = curr_pid
            /\ parent_pid'[new] = new
            /\ \A q \in Live : parent_pid'[q] = parent_pid[q]
            /\ \A u \in Terms : cur_pid'[u] = IF u = new THEN new ELSE cur_pid[u]
            /\ cur_pid'[p] = p
            /\ cpu # User => AtHome
            /\ EntryStack = p
            /\ own' = [own EXCEPT ![p] = [stk |-> p, frames |-> EntryFrames("pit")]]
<1> USE PidFacts
<1>0. PICK new : new = curr_pid'
  OBVIOUS
<1> DEFINE p == new - 1
<1>1. /\ TickAllowed /\ shell_tid > 0 /\ PitStartShell
      /\ own' = [own EXCEPT ![shell_tid - 1] =
                   [stk |-> EntryStack, frames |-> EntryFrames("pit")]]
  BY DEF StartNext
<1>2. /\ new = shell_tid /\ new \in Terms /\ new \in Pids /\ new \notin Live
      /\ Booting /\ shell_tid' = shell_tid
      /\ Live' = Live \cup {new}
      /\ parent_pid'[new] = new
      /\ \A q \in Live : q < new /\ parent_pid'[q] = parent_pid[q]
      /\ \A q \in Pids : q < new => q \in Live
      /\ \A u \in Terms : cur_pid'[u] = IF u = new THEN new ELSE cur_pid[u]
  BY <1>0, <1>1, StartFacts DEF CInv
<1>3. /\ p \in Pids /\ p \in Live /\ p \in Terms /\ p # new
      /\ curr_pid \in Live /\ Running /\ p = curr_pid
      /\ Live \subseteq Terms
  <2>1. p \in Pids /\ p < new /\ p # new
    <3>1. new \in 0 .. Process - 1 /\ new > 0 /\ Process \in Nat
      BY <1>1, <1>2, Numbers DEF Pids, CInv
    <3> QED
      BY <3>1, SMT DEF Pids
  <2>2. p \in Live
    BY <2>1, <1>2
  <2>3. Running
    BY <2>2 DEF Running
  <2>4. curr_pid \in Live /\ Live \subseteq Terms
    BY <2>3, <1>2, RunningFacts, BootFacts DEF CInv
  <2>5. p <= curr_pid /\ curr_pid < new
    BY <2>2, <2>4, <1>2 DEF CInv, BootCorrectly
  <2>6. curr_pid \in Nat /\ new \in Nat
    BY <2>4, <1>2
  <2>7. p = curr_pid
    BY <2>5, <2>6
  <2> QED
    BY <2>1, <2>2, <2>3, <2>4, <2>7
<1>4. cpu # User => AtHome
  BY <1>1, <1>2, <1>3, NoGuestTick
<1>5. EntryStack = p
  <2>1. parent_pid[curr_pid] = curr_pid
    BY <1>3, ShellRoot DEF CInv
  <2>2. esp0 = curr_pid
    BY <1>3, RunningFacts DEF CInv
  <2> QED
    BY <2>1, <2>2, <1>3, <1>4 DEF AtHome, EntryStack
<1>6. cur_pid'[p] = p
  BY <1>1, <1>2, <1>3, BootFacts DEF CInv, IInv, BootOrder
<1>7. own' = [own EXCEPT ![p] = [stk |-> p, frames |-> EntryFrames("pit")]]
  BY <1>1, <1>2, <1>5
<1> HIDE DEF p
<1>8. \A q \in Live : parent_pid'[q] = parent_pid[q]
  BY <1>2
<1> QED
  BY <1>0, <1>2, <1>3, <1>4, <1>5, <1>6, <1>7, <1>8 DEF p

(* execute runs as a guest above the frames own_esp was stored for.        *)
LEMMA StartNextKeeps ==
  ASSUME CInv, MaxTicksPerWindow <= 1, StartNext
  PROVE  Kept'
<1> USE PidFacts
<1>0. PICK new : new = curr_pid'
  OBVIOUS
<1> DEFINE p == new - 1
           s == EntryFrames("pit")
           f == [fn |-> "exec", pid |-> new]
           w == Append(s, f)
<1>1. /\ InterruptsNest /\ PitStartShell /\ PushExec(EntryStack, s)
      /\ UNCHANGED in_service
  BY DEF StartNext, TickAllowed
<1>2. /\ new = shell_tid /\ new \in Terms /\ new \in Pids /\ new \notin Live
      /\ Booting /\ shell_tid' = shell_tid
      /\ parent_pid'[new] = new
      /\ \A u \in Terms : cur_pid'[u] = IF u = new THEN new ELSE cur_pid[u]
  BY <1>0, StartNextFacts
<1>3. /\ p \in Pids /\ p \in Live /\ p \in Terms /\ p # new
      /\ Running /\ p = curr_pid
      /\ Live \subseteq Terms
  BY <1>0, StartNextFacts
<1>4. EntryStack = p /\ cur_pid'[p] = p
  BY <1>0, StartNextFacts
<1>5. /\ s \in Seq(Frames) /\ Shaped(s) /\ Started(s)
      /\ Last(s).pid = p /\ Len(s) <= MaxDepth + 1
  BY <1>1, <1>3, Entry
<1>6. own' = [own EXCEPT ![p] = [stk |-> p, frames |-> s]]
  BY <1>0, StartNextFacts
<1> HIDE DEF s, p
<1>7. own' \in [Pids -> Pointers]
  BY <1>3, <1>5, <1>6 DEF CInv, Typed, Pointers
<1>8. \A q \in Pids : own'[q] = IF q = p THEN [stk |-> p, frames |-> s] ELSE own[q]
  BY <1>6 DEF CInv, Typed
<1>9. /\ Typed' /\ SavedCorrect' /\ BootCorrectly' /\ Running'
      /\ w \in Seq(Frames) /\ Shaped(w) /\ Started(w) /\ Last(w) = f
      /\ Len(w) = Len(s) + 1 /\ w[Len(s) + 1] = f
      /\ \A i \in 1 .. Len(s) : w[i] = s[i]
      /\ \A q \in Pids : stacks'[q] = IF q = p THEN w ELSE stacks[q]
      /\ cpu' = p
  <2>1. in_service' \in BOOLEAN
    BY <1>1 DEF CInv, Typed
  <2> QED
    BY <2>1, <1>0, <1>1, <1>3, <1>4, <1>5, <1>7, StartStep
<1> HIDE DEF w
<1>11. OwnCorrect'
  <2> SUFFICES ASSUME NEW t \in Terms, NEW q, q = cur_pid'[t], q # NoPid, q # new
               PROVE  Resumable(q)'
    BY <1>0, OwnPrimed
  <2>1. q = cur_pid[t] /\ q = t
    BY <1>2, BootFacts DEF CInv
  <2>2. CASE q = p
    <3>1. /\ own'[q].stk = q /\ own'[q].frames = s
          /\ stacks'[q] = w
      BY <2>2, <1>3, <1>8, <1>9
    <3>2. IsPrefix(s, w)
      <4>1. Len(s) <= Len(w) /\ \A i \in 1 .. Len(s) : s[i] = w[i]
        <5>1. Len(s) \in Nat
          BY <1>5
        <5> QED
          BY <5>1, <1>9
      <4> QED
        BY <4>1, <1>5, <1>9, PrefixByIndex
    <3> QED
      BY <3>1, <3>2, <2>2, <1>5 DEF Resumable
  <2>3. CASE q # p
    <3>1. Suspended(t)
      BY <2>1, <2>3, <1>3 DEF Suspended
    <3>2. Resumable(q) /\ q \in Live
      BY <2>1, <3>1, OwnStacks DEF CInv, OwnCorrect
    <3>3. parent_pid[q] = q /\ own[q].stk = q
      BY <3>2, <2>1, ShellRoot DEF CInv, Resumable
    <3>4. own'[q] = own[q] /\ stacks'[q] = stacks[q]
      BY <3>2, <2>3, <1>8, <1>9
    <3> QED
      BY <3>2, <3>3, <3>4 DEF Resumable
  <2> QED
    BY <2>2, <2>3
<1>12. Guest'
  <2>1. /\ own'[p].stk = p /\ own'[p].frames = s /\ stacks'[p] = w
    BY <1>3, <1>8, <1>9
  <2>2. /\ Len(s) \in Nat /\ Len(w) > Len(s)
        /\ \A i \in Len(s) + 2 .. Len(w) : FALSE
    BY <1>5, <1>9
  <2> QED
    BY <2>1, <2>2, <1>0, <1>2, <1>3, <1>4, <1>9 DEF Guest, p, f
<1>13. CpuCorrect'
  <2>1. stacks'[p] = w
    BY <1>3, <1>9
  <2> QED
    BY <2>1, <1>0, <1>9, <1>12 DEF CpuCorrect, f
<1>14. WindowCorrect'
  BY <1>0, <1>2 DEF WindowCorrect
<1> QED
  BY <1>9, <1>11, <1>13, <1>14 DEF Kept

-----------------------------------------------------------------------------
(* process_switch: the pointers it stores find the frames it leaves, and   *)
(* those it loads find the frames they were stored for.                    *)

LEMMA SwitchEntry ==
  ASSUME CInv, MaxTicksPerWindow <= 1, TickSwitch
  PROVE  /\ cpu # User => AtHome
         /\ EntryStack \in {curr_pid, parent_pid[curr_pid]}
<1>1. TickAllowed /\ PitSwitch
  BY DEF TickSwitch
<1>2. ~Booting /\ esp0 = curr_pid
  BY <1>1, SwitchFacts, RunningFacts DEF CInv
<1>3. curr_pid \in Terms => shell_tid # curr_pid
  BY <1>2, Numbers DEF Booting, Terms, CInv
<1>4. cpu # User => AtHome
  BY <1>1, <1>3, NoGuestTick
<1> QED
  BY <1>2, <1>4 DEF AtHome, EntryStack

LEMMA TickSwitchKeeps ==
  ASSUME CInv, MaxTicksPerWindow <= 1, TickSwitch
  PROVE  Kept'
<1> USE PidFacts
<1>0. PICK q : q = curr_pid'
  OBVIOUS
<1> DEFINE e == EntryStack
           w == EntryFrames("pit")
           stored == [stk |-> e, frames |-> w]
           resumed == IF q = curr_pid THEN stored ELSE own[q]
           r == resumed.stk
           g == resumed.frames
<1>1. /\ TickAllowed /\ InterruptsNest /\ PitSwitch /\ CountTick
      /\ own' = [own EXCEPT ![curr_pid] = stored, ![q] = NoPointer]
      /\ stacks' = [stacks EXCEPT ![e] = w, ![r] = g]
      /\ cpu' = r
      /\ UNCHANGED <<saved, in_service>>
  BY <1>0 DEF TickSwitch, TickAllowed
<1> DEFINE next == reschedule
<1>2. /\ ~Booting /\ ~Booting' /\ Running
      /\ UNCHANGED <<process_array, parent_pid, terminal_number, cur_pid>>
      /\ Live' = Live
      /\ next \in Terms /\ q = cur_pid[next] /\ q \in Live
  BY <1>0, <1>1, SwitchFacts DEF CInv, table
<1> HIDE DEF next
<1>3. /\ curr_pid \in Live /\ curr_pid \in Pids /\ active_tid \in Terms
      /\ terminal_number[curr_pid] = active_tid
      /\ terminal_number[parent_pid[curr_pid]] = active_tid
      /\ parent_pid[curr_pid] \in Live
      /\ curr_pid = cur_pid[active_tid] /\ esp0 = curr_pid
  BY <1>2, RunningFacts DEF CInv
<1>4. e \in {curr_pid, parent_pid[curr_pid]}
  BY SwitchEntry
<1>5. /\ e \in Pids /\ e \in Live /\ terminal_number[e] = active_tid
      /\ w \in Seq(Frames) /\ Shaped(w) /\ Started(w)
      /\ Last(w).pid = curr_pid /\ Len(w) <= MaxDepth + 1
      /\ \A p \in Live \ Terms : parent_pid[p] = e => IsPrefix(ExecCall(p), w)
  BY <1>1, <1>2, <1>3, <1>4, Entry
<1> HIDE DEF e, w
<1>6. e # curr_pid => IsPrefix(ExecCall(curr_pid), w)
  BY <1>3, <1>4, <1>5, ShellRoot DEF CInv
<1>7. /\ terminal_number[q] = next /\ parent_pid[q] \in Live
      /\ terminal_number[parent_pid[q]] = next /\ q # NoPid
      /\ \A p \in Live \ Terms : parent_pid[p] # q
  <2>1. cur_pid[next] # NoPid
    BY <1>2, SizeFacts
  <2> QED
    BY <2>1, <1>2, ForegroundFacts DEF CInv
<1>8. q # curr_pid => Suspended(next) /\ Resumable(q)
  BY <1>2, <1>7 DEF Suspended, CInv, OwnCorrect
<1>9. /\ r \in {q, parent_pid[q]} /\ r \in Live /\ r \in Pids
      /\ terminal_number[r] = next
  <2>1. CASE q = curr_pid
    BY <2>1, <1>3, <1>4, <1>7, <1>2
  <2>2. CASE q # curr_pid
    BY <2>2, <1>2, <1>7, <1>8 DEF Resumable
  <2> QED
    BY <2>1, <2>2
<1>10. /\ g \in Seq(Frames) /\ Shaped(g) /\ Started(g) /\ Last(g).pid = q
       /\ Len(g) <= MaxDepth + 1
  <2>1. CASE q = curr_pid
    BY <2>1, <1>5
  <2>2. CASE q # curr_pid
    <3>1. own[q].frames \in Seq(Frames)
      BY <1>2 DEF CInv, Typed, Pointers
    <3> QED
      BY <3>1, <2>2, <1>8 DEF Resumable
  <2> QED
    BY <2>1, <2>2
<1>11. \A p \in Live \ Terms : parent_pid[p] = r => IsPrefix(ExecCall(p), g)
  <2> SUFFICES ASSUME NEW p \in Live \ Terms, parent_pid[p] = r
               PROVE  IsPrefix(ExecCall(p), g)
    OBVIOUS
  <2>1. CASE q = curr_pid
    BY <2>1, <1>5
  <2>2. CASE q # curr_pid
    <3>1. parent_pid[p] # q
      BY <1>7
    <3>2. r = parent_pid[q] /\ r # q
      BY <3>1, <1>9
    <3>3. q \notin Terms
      BY <3>2, <1>2, ShellRoot DEF CInv
    <3>4. p = q
      BY <3>2, <3>3, <1>2, OnlyChild DEF CInv
    <3> QED
      BY <3>2, <3>4, <2>2, <1>8 DEF Resumable
  <2> QED
    BY <2>1, <2>2
<1>12. e = r => w = g
  BY <1>5, <1>9, <1>2, <1>3, <1>7
<1> HIDE DEF r, g
<1>13. \A p \in Pids : stacks'[p] = IF p = r THEN g ELSE IF p = e THEN w ELSE stacks[p]
  BY <1>1, <1>5, <1>9 DEF CInv, Typed
<1>14. \A p \in Pids : own'[p] = IF p = q THEN NoPointer
                                 ELSE IF p = curr_pid THEN stored ELSE own[p]
  BY <1>1, <1>2, <1>3 DEF CInv, Typed
<1> HIDE DEF resumed
<1>15. Typed'
  <2>1. NoPointer \in Pointers
    <3>1. <<>> \in Seq(Frames)
      OBVIOUS
    <3> QED
      BY <3>1 DEF NoPointer, Pointers
  <2>2. stored \in Pointers
    BY <1>5 DEF Pointers
  <2> HIDE DEF stored
  <2>3. own' \in [Pids -> Pointers]
    BY <2>1, <2>2, <1>1 DEF CInv, Typed
  <2>4. stacks' \in [Pids -> Seq(Frames)]
    BY <1>1, <1>5, <1>10 DEF CInv, Typed
  <2>5. ASSUME NEW p \in Pids PROVE Len(stacks'[p]) <= MaxDepth + 2
    <3>1. Len(w) <= MaxDepth + 2 /\ Len(g) <= MaxDepth + 2
      <4>1. Len(w) \in Nat /\ Len(g) \in Nat
        BY <1>5, <1>10
      <4> QED
        BY <4>1, <1>5, <1>10
    <3>2. Len(stacks[p]) <= MaxDepth + 2
      BY DEF CInv, Typed
    <3>3. stacks'[p] = g \/ stacks'[p] = w \/ stacks'[p] = stacks[p]
      BY <1>13
    <3> QED
      BY <3>1, <3>2, <3>3
  <2>6. window_ticks' \in [Pids -> 0 .. MaxTicksPerWindow]
    BY <1>1, CountTickType
  <2> QED
    BY <2>3, <2>4, <2>5, <2>6, <1>1, <1>9 DEF CInv, Typed
<1>16. SavedCorrect'
  <2> SUFFICES ASSUME NEW p \in Live \ Terms
               PROVE  /\ saved'[p] = [stk |-> parent_pid'[p], frames |-> ExecCall(p)']
                      /\ IsPrefix(ExecCall(p)', stacks'[parent_pid'[p]])
    BY <1>2 DEF SavedCorrect
  <2>1. ExecCall(p)' = ExecCall(p) /\ parent_pid'[p] = parent_pid[p]
    BY <1>2 DEF ExecCall
  <2>2. /\ saved[p] = [stk |-> parent_pid[p], frames |-> ExecCall(p)]
        /\ IsPrefix(ExecCall(p), stacks[parent_pid[p]])
    BY DEF CInv, SavedCorrect
  <2>3. parent_pid[p] \in Pids
    BY DEF CInv, IInv, TypeOK
  <2>4. IsPrefix(ExecCall(p), stacks'[parent_pid[p]])
    BY <2>2, <2>3, <1>5, <1>11, <1>13
  <2> QED
    BY <2>1, <2>2, <2>4, <1>1
<1>17. OwnCorrect'
  <2> SUFFICES ASSUME NEW t \in Terms, NEW p, p = cur_pid[t], p # NoPid, p # q
               PROVE  Resumable(p)'
    BY <1>0, <1>2, OwnPrimed
  <2>1. ExecCall(p)' = ExecCall(p) /\ parent_pid'[p] = parent_pid[p]
    BY <1>2 DEF ExecCall
  <2>2. CASE p = curr_pid
    <3>1. own'[p].stk = e /\ own'[p].frames = w
      BY <2>2, <1>3, <1>14
    <3>2. IsPrefix(w, w)
      BY <1>5, PrefixFacts
    <3>3. r # e
      BY <2>2, <1>2, <1>3, <1>5, <1>9
    <3>4. stacks'[e] = w
      BY <3>3, <1>5, <1>13
    <3> QED
      BY <3>1, <3>2, <3>4, <2>1, <2>2, <1>4, <1>5, <1>6 DEF Resumable
  <2>3. CASE p # curr_pid
    <3>1. Suspended(t)
      BY <2>3 DEF Suspended
    <3>2. Resumable(p)
      BY <3>1 DEF CInv, OwnCorrect
    <3>3. /\ p \in Pids /\ own[p].stk \in Pids
          /\ terminal_number[own[p].stk] = t /\ t # active_tid
      BY <3>1, <1>2, OwnStacks DEF CInv
    <3>4. own[p].stk # e /\ own[p].stk # r
      BY <3>3, <1>2, <1>5, <1>9
    <3>5. stacks'[own[p].stk] = stacks[own[p].stk] /\ own'[p] = own[p]
      BY <3>3, <3>4, <2>3, <1>13, <1>14
    <3> QED
      BY <3>2, <3>5, <2>1 DEF Resumable
  <2> QED
    BY <2>2, <2>3
<1>18. Running' /\ AtHome'
  BY <1>0, <1>1, <1>2, <1>9 DEF Running, AtHome
<1>19. CpuCorrect'
  <2>1. stacks'[r] = g
    BY <1>9, <1>13
  <2> QED
    BY <2>1, <1>0, <1>1, <1>10, <1>18 DEF CpuCorrect
<1>20. WindowCorrect' /\ BootCorrectly'
  BY <1>2, <1>18 DEF WindowCorrect, BootCorrectly
<1> QED
  BY <1>15, <1>16, <1>17, <1>19, <1>20 DEF Kept

-----------------------------------------------------------------------------
(* Every step, and the theorems.                                           *)

LEMMA ProcessStep == [ContextNext]_allvars => [Next]_vars
<1> SUFFICES ASSUME [ContextNext]_allvars PROVE [Next]_vars
  OBVIOUS
<1>1. CASE UNCHANGED allvars
  BY <1>1 DEF allvars
<1>2. CASE \/ Syscall \/ SyscallReturn \/ EnterProgram \/ TickFirst
           \/ PitReturn \/ Key \/ KeyReturn
  BY <1>2 DEF Syscall, SyscallReturn, EnterProgram, TickFirst, PitReturn, Key, KeyReturn
<1>3. CASE SyscallExecute
  BY <1>3 DEF SyscallExecute, Next
<1>4. CASE SyscallHaltShell
  BY <1>4 DEF SyscallHaltShell, Next
<1>5. CASE SyscallHaltChild
  BY <1>5 DEF SyscallHaltChild, Next
<1>6. CASE StartFirst
  BY <1>6 DEF StartFirst, Next, pit_handler
<1>7. CASE StartNext
  BY <1>7 DEF StartNext, Next, pit_handler
<1>8. CASE TickNextShell
  BY <1>8 DEF TickNextShell, Next, pit_handler
<1>9. CASE TickSwitch
  BY <1>9 DEF TickSwitch, Next, pit_handler
<1> QED
  BY <1>1, <1>2, <1>3, <1>4, <1>5, <1>6, <1>7, <1>8, <1>9 DEF ContextNext

LEMMA CInvKeeps ==
  ASSUME CInv, ~EarlyInput, MaxTicksPerWindow <= 1, [ContextNext]_allvars
  PROVE  CInv'
<1>1. IInv'
  BY ProcessStep, ProcessKeeps DEF CInv
<1>2. ASSUME Kept' PROVE CInv'
  BY <1>1, <1>2 DEF Kept, CInv
<1>3. CASE UNCHANGED allvars
  <2>1. /\ UNCHANGED <<stacks, cpu, own, saved, window_ticks, in_service>>
        /\ UNCHANGED <<process_array, parent_pid, terminal_number, cur_pid,
                       curr_pid, shell_tid>>
    BY <1>3 DEF allvars, context, vars, table
  <2>2. Live' = Live /\ Running' = Running /\ Booting' = Booting
    BY <2>1 DEF Live, Running, Booting
  <2>3. Typed' /\ SavedCorrect' /\ OwnCorrect'
    BY <2>1, <2>2
       DEF CInv, Typed, SavedCorrect, OwnCorrect, Resumable, Suspended, ExecCall
  <2>4. AtHome' = AtHome /\ Guest' = Guest
    BY <2>1, <2>2 DEF AtHome, Guest
  <2>5. CpuCorrect' /\ WindowCorrect' /\ BootCorrectly'
    BY <2>1, <2>2, <2>4 DEF CInv, CpuCorrect, WindowCorrect, BootCorrectly, BootStack
  <2> QED
    BY <1>2, <2>3, <2>5 DEF Kept
<1>4. CASE Syscall
  BY <1>2, <1>4, SyscallKeeps
<1>5. CASE SyscallReturn \/ PitReturn \/ KeyReturn
  BY <1>2, <1>5, ReturnKeeps
<1>6. CASE SyscallExecute
  BY <1>1, <1>2, <1>6, SyscallExecuteKeeps
<1>7. CASE EnterProgram
  BY <1>2, <1>7, EnterProgramKeeps
<1>8. CASE SyscallHaltShell
  BY <1>2, <1>8, SyscallHaltShellKeeps
<1>9. CASE SyscallHaltChild
  BY <1>1, <1>2, <1>9, SyscallHaltChildKeeps
<1>10. CASE TickFirst
  BY <1>2, <1>10, TickFirstKeeps
<1>11. CASE StartFirst
  BY <1>2, <1>11, StartFirstKeeps
<1>12. CASE StartNext
  BY <1>2, <1>12, StartNextKeeps
<1>13. CASE TickNextShell
  BY <1>2, <1>13, TickNextShellKeeps
<1>14. CASE TickSwitch
  BY <1>2, <1>14, TickSwitchKeeps
<1>15. CASE Key
  BY <1>2, <1>15, KeyKeeps
<1> QED
  BY <1>3, <1>4, <1>5, <1>6, <1>7, <1>8, <1>9, <1>10, <1>11, <1>12, <1>13,
     <1>14, <1>15 DEF ContextNext

LEMMA InitCInv == ContextInit => CInv
<1> SUFFICES ASSUME ContextInit PROVE CInv
  OBVIOUS
<1> USE PidFacts
<1> DEFINE f == [fn |-> "idle", pid |-> 0]
           boot == <<f>>
<1>1. /\ Init /\ cpu = 0 /\ in_service = FALSE
      /\ stacks = [p \in Pids |-> IF p = 0 THEN boot ELSE <<>>]
      /\ own = [p \in Pids |-> NoPointer] /\ saved = [p \in Pids |-> NoPointer]
      /\ window_ticks = [p \in Pids |-> 0]
      /\ curr_pid = 0 /\ shell_tid = 0
      /\ \A t \in Terms : cur_pid[t] = NoPid
      /\ Live = {}
  BY DEF ContextInit, Init, Frame, Live
<1>2. /\ boot \in Seq(Frames) /\ Len(boot) = 1 /\ boot[1] = f /\ boot # <<>>
      /\ Last(boot) = f
  <2>1. f \in Frames
    BY DEF Frames
  <2> QED
    BY <2>1 DEF Last
<1>3. <<>> \in Seq(Frames) /\ Len(<<>>) = 0
  OBVIOUS
<1>4. f.fn = "idle" /\ f.pid = 0
  OBVIOUS
<1> HIDE DEF boot, f
<1>13. 0 <= MaxDepth + 2 /\ 1 <= MaxDepth + 2 /\ 1 <= MaxDepth + 1
  BY ContextAssumption
<1>5. Typed
  <2>1. NoPointer \in Pointers
    BY <1>3 DEF NoPointer, Pointers
  <2>2. \A p \in Pids : stacks[p] = boot \/ stacks[p] = <<>>
    BY <1>1
  <2>3. ASSUME NEW p \in Pids PROVE Len(stacks[p]) <= MaxDepth + 2
    <3>1. Len(stacks[p]) = 0 \/ Len(stacks[p]) = 1
      BY <2>2, <1>2, <1>3
    <3> QED
      BY <3>1, <1>13
  <2>4. stacks \in [Pids -> Seq(Frames)]
    BY <1>1, <1>2, <1>3
  <2> QED
    <3>1. own \in [Pids -> Pointers] /\ saved \in [Pids -> Pointers]
      BY <2>1, <1>1
    <3>2. window_ticks \in [Pids -> 0 .. MaxTicksPerWindow]
      BY <1>1
    <3> QED
      BY <2>3, <2>4, <3>1, <3>2, <1>1 DEF Typed
<1>6. ~Running /\ stacks[0] = boot
  BY <1>1 DEF Running
<1>7. Shaped(boot)
  BY <1>2 DEF Shaped
<1>8. SavedCorrect /\ OwnCorrect
  BY <1>1 DEF SavedCorrect, OwnCorrect, Suspended
<1>9. AtHome
  BY <1>1 DEF AtHome
<1>10. CpuCorrect /\ WindowCorrect
  BY <1>1, <1>2, <1>4, <1>6, <1>7, <1>9 DEF CpuCorrect, WindowCorrect
<1>11. BootCorrectly
  <2>1. \A i \in 1 .. Len(boot) : boot[i].fn # "exec"
    <3>1. \A i \in 1 .. Len(boot) : i = 1
      BY <1>2
    <3> QED
      BY <3>1, <1>2, <1>4
  <2>2. BootStack
    BY <2>1, <1>1, <1>2, <1>4, <1>6, <1>13 DEF BootStack
  <2> QED
    BY <2>2, <1>1 DEF BootCorrectly
<1>12. IInv
  BY <1>1, InitIInv
<1> QED
  BY <1>5, <1>8, <1>10, <1>11, <1>12 DEF CInv

LEMMA CInvInductive ==
  ASSUME ~EarlyInput, MaxTicksPerWindow <= 1
  PROVE  ContextSpec => []CInv
<1>1. CInv /\ [ContextNext]_allvars => CInv'
  BY CInvKeeps
<1> QED
  BY <1>1, InitCInv, PTL DEF ContextSpec

(* The bookkeeping of stacks and pointers has its shape, and in kernel     *)
(* mode there is always a frame to return from.                            *)
THEOREM ContextTypeCorrect ==
  ASSUME ~EarlyInput, MaxTicksPerWindow <= 1
  PROVE  ContextSpec => []ContextTypeOK
<1>1. CInv => ContextTypeOK
  <2> SUFFICES ASSUME CInv PROVE ContextTypeOK
    OBVIOUS
  <2>1. TypeOK /\ Typed
    BY DEF CInv, IInv
  <2>2. cpu # User => stacks[cpu] # <<>>
    BY DEF CInv, CpuCorrect, Shaped
  <2> QED
    BY <2>1, <2>2 DEF ContextTypeOK, Typed, Pointers
<1> QED
  BY <1>1, CInvInductive, PTL

(* The stack pointers process_switch stored for a terminal still find its  *)
(* process's frames when its next slice comes, whatever the others execute *)
(* and halt meanwhile: no kernel stack is shared by two terminals, except  *)
(* while the shells are started, when the guest stays above its host.      *)
THEOREM OwnCorrectly ==
  ASSUME ~EarlyInput, MaxTicksPerWindow <= 1
  PROVE  ContextSpec => []OwnIntact
<1>1. CInv => OwnIntact
  <2> SUFFICES ASSUME CInv, NEW t \in Terms, Suspended(t)
               PROVE  /\ Intact(own[cur_pid[t]])
                      /\ Last(own[cur_pid[t]].frames).pid = cur_pid[t]
    BY DEF OwnIntact, Suspended
  <2> QED
    BY DEF CInv, OwnCorrect, Resumable, Intact, Shaped
<1> QED
  BY <1>1, CInvInductive, PTL

(* halt returns through the call of execute that started the process: the  *)
(* parent's stack still has it, on top of the parent's system call.        *)
THEOREM SavedCorrectly ==
  ASSUME ~EarlyInput, MaxTicksPerWindow <= 1
  PROVE  ContextSpec => []SavedIntact
<1>1. CInv => SavedIntact
  <2> SUFFICES ASSUME CInv, NEW p \in Live \ Terms
               PROVE  Intact(saved[p]) /\ saved[p].stk = parent_pid[p]
    BY DEF SavedIntact
  <2>1. /\ saved[p] = [stk |-> parent_pid[p], frames |-> ExecCall(p)]
        /\ IsPrefix(ExecCall(p), stacks[parent_pid[p]])
    BY DEF CInv, SavedCorrect
  <2>2. Len(ExecCall(p)) = 2
    BY ExecCallType DEF CInv
  <2>3. ExecCall(p) # <<>>
    BY <2>2
  <2> QED
    BY <2>1, <2>3 DEF Intact
<1> QED
  BY <1>1, CInvInductive, PTL

(* In kernel mode the CPU is in a frame of the process curr_pid names,     *)
(* after every switch, return, execute and halt.                           *)
THEOREM RightContextCorrect ==
  ASSUME ~EarlyInput, MaxTicksPerWindow <= 1
  PROVE  ContextSpec => []RightContext
<1>1. CInv => RightContext
  BY DEF CInv, CpuCorrect, RightContext, Top
<1> QED
  BY <1>1, CInvInductive, PTL

-----------------------------------------------------------------------------
(* The keyboard's EOI.  A keyboard handler is always above the last execute *)
(* on its stack, so neither halt nor the start of a program cuts it off;    *)
(* during the boot it may be below a guest, where own_esp leads to it.      *)

Waiting(t) == Suspended(t) /\ Among("kbd", own[cur_pid[t]].frames)

KeyCorrect ==
  /\ cpu # User /\ AtHome => KeyAbove(stacks[cpu])
  /\ \A t \in Terms : Suspended(t) => KeyAbove(own[cur_pid[t]].frames)
  /\ ~Running => ~in_service /\ ~Among("kbd", stacks[0])
  /\ in_service => OnStack("kbd") \/ \E t \in Terms : Waiting(t)

LEMMA KeyAppend ==
  ASSUME NEW s \in Seq(Frames), NEW f \in Frames
  PROVE  /\ Among("kbd", Append(s, f)) <=> Among("kbd", s) \/ f.fn = "kbd"
         /\ KeyAbove(s) /\ (f.fn = "exec" => ~Among("kbd", s))
              => KeyAbove(Append(s, f))
<1> DEFINE w == Append(s, f)
<1>1. /\ w \in Seq(Frames) /\ Len(w) = Len(s) + 1 /\ w[Len(s) + 1] = f
      /\ \A i \in 1 .. Len(s) : w[i] = s[i]
  BY AppendFacts
<1> HIDE DEF w
<1>2. Len(s) \in Nat
  OBVIOUS
<1>3. Among("kbd", s) <=> \E i \in 1 .. Len(s) : s[i].fn = "kbd"
  BY AmongByIndex
<1>4. Among("kbd", w) <=> \E i \in 1 .. Len(w) : w[i].fn = "kbd"
  BY <1>1, AmongByIndex
<1>5. \A i \in 1 .. Len(w) : i \in 1 .. Len(s) \/ i = Len(s) + 1
  BY <1>1, <1>2
<1>6. \A i \in 1 .. Len(s) : i \in 1 .. Len(w)
  BY <1>1, <1>2
<1>7. Len(s) + 1 \in 1 .. Len(w)
  BY <1>1, <1>2
<1>8. Among("kbd", w) <=> Among("kbd", s) \/ f.fn = "kbd"
  BY <1>1, <1>3, <1>4, <1>5, <1>6, <1>7
<1>9. ASSUME KeyAbove(s), f.fn = "exec" => ~Among("kbd", s)
      PROVE  KeyAbove(w)
  <2> SUFFICES ASSUME NEW i \in 1 .. Len(w), NEW j \in 1 .. Len(w),
                      i < j, w[j].fn = "exec"
               PROVE  w[i].fn # "kbd"
    BY DEF KeyAbove
  <2>1. i \in 1 .. Len(s) /\ w[i] = s[i]
    BY <1>1, <1>2
  <2>2. CASE j \in 1 .. Len(s)
    BY <2>1, <2>2, <1>1, <1>9 DEF KeyAbove
  <2>3. CASE j = Len(s) + 1
    BY <2>1, <2>3, <1>1, <1>3, <1>9
  <2> QED
    BY <2>2, <2>3, <1>5
<1> QED
  BY <1>8, <1>9 DEF w

LEMMA KeySingle ==
  ASSUME NEW f \in Frames, f.fn # "kbd", NEW s, s = <<f>>
  PROVE  KeyAbove(s) /\ ~Among("kbd", s)
<1>1. s \in Seq(Frames) /\ Len(s) = 1 /\ s[1] = f
  OBVIOUS
<1>2. \A i \in 1 .. Len(s) : i = 1
  BY <1>1
<1>3. ~Among("kbd", s)
  BY <1>1, <1>2, AmongByIndex
<1> QED
  BY <1>1, <1>2, <1>3 DEF KeyAbove

LEMMA KeyFront ==
  ASSUME NEW s \in Seq(Frames), s # <<>>, Last(s).fn # "kbd"
  PROVE  /\ KeyAbove(s) => KeyAbove(Front(s))
         /\ Among("kbd", s) <=> Among("kbd", Front(s))
         /\ Among("kbd", s) => Len(s) > 1
<1> DEFINE w == Front(s)
<1>1. /\ w \in Seq(Frames) /\ Len(w) = Len(s) - 1
      /\ \A i \in 1 .. Len(s) - 1 : w[i] = s[i]
  BY FrontFacts
<1>2. Len(s) \in Nat /\ Len(s) > 0 /\ s[Len(s)].fn # "kbd"
  BY DEF Last
<1> HIDE DEF w
<1>3. Among("kbd", s) <=> \E i \in 1 .. Len(s) : s[i].fn = "kbd"
  BY AmongByIndex
<1>4. Among("kbd", w) <=> \E i \in 1 .. Len(w) : w[i].fn = "kbd"
  BY <1>1, AmongByIndex
<1>5. \A i \in 1 .. Len(s) : i \in 1 .. Len(w) \/ i = Len(s)
  BY <1>1, <1>2
<1>6. \A i \in 1 .. Len(w) : i \in 1 .. Len(s) /\ w[i] = s[i]
  BY <1>1, <1>2
<1>7. Among("kbd", s) <=> Among("kbd", w)
  BY <1>2, <1>3, <1>4, <1>5, <1>6
<1>8. KeyAbove(s) => KeyAbove(w)
  BY <1>6 DEF KeyAbove
<1>9. Among("kbd", s) => Len(s) > 1
  BY <1>2, <1>3
<1> QED
  BY <1>7, <1>8, <1>9 DEF w

LEMMA EntryKey ==
  ASSUME CInv, KeyCorrect, NEW fn \in {"start", "syscall", "pit", "kbd"}
  PROVE  /\ cpu = User \/ AtHome => KeyAbove(EntryFrames(fn))
         /\ Among("kbd", EntryFrames(fn)) <=> fn = "kbd" \/ OnStack("kbd")
<1> USE PidFacts
<1>1. Frame(fn) \in Frames /\ Frame(fn).fn = fn
  BY DEF Frame, Frames, CInv, IInv, TypeOK
<1>2. CASE cpu = User
  <2>0. PICK empty : empty = <<>>
    OBVIOUS
  <2>1. EntryFrames(fn) = Append(empty, Frame(fn)) /\ ~OnStack("kbd")
    BY <1>2, <2>0 DEF EntryFrames, OnStack
  <2>2. empty \in Seq(Frames) /\ Len(empty) = 0
    BY <2>0
  <2>3. \A i \in 1 .. Len(empty) : FALSE
    BY <2>2
  <2>4. ~Among("kbd", empty)
    BY <2>2, <2>3, AmongByIndex
  <2>5. KeyAbove(empty)
    BY <2>3 DEF KeyAbove
  <2>6. Among("kbd", EntryFrames(fn)) <=> fn = "kbd"
    <3>1. Among("kbd", EntryFrames(fn)) <=> Among("kbd", empty) \/ Frame(fn).fn = "kbd"
      BY <1>1, <2>1, <2>2, KeyAppend
    <3> QED
      BY <3>1, <1>1, <2>4
  <2>7. KeyAbove(EntryFrames(fn))
    BY <1>1, <2>1, <2>2, <2>4, <2>5, KeyAppend
  <2> QED
    BY <2>1, <2>6, <2>7
<1>3. CASE cpu # User
  <2>1. /\ EntryFrames(fn) = Append(stacks[cpu], Frame(fn))
        /\ stacks[cpu] \in Seq(Frames)
        /\ OnStack("kbd") <=> Among("kbd", stacks[cpu])
    BY <1>3 DEF EntryFrames, OnStack, CInv, Typed
  <2>2. AtHome => KeyAbove(stacks[cpu])
    BY <1>3 DEF KeyCorrect
  <2>3. /\ Among("kbd", EntryFrames(fn)) <=> fn = "kbd" \/ OnStack("kbd")
        /\ KeyAbove(stacks[cpu]) => KeyAbove(EntryFrames(fn))
    BY <1>1, <2>1, KeyAppend
  <2> QED
    BY <2>2, <2>3, <1>3
<1> QED
  BY <1>2, <1>3

LEMMA EnterKey ==
  ASSUME CInv, KeyCorrect, NEW fn \in {"start", "syscall", "pit", "kbd"}, InterruptsNest,
         fn = "syscall" => cpu = User, fn = "start" => ~Running,
         fn = "kbd" => Running, Enter(fn),
         UNCHANGED <<table, cur_pid, curr_pid, own, saved>>,
         window_ticks' \in [Pids -> 0 .. MaxTicksPerWindow],
         in_service' \in BOOLEAN, in_service' => in_service \/ fn = "kbd"
  PROVE  KeyCorrect'
<1> DEFINE e == EntryStack
           w == EntryFrames(fn)
<1>1. stacks' = [stacks EXCEPT ![e] = w] /\ cpu' = e /\ e \in Pids
  BY Entry DEF Enter
<1>2. /\ cpu' # User
      /\ AtHome' <=> cpu = User \/ AtHome
      /\ ~Running => BootStack'
  BY EnterKeeps
<1>3. /\ cpu = User \/ AtHome => KeyAbove(w)
      /\ Among("kbd", w) <=> fn = "kbd" \/ OnStack("kbd")
  BY EntryKey
<1> HIDE DEF e, w
<1>4. stacks'[cpu'] = w
  BY <1>1 DEF CInv, Typed
<1>5. /\ UNCHANGED <<process_array, cur_pid, curr_pid, own>>
      /\ Running' = Running
  BY DEF table, Running, Live
<1>6. \A t \in Terms : (Suspended(t)' <=> Suspended(t)) /\ (Waiting(t)' <=> Waiting(t))
  BY <1>5 DEF Suspended, Waiting
<1>7. OnStack("kbd")' <=> Among("kbd", w)
  BY <1>2, <1>4 DEF OnStack
<1>8. AtHome' => KeyAbove(stacks'[cpu'])
  BY <1>2, <1>3, <1>4
<1>9. \A t \in Terms : Suspended(t)' => KeyAbove(own'[cur_pid'[t]].frames)
  BY <1>5, <1>6 DEF KeyCorrect
<1>10. ASSUME ~Running PROVE ~in_service' /\ ~Among("kbd", stacks'[0])
  <2>1. cpu = 0 /\ cpu' = 0
    BY <1>2, <1>10 DEF CInv, BootCorrectly, BootStack
  <2>2. ~OnStack("kbd") /\ ~in_service
    BY <2>1, <1>10 DEF KeyCorrect, OnStack
  <2> QED
    BY <2>1, <2>2, <1>3, <1>4, <1>10
<1>11. in_service' => OnStack("kbd")' \/ \E t \in Terms : Waiting(t)'
  BY <1>3, <1>6, <1>7 DEF KeyCorrect
<1> QED
  BY <1>5, <1>8, <1>9, <1>10, <1>11 DEF KeyCorrect

LEMMA LeaveKey ==
  ASSUME CInv, KeyCorrect, cpu # User, Last(stacks[cpu]).fn \in {"syscall", "pit"},
         Leave,
         UNCHANGED <<table, cur_pid, curr_pid, own>>,
         in_service' = in_service
  PROVE  KeyCorrect'
<1> DEFINE s == stacks[cpu]
           w == Front(s)
<1>1. /\ cpu \in Pids /\ s \in Seq(Frames) /\ s # <<>> /\ Last(s).fn # "kbd"
      /\ Len(s) \in Nat
  BY DEF CInv, Typed, CpuCorrect, Shaped
<1>2. /\ stacks' = [stacks EXCEPT ![cpu] = w]
      /\ cpu' = IF Len(s) = 1 THEN User ELSE cpu
  BY DEF Leave
<1>3. /\ KeyAbove(s) => KeyAbove(w)
      /\ Among("kbd", s) <=> Among("kbd", w)
      /\ Among("kbd", s) => Len(s) > 1
  BY <1>1, KeyFront
<1>4. stacks'[cpu] = w
  BY <1>1, <1>2 DEF CInv, Typed
<1>5. /\ UNCHANGED <<process_array, parent_pid, cur_pid, curr_pid, own>>
      /\ Running' = Running
  BY DEF table, Running, Live
<1>6. \A t \in Terms : (Suspended(t)' <=> Suspended(t)) /\ (Waiting(t)' <=> Waiting(t))
  BY <1>5 DEF Suspended, Waiting
<1> HIDE DEF s, w
<1>7. OnStack("kbd") => Among("kbd", s) /\ ~(Len(s) = 1)
  <2> SUFFICES ASSUME OnStack("kbd") PROVE Among("kbd", s) /\ ~(Len(s) = 1)
    OBVIOUS
  <2>1. Among("kbd", s)
    BY DEF OnStack, s
  <2>2. Len(s) > 1
    BY <2>1, <1>3
  <2>3. ~(Len(s) = 1)
    <3>1. \A n \in Nat : n > 1 => n # 1
      OBVIOUS
    <3>2. Len(s) \in Nat
      BY <1>1
    <3> QED
      BY <2>2, <3>1, <3>2, Zenon
  <2> QED
    BY <2>1, <2>3
<1>8. OnStack("kbd") => OnStack("kbd")'
  BY <1>2, <1>3, <1>4, <1>7 DEF OnStack
<1>9. ASSUME cpu' # User PROVE AtHome' => KeyAbove(stacks'[cpu'])
  <2>1. cpu' = cpu /\ (AtHome' => AtHome)
    BY <1>2, <1>5, <1>9 DEF AtHome
  <2>2. AtHome => KeyAbove(s)
    BY DEF KeyCorrect, s
  <2> QED
    BY <2>1, <2>2, <1>3, <1>4
<1>10. \A t \in Terms : Suspended(t)' => KeyAbove(own'[cur_pid'[t]].frames)
  BY <1>5, <1>6 DEF KeyCorrect
<1>11. ASSUME ~Running PROVE ~in_service' /\ ~Among("kbd", stacks'[0])
  <2>1. cpu = 0
    BY <1>11 DEF CInv, BootCorrectly, BootStack
  <2> QED
    BY <2>1, <1>3, <1>4, <1>11 DEF KeyCorrect, s
<1>12. in_service' => OnStack("kbd")' \/ \E t \in Terms : Waiting(t)'
  BY <1>6, <1>8 DEF KeyCorrect
<1> QED
  BY <1>5, <1>9, <1>10, <1>11, <1>12 DEF KeyCorrect

LEMMA KeyReturnKey ==
  ASSUME CInv, KeyCorrect, KeyReturn
  PROVE  KeyCorrect'
<1> DEFINE s == stacks[cpu]
           w == Front(s)
<1>1. /\ cpu # User /\ Last(s).fn = "kbd" /\ in_service' = FALSE
      /\ stacks' = [stacks EXCEPT ![cpu] = w]
      /\ cpu' = IF Len(s) = 1 THEN User ELSE cpu
      /\ UNCHANGED <<vars, own, saved, window_ticks>>
  BY DEF KeyReturn, At, Top, Leave
<1>2. cpu \in Pids /\ s \in Seq(Frames) /\ s # <<>>
  BY <1>1 DEF CInv, Typed, CpuCorrect, Shaped
<1>3. KeyAbove(s) => KeyAbove(w)
  <2>1. \A i \in 1 .. Len(w) : i \in 1 .. Len(s) /\ w[i] = s[i]
    <3>1. /\ w \in Seq(Frames) /\ Len(w) = Len(s) - 1
          /\ \A i \in 1 .. Len(s) - 1 : w[i] = s[i]
      BY <1>2, FrontFacts
    <3>2. Len(s) \in Nat
      BY <1>2
    <3> HIDE DEF s, w
    <3> QED
      BY <3>1, <3>2
  <2> QED
    BY <2>1 DEF KeyAbove
<1>4. stacks'[cpu] = w
  BY <1>1, <1>2 DEF CInv, Typed
<1>5. /\ UNCHANGED <<process_array, parent_pid, cur_pid, curr_pid, own>>
      /\ Running' = Running
  BY <1>1 DEF vars, table, Running, Live
<1> HIDE DEF s, w
<1>6. ASSUME cpu' # User PROVE AtHome' => KeyAbove(stacks'[cpu'])
  <2>1. cpu' = cpu /\ (AtHome' => AtHome)
    BY <1>1, <1>5, <1>6 DEF AtHome
  <2>2. AtHome => KeyAbove(s)
    BY <1>1 DEF KeyCorrect, s
  <2> QED
    BY <2>1, <2>2, <1>3, <1>4
<1>7. \A t \in Terms : Suspended(t)' => KeyAbove(own'[cur_pid'[t]].frames)
  BY <1>5 DEF KeyCorrect, Suspended
(* Before the first shell no key was pressed: there is nothing to return.  *)
<1>8. Running
  <2> SUFFICES ASSUME ~Running PROVE FALSE
    OBVIOUS
  <2>1. cpu = 0 /\ ~Among("kbd", s)
    BY DEF CInv, BootCorrectly, BootStack, KeyCorrect, s
  <2>2. Len(s) \in 1 .. Len(s) /\ s[Len(s)].fn = "kbd"
    BY <1>1, <1>2 DEF Last
  <2> QED
    BY <2>1, <2>2, <1>2, AmongByIndex
<1> QED
  BY <1>1, <1>5, <1>6, <1>7, <1>8 DEF KeyCorrect

(* A step of execute or halt by the running process: nothing changes for   *)
(* the terminals that wait for their slice.                                *)
LEMMA SliceKey ==
  ASSUME CInv, KeyCorrect, Running, ~OnStack("kbd"), Running',
         NEW q, q = curr_pid', q \notin Live \/ terminal_number[q] = active_tid,
         cur_pid'[active_tid] = q,
         \A t \in Terms : t # active_tid => cur_pid'[t] = cur_pid[t],
         cpu' # User => KeyAbove(stacks'[cpu']),
         UNCHANGED <<own, in_service>>
  PROVE  KeyCorrect'
<1>1. curr_pid = cur_pid[active_tid] /\ active_tid \in Terms
  BY RunningFacts DEF CInv
<1>2. ASSUME NEW t \in Terms, cur_pid'[t] \notin {NoPid, q}
      PROVE  Suspended(t) /\ cur_pid'[t] = cur_pid[t]
  <2>1. t # active_tid /\ cur_pid'[t] = cur_pid[t]
    BY <1>2
  <2>2. cur_pid[t] # NoPid /\ terminal_number[cur_pid[t]] = t
    BY <1>2, <2>1, ForegroundFacts DEF CInv
  <2>3. cur_pid[t] # curr_pid
    BY <2>1, <2>2, RunningFacts DEF CInv
  <2> QED
    BY <2>1, <2>2, <2>3 DEF Suspended
<1>3. ASSUME NEW t \in Terms, Waiting(t)
      PROVE  cur_pid'[t] = cur_pid[t] /\ cur_pid'[t] \notin {NoPid, q}
  <2>1. /\ t # active_tid /\ cur_pid[t] \in Live /\ terminal_number[cur_pid[t]] = t
        /\ cur_pid[t] # NoPid
    BY <1>3, OwnStacks DEF CInv, Waiting, Suspended
  <2> QED
    BY <2>1
<1>4. \A t \in Terms : Suspended(t)' => KeyAbove(own'[cur_pid'[t]].frames)
  BY <1>2 DEF KeyCorrect, Suspended
<1>5. in_service' => \E t \in Terms : Waiting(t)'
  <2> SUFFICES ASSUME in_service PROVE \E t \in Terms : Waiting(t)'
    OBVIOUS
  <2>1. PICK t \in Terms : Waiting(t)
    BY DEF KeyCorrect
  <2>2. Waiting(t)'
    BY <2>1, <1>3 DEF Waiting, Suspended
  <2> QED
    BY <2>2
<1> QED
  BY <1>4, <1>5 DEF KeyCorrect

LEMMA SyscallKeyFree ==
  ASSUME CInv, At("syscall")
  PROVE  /\ ~OnStack("kbd") /\ ~Among("kbd", stacks[cpu]) /\ KeyAbove(stacks[cpu])
<1>1. /\ stacks[cpu] \in Seq(Frames) /\ Len(stacks[cpu]) = 1
      /\ stacks[cpu][1].fn = "syscall"
  BY AtSyscall
<1>2. \A i \in 1 .. Len(stacks[cpu]) : i = 1
  BY <1>1
<1>3. ~Among("kbd", stacks[cpu])
  BY <1>1, <1>2, AmongByIndex
<1> QED
  BY <1>1, <1>2, <1>3 DEF OnStack, KeyAbove

LEMMA SyscallsKey ==
  ASSUME CInv, IInv', KeyCorrect, ~EarlyInput,
         SyscallExecute \/ SyscallHaltShell \/ SyscallHaltChild
  PROVE  KeyCorrect'
<1> USE PidFacts
<1>0. PICK q : q = curr_pid'
  OBVIOUS
<1>1. At("syscall") /\ UNCHANGED <<own, in_service>>
  BY DEF SyscallExecute, SyscallHaltShell, SyscallHaltChild
<1>2. /\ Running /\ ~OnStack("kbd") /\ ~Among("kbd", stacks[cpu])
      /\ KeyAbove(stacks[cpu])
      /\ cpu = curr_pid /\ curr_pid \in Pids /\ stacks[cpu] \in Seq(Frames)
  BY <1>1, SyscallKeyFree, AtSyscall
<1> DEFINE f == [fn |-> "exec", pid |-> q]
           w == Append(stacks[cpu], f)
<1>3. ASSUME q \in Pids PROVE KeyAbove(w)
  <2>1. f \in Frames
    BY <1>3 DEF Frames
  <2> QED
    BY <2>1, <1>2, KeyAppend
<1>4. /\ curr_pid = cur_pid[active_tid] /\ active_tid \in Terms
      /\ terminal_number[curr_pid] = active_tid
      /\ terminal_number[parent_pid[curr_pid]] = active_tid
  BY <1>2, RunningFacts DEF CInv
<1>5. CASE SyscallExecute
  <2>1. /\ q \in Pids /\ q \notin Live /\ Live' = Live \cup {q}
        /\ \A u \in Terms :
             cur_pid'[u] = IF u = active_tid THEN q ELSE cur_pid[u]
    BY <1>0, <1>5, ExecuteFacts DEF CInv, SyscallExecute
  <2>2. stacks' = [stacks EXCEPT ![cpu] = w] /\ cpu' = cpu
    BY <1>0, <1>5 DEF SyscallExecute, PushExec
  <2> HIDE DEF w
  <2>3. stacks'[cpu'] = w
    BY <2>2, <1>2 DEF CInv, Typed
  <2>4. Running'
    BY <2>1 DEF Running
  <2> QED
    BY <2>1, <2>3, <2>4, <1>0, <1>1, <1>2, <1>3, <1>4, SliceKey
<1>6. CASE SyscallHaltShell
  <2>1. /\ UNCHANGED <<process_array, cur_pid>> /\ q = curr_pid
    BY <1>0, <1>6, HaltShellFacts DEF CInv, SyscallHaltShell
  <2>2. stacks' = [stacks EXCEPT ![cpu] = w] /\ cpu' = cpu
    BY <1>0, <1>6 DEF SyscallHaltShell, PushExec
  <2> HIDE DEF w
  <2>3. stacks'[cpu'] = w
    BY <2>2, <1>2 DEF CInv, Typed
  <2>4. Running'
    BY <2>1, <1>2 DEF Running, Live
  <2> QED
    BY <2>1, <2>3, <2>4, <1>0, <1>1, <1>2, <1>3, <1>4, SliceKey
<1>7. CASE SyscallHaltChild
  <2> DEFINE call == ExecCall(curr_pid)
             v == Front(call)
  <2>1. /\ curr_pid \in Live \ Terms /\ q = parent_pid[curr_pid] /\ q \in Live'
        /\ Live' = Live \ {curr_pid}
        /\ \A u \in Terms :
             cur_pid'[u] = IF u = active_tid THEN q ELSE cur_pid[u]
    BY <1>0, <1>7, HaltChildFacts DEF CInv, SyscallHaltChild
  <2>2. saved[curr_pid] = [stk |-> q, frames |-> call]
    BY <2>1 DEF CInv, SavedCorrect
  <2>3. call \in Seq(Frames) /\ Len(call) = 2
    BY <2>1, ExecCallType DEF CInv
  <2> HIDE DEF call
  <2>4. v \in Seq(Frames) /\ Len(v) = 1
    <3>1. call # <<>>
      BY ONLY <2>3, LongerThanEmpty
    <3>2. v \in Seq(Frames) /\ Len(v) = Len(call) - 1
      BY <2>3, <3>1, FrontFacts
    <3> QED
      BY <2>3, <3>2
  <2>5. stacks' = [stacks EXCEPT ![curr_pid] = <<>>, ![q] = v] /\ cpu' = q
    BY <2>2, <1>7 DEF SyscallHaltChild
  <2> HIDE DEF v
  <2>6. stacks'[cpu'] = v
    BY <2>1, <2>5 DEF CInv, Typed
  <2>7. KeyAbove(v)
    <3>1. \A i, j \in 1 .. Len(v) : ~(i < j)
      BY <2>4
    <3> QED
      BY <3>1 DEF KeyAbove
  <2>8. Running'
    BY <2>1 DEF Running
  <2> QED
    BY <2>1, <2>6, <2>7, <2>8, <1>0, <1>1, <1>2, <1>4, SliceKey
<1> QED
  BY <1>5, <1>6, <1>7

LEMMA EnterProgramKey ==
  ASSUME CInv, KeyCorrect, EnterProgram
  PROVE  KeyCorrect'
<1> USE PidFacts
<1> DEFINE s == stacks[cpu]
<1>1. /\ cpu # User /\ cpu' = User /\ Last(s).fn = "exec"
      /\ UNCHANGED <<vars, stacks, own, saved, in_service>>
  BY DEF EnterProgram, At, Top
<1>2. /\ cpu \in Pids /\ s \in Seq(Frames) /\ s # <<>>
      /\ (AtHome \/ Guest)
  BY <1>1 DEF CInv, Typed, CpuCorrect, Shaped
<1>3. Running
  BY <1>1, ExecRuns
<1>4. /\ UNCHANGED <<process_array, cur_pid, curr_pid, own>>
      /\ Running' = Running
  BY <1>1 DEF vars, table, Running, Live
<1>5. \A t \in Terms : (Suspended(t)' <=> Suspended(t)) /\ (Waiting(t)' <=> Waiting(t))
  BY <1>4 DEF Suspended, Waiting
<1>6. /\ Len(s) \in Nat /\ Len(s) \in 1 .. Len(s) /\ s[Len(s)].fn = "exec"
      /\ Among("kbd", s) <=> \E i \in 1 .. Len(s) : s[i].fn = "kbd"
  <2>1. Len(s) \in 1 .. Len(s) /\ s[Len(s)].fn = "exec"
    BY <1>1, <1>2 DEF Last
  <2> QED
    BY <2>1, <1>2, AmongByIndex
<1> HIDE DEF s
<1>7. ASSUME Among("kbd", s) PROVE \E t \in Terms : Waiting(t)
  <2>1. PICK i \in 1 .. Len(s) : s[i].fn = "kbd"
    BY <1>6, <1>7
  <2>2. i < Len(s)
    BY <2>1, <1>6
  <2>3. ~KeyAbove(s)
    BY <2>1, <2>2, <1>6 DEF KeyAbove
  <2>4. Guest
    BY <2>3, <1>1, <1>2 DEF KeyCorrect, s
  <2> DEFINE host == curr_pid - 1
             g == own[host].frames
             base == Len(g)
  <2>5. /\ host \in Terms /\ Suspended(host) /\ cur_pid[host] = host /\ cpu = host
        /\ g \in Seq(Frames) /\ base \in Nat
        /\ IsPrefix(g, stacks[host])
    BY <2>4, GuestFacts
  <2>6. /\ Len(s) > base /\ s[base + 1].fn = "exec"
        /\ \A j \in base + 2 .. Len(s) : s[j].fn \in {"pit", "kbd"}
    BY <2>4, <2>5 DEF Guest, s
  <2>7. \A j \in 1 .. base : g[j] = s[j]
    BY <2>5, <1>2, PrefixByIndex DEF s
  <2> HIDE DEF base
  <2>8. ~(Len(s) \in base + 2 .. Len(s)) /\ i # base + 1
    BY <2>1, <2>6, <1>6
  <2>9. i \in 1 .. base
    BY <2>1, <2>2, <2>5, <2>6, <2>8, <1>6
  <2>10. g[i].fn = "kbd"
    BY <2>1, <2>7, <2>9
  <2>11. Among("kbd", g)
    BY <2>5, <2>9, <2>10, AmongByIndex DEF base
  <2> QED
    BY <2>5, <2>11 DEF Waiting
<1>8. OnStack("kbd") => \E t \in Terms : Waiting(t)
  BY <1>1, <1>7 DEF OnStack, s
<1>9. in_service' => \E t \in Terms : Waiting(t)'
  BY <1>1, <1>5, <1>8 DEF KeyCorrect
<1>10. \A t \in Terms : Suspended(t)' => KeyAbove(own'[cur_pid'[t]].frames)
  BY <1>4, <1>5 DEF KeyCorrect
<1> QED
  BY <1>1, <1>3, <1>4, <1>9, <1>10 DEF KeyCorrect

LEMMA StartFirstKey ==
  ASSUME CInv, KeyCorrect, StartFirst
  PROVE  KeyCorrect'
<1> USE PidFacts
<1>0. PICK new : new = curr_pid'
  OBVIOUS
<1> DEFINE s == stacks[cpu]
           f == [fn |-> "exec", pid |-> new]
           w == Append(s, f)
<1>1. /\ cpu # User /\ Last(s).fn = "start"
      /\ PitStartShell /\ stacks' = [stacks EXCEPT ![cpu] = w] /\ cpu' = cpu
      /\ UNCHANGED <<own, in_service>>
  BY <1>0 DEF StartFirst, At, Top, PushExec
<1>2. cpu \in Pids /\ s \in Seq(Frames) /\ s # <<>>
  BY <1>1 DEF CInv, Typed, CpuCorrect, Shaped
<1>3. ~Running
  BY <1>1, StartBoots
<1>4. /\ cpu = 0 /\ ~in_service /\ ~Among("kbd", s)
      /\ \A i \in 1 .. Len(s) : s[i].fn # "exec"
  BY <1>3 DEF CInv, BootCorrectly, BootStack, KeyCorrect
<1>5. /\ new \in Pids /\ Live' = Live \cup {new}
      /\ \A u \in Terms : cur_pid'[u] = IF u = new THEN new ELSE cur_pid[u]
  BY <1>0, <1>1, StartFacts DEF CInv
<1>6. f \in Frames
  BY <1>5 DEF Frames
<1> HIDE DEF s
<1>7. KeyAbove(s)
  BY <1>4 DEF KeyAbove
<1>8. KeyAbove(w)
  BY <1>2, <1>4, <1>6, <1>7, KeyAppend
<1> HIDE DEF w
<1>9. stacks'[cpu] = w
  BY <1>1, <1>2 DEF CInv, Typed
<1>10. \A t \in Terms : cur_pid[t] = NoPid
  BY <1>3, ForegroundFacts DEF CInv, Running
<1>11. \A t \in Terms : ~Suspended(t)'
  BY <1>0, <1>5, <1>10 DEF Suspended
<1>12. Running'
  BY <1>5 DEF Running
<1> QED
  BY <1>1, <1>4, <1>8, <1>9, <1>11, <1>12 DEF KeyCorrect

LEMMA StartNextKey ==
  ASSUME CInv, KeyCorrect, MaxTicksPerWindow <= 1, StartNext
  PROVE  KeyCorrect'
<1> USE PidFacts
<1>0. PICK new : new = curr_pid'
  OBVIOUS
<1> DEFINE p == new - 1
           s == EntryFrames("pit")
<1>1. /\ new \in Terms /\ new \in Pids /\ new \notin Live
      /\ Booting /\ Running /\ Live' = Live \cup {new}
      /\ p \in Pids /\ p \in Live /\ p \in Terms /\ p # new /\ p = curr_pid
      /\ parent_pid'[new] = new
  BY <1>0, StartNextFacts
<1>2. /\ \A u \in Terms : cur_pid'[u] = IF u = new THEN new ELSE cur_pid[u]
      /\ cur_pid'[p] = p
      /\ cpu # User => AtHome
      /\ EntryStack = p
      /\ own' = [own EXCEPT ![p] = [stk |-> p, frames |-> s]]
  BY <1>0, StartNextFacts
<1>3. cpu' = p /\ in_service' = in_service
  BY <1>2 DEF StartNext, PushExec
<1>4. /\ KeyAbove(s)
      /\ OnStack("kbd") => Among("kbd", s)
  BY <1>2, EntryKey
<1> HIDE DEF p, s
<1>5. \A q \in Pids : own'[q] = IF q = p THEN [stk |-> p, frames |-> s] ELSE own[q]
  BY <1>2 DEF CInv, Typed
<1>6. ~AtHome'
  BY <1>0, <1>1, <1>3 DEF AtHome
<1>7. own'[p].frames = s /\ p # NoPid
  <2>1. own'[p].frames = s
    BY <1>1, <1>5
  <2>2. p # NoPid
    BY <1>1, SizeFacts
  <2> QED
    BY <2>1, <2>2
<1>8. ASSUME NEW t \in Terms, cur_pid'[t] \notin {NoPid, new}, cur_pid'[t] # p
      PROVE  /\ Suspended(t) /\ cur_pid'[t] = cur_pid[t]
             /\ own'[cur_pid[t]] = own[cur_pid[t]]
  <2>1. cur_pid'[t] = cur_pid[t]
    BY <1>8, <1>2
  <2>2. Suspended(t)
    BY <2>1, <1>1, <1>8 DEF Suspended
  <2>3. cur_pid[t] \in Pids
    BY <2>2, OwnStacks DEF CInv
  <2> QED
    BY <2>1, <2>2, <2>3, <1>5, <1>8
<1>9. \A t \in Terms : Suspended(t)' => KeyAbove(own'[cur_pid'[t]].frames)
  <2> SUFFICES ASSUME NEW t \in Terms, cur_pid'[t] \notin {NoPid, new}
               PROVE  KeyAbove(own'[cur_pid'[t]].frames)
    BY <1>0 DEF Suspended
  <2>1. CASE cur_pid'[t] = p
    BY <2>1, <1>4, <1>7
  <2>2. CASE cur_pid'[t] # p
    BY <2>2, <1>8 DEF KeyCorrect
  <2> QED
    BY <2>1, <2>2
<1>10. ASSUME OnStack("kbd") PROVE Waiting(p)'
  BY <1>0, <1>1, <1>2, <1>4, <1>7, <1>10 DEF Waiting, Suspended
<1>11. ASSUME NEW t \in Terms, Waiting(t) PROVE Waiting(t)'
  <2>1. /\ cur_pid[t] \in Live /\ cur_pid[t] # NoPid /\ cur_pid[t] # p
        /\ cur_pid[t] # new
    BY <1>1, <1>11, OwnStacks DEF Waiting, Suspended, CInv
  <2>2. cur_pid'[t] = cur_pid[t]
    <3>1. t # new
      BY <2>1, <1>1, <1>11, BootFacts DEF CInv
    <3> QED
      BY <3>1, <1>2
  <2>3. own'[cur_pid[t]] = own[cur_pid[t]]
    BY <2>1, <1>5
  <2> QED
    BY <2>1, <2>2, <2>3, <1>0, <1>11 DEF Waiting, Suspended
<1>12. in_service' => \E t \in Terms : Waiting(t)'
  BY <1>1, <1>3, <1>10, <1>11 DEF KeyCorrect
<1>13. Running'
  BY <1>1 DEF Running
<1> QED
  BY <1>6, <1>9, <1>12, <1>13 DEF KeyCorrect

LEMMA TickSwitchKey ==
  ASSUME CInv, KeyCorrect, MaxTicksPerWindow <= 1, TickSwitch
  PROVE  KeyCorrect'
<1> USE PidFacts
<1>0. PICK q : q = curr_pid'
  OBVIOUS
<1> DEFINE e == EntryStack
           w == EntryFrames("pit")
           stored == [stk |-> e, frames |-> w]
           resumed == IF q = curr_pid THEN stored ELSE own[q]
           r == resumed.stk
           g == resumed.frames
           next == reschedule
<1>1. /\ PitSwitch
      /\ own' = [own EXCEPT ![curr_pid] = stored, ![q] = NoPointer]
      /\ stacks' = [stacks EXCEPT ![e] = w, ![r] = g]
      /\ cpu' = r
      /\ in_service' = in_service
  BY <1>0 DEF TickSwitch
<1>2. /\ Running /\ UNCHANGED cur_pid /\ Live' = Live
      /\ next \in Terms /\ q = cur_pid[next] /\ q \in Live
  BY <1>0, <1>1, SwitchFacts DEF CInv
<1> HIDE DEF next
<1>3. /\ curr_pid \in Live /\ active_tid \in Terms /\ curr_pid = cur_pid[active_tid]
      /\ parent_pid[curr_pid] \in Live
  BY <1>2, RunningFacts DEF CInv
<1>4. /\ KeyAbove(w)
      /\ OnStack("kbd") => Among("kbd", w)
  BY SwitchEntry, EntryKey
<1>5. e \in Pids
  BY <1>3, SwitchEntry
<1> HIDE DEF e, w
<1>6. q # curr_pid => Suspended(next)
  BY <1>2, SizeFacts DEF Suspended
<1>7. r \in Pids /\ KeyAbove(g)
  <2>1. CASE q = curr_pid
    BY <2>1, <1>4, <1>5
  <2>2. CASE q # curr_pid
    BY <2>2, <1>2, <1>6 DEF KeyCorrect, CInv, Typed, Pointers
  <2> QED
    BY <2>1, <2>2
<1>8. stacks'[cpu'] = g /\ cpu' # User
  <2> HIDE DEF resumed
  <2> QED
    BY <1>1, <1>5, <1>7 DEF CInv, Typed
<1>9. \A p \in Pids : own'[p] = IF p = q THEN NoPointer
                                ELSE IF p = curr_pid THEN stored ELSE own[p]
  BY <1>1, <1>2, <1>3 DEF CInv, Typed
<1>10. \A t \in Terms : Suspended(t)' => KeyAbove(own'[cur_pid'[t]].frames)
  <2> SUFFICES ASSUME NEW t \in Terms, cur_pid[t] \notin {NoPid, q}
               PROVE  KeyAbove(own'[cur_pid[t]].frames)
    BY <1>0, <1>2 DEF Suspended
  <2>1. CASE cur_pid[t] = curr_pid
    BY <2>1, <1>3, <1>4, <1>9
  <2>2. CASE cur_pid[t] # curr_pid
    <3>1. Suspended(t) /\ cur_pid[t] \in Pids
      BY <2>2, OwnStacks DEF Suspended, CInv
    <3>2. own'[cur_pid[t]] = own[cur_pid[t]]
      BY <3>1, <2>2, <1>9
    <3> QED
      BY <3>1, <3>2 DEF KeyCorrect
  <2> QED
    BY <2>1, <2>2
<1>11. ASSUME Among("kbd", w)
       PROVE  OnStack("kbd")' \/ \E t \in Terms : Waiting(t)'
  <2>1. CASE q = curr_pid
    BY <2>1, <1>8, <1>11 DEF OnStack
  <2>2. CASE q # curr_pid
    <3>1. own'[curr_pid].frames = w
      BY <2>2, <1>3, <1>9
    <3>2. PICK t \in Terms : cur_pid[t] = curr_pid
      BY <1>3
    <3>3. curr_pid # NoPid
      BY <1>3, SizeFacts
    <3>4. Suspended(t)'
      BY <2>2, <3>2, <3>3, <1>0, <1>2 DEF Suspended
    <3>5. Among("kbd", own'[cur_pid'[t]].frames)
      BY <3>1, <3>2, <1>2, <1>11
    <3> QED
      BY <3>4, <3>5 DEF Waiting
  <2> QED
    BY <2>1, <2>2
<1>12. ASSUME NEW t \in Terms, Waiting(t) PROVE OnStack("kbd")' \/ Waiting(t)'
  <2>1. /\ Among("kbd", own[cur_pid[t]].frames) /\ cur_pid[t] \in Pids
        /\ cur_pid[t] # curr_pid /\ cur_pid[t] # NoPid
    BY <1>12, OwnStacks DEF Waiting, Suspended, CInv
  <2>2. CASE cur_pid[t] = q
    <3>1. Among("kbd", g)
      BY <2>1, <2>2
    <3> QED
      BY <3>1, <1>8 DEF OnStack
  <2>3. CASE cur_pid[t] # q
    <3>1. own'[cur_pid[t]] = own[cur_pid[t]]
      BY <2>1, <2>3, <1>9
    <3> QED
      BY <2>1, <2>3, <3>1, <1>0, <1>2 DEF Waiting, Suspended
  <2> QED
    BY <2>2, <2>3
<1>13. in_service' => OnStack("kbd")' \/ \E t \in Terms : Waiting(t)'
  BY <1>1, <1>3, <1>4, <1>11, <1>12 DEF KeyCorrect
<1>14. Running'
  BY <1>2 DEF Running
<1> QED
  BY <1>7, <1>8, <1>10, <1>13, <1>14 DEF KeyCorrect

LEMMA KeyCorrectKeeps ==
  ASSUME CInv, KeyCorrect, ~EarlyInput, ~KeysAtBoot, MaxTicksPerWindow <= 1,
         [ContextNext]_allvars
  PROVE  KeyCorrect'
<1>1. CASE UNCHANGED allvars
  <2>1. /\ UNCHANGED <<stacks, cpu, own, in_service>>
        /\ UNCHANGED <<process_array, parent_pid, cur_pid, curr_pid>>
    BY <1>1 DEF allvars, context, vars, table
  <2>2. Running' = Running /\ AtHome' = AtHome
    BY <2>1 DEF Running, Live, AtHome
  <2>3. \A t \in Terms : (Suspended(t)' <=> Suspended(t)) /\ (Waiting(t)' <=> Waiting(t))
    BY <2>1 DEF Suspended, Waiting
  <2> QED
    BY <2>1, <2>2, <2>3 DEF KeyCorrect, OnStack
<1>2. CASE Syscall
  <2>1. /\ cpu = User /\ Enter("syscall") /\ InterruptsNest
        /\ UNCHANGED <<table, cur_pid, curr_pid, own, saved, window_ticks, in_service>>
    BY <1>2 DEF Syscall, InterruptsNest, vars
  <2> QED
    BY <2>1, EnterKey DEF CInv, Typed
<1>3. CASE SyscallReturn \/ PitReturn
  <2>1. /\ cpu # User /\ Last(stacks[cpu]).fn \in {"syscall", "pit"} /\ Leave
        /\ UNCHANGED <<table, cur_pid, curr_pid, own, in_service>>
    BY <1>3 DEF SyscallReturn, PitReturn, At, Top, vars
  <2> QED
    BY <2>1, LeaveKey
<1>4. CASE KeyReturn
  BY <1>4, KeyReturnKey
<1>5. CASE SyscallExecute \/ SyscallHaltShell \/ SyscallHaltChild
  <2>1. IInv'
    BY ProcessStep, ProcessKeeps DEF CInv
  <2> QED
    BY <2>1, <1>5, SyscallsKey
<1>6. CASE EnterProgram
  BY <1>6, EnterProgramKey
<1>7. CASE TickFirst
  <2>1. /\ Enter("start") /\ InterruptsNest /\ shell_tid = 0 /\ Booting
        /\ cur_pid[0] = NoPid
        /\ UNCHANGED <<table, cur_pid, curr_pid, own, saved, window_ticks, in_service>>
    BY <1>7 DEF TickFirst, TickAllowed, vars
  <2>2. ~Running
    BY <2>1, Numbers DEF CInv, IInv, BootOrder, Running, Live
  <2> QED
    BY <2>1, <2>2, EnterKey DEF CInv, Typed
<1>8. CASE TickNextShell
  <2>1. /\ Enter("pit") /\ InterruptsNest /\ CountTick /\ TickAllowed
        /\ UNCHANGED <<table, cur_pid, curr_pid, own, saved, in_service>>
    BY <1>8 DEF TickNextShell, TickAllowed, PitNextShell
  <2>2. window_ticks' \in [Pids -> 0 .. MaxTicksPerWindow]
    BY <2>1, CountTickType
  <2> QED
    BY <2>1, <2>2, EnterKey DEF CInv, Typed
<1>9. CASE Key
  <2>1. /\ Enter("kbd") /\ InterruptsNest /\ Running /\ in_service' \in BOOLEAN
        /\ UNCHANGED <<table, cur_pid, curr_pid, own, saved, window_ticks>>
    BY <1>9 DEF Key, vars
  <2> QED
    BY <2>1, EnterKey DEF CInv, Typed
<1>10. CASE StartFirst
  BY <1>10, StartFirstKey
<1>11. CASE StartNext
  BY <1>11, StartNextKey
<1>12. CASE TickSwitch
  BY <1>12, TickSwitchKey
<1> QED
  BY <1>1, <1>2, <1>3, <1>4, <1>5, <1>6, <1>7, <1>8, <1>9, <1>10, <1>11, <1>12
     DEF ContextNext

LEMMA InitKeyCorrect == ContextInit => KeyCorrect
<1> SUFFICES ASSUME ContextInit PROVE KeyCorrect
  OBVIOUS
<1>1. PICK f : f = [fn |-> "idle", pid |-> 0]
  OBVIOUS
<1>2. f \in Frames /\ f.fn # "kbd"
  BY <1>1, PidFacts DEF Frames
<1>3. /\ stacks[0] = <<f>> /\ cpu = 0 /\ in_service = FALSE
      /\ \A t \in Terms : ~Suspended(t)
  BY <1>1, PidFacts DEF ContextInit, Init, Frame, Suspended
<1>4. KeyAbove(stacks[0]) /\ ~Among("kbd", stacks[0])
  BY <1>2, <1>3, KeySingle
<1> QED
  BY <1>3, <1>4 DEF KeyCorrect

(* A keyboard interrupt waiting for its EOI always has a handler that will *)
(* be resumed to send it: on the current stack, or where a stored own_esp  *)
(* leads.  No halt, switch or start of a shell drops its frame.            *)
THEOREM EoiCorrect ==
  ASSUME ~EarlyInput, ~KeysAtBoot, MaxTicksPerWindow <= 1
  PROVE  ContextSpec => []EoiPending
<1>1. KeyCorrect => EoiPending
  BY DEF KeyCorrect, EoiPending, Waiting, Suspended
<1>2. CInv /\ KeyCorrect /\ [ContextNext]_allvars => KeyCorrect'
  BY KeyCorrectKeeps
<1> QED
  BY <1>1, <1>2, InitKeyCorrect, CInvInductive, PTL DEF ContextSpec
=============================================================================
