--------------------------- MODULE ProcessProofs ---------------------------
(***************************************************************************)
(* Proofs about Process, for any number of processes and terminals.        *)
(***************************************************************************)
EXTENDS ProcessSessions, FiniteSetTheorems, TLAPS

-----------------------------------------------------------------------------
(* Type correctness.  A tick indexes pcb_array with the cur_pid of the     *)
(* next terminal, so the type of curr_pid rests on every terminal that was *)
(* passed having a process.                                                *)

Passed == \A t \in Terms : t < shell_tid => cur_pid[t] # NoPid

TypeInv == TypeOK /\ Passed

LEMMA SizeFacts ==
  /\ Process \in Nat /\ terminal_total_num \in Nat
  /\ terminal_total_num > 0 /\ terminal_total_num <= Process
  /\ terminal_total_num <= 255
  /\ Terms \subseteq Pids /\ Pids \subseteq Nat
  /\ NoPid \notin Pids /\ NoTerm \notin Terms
  /\ 0 \in Terms /\ 0 \in Pids
BY SizeAssumption, SMT DEF Terms, Pids, NoPid, NoTerm

LEMMA LaunchType ==
  ASSUME TypeInv, NEW new \in Pids, Launch(new)
  PROVE  /\ process_array' \in [Pids -> {0, 1}]
         /\ parent_pid' \in [Pids -> Pids]
         /\ terminal_number' \in [Pids -> Terms \cup Pids \cup {NoTerm}]
         /\ cur_pid' \in [Terms -> Pids \cup {NoPid}]
         /\ \A t \in Terms : cur_pid[t] # NoPid => cur_pid'[t] # NoPid
         /\ curr_pid' \in Pids
         /\ curr_parent_pid' \in Pids
         /\ prog_page' \in Pids \cup {NoPid}
         /\ vid_page' \in Terms \cup {VIDEO, NoPage}
         /\ esp0' \in Pids
<1> DEFINE tid == IF Booting THEN shell_tid ELSE terminal_number[curr_pid]
           parent == IF Booting THEN new ELSE curr_pid
<1> USE SizeFacts
<1>1. tid \in Terms \cup Pids \cup {NoTerm}
  BY DEF TypeInv, TypeOK, Booting, Terms
<1>2. parent \in Pids /\ BoundParent(new, parent) \in Pids
  BY DEF TypeInv, TypeOK, BoundParent
<1>3. VideoPage(tid) \in Terms \cup {VIDEO, NoPage}
  BY DEF VideoPage, Buffer
<1>4. cur_pid' = [t \in Terms |-> IF t = tid THEN new ELSE cur_pid[t]]
  BY DEF Launch, SetForeground
<1> QED
  BY <1>1, <1>2, <1>3, <1>4 DEF Launch, MapProcess, TypeInv, TypeOK

LEMMA InitType == Init => TypeInv
<1> USE SizeFacts
<1> SUFFICES ASSUME Init PROVE TypeInv
  OBVIOUS
<1>1. PICK garbage \in Terms \cup {NoTerm} :
         terminal_number = [p \in Pids |-> garbage]
  BY DEF Init
<1>2. Passed
  BY DEF Init, Passed, Terms
<1>3. terminal_number \in [Pids -> Terms \cup Pids \cup {NoTerm}]
  BY <1>1
<1>4. shell_tid \in 0 .. terminal_total_num
  BY DEF Init
<1>5. frozen \in BOOLEAN
  BY Zenon DEF Init
<1> QED
  BY <1>2, <1>3, <1>4, <1>5 DEF Init, TypeInv, TypeOK

LEMMA TypeKeeps == TypeInv /\ [Next]_vars => TypeInv'
<1> USE SizeFacts
<1> SUFFICES ASSUME TypeInv, [Next]_vars PROVE TypeInv'
  OBVIOUS
<1>1. CASE Execute
  <2>1. PICK new \in Pids : Launch(new)
    BY <1>1 DEF Execute
  <2> QED
    BY <1>1, <2>1, LaunchType DEF Execute, TypeInv, TypeOK, Passed
<1>2. CASE HaltShell
  <2>1. VideoPage(curr_pid) \in Terms \cup {VIDEO, NoPage}
    BY DEF VideoPage, Buffer
  <2> QED
    BY <1>2, <2>1 DEF HaltShell, SetForeground, MapProcess, BoundParent,
                      TypeInv, TypeOK, Passed
<1>3. CASE HaltChild
  <2>1. parent_pid' \in [Pids -> Pids]
    BY <1>3 DEF HaltChild, TypeInv, TypeOK
  <2>2. terminal_number' \in [Pids -> Terms \cup Pids \cup {NoTerm}]
    BY <1>3 DEF HaltChild, TypeInv, TypeOK
  <2>3. cur_pid' \in [Terms -> Pids \cup {NoPid}] /\ Passed'
    BY <1>3 DEF HaltChild, SetForeground, TypeInv, TypeOK, Passed
  <2> QED
    BY <1>3, <2>1, <2>2, <2>3 DEF HaltChild, MapProcess, TypeInv, TypeOK
<1>4. CASE PitStartShell
  <2>1. PICK new \in Pids : Launch(new)
    BY <1>4 DEF PitStartShell
  <2>2. shell_tid \in Terms
    BY <1>4 DEF PitStartShell, Booting, Terms, TypeInv, TypeOK
  <2> QED
    BY <1>4, <2>1, <2>2, LaunchType
       DEF PitStartShell, TypeInv, TypeOK, Passed
<1>5. CASE PitStartFails
  <2>1. shell_tid \in Terms
    BY <1>5 DEF PitStartFails, Booting, Terms, TypeInv, TypeOK
  <2> QED
    BY <1>5, <2>1 DEF PitStartFails, table, TypeInv, TypeOK, Passed
<1>6. CASE PitNextShell
  <2>1. shell_tid \in Terms /\ shell_tid + 1 \in 0 .. terminal_total_num
    BY <1>6 DEF PitNextShell, Booting, Terms, TypeInv, TypeOK
  <2>2. Passed'
    BY <1>6, <2>1 DEF PitNextShell, Terms, TypeInv, TypeOK, Passed
  <2> QED
    BY <1>6, <2>1, <2>2 DEF PitNextShell, table, TypeInv, TypeOK
<1>7. CASE PitSwitch
  <2> DEFINE next == (active_tid + 1) % terminal_total_num
  <2>1. next \in Terms /\ next < shell_tid
    BY <1>7 DEF PitSwitch, Booting, Terms, TypeInv, TypeOK
  <2>2. cur_pid[next] \in Pids
    BY <2>1 DEF TypeInv, TypeOK, Passed
  <2>3. VideoPage(next) \in Terms \cup {VIDEO, NoPage}
    BY DEF VideoPage, Buffer
  <2> QED
    BY <1>7, <2>1, <2>2, <2>3
       DEF PitSwitch, reschedule, MapProcess, table, TypeInv, TypeOK, Passed
<1>8. ASSUME NEW t \in Terms, TerminalSwitch(t) PROVE TypeInv'
  BY <1>8 DEF TerminalSwitch, Buffer, table, TypeInv, TypeOK, Passed
<1>9. CASE Vidmap
  BY <1>9 DEF Vidmap, table, TypeInv, TypeOK, Passed
<1>10. CASE Exception
  BY <1>10 DEF Exception, table, TypeInv, TypeOK, Passed
<1>11. CASE UNCHANGED vars
  BY <1>11 DEF vars, table, TypeInv, TypeOK, Passed
<1> QED
  BY <1>1, <1>2, <1>3, <1>4, <1>5, <1>6, <1>7, <1>8, <1>9, <1>10, <1>11
     DEF Next, pit_handler

(* Every variable keeps its type in every behaviour, commands typed during *)
(* the boot and exceptions included: in particular the scheduler never     *)
(* indexes pcb_array with the -1 of a terminal that has no process.        *)
THEOREM TypeCorrect == Spec => []TypeOK
<1>1. Init => TypeInv
  BY InitType
<1>2. TypeInv /\ [Next]_vars => TypeInv'
  BY TypeKeeps
<1>3. TypeInv => TypeOK
  BY DEF TypeInv
<1> QED
  BY <1>1, <1>2, <1>3, PTL DEF Spec

-----------------------------------------------------------------------------
(* The call chains.  None of the safety properties is inductive alone: a   *)
(* halt keeps ForegroundOwned only because the parent is in use and on the *)
(* same terminal (CallChains), which holds after an execute only because   *)
(* the running process is the foreground process of the active terminal    *)
(* (ForegroundRuns), which a tick keeps only because every terminal has a  *)
(* process (BootOrder).  Their conjunction is inductive.                   *)

IInv ==
  /\ TypeOK
  /\ ForegroundOwned
  /\ CallChains
  /\ RootsAreShells
  /\ MachineConsistent
  /\ ForegroundRuns
  /\ VideoConfined
  /\ BootOrder

LEMMA Numbers ==
  ASSUME IInv
  PROVE  /\ Process \in Nat /\ terminal_total_num \in Nat
         /\ terminal_total_num > 0 /\ terminal_total_num <= Process
         /\ shell_tid \in Nat /\ shell_tid <= terminal_total_num
         /\ \A t \in Terms : t \in Pids
         /\ \A p \in Pids : p \in Nat /\ p # NoPid
         /\ \A t \in Terms : t \in Nat /\ t # NoTerm
         /\ VIDEO \notin Terms
BY SizeAssumption, SMT DEF IInv, TypeOK, Terms, Pids, NoPid, NoTerm, VIDEO

(* What a program that can act may rely on.                                *)
LEMMA UserFacts ==
  ASSUME IInv, ~EarlyInput, UserRuns
  PROVE  /\ ~Booting
         /\ curr_pid \in Live
         /\ curr_pid = cur_pid[active_tid]
         /\ terminal_number[curr_pid] = active_tid
         /\ curr_parent_pid = parent_pid[curr_pid]
         /\ curr_parent_pid \in Live
         /\ terminal_number[curr_parent_pid] = active_tid
<1>1. ~Booting /\ Running
  BY DEF UserRuns
<1>2. curr_pid \in Live /\ curr_parent_pid = parent_pid[curr_pid]
  BY <1>1 DEF IInv, MachineConsistent
<1>3. curr_pid = cur_pid[active_tid]
  BY <1>1 DEF IInv, ForegroundRuns
<1>4. terminal_number[curr_pid] = active_tid
  BY <1>2, <1>3, Numbers DEF IInv, TypeOK, ForegroundOwned
<1>5. parent_pid[curr_pid] \in Live
      /\ terminal_number[parent_pid[curr_pid]] = active_tid
  BY <1>2, <1>4 DEF IInv, CallChains
<1> QED
  BY <1>1, <1>2, <1>3, <1>4, <1>5

LEMMA ExecuteKeeps ==
  ASSUME IInv, TypeOK', ~EarlyInput, Execute
  PROVE  IInv'
<1> USE Numbers
<1>1. PICK new \in Pids : Launch(new)
  BY DEF Execute
<1>2. /\ UserRuns
      /\ UNCHANGED <<active_tid, shell_tid, cur_display_tid, frozen>>
  BY DEF Execute
<1> DEFINE t == active_tid
           parent == curr_pid
<1>3. /\ ~Booting
      /\ parent \in Live /\ parent = cur_pid[t] /\ terminal_number[parent] = t
  BY <1>2, UserFacts
<1>4. Terms \subseteq Live
  BY <1>3 DEF IInv, BootOrder
<1>5. new \notin Live /\ new \notin Terms /\ new # 0
  BY <1>1, <1>4, SMT DEF Launch, FirstFree, Live, Terms
<1>6. /\ process_array' = [process_array EXCEPT ![new] = 1]
      /\ curr_pid' = new
      /\ curr_parent_pid' = parent
      /\ cur_pid' = [u \in Terms |-> IF u = t THEN new ELSE cur_pid[u]]
      /\ terminal_number' = [terminal_number EXCEPT ![new] = t]
      /\ parent_pid' = [parent_pid EXCEPT ![new] = parent]
      /\ prog_page' = new /\ esp0' = new
      /\ vid_page' = VideoPage(t)
  BY <1>1, <1>3, <1>5 DEF Launch, SetForeground, BoundParent, MapProcess
<1>7. t \in Terms /\ parent \in Pids /\ parent # new
  BY <1>3, <1>5 DEF IInv, TypeOK
<1>8. Live' = Live \cup {new} /\ Live \subseteq Pids
  BY <1>6 DEF Live, IInv, TypeOK
<1>9. \A p \in Live : /\ p # new
                      /\ parent_pid'[p] = parent_pid[p]
                      /\ terminal_number'[p] = terminal_number[p]
  BY <1>5, <1>6, <1>8 DEF IInv, TypeOK
<1>10. parent_pid'[new] = parent /\ terminal_number'[new] = t
  BY <1>6 DEF IInv, TypeOK
<1>11. \A u \in Terms : cur_pid'[u] = IF u = t THEN new ELSE cur_pid[u]
  BY <1>6
<1>12. ForegroundOwned'
  BY <1>8, <1>9, <1>10, <1>11 DEF IInv, ForegroundOwned
<1>13. CallChains'
  <2> SUFFICES ASSUME NEW p \in Live'
               PROVE  /\ parent_pid'[p] \in Live'
                      /\ terminal_number'[p] \in Terms
                      /\ terminal_number'[parent_pid'[p]] = terminal_number'[p]
                      /\ parent_pid'[p] # p =>
                           /\ cur_pid'[terminal_number'[p]] # parent_pid'[p]
                           /\ \A q \in Live' \ {p, parent_pid'[p]} :
                                parent_pid'[q] # parent_pid'[p]
    BY DEF CallChains
  <2>1. CASE p = new
    <3>1. \A q \in Live \ {parent} : parent_pid[q] # parent
      BY <1>3, <1>7 DEF IInv, CallChains
    <3> QED
      BY <2>1, <3>1, <1>3, <1>7, <1>8, <1>9, <1>10, <1>11
  <2>2. CASE p \in Live
    <3>1. /\ parent_pid[p] \in Live
          /\ terminal_number[p] \in Terms
          /\ terminal_number[parent_pid[p]] = terminal_number[p]
      BY <2>2 DEF IInv, CallChains
    <3>2. ASSUME parent_pid[p] # p
          PROVE  /\ cur_pid'[terminal_number'[p]] # parent_pid'[p]
                 /\ parent_pid[p] # parent
                 /\ \A q \in Live \ {p, parent_pid[p]} : parent_pid[q] # parent_pid[p]
      <4>1. cur_pid[terminal_number[p]] # parent_pid[p]
            /\ \A q \in Live \ {p, parent_pid[p]} : parent_pid[q] # parent_pid[p]
        BY <2>2, <3>2 DEF IInv, CallChains
      <4>2. parent_pid[p] # parent
        BY <4>1, <3>1, <1>3
      <4> QED
        BY <4>1, <4>2, <2>2, <3>1, <1>9, <1>11
    <3> QED
      BY <2>2, <3>1, <3>2, <1>8, <1>9, <1>10
  <2> QED
    BY <2>1, <2>2, <1>8
<1>14. RootsAreShells'
  BY <1>5, <1>7, <1>8, <1>9, <1>10 DEF IInv, RootsAreShells
<1>15. MachineConsistent' /\ ForegroundRuns'
  BY <1>2, <1>6, <1>7, <1>8, <1>10, <1>11 DEF MachineConsistent, ForegroundRuns
<1>16. VideoConfined'
  BY <1>2, <1>6, <1>7 DEF VideoConfined, VideoPage, Buffer
<1>17. BootOrder'
  BY <1>2, <1>3, <1>4, <1>7, <1>8, <1>11
     DEF IInv, BootOrder, Booting
<1> QED
  BY <1>12, <1>13, <1>14, <1>15, <1>16, <1>17 DEF IInv

LEMMA HaltShellKeeps ==
  ASSUME IInv, TypeOK', ~EarlyInput, HaltShell
  PROVE  IInv'
<1> USE Numbers
<1>1. UserRuns /\ curr_pid = curr_parent_pid /\ curr_pid \in Terms
  BY DEF HaltShell
<1>2. /\ curr_pid \in Live
      /\ curr_pid = cur_pid[active_tid]
      /\ terminal_number[curr_pid] = active_tid
      /\ parent_pid[curr_pid] = curr_pid
  BY <1>1, UserFacts
<1>3. active_tid = curr_pid
  BY <1>1, <1>2 DEF IInv, RootsAreShells
(* The restarted shell gets back the PCB it had.                           *)
<1>4. /\ process_array' = process_array
      /\ parent_pid' = parent_pid
      /\ terminal_number' = terminal_number
  BY <1>2, <1>3 DEF HaltShell, BoundParent, Live, IInv, TypeOK
<1>5. cur_pid' = cur_pid
  BY <1>2, <1>3 DEF HaltShell, SetForeground, IInv, TypeOK
<1>6. UNCHANGED <<curr_pid, curr_parent_pid, active_tid, shell_tid, cur_display_tid>>
  BY DEF HaltShell
<1>7. prog_page' = curr_pid /\ esp0' = curr_pid
  BY DEF HaltShell, MapProcess
<1>8. vid_page' \in {VIDEO, active_tid}
  BY <1>1, <1>3 DEF HaltShell, VideoPage, Buffer
<1>9. Live' = Live
  BY <1>4 DEF Live
<1>10. ForegroundOwned' /\ CallChains' /\ RootsAreShells'
  BY <1>4, <1>5, <1>9
     DEF IInv, ForegroundOwned, CallChains, RootsAreShells
<1>11. MachineConsistent' /\ ForegroundRuns' /\ VideoConfined'
  BY <1>2, <1>1, <1>4, <1>5, <1>6, <1>7, <1>8, <1>9
     DEF MachineConsistent, ForegroundRuns, VideoConfined, Running
<1>12. BootOrder'
  BY <1>4, <1>5, <1>6, <1>9 DEF IInv, BootOrder, Booting, Running
<1> QED
  BY <1>10, <1>11, <1>12 DEF IInv

LEMMA HaltChildKeeps ==
  ASSUME IInv, TypeOK', ~EarlyInput, HaltChild
  PROVE  IInv'
<1> USE Numbers
<1> DEFINE t == active_tid
           child == curr_pid
           parent == curr_parent_pid
<1>1. UserRuns /\ child # parent
  BY DEF HaltChild
<1>2. /\ ~Booting
      /\ child \in Live /\ child = cur_pid[t] /\ terminal_number[child] = t
      /\ parent = parent_pid[child]
      /\ parent \in Live /\ terminal_number[parent] = t
  BY <1>1, UserFacts
<1>3. child \notin Terms /\ Terms \subseteq Live /\ t \in Terms
  BY <1>1, <1>2 DEF IInv, TypeOK, RootsAreShells, BootOrder
<1>4. /\ process_array' = [process_array EXCEPT ![child] = 0]
      /\ parent_pid' = [parent_pid EXCEPT ![child] = 0]
      /\ terminal_number' = [terminal_number EXCEPT ![child] = NoTerm]
      /\ curr_pid' = parent
      /\ curr_parent_pid' = parent_pid'[parent]
      /\ prog_page' = parent /\ esp0' = parent
      /\ UNCHANGED <<active_tid, shell_tid, cur_display_tid, vid_page>>
  BY DEF HaltChild, MapProcess
<1>5. Live' = Live \ {child} /\ Live \subseteq Pids
  BY <1>4 DEF Live, IInv, TypeOK
<1>6. \A p \in Live' : /\ p # child
                       /\ parent_pid'[p] = parent_pid[p]
                       /\ terminal_number'[p] = terminal_number[p]
  BY <1>4, <1>5 DEF IInv, TypeOK
<1>7. parent \in Live'
  BY <1>1, <1>2, <1>5
<1>8. cur_pid' = [u \in Terms |-> IF u = t THEN parent ELSE cur_pid[u]]
  BY <1>2, <1>6, <1>7 DEF HaltChild, SetForeground
<1>9. \A u \in Terms : cur_pid'[u] = IF u = t THEN parent ELSE cur_pid[u]
  BY <1>8
(* Nobody is left with the freed PCB as its parent, and nobody else was    *)
(* waiting where the parent now runs.                                      *)
<1>10. \A p \in Live' : parent_pid[p] # child
  BY <1>2, <1>5, <1>6 DEF IInv, CallChains
<1>11. \A p \in Live' : parent_pid[p] = parent => p = parent
  BY <1>1, <1>2, <1>5, <1>6 DEF IInv, CallChains
<1>12. ForegroundOwned'
  <2> SUFFICES ASSUME NEW u \in Terms, cur_pid'[u] # NoPid
               PROVE  cur_pid'[u] \in Live' /\ terminal_number'[cur_pid'[u]] = u
    BY DEF ForegroundOwned
  <2>1. CASE u = t
    BY <2>1, <1>2, <1>6, <1>7, <1>9
  <2>2. CASE u # t
    <3>1. /\ cur_pid'[u] = cur_pid[u]
          /\ cur_pid[u] \in Live /\ terminal_number[cur_pid[u]] = u
      BY <2>2, <1>9 DEF IInv, ForegroundOwned
    <3> QED
      BY <2>2, <3>1, <1>2, <1>5, <1>6
  <2> QED
    BY <2>1, <2>2
<1>13. CallChains'
  <2> SUFFICES ASSUME NEW p \in Live'
               PROVE  /\ parent_pid'[p] \in Live'
                      /\ terminal_number'[p] \in Terms
                      /\ terminal_number'[parent_pid'[p]] = terminal_number'[p]
                      /\ parent_pid'[p] # p =>
                           /\ cur_pid'[terminal_number'[p]] # parent_pid'[p]
                           /\ \A q \in Live' \ {p, parent_pid'[p]} :
                                parent_pid'[q] # parent_pid'[p]
    BY DEF CallChains
  <2>1. p \in Live /\ parent_pid'[p] = parent_pid[p]
        /\ terminal_number'[p] = terminal_number[p]
    BY <1>5, <1>6
  <2>2. /\ parent_pid[p] \in Live
        /\ terminal_number[p] \in Terms
        /\ terminal_number[parent_pid[p]] = terminal_number[p]
    BY <2>1 DEF IInv, CallChains
  <2>3. parent_pid[p] \in Live'
    BY <2>2, <1>5, <1>10
  <2>4. ASSUME parent_pid[p] # p
        PROVE  /\ cur_pid'[terminal_number[p]] # parent_pid[p]
               /\ \A q \in Live' \ {p, parent_pid[p]} :
                    parent_pid'[q] # parent_pid[p]
    <3>1. /\ cur_pid[terminal_number[p]] # parent_pid[p]
          /\ \A q \in Live \ {p, parent_pid[p]} : parent_pid[q] # parent_pid[p]
      BY <2>1, <2>4 DEF IInv, CallChains
    <3> QED
      BY <3>1, <2>2, <2>4, <1>5, <1>6, <1>9, <1>11
  <2> QED
    BY <2>1, <2>2, <2>3, <2>4, <1>6
<1>14. RootsAreShells'
  BY <1>5, <1>6 DEF IInv, RootsAreShells
<1>15. MachineConsistent' /\ ForegroundRuns'
  BY <1>3, <1>4, <1>6, <1>7, <1>9 DEF MachineConsistent, ForegroundRuns
<1>16. VideoConfined'
  BY <1>2, <1>4 DEF IInv, VideoConfined, Running
<1>17. BootOrder'
  BY <1>2, <1>3, <1>4, <1>5, <1>9 DEF IInv, BootOrder, Booting
<1> QED
  BY <1>12, <1>13, <1>14, <1>15, <1>16, <1>17 DEF IInv

LEMMA PitStartShellKeeps ==
  ASSUME IInv, TypeOK', ~EarlyInput, PitStartShell
  PROVE  IInv'
<1> USE Numbers
<1> DEFINE t == shell_tid
<1>1. PICK new \in Pids : Launch(new)
  BY DEF PitStartShell
<1>2. Booting /\ cur_pid[t] = NoPid /\ t \in Terms
  BY DEF PitStartShell, Booting, Terms
<1>3. \A p \in Pids : process_array[p] = 1 <=> p < t
  BY <1>2 DEF IInv, BootOrder
(* create_process returns the number of the terminal.                      *)
<1>4. new = t
  BY <1>1, <1>2, <1>3 DEF Launch, FirstFree
<1>5. /\ process_array' = [process_array EXCEPT ![t] = 1]
      /\ curr_pid' = t
      /\ curr_parent_pid' = t
      /\ cur_pid' = [u \in Terms |-> IF u = t THEN t ELSE cur_pid[u]]
      /\ terminal_number' = [terminal_number EXCEPT ![t] = t]
      /\ parent_pid' = [parent_pid EXCEPT ![t] = t]
      /\ prog_page' = t /\ esp0' = t
      /\ vid_page' = VideoPage(t)
  BY <1>1, <1>2, <1>4 DEF Launch, SetForeground, BoundParent, MapProcess
<1>6. active_tid' = t /\ UNCHANGED <<shell_tid, cur_display_tid>>
  BY DEF PitStartShell
<1>7. Live' = Live \cup {t} /\ Live \subseteq Pids /\ t \notin Live
  BY <1>2, <1>3, <1>5 DEF Live, IInv, TypeOK
<1>8. \A p \in Live : /\ p # t
                      /\ parent_pid'[p] = parent_pid[p]
                      /\ terminal_number'[p] = terminal_number[p]
  BY <1>5, <1>7 DEF IInv, TypeOK
<1>9. parent_pid'[t] = t /\ terminal_number'[t] = t
  BY <1>2, <1>5 DEF IInv, TypeOK
<1>10. \A u \in Terms : cur_pid'[u] = IF u = t THEN t ELSE cur_pid[u]
  BY <1>5
<1>11. \A p \in Live : /\ parent_pid[p] = p /\ terminal_number[p] = p
                       /\ p \in Terms
  BY <1>2, <1>3, <1>7 DEF IInv, RootsAreShells, Live, Terms
<1>12. ForegroundOwned'
  BY <1>7, <1>8, <1>9, <1>10 DEF IInv, ForegroundOwned
<1>13. CallChains'
  BY <1>2, <1>7, <1>8, <1>9, <1>11 DEF CallChains
<1>14. RootsAreShells'
  BY <1>2, <1>7, <1>8, <1>9, <1>11 DEF RootsAreShells
<1>15. MachineConsistent' /\ ForegroundRuns'
  BY <1>2, <1>5, <1>6, <1>7, <1>9, <1>10 DEF MachineConsistent, ForegroundRuns
<1>16. VideoConfined'
  BY <1>2, <1>5, <1>6 DEF VideoConfined, VideoPage, Buffer
<1>17. BootOrder'
  <2>1. \A u \in Terms : u < shell_tid' => cur_pid'[u] # NoPid
    BY <1>6, <1>10 DEF IInv, BootOrder
  <2>2. \A u \in Terms : u > shell_tid' => cur_pid'[u] = NoPid
    BY <1>2, <1>6, <1>10 DEF IInv, BootOrder
  <2>3. \A p \in Pids : process_array'[p] = 1 <=>
          p < shell_tid' \/ (p = shell_tid' /\ cur_pid'[shell_tid'] # NoPid)
    BY <1>2, <1>3, <1>5, <1>6, <1>10 DEF IInv, TypeOK
  <2>4. cur_pid'[active_tid'] # NoPid
    BY <1>2, <1>6, <1>10
  <2>5. Booting'
    BY <1>2, <1>6 DEF Booting
  <2> QED
    BY <1>6, <2>1, <2>2, <2>3, <2>4, <2>5 DEF BootOrder
<1> QED
  BY <1>12, <1>13, <1>14, <1>15, <1>16, <1>17 DEF IInv

(* While the shells are started there is always a free PCB for the next.   *)
LEMMA NoStartFails ==
  ASSUME IInv
  PROVE  ~PitStartFails
<1> SUFFICES ASSUME PitStartFails PROVE FALSE
  OBVIOUS
<1>1. /\ Booting /\ cur_pid[shell_tid] = NoPid /\ TableFull
      /\ shell_tid \in Pids /\ ~(shell_tid < shell_tid)
  BY Numbers DEF PitStartFails, Booting, Pids
<1>2. process_array[shell_tid] # 1
  BY <1>1 DEF IInv, BootOrder
<1> QED
  BY <1>1, <1>2 DEF TableFull

LEMMA PitNextShellKeeps ==
  ASSUME IInv, TypeOK', PitNextShell
  PROVE  IInv'
<1> USE Numbers
<1>1. /\ Booting /\ cur_pid[shell_tid] # NoPid /\ shell_tid \in Terms
      /\ active_tid' = shell_tid /\ shell_tid' = shell_tid + 1
  BY DEF PitNextShell, Booting, Terms
<1>2. UNCHANGED <<process_array, parent_pid, terminal_number, cur_pid, curr_pid,
                  curr_parent_pid, cur_display_tid, prog_page, vid_page, esp0>>
  BY DEF PitNextShell, table
<1>3. Live' = Live /\ Running' = Running
  BY <1>2 DEF Live, Running
<1>4. \A p \in Pids : process_array[p] = 1 <=> p < shell_tid + 1
  BY <1>1 DEF IInv, BootOrder, Pids
(* The active terminal is the one whose shell was started last.            *)
<1>5. active_tid = shell_tid
  BY <1>1 DEF IInv, BootOrder
<1>6. ForegroundOwned' /\ CallChains' /\ RootsAreShells' /\ MachineConsistent'
  BY <1>2, <1>3
     DEF IInv, ForegroundOwned, CallChains, RootsAreShells, MachineConsistent
<1>7. ForegroundRuns' /\ VideoConfined'
  BY <1>1, <1>2, <1>3, <1>5 DEF IInv, ForegroundRuns, VideoConfined
<1>8. BootOrder'
  BY <1>1, <1>2, <1>3, <1>4 DEF IInv, BootOrder, Booting, Live, Terms, Pids
<1> QED
  BY <1>6, <1>7, <1>8 DEF IInv

LEMMA PitSwitchKeeps ==
  ASSUME IInv, TypeOK', PitSwitch
  PROVE  IInv'
<1> USE Numbers
<1> DEFINE next == (active_tid + 1) % terminal_total_num
           pid  == cur_pid[next]
<1>1. /\ ~Booting
      /\ active_tid' = next
      /\ curr_pid' = pid
      /\ curr_parent_pid' = parent_pid[pid]
      /\ prog_page' = pid /\ esp0' = pid
      /\ vid_page' = VideoPage(next)
      /\ UNCHANGED <<shell_tid, cur_display_tid>>
  BY DEF PitSwitch, reschedule, MapProcess
<1>2. UNCHANGED <<process_array, parent_pid, terminal_number, cur_pid>>
  BY DEF PitSwitch, table
<1>3. next \in Terms /\ next < shell_tid
  BY <1>1 DEF Booting, IInv, TypeOK, Terms
<1>4. pid # NoPid
  BY <1>3 DEF IInv, BootOrder
<1>5. pid \in Live /\ terminal_number[pid] = next
  BY <1>3, <1>4 DEF IInv, ForegroundOwned
<1>6. Live' = Live /\ Running' = Running
  BY <1>2 DEF Live, Running
<1>7. ForegroundOwned' /\ CallChains' /\ RootsAreShells'
  BY <1>2, <1>6 DEF IInv, ForegroundOwned, CallChains, RootsAreShells
<1>8. MachineConsistent' /\ ForegroundRuns'
  BY <1>1, <1>2, <1>5, <1>6 DEF MachineConsistent, ForegroundRuns
<1>9. VideoConfined'
  BY <1>1, <1>3 DEF VideoConfined, VideoPage, Buffer
<1>10. BootOrder'
  BY <1>1, <1>2, <1>3, <1>4, <1>6 DEF IInv, BootOrder, Booting
<1> QED
  BY <1>7, <1>8, <1>9, <1>10 DEF IInv

(* The other steps leave the process table and the machine alone.          *)
LEMMA OthersKeep ==
  ASSUME IInv, TypeOK',
         UNCHANGED <<table, cur_pid, curr_pid, curr_parent_pid, active_tid,
                     shell_tid, prog_page, esp0>>,
         Running => vid_page' \in {vid_page, VIDEO, active_tid}
  PROVE  IInv'
<1>1. UNCHANGED <<process_array, parent_pid, terminal_number>>
  BY DEF table
<1>2. Live' = Live /\ Running' = Running /\ Booting' = Booting
  BY <1>1 DEF Live, Running, Booting
<1>3. ForegroundOwned' /\ CallChains' /\ RootsAreShells'
  BY <1>1, <1>2 DEF IInv, ForegroundOwned, CallChains, RootsAreShells
<1>4. MachineConsistent' /\ ForegroundRuns' /\ VideoConfined'
  BY <1>1, <1>2 DEF IInv, MachineConsistent, ForegroundRuns, VideoConfined
<1>5. BootOrder'
  BY <1>1, <1>2 DEF IInv, BootOrder
<1> QED
  BY <1>3, <1>4, <1>5 DEF IInv

LEMMA TerminalSwitchVideo ==
  ASSUME IInv, NEW to \in Terms, TerminalSwitch(to), Running
  PROVE  vid_page' = RightPage'
<1> USE Numbers
<1>1. /\ curr_pid \in Live /\ curr_pid = cur_pid[active_tid]
      /\ active_tid \in Terms
  BY DEF IInv, TypeOK, MachineConsistent, ForegroundRuns
<1>2. terminal_number[curr_pid] = active_tid /\ curr_pid # NoPid
  BY <1>1 DEF IInv, ForegroundOwned, Live
<1>3. curr_pid = cur_pid[to] <=> active_tid = to
  BY <1>1, <1>2 DEF IInv, ForegroundOwned
<1>4. cur_display_tid' = to /\ active_tid' = active_tid
  BY DEF TerminalSwitch
<1> QED
  BY <1>1, <1>2, <1>3, <1>4 DEF TerminalSwitch, RightPage, Buffer

LEMMA StepKeeps ==
  ASSUME IInv, TypeOK', ~EarlyInput, [Next]_vars
  PROVE  IInv'
<1>1. CASE Execute
  BY <1>1, ExecuteKeeps
<1>2. CASE HaltShell
  BY <1>2, HaltShellKeeps
<1>3. CASE HaltChild
  BY <1>3, HaltChildKeeps
<1>4. CASE PitStartShell
  BY <1>4, PitStartShellKeeps
<1>5. CASE PitStartFails
  BY <1>5, NoStartFails
<1>6. CASE PitNextShell
  BY <1>6, PitNextShellKeeps
<1>7. CASE PitSwitch
  BY <1>7, PitSwitchKeeps
<1>8. ASSUME NEW t \in Terms, TerminalSwitch(t) PROVE IInv'
  <2>1. Running => vid_page' \in {VIDEO, active_tid}
    <3> SUFFICES ASSUME Running PROVE vid_page' \in {VIDEO, active_tid}
      OBVIOUS
    <3>1. vid_page' = RightPage' /\ active_tid' = active_tid
      BY <1>8, TerminalSwitchVideo DEF TerminalSwitch
    <3>2. active_tid \in Terms
      BY DEF IInv, TypeOK
    <3> QED
      BY <3>1, <3>2 DEF RightPage
  <2> QED
    BY <1>8, <2>1, OthersKeep DEF TerminalSwitch
<1>9. CASE Vidmap
  BY <1>9, OthersKeep DEF Vidmap
<1>10. CASE Exception
  BY <1>10, OthersKeep DEF Exception
<1>11. CASE UNCHANGED vars
  BY <1>11, OthersKeep DEF vars
<1> QED
  BY <1>1, <1>2, <1>3, <1>4, <1>5, <1>6, <1>7, <1>8, <1>9, <1>10, <1>11
     DEF Next, pit_handler

LEMMA InitIInv == Init => IInv
<1> SUFFICES ASSUME Init, TypeOK PROVE IInv
  <2>1. Init => TypeOK
    BY InitType DEF TypeInv
  <2> QED
    BY <2>1
<1>1. Live = {} /\ ~Running /\ shell_tid = 0 /\ active_tid = 0
  BY DEF Init, Live, Running
<1>2. \A t \in Terms : cur_pid[t] = NoPid
  BY DEF Init
<1>3. \A p \in Pids : process_array[p] = 0 /\ ~(p < 0)
  BY SizeFacts DEF Init
<1>4. BootOrder
  BY <1>1, <1>2, <1>3, SizeFacts DEF BootOrder, Booting
<1> QED
  BY <1>1, <1>2, <1>4
     DEF IInv, ForegroundOwned, CallChains, RootsAreShells,
         MachineConsistent, ForegroundRuns, VideoConfined

LEMMA ProcessKeeps ==
  ASSUME IInv, ~EarlyInput, [Next]_vars
  PROVE  IInv'
<1>1. TypeInv
  BY DEF IInv, TypeInv, Passed, BootOrder
<1>2. TypeOK'
  BY <1>1, TypeKeeps DEF TypeInv
<1> QED
  BY <1>2, StepKeeps

LEMMA Inductive ==
  ASSUME ~EarlyInput
  PROVE  Spec => []IInv
<1>1. IInv /\ [Next]_vars => IInv'
  BY ProcessKeeps
<1> QED
  BY <1>1, InitIInv, PTL DEF Spec

(* The processes of each terminal form call chains from its shell to its   *)
(* foreground process, for any number of terminals and PCBs, whatever the  *)
(* others execute and halt and whenever the ticks come.                    *)
THEOREM ChainsCorrect ==
  ASSUME ~EarlyInput
  PROVE  Spec => [](ForegroundOwned /\ CallChains /\ RootsAreShells)
<1>1. IInv => ForegroundOwned /\ CallChains /\ RootsAreShells
  BY DEF IInv
<1> QED
  BY <1>1, Inductive, PTL

(* The four records of who owns the CPU agree: curr_pid and its parent,    *)
(* the page at 128MB, tss.esp0 and the foreground of the active terminal.  *)
THEOREM MachineCorrect ==
  ASSUME ~EarlyInput
  PROVE  Spec => [](MachineConsistent /\ ForegroundRuns /\ VideoConfined)
<1>1. IInv => MachineConsistent /\ ForegroundRuns /\ VideoConfined
  BY DEF IInv
<1> QED
  BY <1>1, Inductive, PTL

(* No terminal resumes a process that is free or another terminal's.       *)
THEOREM ForegroundCorrect ==
  ASSUME ~EarlyInput PROVE Spec => []ForegroundOwned
BY ChainsCorrect, PTL

(* restart_shell's use of a pid for the number of a terminal is right.     *)
THEOREM RootsCorrect ==
  ASSUME ~EarlyInput PROVE Spec => []RootsAreShells
BY ChainsCorrect, PTL

(* The CPU runs the foreground process of the active terminal.             *)
THEOREM SliceCorrect ==
  ASSUME ~EarlyInput PROVE Spec => []ForegroundRuns
BY MachineCorrect, PTL

(* A process draws on the screen or on its own terminal's buffer.          *)
THEOREM ConfinedCorrect ==
  ASSUME ~EarlyInput PROVE Spec => []VideoConfined
BY MachineCorrect, PTL

(* The start of the shells goes in order and never meets a full table.     *)
THEOREM BootCorrect ==
  ASSUME ~EarlyInput
  PROVE  Spec => []BootOrder /\ [][~PitStartFails]_vars
<1>1. IInv => BootOrder
  BY DEF IInv
<1>2. IInv /\ [Next]_vars => [~PitStartFails]_vars
  BY NoStartFails
<1> QED
  BY <1>1, <1>2, Inductive, PTL DEF Spec

-----------------------------------------------------------------------------
(* Action properties.                                                      *)

(* A process in use keeps its parent and its terminal.                     *)
THEOREM LinksCorrect ==
  ASSUME ~EarlyInput
  PROVE  Spec => LinksStable
<1>1. IInv /\ [Next]_vars => [LinksKept]_vars
  <2> SUFFICES ASSUME IInv, [Next]_vars, NEW p \in Live, p \in Live'
               PROVE  /\ parent_pid'[p] = parent_pid[p]
                      /\ terminal_number'[p] = terminal_number[p]
    BY DEF LinksKept
  <2> USE Numbers DEF IInv, TypeOK
  <2>1. ASSUME NEW new \in Pids, Launch(new) PROVE p # new
    BY <2>1 DEF Launch, FirstFree, Live
  <2>2. CASE Execute \/ PitStartShell
    BY <2>1, <2>2 DEF Execute, PitStartShell, Launch, Live
  <2>3. CASE HaltShell
    <3>1. UserRuns /\ curr_pid = curr_parent_pid /\ curr_pid \in Terms
      BY <2>3 DEF HaltShell
    <3>2. parent_pid[curr_pid] = curr_pid /\ terminal_number[curr_pid] = curr_pid
      BY <3>1, UserFacts DEF RootsAreShells
    <3> QED
      BY <2>3, <3>2 DEF HaltShell, BoundParent, Live
  <2>4. CASE HaltChild
    BY <2>4 DEF HaltChild, Live
  <2>5. CASE PitStartFails \/ PitNextShell \/ PitSwitch
    BY <2>5 DEF PitStartFails, PitNextShell, PitSwitch, table
  <2>6. ASSUME NEW t \in Terms, TerminalSwitch(t) PROVE UNCHANGED table
    BY <2>6 DEF TerminalSwitch
  <2>7. CASE Vidmap \/ Exception \/ UNCHANGED vars
    BY <2>7 DEF Vidmap, Exception, vars, table
  <2> QED
    BY <2>2, <2>3, <2>4, <2>5, <2>6, <2>7 DEF Next, pit_handler, table
<1> QED
  BY <1>1, Inductive, PTL DEF Spec, LinksStable

(* A terminal's foreground process changes only in its own time slice.     *)
THEOREM OthersCorrect ==
  ASSUME ~EarlyInput
  PROVE  Spec => OthersUntouched
<1>1. IInv /\ [Next]_vars => [OthersKept]_vars
  <2> SUFFICES ASSUME IInv, [Next]_vars, NEW t \in Terms, cur_pid'[t] # cur_pid[t]
               PROVE  t = active_tid'
    BY DEF OthersKept
  <2> USE Numbers
  <2>1. CASE Execute
    <3>1. UserRuns /\ active_tid' = active_tid /\ \E new \in Pids : Launch(new)
      BY <2>1 DEF Execute
    <3>2. ~Booting /\ terminal_number[curr_pid] = active_tid
      BY <3>1, UserFacts
    <3> QED
      BY <3>1, <3>2 DEF Launch, SetForeground
  <2>2. CASE HaltShell
    <3>1. UserRuns /\ active_tid' = active_tid /\ curr_pid \in Terms
      BY <2>2 DEF HaltShell
    <3>2. curr_pid \in Live /\ terminal_number[curr_pid] = active_tid
      BY <3>1, UserFacts
    <3>3. curr_pid = active_tid
      BY <3>1, <3>2 DEF IInv, RootsAreShells
    <3> QED
      BY <2>2, <3>1, <3>3 DEF HaltShell, SetForeground
  <2>3. CASE HaltChild
    <3>1. UserRuns /\ active_tid' = active_tid /\ curr_pid # curr_parent_pid
      BY <2>3 DEF HaltChild
    <3>2. curr_parent_pid \in Pids /\ terminal_number[curr_parent_pid] = active_tid
      BY <3>1, UserFacts DEF Live
    <3>3. terminal_number'[curr_parent_pid] = active_tid
      BY <2>3, <3>1, <3>2 DEF HaltChild, IInv, TypeOK
    <3> QED
      BY <2>3, <3>1, <3>3 DEF HaltChild, SetForeground
  <2>4. CASE PitStartShell
    BY <2>4 DEF PitStartShell, Launch, SetForeground
  <2>5. CASE PitStartFails \/ PitNextShell \/ PitSwitch
    BY <2>5 DEF PitStartFails, PitNextShell, PitSwitch
  <2>6. ASSUME NEW to \in Terms, TerminalSwitch(to) PROVE cur_pid' = cur_pid
    BY <2>6 DEF TerminalSwitch
  <2>7. CASE Vidmap \/ Exception \/ UNCHANGED vars
    BY <2>7 DEF Vidmap, Exception, vars
  <2> QED
    BY <2>1, <2>2, <2>3, <2>4, <2>5, <2>6, <2>7 DEF Next, pit_handler
<1> QED
  BY <1>1, Inductive, PTL DEF Spec, OthersUntouched

(* Both kinds of switch leave the running process drawing on the right     *)
(* page, although each decides it from a different record of who runs.     *)
THEOREM VideoCorrect ==
  ASSUME ~EarlyInput
  PROVE  Spec => VideoFollowsSwitch
<1>1. IInv /\ [Next]_vars => [VideoFollows]_vars
  <2> SUFFICES ASSUME IInv, [Next]_vars,
                      active_tid' # active_tid
                        \/ (Running /\ cur_display_tid' # cur_display_tid)
               PROVE  vid_page' = RightPage'
    BY DEF VideoFollows
  <2>1. CASE Execute \/ HaltShell \/ HaltChild
    BY <2>1 DEF Execute, HaltShell, HaltChild
  <2>2. CASE PitStartShell
    BY <2>2, Numbers
       DEF PitStartShell, Launch, VideoPage, Buffer, RightPage, IInv, TypeOK,
           Booting, Terms
  <2>3. CASE PitStartFails
    BY <2>3, NoStartFails
  <2>4. CASE PitNextShell
    <3>1. active_tid' = active_tid
      BY <2>4 DEF PitNextShell, IInv, BootOrder
    <3> QED
      BY <2>4, <3>1 DEF PitNextShell
  <2>5. CASE PitSwitch
    BY <2>5, Numbers
       DEF PitSwitch, reschedule, VideoPage, Buffer, RightPage, IInv, TypeOK, Terms
  <2>6. ASSUME NEW to \in Terms, TerminalSwitch(to)
        PROVE  vid_page' = RightPage'
    BY <2>6, TerminalSwitchVideo DEF TerminalSwitch
  <2>7. CASE Vidmap \/ Exception \/ UNCHANGED vars
    BY <2>7 DEF Vidmap, Exception, vars
  <2> QED
    BY <2>1, <2>2, <2>3, <2>4, <2>5, <2>6, <2>7 DEF Next, pit_handler
<1> QED
  BY <1>1, Inductive, PTL DEF Spec, VideoFollowsSwitch

-----------------------------------------------------------------------------
(* The sessions.  Every terminal that has a process has exactly one chain  *)
(* of calls through all its processes.  That is inductive although the     *)
(* chain is as long as the calls are deep: a step makes the chains of the  *)
(* next state from those of this one, and those of this state from the     *)
(* chains of the next.                                                     *)

OneSession ==
  \A t \in Terms : cur_pid[t] # NoPid => \E s \in CallsOf(t) : CallsOf(t) = {s}

LEMMA MembersCounted ==
  ASSUME TypeOK, NEW t
  PROVE  /\ IsFiniteSet(Members(t))
         /\ Cardinality(Members(t)) \in Nat
<1>1. IsFiniteSet(Pids)
  BY SizeFacts, FS_Interval DEF Pids
<1>2. Members(t) \in SUBSET Pids
  BY DEF Members, Live
<1>3. IsFiniteSet(Members(t))
  BY <1>1, <1>2, FS_Subset
<1> QED
  BY <1>3, FS_CardinalityType

LEMMA CallsAre ==
  ASSUME TypeOK, NEW t \in Terms, NEW s \in CallsOf(t)
  PROVE  /\ Len(s) = Cardinality(Members(t)) /\ Len(s) \in Nat /\ Len(s) > 0
         /\ s \in Seq(Pids) /\ s # <<>>
         /\ s \in [1 .. Len(s) -> Members(t)]
         /\ \A i \in 1 .. Len(s) : s[i] \in Members(t)
         /\ parent_pid[s[1]] = s[1]
         /\ \A i \in 2 .. Len(s) : parent_pid[s[i]] = s[i - 1] /\ s[i - 1] # s[i]
         /\ s[Len(s)] = cur_pid[t]
         /\ cur_pid[t] # NoPid
<1> DEFINE n == Cardinality(Members(t))
<1>1. n \in Nat /\ s \in [1 .. n -> Members(t)] /\ Calls(t, s)
  BY MembersCounted DEF CallsOf
<1> HIDE DEF n
<1>2. Members(t) \subseteq Pids
  BY DEF Members, Live
<1>3. s \in Seq(Pids) /\ Len(s) = n
  BY <1>1, <1>2
<1>4. Len(s) > 0 /\ s # <<>>
  BY <1>1, <1>3 DEF Calls
<1>5. /\ parent_pid[s[1]] = s[1]
      /\ \A i \in 2 .. Len(s) : parent_pid[s[i]] = s[i - 1] /\ s[i - 1] # s[i]
      /\ s[Len(s)] = cur_pid[t]
  BY <1>1 DEF Calls
<1>6. cur_pid[t] # NoPid
  BY <1>1, <1>2, <1>3, <1>4, <1>5, SizeFacts
<1> QED
  BY <1>1, <1>3, <1>4, <1>5, <1>6 DEF n

LEMMA NoCalls ==
  ASSUME TypeOK, NEW t \in Terms, cur_pid[t] = NoPid
  PROVE  CallsOf(t) = {} /\ SessionOf(t) = <<>>
<1>1. CallsOf(t) = {}
  BY CallsAre
<1> QED
  BY <1>1 DEF SessionOf

LEMMA SessionIs ==
  ASSUME NEW t, NEW s, CallsOf(t) = {s}
  PROVE  SessionOf(t) = s
BY DEF SessionOf

(* What a step leaves alone.                                               *)
LEMMA SameSession ==
  ASSUME NEW t \in Terms, TypeOK, TypeOK',
         Members(t)' = Members(t),
         \A p \in Members(t) : parent_pid'[p] = parent_pid[p],
         cur_pid'[t] = cur_pid[t]
  PROVE  CallsOf(t)' = CallsOf(t) /\ SessionOf(t)' = SessionOf(t)
<1> DEFINE n == Cardinality(Members(t))
           M == Members(t)
<1>1. n \in Nat /\ n' = n /\ M' = M
  BY MembersCounted
<1>2. ASSUME NEW s \in [1 .. n -> M]
      PROVE  Calls(t, s)' <=> Calls(t, s)
  <2> HIDE DEF n, M
  <2>1. Len(s) = n /\ \A i \in 1 .. n : s[i] \in M
    BY <1>1
  <2>2. \A i \in 1 .. n : parent_pid'[s[i]] = parent_pid[s[i]]
    BY <2>1 DEF M
  <2> QED
    BY <1>1, <2>1, <2>2 DEF Calls
<1>3. CallsOf(t) = {s \in [1 .. n -> M] : Calls(t, s)}
  BY DEF CallsOf
<1>4. CallsOf(t)' = {s \in [1 .. n -> M] : Calls(t, s)'}
  BY <1>1 DEF CallsOf
<1>5. CallsOf(t)' = CallsOf(t)
  <2> HIDE DEF n, M
  <2> QED
    BY <1>2, <1>3, <1>4
<1> QED
  BY <1>5 DEF SessionOf

(* execute: the new process comes last.                                    *)
LEMMA CallsGrow ==
  ASSUME IInv, TypeOK', NEW t \in Terms, NEW new \in Pids, new \notin Live,
         Live' = Live \cup {new},
         \A p \in Live : /\ parent_pid'[p] = parent_pid[p]
                         /\ terminal_number'[p] = terminal_number[p],
         parent_pid'[new] = cur_pid[t], terminal_number'[new] = t,
         cur_pid'[t] = new,
         NEW s, CallsOf(t) = {s}
  PROVE  CallsOf(t)' = {Append(s, new)}
<1> DEFINE M == Members(t)
           n == Cardinality(M)
           x == Append(s, new)
<1>1. TypeOK /\ \A p \in Live : parent_pid[p] \in Live
  BY DEF IInv, CallChains
<1>2. M \subseteq Live /\ IsFiniteSet(M) /\ n \in Nat
  BY <1>1, MembersCounted DEF Members
<1>3. M' = M \cup {new} /\ new \notin M
  BY <1>2 DEF Members
<1>4. n' = n + 1
  <2>1. Cardinality(M \cup {new}) = n + 1
    BY <1>2, <1>3, FS_AddElement
  <2> QED
    BY <1>3, <2>1
<1>5. /\ Len(s) = n /\ n > 0 /\ s \in Seq(Pids) /\ s \in [1 .. n -> M]
      /\ \A i \in 1 .. n : s[i] \in M
      /\ parent_pid[s[1]] = s[1]
      /\ \A i \in 2 .. n : parent_pid[s[i]] = s[i - 1] /\ s[i - 1] # s[i]
      /\ s[n] = cur_pid[t]
  BY <1>1, CallsAre
<1>6. CallsOf(t)' = {w \in [1 .. n + 1 -> M \cup {new}] : Calls(t, w)'}
  BY <1>3, <1>4 DEF CallsOf
<1> HIDE DEF n, M
<1>7. x \in [1 .. n + 1 -> M \cup {new}] /\ Calls(t, x)'
  <2>1. /\ Len(x) = n + 1 /\ x[n + 1] = new /\ DOMAIN x = 1 .. n + 1
        /\ \A i \in 1 .. n : x[i] = s[i]
        /\ x \in Seq(Pids)
    BY <1>2, <1>5
  <2> HIDE DEF x
  <2>2. x \in [1 .. n + 1 -> M \cup {new}]
    <3>1. \A i \in 1 .. n + 1 : x[i] \in M \cup {new}
      BY <1>2, <1>5, <2>1
    <3>2. x = [i \in 1 .. n + 1 |-> x[i]]
      BY <2>1
    <3> QED
      BY <3>1, <3>2
  <2>3. x[1] = s[1] /\ parent_pid'[x[1]] = x[1]
    BY <1>2, <1>5, <2>1
  <2>4. ASSUME NEW i \in 2 .. n + 1
        PROVE  parent_pid'[x[i]] = x[i - 1] /\ x[i - 1] # x[i]
    <3>1. CASE i = n + 1
      BY <3>1, <1>2, <1>3, <1>5, <2>1
    <3>2. CASE i # n + 1
      <4>1. i \in 2 .. n /\ i \in 1 .. n /\ i - 1 \in 1 .. n
        BY <3>2, <1>2
      <4> QED
        BY <4>1, <1>2, <1>5, <2>1
    <3> QED
      BY <3>1, <3>2
  <2> QED
    BY <1>2, <2>1, <2>2, <2>3, <2>4 DEF Calls
<1>8. ASSUME NEW w \in [1 .. n + 1 -> M \cup {new}], Calls(t, w)'
      PROVE  w = x
  <2> DEFINE u == [i \in 1 .. n |-> w[i]]
  <2>1. Len(w) = n + 1
    BY <1>2
  <2>2. /\ parent_pid'[w[1]] = w[1]
        /\ \A i \in 2 .. n + 1 : parent_pid'[w[i]] = w[i - 1] /\ w[i - 1] # w[i]
        /\ w[n + 1] = new
    BY <1>8, <2>1 DEF Calls
  <2>3. ASSUME NEW i \in 1 .. n PROVE w[i] \in M
    <3>1. i \in 1 .. n + 1 /\ i + 1 \in 2 .. n + 1 /\ i + 1 \in 1 .. n + 1
          /\ (i + 1) - 1 = i
      BY <1>2
    <3>2. parent_pid'[w[i + 1]] = w[i] /\ w[i] # w[i + 1]
      BY <3>1, <2>2
    <3>3. w[i] \in M \cup {new} /\ w[i + 1] \in M \cup {new}
      BY <3>1
    <3>4. w[i] # new
      BY <3>2, <3>3, <1>1, <1>2
    <3> QED
      BY <3>3, <3>4
  <2>4. u \in [1 .. n -> M] /\ Len(u) = n /\ \A i \in 1 .. n : u[i] = w[i]
    BY <1>2, <2>3
  <2> HIDE DEF u
  <2>5. Calls(t, u)
    <3>1. 1 \in 1 .. n /\ u[1] = w[1] /\ u[1] \in Live
      BY <1>2, <1>5, <2>3, <2>4
    <3>2. parent_pid[u[1]] = u[1]
      BY <2>2, <3>1
    <3>3. ASSUME NEW i \in 2 .. n
          PROVE  parent_pid[u[i]] = u[i - 1] /\ u[i - 1] # u[i]
      <4>1. i \in 1 .. n /\ i - 1 \in 1 .. n /\ i \in 2 .. n + 1
        BY <1>2
      <4>2. u[i] = w[i] /\ u[i - 1] = w[i - 1] /\ u[i] \in Live
        BY <4>1, <1>2, <2>3, <2>4
      <4> QED
        BY <4>1, <4>2, <2>2
    <3>4. u[n] = cur_pid[t]
      <4>1. n + 1 \in 2 .. n + 1 /\ n \in 1 .. n /\ (n + 1) - 1 = n
        BY <1>2, <1>5
      <4> QED
        BY <4>1, <2>2, <2>4
    <3> QED
      BY <1>5, <2>4, <3>2, <3>3, <3>4 DEF Calls
  <2>6. u = s
    BY <2>4, <2>5 DEF CallsOf, n, M
  <2>7. ASSUME NEW i \in 1 .. n + 1 PROVE w[i] = x[i]
    <3>1. x[n + 1] = new /\ \A j \in 1 .. n : x[j] = s[j]
      BY <1>2, <1>5
    <3> QED
      BY <3>1, <1>2, <2>2, <2>4, <2>6
  <2>8. x = [i \in 1 .. n + 1 |-> x[i]]
    BY <1>7
  <2>9. w = [i \in 1 .. n + 1 |-> w[i]]
    OBVIOUS
  <2> HIDE DEF x
  <2> QED
    BY <2>7, <2>8, <2>9
<1> HIDE DEF x
<1>9. CallsOf(t)' = {x}
  BY <1>6, <1>7, <1>8
<1> QED
  BY <1>9 DEF x

(* halt: all but the last process remain.                                  *)
LEMMA CallsShrink ==
  ASSUME IInv, TypeOK', NEW t \in Terms, NEW child \in Live,
         child = cur_pid[t], parent_pid[child] # child,
         Live' = Live \ {child},
         \A p \in Live' : /\ parent_pid'[p] = parent_pid[p]
                          /\ terminal_number'[p] = terminal_number[p],
         cur_pid'[t] = parent_pid[child],
         NEW s, CallsOf(t) = {s}
  PROVE  Len(s) > 1 /\ CallsOf(t)' = {SubSeq(s, 1, Len(s) - 1)}
<1> DEFINE M == Members(t)
           n == Cardinality(M)
           x == SubSeq(s, 1, Len(s) - 1)
<1>1. TypeOK /\ child \in Pids /\ child # NoPid
  BY SizeFacts DEF IInv, Live
<1>2. M \subseteq Live /\ IsFiniteSet(M) /\ n \in Nat
  BY <1>1, MembersCounted DEF Members
<1>3. child \in M
  BY <1>1 DEF IInv, ForegroundOwned, Members
<1>4. M' = M \ {child}
  BY <1>2 DEF Members
<1>5. n' = n - 1
  BY <1>2, <1>3, <1>4, FS_RemoveElement
<1>6. /\ Len(s) = n /\ n > 0 /\ s \in Seq(Pids) /\ s \in [1 .. n -> M]
      /\ \A i \in 1 .. n : s[i] \in M
      /\ parent_pid[s[1]] = s[1]
      /\ \A i \in 2 .. n : parent_pid[s[i]] = s[i - 1] /\ s[i - 1] # s[i]
      /\ s[n] = child
  BY <1>1, CallsAre
<1>7. n > 1
  BY <1>2, <1>6
<1>8. CallsOf(t)' = {w \in [1 .. n - 1 -> M \ {child}] : Calls(t, w)'}
  BY <1>4, <1>5 DEF CallsOf
(* The process that ends is nobody's parent.                               *)
<1>9. ASSUME NEW p \in M, parent_pid[p] = child PROVE p = child
  BY <1>2, <1>9 DEF IInv, CallChains, Members
<1> HIDE DEF n, M
<1>10. x \in [1 .. n - 1 -> M \ {child}] /\ Calls(t, x)'
  <2>1. /\ Len(x) = n - 1 /\ x = [i \in 1 .. n - 1 |-> x[i]]
        /\ \A i \in 1 .. n - 1 : x[i] = s[i]
    BY <1>2, <1>6, <1>7
  <2> HIDE DEF x
  <2>2. ASSUME NEW i \in 1 .. n - 1 PROVE x[i] \in M \ {child}
    <3>1. i \in 1 .. n /\ i + 1 \in 2 .. n /\ i + 1 \in 1 .. n /\ (i + 1) - 1 = i
      BY <1>2
    <3>2. s[i] \in M /\ s[i + 1] \in M /\ parent_pid[s[i + 1]] = s[i] /\ s[i] # s[i + 1]
      BY <3>1, <1>6
    <3> QED
      BY <3>2, <1>9, <2>1
  <2>3. x \in [1 .. n - 1 -> M \ {child}]
    BY <2>1, <2>2
  <2>4. \A p \in M \ {child} : parent_pid'[p] = parent_pid[p]
    BY <1>2
  <2>5. parent_pid'[x[1]] = x[1]
    <3>1. 1 \in 1 .. n - 1
      BY <1>2, <1>7
    <3> QED
      BY <3>1, <1>6, <2>1, <2>2, <2>4
  <2>6. ASSUME NEW i \in 2 .. n - 1
        PROVE  parent_pid'[x[i]] = x[i - 1] /\ x[i - 1] # x[i]
    <3>1. i \in 1 .. n - 1 /\ i - 1 \in 1 .. n - 1 /\ i \in 2 .. n
      BY <1>2
    <3> QED
      BY <3>1, <1>6, <2>1, <2>2, <2>4
  <2>7. x[n - 1] = cur_pid'[t]
    <3>1. n \in 2 .. n /\ n - 1 \in 1 .. n - 1
      BY <1>2, <1>7
    <3> QED
      BY <3>1, <1>6, <2>1
  <2> QED
    BY <1>2, <1>7, <2>1, <2>3, <2>5, <2>6, <2>7 DEF Calls
<1>11. ASSUME NEW w \in [1 .. n - 1 -> M \ {child}], Calls(t, w)'
       PROVE  w = x
  <2> DEFINE u == [i \in 1 .. n |-> IF i = n THEN child ELSE w[i]]
  <2>1. Len(w) = n - 1
    BY <1>2, <1>7
  <2>2. /\ parent_pid'[w[1]] = w[1]
        /\ \A i \in 2 .. n - 1 : parent_pid'[w[i]] = w[i - 1] /\ w[i - 1] # w[i]
        /\ w[n - 1] = parent_pid[child]
    BY <1>11, <2>1 DEF Calls
  <2>3. /\ \A i \in 1 .. n - 1 : w[i] \in M \ {child}
        /\ \A p \in M \ {child} : parent_pid'[p] = parent_pid[p]
    BY <1>2
  <2>4. /\ \A i \in 1 .. n - 1 : i \in 1 .. n /\ u[i] = w[i]
        /\ u[n] = child /\ n \in 1 .. n
    BY <1>2, <1>7
  <2>5. u \in [1 .. n -> M] /\ Len(u) = n
    <3>1. \A i \in 1 .. n : (IF i = n THEN child ELSE w[i]) \in M
      BY <1>2, <1>3, <2>3
    <3> QED
      BY <1>2, <3>1
  <2> HIDE DEF u
  <2>6. Calls(t, u)
    <3>1. parent_pid[u[1]] = u[1]
      <4>1. 1 \in 1 .. n - 1
        BY <1>2, <1>7
      <4> QED
        BY <4>1, <2>2, <2>3, <2>4
    <3>2. ASSUME NEW i \in 2 .. n
          PROVE  parent_pid[u[i]] = u[i - 1] /\ u[i - 1] # u[i]
      <4>1. CASE i = n
        <5>1. n - 1 \in 1 .. n - 1
          BY <1>2, <1>7
        <5> QED
          BY <5>1, <4>1, <2>2, <2>3, <2>4
      <4>2. CASE i # n
        <5>1. i \in 2 .. n - 1 /\ i \in 1 .. n - 1 /\ i - 1 \in 1 .. n - 1
          BY <4>2, <1>2
        <5> QED
          BY <5>1, <2>2, <2>3, <2>4
      <4> QED
        BY <4>1, <4>2
    <3> QED
      BY <1>6, <2>4, <2>5, <3>1, <3>2 DEF Calls
  <2>7. u = s
    BY <2>5, <2>6 DEF CallsOf, n, M
  <2>8. ASSUME NEW i \in 1 .. n - 1 PROVE w[i] = x[i]
    <3>1. x[i] = s[i]
      BY <1>2, <1>6, <1>7
    <3> QED
      BY <3>1, <2>4, <2>7
  <2>9. x = [i \in 1 .. n - 1 |-> x[i]]
    BY <1>2, <1>6, <1>7
  <2>10. w = [i \in 1 .. n - 1 |-> w[i]]
    OBVIOUS
  <2> HIDE DEF x
  <2> QED
    BY <2>8, <2>9, <2>10
<1> HIDE DEF x
<1>12. CallsOf(t)' = {x}
  BY <1>8, <1>10, <1>11
<1> QED
  BY <1>6, <1>7, <1>12 DEF x

(* The first process of a terminal.                                        *)
LEMMA CallsBegin ==
  ASSUME TypeOK', NEW t \in Terms, Members(t)' = {t},
         parent_pid'[t] = t, cur_pid'[t] = t
  PROVE  CallsOf(t)' = {<<t>>}
<1>1. Cardinality(Members(t))' = 1
  BY FS_Singleton
<1>2. CallsOf(t)' = {w \in [1 .. 1 -> {t}] : Calls(t, w)'}
  BY <1>1 DEF CallsOf
<1>3. \A w : w \in [1 .. 1 -> {t}] <=> w = <<t>>
  <2>1. <<t>> \in [1 .. 1 -> {t}]
    OBVIOUS
  <2>2. ASSUME NEW w \in [1 .. 1 -> {t}] PROVE w = <<t>>
    <3>1. w[1] = t /\ w = [i \in 1 .. 1 |-> w[i]] /\ Len(w) = 1
      OBVIOUS
    <3>2. \A i \in 1 .. 1 : w[i] = <<t>>[i]
      BY <3>1
    <3>3. <<t>> = [i \in 1 .. 1 |-> <<t>>[i]]
      OBVIOUS
    <3> QED
      BY <3>1, <3>2, <3>3
  <2> QED
    BY <2>1, <2>2
<1>4. Calls(t, <<t>>)'
  BY DEF Calls
<1> QED
  BY <1>2, <1>3, <1>4

-----------------------------------------------------------------------------
(* Each step of the process table is a step of the sessions or none.       *)

SessionsOf == [t \in Terms |-> SessionOf(t)]

LEMMA AllStartedFacts ==
  ASSUME IInv, ~Booting
  PROVE  Terms \subseteq Live /\ \A u \in Terms : cur_pid[u] # NoPid
<1>1. BootOrder /\ \A u \in Terms : u < shell_tid
  BY Numbers DEF IInv, Booting, Terms
<1> QED
  BY <1>1 DEF BootOrder

(* The session of a terminal that has one.                                 *)
LEMMA SessionFacts ==
  ASSUME IInv, OneSession, NEW u \in Terms, cur_pid[u] # NoPid
  PROVE  /\ SessionOf(u) # <<>>
         /\ \A i \in DOMAIN SessionOf(u) : SessionOf(u)[i] \in Live
<1>1. PICK r \in CallsOf(u) : CallsOf(u) = {r}
  BY DEF OneSession
<1>2. SessionOf(u) = r
  BY <1>1, SessionIs
<1>3. r # <<>> /\ \A i \in DOMAIN r : r[i] \in Live
  <2>1. /\ r # <<>> /\ Len(r) \in Nat /\ r \in [1 .. Len(r) -> Members(u)]
        /\ \A i \in 1 .. Len(r) : r[i] \in Members(u)
    BY CallsAre DEF IInv
  <2>2. DOMAIN r = 1 .. Len(r)
    BY <2>1
  <2> QED
    BY <2>1, <2>2 DEF Members
<1> QED
  BY <1>2, <1>3

LEMMA ExecuteMaps ==
  ASSUME IInv, IInv', OneSession, ~EarlyInput, Execute
  PROVE  OneSession' /\ S!Next
<1> USE Numbers
<1> PICK t \in Terms : t = active_tid
  BY DEF IInv, TypeOK
<1>1. UserRuns /\ active_tid' = active_tid /\ TypeOK /\ TypeOK'
  BY DEF Execute, IInv
<1>2. PICK new \in Pids : Launch(new)
  BY DEF Execute
<1>3. /\ ~Booting /\ curr_pid \in Live /\ curr_pid = cur_pid[t]
      /\ terminal_number[curr_pid] = t
  BY <1>1, UserFacts
<1>4. Terms \subseteq Live /\ \A u \in Terms : cur_pid[u] # NoPid
  BY <1>3, AllStartedFacts
<1>5. new \notin Live /\ new # 0
  BY <1>2, <1>4, SizeFacts DEF Launch, FirstFree, Live
<1>6. /\ process_array' = [process_array EXCEPT ![new] = 1]
      /\ cur_pid' = [u \in Terms |-> IF u = t THEN new ELSE cur_pid[u]]
      /\ terminal_number' = [terminal_number EXCEPT ![new] = t]
      /\ parent_pid' = [parent_pid EXCEPT ![new] = curr_pid]
  BY <1>2, <1>3, <1>5 DEF Launch, SetForeground, BoundParent
<1>7. /\ Live' = Live \cup {new}
      /\ \A p \in Live : /\ parent_pid'[p] = parent_pid[p]
                         /\ terminal_number'[p] = terminal_number[p]
      /\ parent_pid'[new] = cur_pid[t] /\ terminal_number'[new] = t
      /\ \A u \in Terms : cur_pid'[u] = IF u = t THEN new ELSE cur_pid[u]
  BY <1>1, <1>3, <1>5, <1>6 DEF Live, TypeOK
<1>8. PICK s : CallsOf(t) = {s}
  BY <1>1, <1>4 DEF OneSession
<1>9. CallsOf(t)' = {Append(s, new)}
  BY <1>1, <1>5, <1>7, <1>8, CallsGrow
<1>10. SessionOf(t) = s /\ SessionOf(t)' = Append(s, new)
  BY <1>8, <1>9 DEF SessionOf
<1>11. ASSUME NEW u \in Terms \ {t}
       PROVE  CallsOf(u)' = CallsOf(u) /\ SessionOf(u)' = SessionOf(u)
  <2>1. Members(u)' = Members(u)
    BY <1>7 DEF Members
  <2>2. \A p \in Members(u) : parent_pid'[p] = parent_pid[p]
    BY <1>7 DEF Members
  <2> QED
    BY <1>1, <1>7, <2>1, <2>2, SameSession
<1>12. OneSession'
  <2> SUFFICES ASSUME NEW u \in Terms
               PROVE  \E r \in CallsOf(u)' : CallsOf(u)' = {r}
    BY DEF OneSession
  <2>1. CASE u = t
    BY <2>1, <1>9
  <2>2. CASE u # t
    BY <2>2, <1>4, <1>11 DEF OneSession
  <2> QED
    BY <2>1, <2>2
<1>13. ASSUME NEW u \in Terms
       PROVE  /\ SessionOf(u) # <<>>
              /\ \A i \in DOMAIN SessionOf(u) : SessionOf(u)[i] \in Live
  BY <1>4, SessionFacts
<1>14. new \notin S!InSession
  BY <1>5, <1>13 DEF S!InSession, S!Terms, Terms, S!ToSet
<1>15. S!AllStarted
  BY <1>13 DEF S!AllStarted, S!Terms, Terms
<1>16. SessionsOf' = [SessionsOf EXCEPT ![t] = Append(@, new)]
  BY <1>1, <1>10, <1>11 DEF SessionsOf
<1>17. S!Execute(new)
  BY <1>1, <1>14, <1>15, <1>16 DEF S!Execute, SessionsOf
<1>18. new \in S!Pids
  BY DEF S!Pids, Pids
<1> QED
  BY <1>12, <1>17, <1>18 DEF S!Next

LEMMA HaltChildMaps ==
  ASSUME IInv, IInv', OneSession, ~EarlyInput, HaltChild
  PROVE  OneSession' /\ S!Next
<1> USE Numbers
<1> PICK t \in Terms, child \in Pids, parent \in Pids :
       t = active_tid /\ child = curr_pid /\ parent = curr_parent_pid
  BY DEF IInv, TypeOK
<1>1. /\ UserRuns /\ child # parent /\ active_tid' = active_tid
      /\ TypeOK /\ TypeOK'
  BY DEF HaltChild, IInv
<1>2. /\ ~Booting
      /\ child \in Live /\ child = cur_pid[t] /\ terminal_number[child] = t
      /\ parent = parent_pid[child]
      /\ parent \in Live /\ terminal_number[parent] = t
  BY <1>1, UserFacts
<1>3. /\ process_array' = [process_array EXCEPT ![child] = 0]
      /\ parent_pid' = [parent_pid EXCEPT ![child] = 0]
      /\ terminal_number' = [terminal_number EXCEPT ![child] = NoTerm]
  BY DEF HaltChild
<1>4. /\ Live' = Live \ {child}
      /\ \A p \in Live' : /\ parent_pid'[p] = parent_pid[p]
                          /\ terminal_number'[p] = terminal_number[p]
  BY <1>1, <1>3 DEF Live, TypeOK
<1>5. \A u \in Terms : cur_pid'[u] = IF u = t THEN parent ELSE cur_pid[u]
  <2>1. terminal_number'[parent] = t
    BY <1>1, <1>2, <1>4
  <2> QED
    BY <2>1 DEF HaltChild, SetForeground
<1>6. \A u \in Terms : cur_pid[u] # NoPid
  BY <1>2, AllStartedFacts
<1>7. PICK s \in CallsOf(t) : CallsOf(t) = {s}
  BY <1>1, <1>6 DEF OneSession
<1>8. Len(s) > 1 /\ CallsOf(t)' = {SubSeq(s, 1, Len(s) - 1)}
  BY <1>1, <1>2, <1>4, <1>5, <1>7, CallsShrink
<1>9. SessionOf(t) = s /\ SessionOf(t)' = SubSeq(s, 1, Len(s) - 1)
  BY <1>7, <1>8 DEF SessionOf
<1>10. ASSUME NEW u \in Terms \ {t}
       PROVE  CallsOf(u)' = CallsOf(u) /\ SessionOf(u)' = SessionOf(u)
  <2>1. Members(u)' = Members(u)
    BY <1>2, <1>4 DEF Members
  <2>2. \A p \in Members(u) : parent_pid'[p] = parent_pid[p]
    BY <1>2, <1>4 DEF Members
  <2> QED
    BY <1>1, <1>5, <2>1, <2>2, SameSession
<1>11. OneSession'
  <2> SUFFICES ASSUME NEW u \in Terms
               PROVE  \E r \in CallsOf(u)' : CallsOf(u)' = {r}
    BY DEF OneSession
  <2>1. CASE u = t
    BY <2>1, <1>8
  <2>2. CASE u # t
    BY <2>2, <1>6, <1>10 DEF OneSession
  <2> QED
    BY <2>1, <2>2
<1>12. SessionsOf' = [SessionsOf EXCEPT ![t] = S!Front(@)]
  BY <1>1, <1>9, <1>10 DEF SessionsOf, S!Front
<1>13. SessionsOf[t] = s
  BY <1>1, <1>9 DEF SessionsOf
<1>14. S!Halt
  BY <1>1, <1>8, <1>12, <1>13 DEF S!Halt, SessionsOf
<1> QED
  BY <1>11, <1>14 DEF S!Next

(* The steps that leave the processes alone leave the sessions alone.      *)
LEMMA SessionsKept ==
  ASSUME IInv, IInv', OneSession, UNCHANGED <<table, cur_pid>>
  PROVE  OneSession' /\ SessionsOf' = SessionsOf
<1>1. UNCHANGED <<process_array, parent_pid, terminal_number, cur_pid>>
      /\ TypeOK /\ TypeOK'
  BY DEF table, IInv
<1>2. ASSUME NEW t \in Terms
      PROVE  CallsOf(t)' = CallsOf(t) /\ SessionOf(t)' = SessionOf(t)
  <2>1. Members(t)' = Members(t)
    BY <1>1 DEF Members, Live
  <2> QED
    BY <1>1, <2>1, SameSession
<1>3. OneSession'
  BY <1>1, <1>2 DEF OneSession
<1> QED
  BY <1>2, <1>3 DEF SessionsOf

(* A shell that ends starts again: its session does not notice.            *)
LEMMA HaltShellKept ==
  ASSUME IInv, ~EarlyInput, HaltShell
  PROVE  UNCHANGED <<table, cur_pid, active_tid>>
<1>1. UserRuns /\ curr_pid = curr_parent_pid /\ curr_pid \in Terms
  BY DEF HaltShell
<1>2. /\ curr_pid \in Live
      /\ curr_pid = cur_pid[active_tid]
      /\ terminal_number[curr_pid] = active_tid
      /\ parent_pid[curr_pid] = curr_pid
  BY <1>1, UserFacts
<1>3. active_tid = curr_pid
  BY <1>1, <1>2 DEF IInv, RootsAreShells
<1>4. /\ process_array' = process_array
      /\ parent_pid' = parent_pid
      /\ terminal_number' = terminal_number
  BY <1>2, <1>3 DEF HaltShell, BoundParent, Live, IInv, TypeOK
<1>5. cur_pid' = cur_pid
  BY <1>2, <1>3 DEF HaltShell, SetForeground, IInv, TypeOK
<1> QED
  BY <1>4, <1>5 DEF HaltShell, table

LEMMA PitStartShellMaps ==
  ASSUME IInv, IInv', OneSession, ~EarlyInput, PitStartShell
  PROVE  OneSession' /\ S!Next
<1> USE Numbers
<1> PICK t \in Terms : t = shell_tid
  BY DEF PitStartShell, Booting, Terms
<1>1. PICK new \in Pids : Launch(new)
  BY DEF PitStartShell
<1>2. /\ Booting /\ cur_pid[t] = NoPid /\ active_tid' = t
      /\ TypeOK /\ TypeOK'
  BY DEF PitStartShell, IInv
<1>3. \A p \in Pids : process_array[p] = 1 <=> p < t
  BY <1>2 DEF IInv, BootOrder
<1>4. new = t
  BY <1>1, <1>2, <1>3 DEF Launch, FirstFree
<1>5. /\ process_array' = [process_array EXCEPT ![t] = 1]
      /\ cur_pid' = [u \in Terms |-> IF u = t THEN t ELSE cur_pid[u]]
      /\ terminal_number' = [terminal_number EXCEPT ![t] = t]
      /\ parent_pid' = [parent_pid EXCEPT ![t] = t]
  BY <1>1, <1>2, <1>4 DEF Launch, SetForeground, BoundParent
<1>6. /\ Live' = Live \cup {t} /\ t \notin Live /\ t \in Pids
      /\ \A p \in Live : /\ parent_pid'[p] = parent_pid[p]
                         /\ terminal_number'[p] = terminal_number[p]
      /\ parent_pid'[t] = t /\ terminal_number'[t] = t
      /\ \A u \in Terms : cur_pid'[u] = IF u = t THEN t ELSE cur_pid[u]
  BY <1>2, <1>3, <1>5 DEF Live, TypeOK
<1>7. \A p \in Live : terminal_number[p] # t
  BY <1>2, <1>3, <1>6 DEF IInv, RootsAreShells, Live, Terms
<1>8. Members(t)' = {t}
  BY <1>6, <1>7 DEF Members
<1>9. CallsOf(t)' = {<<t>>} /\ SessionOf(t)' = <<t>>
  <2>1. CallsOf(t)' = {<<t>>}
    BY <1>2, <1>6, <1>8, CallsBegin
  <2> QED
    BY <2>1 DEF SessionOf
<1>10. ASSUME NEW u \in Terms \ {t}
       PROVE  CallsOf(u)' = CallsOf(u) /\ SessionOf(u)' = SessionOf(u)
  <2>1. Members(u)' = Members(u)
    BY <1>6 DEF Members
  <2>2. \A p \in Members(u) : parent_pid'[p] = parent_pid[p]
    BY <1>6 DEF Members
  <2> QED
    BY <1>2, <1>6, <2>1, <2>2, SameSession
<1>11. OneSession'
  <2> SUFFICES ASSUME NEW u \in Terms, cur_pid'[u] # NoPid
               PROVE  \E r \in CallsOf(u)' : CallsOf(u)' = {r}
    BY DEF OneSession
  <2>1. CASE u = t
    BY <2>1, <1>9
  <2>2. CASE u # t
    BY <2>2, <1>6, <1>10 DEF OneSession
  <2> QED
    BY <2>1, <2>2
<1>12. SessionOf(t) = <<>>
  BY <1>2, NoCalls
<1>13. ASSUME NEW u \in 0 .. t - 1
       PROVE  u \in Terms /\ SessionOf(u) # <<>>
  <2>1. u \in Terms /\ cur_pid[u] # NoPid
    BY <1>2 DEF IInv, BootOrder, Terms
  <2> QED
    BY <2>1, SessionFacts
<1>14. SessionsOf' = [SessionsOf EXCEPT ![t] = <<t>>]
  BY <1>9, <1>10 DEF SessionsOf
<1>15. S!StartShell(t)
  BY <1>2, <1>12, <1>13, <1>14 DEF S!StartShell, SessionsOf
<1>16. t \in S!Terms
  BY <1>2 DEF S!Terms, Terms
<1> QED
  BY <1>11, <1>15, <1>16 DEF S!Next

LEMMA PitSwitchMaps ==
  ASSUME IInv, IInv', OneSession, PitSwitch
  PROVE  OneSession' /\ S!Next
<1> USE Numbers
<1>1. /\ ~Booting /\ active_tid' = (active_tid + 1) % terminal_total_num
      /\ UNCHANGED <<table, cur_pid>> /\ TypeOK
  BY DEF PitSwitch, reschedule, IInv
<1>2. OneSession' /\ SessionsOf' = SessionsOf
  BY <1>1, SessionsKept
<1>3. ASSUME NEW u \in Terms PROVE SessionOf(u) # <<>>
  BY <1>1, AllStartedFacts, SessionFacts
<1>4. S!AllStarted
  BY <1>3 DEF S!AllStarted, S!Terms, Terms
<1>5. S!Tick
  BY <1>1, <1>2, <1>4 DEF S!Tick, SessionsOf
<1> QED
  BY <1>2, <1>5 DEF S!Next

LEMMA StepMaps ==
  ASSUME IInv, IInv', OneSession, ~EarlyInput, [Next]_vars
  PROVE  OneSession' /\ [S!Next]_(S!vars)
<1>1. CASE Execute
  BY <1>1, ExecuteMaps
<1>2. CASE HaltChild
  BY <1>2, HaltChildMaps
<1>3. CASE PitStartShell
  BY <1>3, PitStartShellMaps
<1>4. CASE PitStartFails
  BY <1>4, NoStartFails
<1>5. CASE PitSwitch
  BY <1>5, PitSwitchMaps
<1>6. ASSUME UNCHANGED <<table, cur_pid, active_tid>>
      PROVE  OneSession' /\ UNCHANGED S!vars
  <2>1. OneSession' /\ SessionsOf' = SessionsOf
    BY <1>6, SessionsKept
  <2> QED
    BY <1>6, <2>1 DEF S!vars, SessionsOf
<1>7. CASE HaltShell
  BY <1>6, <1>7, HaltShellKept
<1>8. CASE PitNextShell
  <2>1. active_tid' = active_tid
    BY <1>8 DEF PitNextShell, IInv, BootOrder
  <2> QED
    BY <1>6, <1>8, <2>1 DEF PitNextShell
<1>9. ASSUME NEW t \in Terms, TerminalSwitch(t)
      PROVE  OneSession' /\ UNCHANGED S!vars
  BY <1>6, <1>9 DEF TerminalSwitch
<1>10. CASE Vidmap \/ Exception \/ UNCHANGED vars
  BY <1>6, <1>10 DEF Vidmap, Exception, vars
<1> QED
  BY <1>1, <1>2, <1>3, <1>4, <1>5, <1>7, <1>8, <1>9, <1>10 DEF Next, pit_handler

LEMMA InitMaps == Init => OneSession /\ S!Init
<1> SUFFICES ASSUME Init PROVE OneSession /\ S!Init
  OBVIOUS
<1>1. TypeOK /\ \A t \in Terms : cur_pid[t] = NoPid
  BY InitIInv DEF Init, IInv
<1>2. \A t \in Terms : SessionOf(t) = <<>>
  BY <1>1, NoCalls
<1>3. S!Init
  BY <1>2 DEF S!Init, S!Terms, Terms, Init
<1> QED
  BY <1>1, <1>3 DEF OneSession

(* The process table implements the sessions: whatever the programs        *)
(* execute and halt, whenever the ticks come, for any number of PCBs and   *)
(* terminals, each step starts a shell, adds one process to the session of *)
(* the running terminal or takes its last one away, gives the turn to the  *)
(* next terminal, or leaves all sessions as they are.                      *)
THEOREM SessionsCorrect ==
  ASSUME ~EarlyInput
  PROVE  Spec => S!Turns
<1>1. Init => IInv /\ OneSession /\ S!Init
  BY InitIInv, InitMaps
<1>2. IInv /\ OneSession /\ [Next]_vars
        => IInv' /\ OneSession' /\ [S!Next]_(S!vars)
  BY ProcessKeeps, StepMaps
<1> QED
  BY <1>1, <1>2, PTL DEF Spec, S!Turns

(* With what is model-checked of the scheduler, that it comes back to      *)
(* every terminal, the refinement is complete.                             *)
THEOREM SessionsImplemented ==
  ASSUME ~EarlyInput
  PROVE  Spec /\ EveryTerminalRuns => ImplementsSessions
<1>1. ASSUME NEW t \in Terms
      PROVE  []IInv /\ []<>(Running /\ curr_pid = cur_pid[t]) => []<>(active_tid = t)
  <2>1. IInv /\ Running /\ curr_pid = cur_pid[t] => active_tid = t
    BY Numbers DEF IInv, TypeOK, ForegroundRuns, ForegroundOwned, MachineConsistent, Live
  <2> QED
    BY <2>1, PTL
<1>2. []IInv /\ EveryTerminalRuns => \A t \in S!Terms : []<>(active_tid = t)
  BY <1>1 DEF EveryTerminalRuns, S!Terms, Terms
<1> QED
  BY <1>2, Inductive, SessionsCorrect, PTL DEF ImplementsSessions, S!Spec
=============================================================================
