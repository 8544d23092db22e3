------------------------------ MODULE Sessions ------------------------------
(***************************************************************************)
(* What the user of the system is promised, with no process table, parent  *)
(* pointer or page: each terminal has a session, the programs started on   *)
(* it, nested like calls.  The last one is running and the others wait for *)
(* it.  The terminals take turns, and only the one whose turn it is can    *)
(* change its session.                                                     *)
(***************************************************************************)
EXTENDS Integers, Sequences, SequencesExt

CONSTANTS Process, terminal_total_num

Pids  == 0 .. Process - 1
Terms == 0 .. terminal_total_num - 1

VARIABLES session, turn

vars == <<session, turn>>

InSession == UNION {ToSet(session[t]) : t \in Terms}

Init == session = [t \in Terms |-> <<>>] /\ turn = 0

(* The terminals get their shells in order; the shell of t is process t.   *)
StartShell(t) ==
  /\ session[t] = <<>>
  /\ \A u \in 0 .. t - 1 : session[u] # <<>>
  /\ session' = [session EXCEPT ![t] = <<t>>]
  /\ turn' = t

AllStarted == \A t \in Terms : session[t] # <<>>

(* The running program executes another one, on the same terminal.         *)
Execute(p) ==
  /\ AllStarted
  /\ p \notin InSession
  /\ session' = [session EXCEPT ![turn] = Append(@, p)]
  /\ UNCHANGED turn

(* The running program ends and the one that executed it goes on.  A shell *)
(* does not end: it starts again.                                          *)
Halt ==
  /\ Len(session[turn]) > 1
  /\ session' = [session EXCEPT ![turn] = Front(@)]
  /\ UNCHANGED turn

Tick ==
  /\ AllStarted
  /\ turn' = (turn + 1) % terminal_total_num
  /\ UNCHANGED session

Next ==
  \/ \E t \in Terms : StartShell(t)
  \/ \E p \in Pids : Execute(p)
  \/ Halt
  \/ Tick

Turns == Init /\ [][Next]_vars

(* Every terminal has its turn again and again.                            *)
Spec == Turns /\ \A t \in Terms : []<>(turn = t)
=============================================================================
