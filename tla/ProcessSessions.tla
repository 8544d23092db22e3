-------------------------- MODULE ProcessSessions --------------------------
(***************************************************************************)
(* Process implements Sessions: the session of a terminal is found by      *)
(* following parent_pid from its foreground process to its shell.          *)
(***************************************************************************)
EXTENDS Process, Sequences, FiniteSets

Members(t) == {p \in Live : terminal_number[p] = t}

(* The calls that wait for the foreground process of t, which comes last:  *)
(* each process was executed by the one before it, and the first, the      *)
(* shell, by nobody.                                                       *)
Calls(t, s) ==
  /\ Len(s) > 0
  /\ parent_pid[s[1]] = s[1]
  /\ \A i \in 2 .. Len(s) : parent_pid[s[i]] = s[i - 1] /\ s[i - 1] # s[i]
  /\ s[Len(s)] = cur_pid[t]

(* They are all the processes of the terminal.                             *)
CallsOf(t) == {s \in [1 .. Cardinality(Members(t)) -> Members(t)] : Calls(t, s)}

SessionOf(t) == IF CallsOf(t) = {} THEN <<>> ELSE CHOOSE s \in CallsOf(t) : TRUE

S == INSTANCE Sessions WITH
       session <- [t \in Terms |-> SessionOf(t)],
       turn    <- active_tid

(* Every behaviour of the process table is a behaviour of the sessions,    *)
(* starvation of a terminal included.                                      *)
ImplementsSessions == S!Spec
=============================================================================
