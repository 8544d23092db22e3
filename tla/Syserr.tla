------------------------------- MODULE Syserr -------------------------------
(***************************************************************************)
(* The test program syserr (ece391syserr.c) run by one process, with any   *)
(* calls of the others before, between and after its own: its eight tests  *)
(* as one list of calls and what each is to return; the user answered 0.   *)
(***************************************************************************)
EXTENDS Files

CONSTANT Tester    (* the process that runs the tests                      *)

(* The image the tests are written for: it lists itself, and has no file   *)
(* of the names that err_open asks for.                                    *)
ASSUME TesterAssumption ==
  /\ Tester \in Pids
  /\ read_dentry_by_name(".") # None
  /\ \A name \in {"helloo", "shel", ""} : read_dentry_by_name(name) = None

VARIABLES
  test,   (* which line of the list is next; 0 when the tests do not run   *)
  cnt,    (* opens that failed in err_open_lots                            *)
  fail    (* has a test found something unexpected?                        *)

testVars == <<vars, test, cnt, fail>>

BIG_FD == Maximum_open_files + 1
NEG_FD == -1
BIG_NUM == 1073741823
NEG_NUM == -BIG_NUM

Line(call, arg) == [call |-> call, arg |-> arg]
All(call, fds) == [i \in 1 .. Len(fds) |-> Line(call, fds[i])]
Upwards(from) == [i \in 1 .. Maximum_open_files - from |-> from + i - 1]

err_neg_fd == <<Line("read", NEG_FD), Line("write", NEG_FD), Line("close", NEG_FD)>>
err_big_fd == <<Line("read", BIG_FD), Line("write", BIG_FD), Line("close", BIG_FD)>>

(* One open more than there are descriptors, and the closes.               *)
err_open_lots ==
  [i \in 1 .. Maximum_open_files - 1 |-> Line("open lots", ".")]
  \o All("close lots", Upwards(2)) \o <<Line("one failed", 0)>>

(* Names with a letter too many or too few, and none.                      *)
err_open == <<Line("open", "helloo"), Line("open", "shel"), Line("open", "")>>

err_unopened ==
  All("close", Upwards(0)) \o All("read", Upwards(2)) \o All("write", Upwards(2))

err_vidmap == <<Line("vidmap", "NULL"), Line("vidmap", "kernel")>>
err_stdin_out == <<Line("write", 0), Line("read", 1)>>
err_syscall_num == <<Line("system call", BIG_NUM), Line("system call", NEG_NUM),
                     Line("system call", 0)>>

Tests == err_neg_fd \o err_big_fd \o err_open_lots \o err_open \o err_unopened
         \o err_vidmap \o err_stdin_out \o err_syscall_num

-----------------------------------------------------------------------------
Only(ret) ==
  /\ answer' = Answer(Tester, "other", ret, NoData)
  /\ UNCHANGED <<process_array, fd_array, unread>>

(* vidmap takes a pointer into the program's own page only.                *)
vidmap(pointer) == Only(IF pointer \in {"NULL", "kernel"} THEN -1 ELSE 0)

(* The linkage knows the numbers 1 to 10.                                  *)
systemcall_handler_linkage(num) == Only(IF num < 1 \/ num > 10 THEN -1 ELSE 0)

Open(name) ==
  OpenTerminal(Tester, name) \/ OpenFails(Tester, name) \/ OpenFile(Tester, name)
Close(fd) == CloseFails(Tester, fd) \/ CloseWorks(Tester, fd)

ReadAny(fd) ==
  \/ ReadFails(Tester, fd) \/ ReadDevice(Tester, fd)
  \/ \E nbytes \in Sizes : ReadFile(Tester, fd, nbytes)

(* The call of a line; one without its own number expects -1.              *)
Expects(line) ==
  /\ \/ line.call = "read" /\ ReadAny(line.arg)
     \/ line.call = "write" /\ Write(Tester, line.arg)
     \/ line.call = "close" /\ Close(line.arg)
     \/ line.call = "open" /\ Open(line.arg)
     \/ line.call = "vidmap" /\ vidmap(line.arg)
     \/ line.call = "system call" /\ systemcall_handler_linkage(line.arg)
  /\ fail' = (fail \/ answer'.ret # -1)
  /\ UNCHANGED cnt

OpenLots(line) ==
  /\ line.call = "open lots" /\ Open(line.arg)
  /\ cnt' = IF answer'.ret = -1 THEN cnt + 1 ELSE cnt
  /\ UNCHANGED fail

CloseLots(line) ==
  line.call = "close lots" /\ Close(line.arg) /\ UNCHANGED <<cnt, fail>>

OneFailed(line) ==
  /\ line.call = "one failed"
  /\ fail' = (fail \/ cnt # 1)
  /\ cnt' = 0
  /\ UNCHANGED vars

Step ==
  /\ test # 0
  /\ \/ Expects(Tests[test]) \/ OpenLots(Tests[test])
     \/ CloseLots(Tests[test]) \/ OneFailed(Tests[test])
  /\ test' = IF test = Len(Tests) THEN 0 ELSE test + 1

Start == Execute(Tester) /\ test' = 1 /\ UNCHANGED <<cnt, fail>>

(* Any program may have run, or run later, in the tester's PCB.            *)
Others ==
  /\ \E p \in Pids :
       /\ Execute(p) \/ Call(p) \/ DirFetch(p) \/ DirAdvance(p)
       /\ test # 0 => p # Tester
  /\ UNCHANGED <<test, cnt, fail>>

TestInit == Init /\ test = 0 /\ cnt = 0 /\ fail = FALSE
TestNext == Start \/ Step \/ Others
TestSpec == TestInit /\ [][TestNext]_testVars

(* Every call of syserr returns what its tests expect: wrong descriptors   *)
(* and names fail, exactly the last of the opens fails, what was closed is *)
(* closed and the terminal cannot be.                                      *)
TestsPass == ~fail
=============================================================================
