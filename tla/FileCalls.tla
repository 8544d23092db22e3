----------------------------- MODULE FileCalls -----------------------------
(***************************************************************************)
(* What the file system promises to programs: every open file or directory *)
(* is the program's own, starts at its beginning, and successive reads     *)
(* return what it holds, in order, without gap or repetition, until there  *)
(* is no more and they return 0.                                           *)
(***************************************************************************)
EXTENDS Integers, Sequences

CONSTANTS
  Pids,      (* programs                                                   *)
  Fds,       (* numbers of the files a program can open                    *)
  Kind,      (* name -> "file", "dir", "rtc" or "none"                     *)
  Content,   (* name of a file -> its bytes                                *)
  Broken,    (* files that cannot be read                                  *)
  Listing,   (* the names a directory lists                                *)
  Sizes,     (* lengths of reads                                           *)
  Cut(_, _)  (* how much of a name a read of some length returns           *)

VARIABLES
  handle,   (* [p][fd]: the open file's name and position, or Closed       *)
  answer    (* what the last call returned, and to whom                    *)

vars == <<handle, answer>>

Closed == [name |-> "closed", at |-> 0]
Answer(p, call, ret, data) == [to |-> p, call |-> call, ret |-> ret, data |-> data]

(* What a read puts in the buffer: bytes of a file, a name of a directory. *)
Data(bytes, name) == [bytes |-> bytes, name |-> name]
NoData == Data(<<>>, "")

Init ==
  /\ handle = [p \in Pids |-> [fd \in Fds |-> Closed]]
  /\ answer \in {Answer(p, "none", 0, NoData) : p \in Pids}

Free(p) == {fd \in Fds : handle[p][fd] = Closed}
Smallest(S) == CHOOSE x \in S : \A y \in S : x <= y

Gets(p, call, ret, data) == answer' = Answer(p, call, ret, data)

(* The lowest free number; none, or an unknown name, fails.                *)
Open(p, name) ==
  IF Kind[name] = "none" \/ Free(p) = {}
  THEN Gets(p, "open", -1, NoData) /\ UNCHANGED handle
  ELSE /\ Gets(p, "open", Smallest(Free(p)), NoData)
       /\ handle' = [handle EXCEPT ![p][Smallest(Free(p))] = [name |-> name, at |-> 0]]

Close(p, fd) ==
  /\ Gets(p, "close", IF handle[p][fd] = Closed THEN -1 ELSE 0, NoData)
  /\ handle' = [handle EXCEPT ![p][fd] = Closed]

ReadFile(p, fd, n) ==
  LET h    == handle[p][fd]
      left == Len(Content[h.name]) - h.at
      got  == IF n < left THEN n ELSE left
  IN /\ Gets(p, "read", got, Data(SubSeq(Content[h.name], h.at + 1, h.at + got), ""))
     /\ handle' = [handle EXCEPT ![p][fd].at = @ + got]

ReadDir(p, fd, n) ==
  LET h == handle[p][fd]
  IN IF h.at = Len(Listing)
     THEN Gets(p, "read", 0, NoData) /\ UNCHANGED handle
     ELSE /\ Gets(p, "read", Cut(Listing[h.at + 1], n), Data(<<>>, Listing[h.at + 1]))
          /\ handle' = [handle EXCEPT ![p][fd].at = @ + 1]

(* A file that cannot be read gives nothing; a clock has no data.          *)
Read(p, fd, n) ==
  LET h == handle[p][fd]
  IN \/ h = Closed /\ Gets(p, "read", -1, NoData) /\ UNCHANGED handle
     \/ h # Closed /\ Kind[h.name] = "rtc" /\ Gets(p, "read", 0, NoData) /\ UNCHANGED handle
     \/ h # Closed /\ Kind[h.name] = "dir" /\ ReadDir(p, fd, n)
     \/ /\ h # Closed /\ Kind[h.name] = "file" /\ h.name \notin Broken
        /\ ReadFile(p, fd, n)
     \/ /\ h.name \in Broken
        /\ \E ret \in {-1, 0} : Gets(p, "read", ret, NoData)
        /\ UNCHANGED handle

(* Only a clock takes what is written.                                     *)
Write(p, fd) ==
  LET h == handle[p][fd]
  IN /\ \E ret \in IF h # Closed /\ Kind[h.name] = "rtc" THEN {-1, 0} ELSE {-1} :
          Gets(p, "write", ret, NoData)
     /\ UNCHANGED handle

(* Calls on the terminal, with numbers that are no file's, and getargs.    *)
Other(p) ==
  /\ \E ret \in -1 .. 1 : Gets(p, "other", ret, NoData)
  /\ UNCHANGED handle

(* A program ends or begins.                                               *)
Reset(p) ==
  /\ handle' = [handle EXCEPT ![p] = [fd \in Fds |-> Closed]]
  /\ Gets(p, "none", 0, NoData)

Next ==
  \E p \in Pids :
    \/ \E name \in DOMAIN Kind : Open(p, name)
    \/ \E fd \in Fds : Close(p, fd) \/ Write(p, fd)
    \/ \E fd \in Fds, n \in Sizes : Read(p, fd, n)
    \/ Other(p) \/ Reset(p)

Spec == Init /\ [][Next]_vars
=============================================================================
