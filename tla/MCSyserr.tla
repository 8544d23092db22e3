----------------------------- MODULE MCSyserr ------------------------------
(***************************************************************************)
(* An image and names for Syserr, and with it for Files.                  *)
(***************************************************************************)
EXTENDS Syserr, TLC

(* A directory with itself, the clock, a file of two blocks out of order, *)
(* whose name fills its field, and one with a block the image lacks.       *)
MCDentries ==
  <<[name |-> ".",     filetype |-> "dir",  inode |-> 0],
    [name |-> "rtc",   filetype |-> "rtc",  inode |-> 0],
    [name |-> "shell", filetype |-> "file", inode |-> 1],
    [name |-> "torn",  filetype |-> "file", inode |-> 2]>>

MCInodes ==
  0 :> [length |-> 0, blocks |-> <<>>]
  @@ 1 :> [length |-> 4, blocks |-> <<2, 0>>]
  @@ 2 :> [length |-> 2, blocks |-> <<9>>]

MCNames == {"stdin", "stdout", ".", "rtc", "shell", "torn", "shel", "helloo", ""}

MCNameLength == [n \in MCNames |->
  CASE n \in {"", "."} -> IF n = "" THEN 0 ELSE 1
    [] n = "rtc" -> 3 [] n \in {"torn", "shel"} -> 4
    [] n = "shell" -> 5 [] OTHER -> 6]

(* The tester opens files, the other program the clock; both list.         *)
MCUses == 0 :> {"stdin", ".", "shell", "torn", "shel"} @@ 1 :> {"stdout", ".", "rtc"}

ASSUME PlainAssumption == PlainImage
=============================================================================
