----------------------------- MODULE MCListing -----------------------------
(***************************************************************************)
(* A directory of two entries is enough for Listing.                       *)
(***************************************************************************)
EXTENDS Listing, TLC

MCDentries ==
  <<[name |-> ".",     filetype |-> "dir",  inode |-> 0],
    [name |-> "shell", filetype |-> "file", inode |-> 1]>>

MCInodes ==
  0 :> [length |-> 0, blocks |-> <<>>] @@ 1 :> [length |-> 1, blocks |-> <<0>>]

MCNames == {"stdin", "stdout", ".", "shell"}
MCNameLength == [n \in MCNames |-> IF n = "." THEN 1 ELSE 5]
MCUses == [p \in 0 .. 1 |-> {"."}]
=============================================================================
