------------------------------ MODULE Listing ------------------------------
(***************************************************************************)
(* Files with what each process has been told of the directory since it    *)
(* opened it, to say what a listing is.                                    *)
(***************************************************************************)
EXTENDS Files

VARIABLE listed   (* names returned to each process                        *)

listingVars == <<vars, listed>>

Opens(p) == \E name \in Names : OpenFile(p, name) /\ EntryOf[name].filetype = "dir"

Told(p) ==
  IF Opens(p) THEN {}
  ELSE IF DirAdvance(p) THEN listed[p] \cup {answer'.data.name}
  ELSE listed[p]

ListingInit == Init /\ listed = [p \in Pids |-> {}]
ListingNext == Next /\ listed' = [p \in Pids |-> Told(p)]
ListingSpec == ListingInit /\ [][ListingNext]_listingVars

(* dir_read loops over the directory "until all files are read"            *)
(* (filesystem.c:105): the process that is told the end of the directory   *)
(* has been told every name.                                               *)
ListedAll ==
  [][\A p \in Pids, fd \in FileFds, n \in Sizes :
       ReadDir(p, fd, n) /\ pc'[p] = "user" =>
         listed[p] = {Dentries[i].name : i \in 1 .. num_dentry}]_listingVars
=============================================================================
