------------------------------- MODULE Files -------------------------------
(***************************************************************************)
(* The descriptors of the processes and the calls on them (system_call.c,  *)
(* pcb.c, filesystem.c).  A call runs with interrupts on.  What it touches *)
(* belongs to its process, so that nothing can come between its accesses,  *)
(* but for one variable: dir_readnum, the position in the directory, is    *)
(* one for all, and dir_read is three steps.                               *)
(*                                                                         *)
(* SharedListing = FALSE leaves out that two directory descriptors are     *)
(* read in turns: a read is made when no other is open, an open when none  *)
(* is half read.                                                           *)
(*                                                                         *)
(* Descriptor 8 passes the checks (system_call.c:51): fd_array[8] is the   *)
(* memory after the array, whose flags are bytes 5 to 8 of args_buf.  They *)
(* are 0 unless the arguments have more than four characters, which is     *)
(* left out.                                                               *)
(***************************************************************************)
EXTENDS FileSystem

CONSTANTS
  Process,             (* number of PCBs                                   *)
  Maximum_open_files,  (* descriptors of a PCB                             *)
  Names,               (* names programs use                               *)
  Uses,                (* process -> those its program uses                *)
  Sizes,               (* nbytes of reads                                  *)
  SharedListing        (* may two directory descriptors be read in turns?  *)

ASSUME FilesAssumption ==
  /\ Process \in Nat \ {0}
  /\ Maximum_open_files \in Nat /\ Maximum_open_files > 2
  /\ {"stdin", "stdout"} \subseteq Names
  /\ Uses \in [0 .. Process - 1 -> SUBSET Names]
  /\ Sizes \subseteq Nat /\ Sizes # {}
  /\ SharedListing \in BOOLEAN

Pids == 0 .. Process - 1
FdNums == 0 .. Maximum_open_files - 1
FileFds == 2 .. Maximum_open_files - 1

VARIABLES
  process_array,  (* 1 for a PCB in use                                    *)
  fd_array,       (* [p][fd]: func_pointer, inode_num, file_position and   *)
                  (* flags of each descriptor                              *)
  dir_readnum,    (* the entry that the next dir_read returns              *)
  pc,             (* "user", or where in dir_read a process is             *)
  local,          (* its nbytes and the entry it has fetched               *)
  answer          (* what the last call returned: not a variable of the    *)
                  (* code                                                  *)

vars == <<process_array, fd_array, dir_readnum, pc, local, answer>>
unread == <<dir_readnum, pc, local>>

Live == {p \in Pids : process_array[p] = 1}

Unused == [func_pointer |-> "NULL", inode_num |-> -1, file_position |-> 0, flags |-> 0]
InUse(op, inode) ==
  [func_pointer |-> op, inode_num |-> inode, file_position |-> 0, flags |-> 1]
NoLocal == [nbytes |-> 0, fetch |-> None]

Answer(p, call, ret, data) == [to |-> p, call |-> call, ret |-> ret, data |-> data]
Data(bytes, name) == [bytes |-> bytes, name |-> name]
NoData == Data(<<>>, "")
Returns(p, fd, call, ret, data) ==
  answer' = Answer(p, IF fd \in FileFds THEN call ELSE "other", ret, data)

(* stdin and stdout of a free PCB are not initialised, and not read        *)
(* before execute sets them.                                               *)
Init ==
  /\ process_array = [p \in Pids |-> 0]
  /\ fd_array = [p \in Pids |-> [fd \in FdNums |-> Unused]]
  /\ dir_readnum = 0
  /\ pc = [p \in Pids |-> "user"]
  /\ local = [p \in Pids |-> NoLocal]
  /\ answer = Answer(0, "none", 0, NoData)

-----------------------------------------------------------------------------
(* execute and restart_shell give the new process its descriptors.         *)
Execute(p) ==
  /\ process_array[p] = 0
  /\ process_array' = [process_array EXCEPT ![p] = 1]
  /\ fd_array' = [fd_array EXCEPT ![p] =
       [fd \in FdNums |-> CASE fd = 0 -> InUse("stdin", -1)
                            [] fd = 1 -> InUse("stdout", -1)
                            [] OTHER  -> Unused]]
  /\ answer' = Answer(p, "none", 0, NoData)
  /\ UNCHANGED unread

(* halt: close_pcb closes what is open and frees the rest.  inode_num and  *)
(* file_position, which keep their values until execute clears them, are   *)
(* cleared here.                                                           *)
Halt(p) ==
  /\ p \in Live /\ pc[p] = "user"
  /\ process_array' = [process_array EXCEPT ![p] = 0]
  /\ fd_array' = [fd_array EXCEPT ![p] = [fd \in FdNums |-> Unused]]
  /\ answer' = Answer(p, "none", 0, NoData)
  /\ UNCHANGED unread

-----------------------------------------------------------------------------
Calls(p) == p \in Live /\ pc[p] = "user"

InRange(fd) == fd >= 0 /\ fd <= Maximum_open_files

(* flags, and what is there beyond the array.                              *)
Flags(p, fd) == IF fd = Maximum_open_files THEN 0 ELSE fd_array[p][fd].flags

Valid(p, fd) == InRange(fd) /\ Flags(p, fd) # 0

Op(p, fd) == fd_array[p][fd].func_pointer

DirFds == {h \in Pids \X FdNums : Op(h[1], h[2]) = "dir" /\ fd_array[h[1]][h[2]].flags = 1}

-----------------------------------------------------------------------------
(* open                                                                    *)

FirstFreeNotLast(p) ==
  LET free == {fd \in FileFds \ {Maximum_open_files - 1} : fd_array[p][fd].flags = 0}
  IN IF free = {} THEN Maximum_open_files ELSE CHOOSE fd \in free : \A g \in free : fd <= g

(* The first free descriptor from 2 on, or Maximum_open_files.             *)
FirstFree(p) ==
  LET free == {fd \in FileFds : fd_array[p][fd].flags = 0}
  IN IF free = {} THEN Maximum_open_files ELSE CHOOSE fd \in free : \A g \in free : fd <= g

(* The names stdin and stdout, and any that begins with one of them.       *)
OpenTerminal(p, name) ==
  /\ Calls(p)
  /\ name \in {"stdin", "stdout"}
  /\ LET fd == IF name = "stdin" THEN 0 ELSE 1
     IN /\ fd_array' = [fd_array EXCEPT ![p][fd].flags = 1, ![p][fd].func_pointer = name]
        /\ Returns(p, fd, "open", fd, NoData)
  /\ UNCHANGED <<process_array, unread>>

OpenFails(p, name) ==
  /\ Calls(p)
  /\ name \notin {"stdin", "stdout"}
  /\ read_dentry_by_name(name) = None \/ FirstFree(p) = Maximum_open_files
  /\ answer' = Answer(p, "open", -1, NoData)
  /\ UNCHANGED <<process_array, fd_array, unread>>

(* None of rtc_open, file_open and dir_open fails for a name that was just *)
(* found.  dir_open begins the listing again.                              *)
OpenFile(p, name) ==
  LET dentry == read_dentry_by_name(name)
      fd == FirstFree(p)
  IN /\ Calls(p)
     /\ name \notin {"stdin", "stdout"}
     /\ dentry # None /\ fd # Maximum_open_files
     /\ \/ dentry.filetype # "dir" \/ SharedListing
        \/ (\A q \in Pids : pc[q] = "user") /\ (dir_readnum = 0 \/ DirFds = {})
     /\ fd_array' = [fd_array EXCEPT ![p][fd] =
          InUse(dentry.filetype, IF dentry.filetype = "file" THEN dentry.inode ELSE -1)]
     /\ dir_readnum' = IF dentry.filetype = "dir" THEN 0 ELSE dir_readnum
     /\ answer' = Answer(p, "open", fd, NoData)
     /\ UNCHANGED <<process_array, pc, local>>

-----------------------------------------------------------------------------
(* close                                                                   *)

(* terminal_close refuses; the others do nothing that can fail.            *)
CloseResult(op) == IF op \in {"stdin", "stdout"} THEN -1 ELSE 0

CanClose(p, fd) == Valid(p, fd) /\ CloseResult(Op(p, fd)) = 0

CloseFails(p, fd) ==
  /\ Calls(p)
  /\ ~CanClose(p, fd)
  /\ Returns(p, fd, "close", -1, NoData)
  /\ UNCHANGED <<process_array, fd_array, unread>>

CloseWorksKeepOp(p, fd) ==
  /\ Calls(p) /\ fd \in FdNums
  /\ CanClose(p, fd)
  /\ fd_array' = [fd_array EXCEPT ![p][fd].flags = 0]
  /\ Returns(p, fd, "close", 0, NoData)
  /\ UNCHANGED <<process_array, unread>>

CloseWorks(p, fd) ==
  /\ Calls(p) /\ fd \in FdNums
  /\ CanClose(p, fd)
  /\ fd_array' = [fd_array EXCEPT ![p][fd] = Unused]
  /\ Returns(p, fd, "close", 0, NoData)
  /\ UNCHANGED <<process_array, unread>>

-----------------------------------------------------------------------------
(* read and write                                                          *)

CanRead(p, fd) == Valid(p, fd) /\ Op(p, fd) # "stdout"

(* A wrong number, or reading stdout.                                      *)
ReadFails(p, fd) ==
  /\ Calls(p)
  /\ ~CanRead(p, fd)
  /\ Returns(p, fd, "read", -1, NoData)
  /\ UNCHANGED <<process_array, fd_array, unread>>

(* terminal_read and rtc_read, which have modules of their own.            *)
ReadDevice(p, fd) ==
  /\ Calls(p) /\ fd \in FdNums /\ Valid(p, fd)
  /\ \/ Op(p, fd) = "stdin" /\ Returns(p, fd, "read", 1, NoData)
     \/ Op(p, fd) = "rtc" /\ Returns(p, fd, "read", 0, NoData)
  /\ UNCHANGED <<process_array, fd_array, unread>>

(* file_read adds what read_data returns to the position, -1 included.     *)
ReadFile(p, fd, nbytes) ==
  /\ Calls(p) /\ fd \in FdNums /\ Valid(p, fd)
  /\ Op(p, fd) = "file"
  /\ LET f == fd_array[p][fd]
         got == read_data(f.inode_num, f.file_position, nbytes)
     IN /\ fd_array' = [fd_array EXCEPT ![p][fd].file_position = (@ + got.ret) % WORD]
        /\ Returns(p, fd, "read", got.ret, Data(got.data, ""))
  /\ UNCHANGED <<process_array, unread>>

(* dir_read: the comparison with num_dentry ...                            *)
ReadDir(p, fd, nbytes) ==
  /\ Calls(p) /\ fd \in FdNums /\ Valid(p, fd)
  /\ Op(p, fd) = "dir"
  /\ SharedListing \/ DirFds = {<<p, fd>>}
  /\ IF dir_readnum >= num_dentry
     THEN Returns(p, fd, "read", 0, NoData) /\ UNCHANGED unread
     ELSE /\ pc' = [pc EXCEPT ![p] = "fetch"]
          /\ local' = [local EXCEPT ![p].nbytes = nbytes]
          /\ UNCHANGED <<dir_readnum, answer>>
  /\ UNCHANGED <<process_array, fd_array>>

(* ... the entry, for the number that is there now ...                     *)
DirFetch(p) ==
  LET fetch == read_dentry_by_index(dir_readnum)
  IN /\ pc[p] = "fetch"
     /\ IF fetch = None
        THEN /\ answer' = Answer(p, "read", -1, NoData)
             /\ pc' = [pc EXCEPT ![p] = "user"]
             /\ local' = [local EXCEPT ![p] = NoLocal]
        ELSE /\ pc' = [pc EXCEPT ![p] = "advance"]
             /\ local' = [local EXCEPT ![p].fetch = fetch]
             /\ UNCHANGED answer
     /\ UNCHANGED <<process_array, fd_array, dir_readnum>>

(* ... and the increment.                                                  *)
DirAdvance(p) ==
  LET fetch == local[p].fetch
  IN /\ pc[p] = "advance"
     /\ dir_readnum' = dir_readnum + 1
     /\ answer' = Answer(p, "read", Smaller(local[p].nbytes, DentryNameLength(fetch)),
                         Data(<<>>, fetch.name))
     /\ pc' = [pc EXCEPT ![p] = "user"]
     /\ local' = [local EXCEPT ![p] = NoLocal]
     /\ UNCHANGED <<process_array, fd_array>>

(* What write returns: the terminal and the clock take what they get.      *)
WriteResults(p, fd) ==
  IF ~Valid(p, fd) THEN {-1}
  ELSE CASE Op(p, fd) = "stdout" -> {1}
         [] Op(p, fd) = "rtc"    -> {-1, 0}
         [] OTHER                -> {-1}

Write(p, fd) ==
  /\ Calls(p)
  /\ \E ret \in WriteResults(p, fd) : Returns(p, fd, "write", ret, NoData)
  /\ UNCHANGED <<process_array, fd_array, unread>>

(* -1 when the command had no arguments.                                   *)
getargs(p) ==
  /\ Calls(p)
  /\ \E ret \in {-1, 0} : answer' = Answer(p, "other", ret, NoData)
  /\ UNCHANGED <<process_array, fd_array, unread>>

-----------------------------------------------------------------------------
FdArgs == -1 .. Maximum_open_files + 1

Call(p) ==
  \/ \E name \in Uses[p] : OpenTerminal(p, name) \/ OpenFails(p, name) \/ OpenFile(p, name)
  \/ \E fd \in FdArgs :
       \/ CloseFails(p, fd) \/ CloseWorks(p, fd)
       \/ ReadFails(p, fd) \/ ReadDevice(p, fd) \/ Write(p, fd)
       \/ \E nbytes \in Sizes : ReadFile(p, fd, nbytes) \/ ReadDir(p, fd, nbytes)
  \/ getargs(p) \/ Halt(p)

Next == \E p \in Pids : Execute(p) \/ Call(p) \/ DirFetch(p) \/ DirAdvance(p)

Spec == Init /\ [][Next]_vars

-----------------------------------------------------------------------------
(* Descriptors never outlive their owner or lose track of their device: a  *)
(* free PCB has none, a process's 0 and 1 are its terminal, any other has  *)
(* a device exactly while it is in use, and a position inside its file     *)
(* (pcb.c:102, system_call.c:152).                                         *)
Readable(inode) ==
  \A i \in 1 .. BlockNum(Inodes[inode].length) : Inodes[inode].blocks[i] < num_data_block

DescriptorSound(p, fd, f) ==
  /\ process_array[p] = 0 => f.flags = 0
  /\ process_array[p] = 1 /\ fd = 0 => f.func_pointer = "stdin" /\ f.flags = 1
  /\ process_array[p] = 1 /\ fd = 1 => f.func_pointer = "stdout" /\ f.flags = 1
  /\ f.flags = IF f.func_pointer = "NULL" THEN 0 ELSE 1
  /\ fd \in FileFds => f.func_pointer \in {"NULL", "rtc", "dir", "file"}
  /\ f.func_pointer = "file" =>
       /\ f.inode_num \in DOMAIN Inodes
       /\ Readable(f.inode_num) => f.file_position \in 0 .. Inodes[f.inode_num].length

DescriptorsSound ==
  \A p \in Pids, fd \in FdNums : DescriptorSound(p, fd, fd_array[p][fd])

-----------------------------------------------------------------------------
(* A file's bytes, without the loop: what FileCalls promises.              *)
FileBytes(inode) ==
  [k \in 1 .. Inodes[inode].length |->
     <<Inodes[inode].blocks[(k - 1) \div FOUR_KB + 1], (k - 1) % FOUR_KB>>]

EntryOf == [name \in Names |-> read_dentry_by_name(name)]
FileNames == {n \in Names : EntryOf[n].filetype = "file"}
NameOfInode == [i \in {EntryOf[n].inode : n \in FileNames} |->
                  CHOOSE n \in FileNames : EntryOf[n].inode = i]
DirName == CHOOSE n \in Names : EntryOf[n].filetype = "dir"
RtcName == CHOOSE n \in Names : EntryOf[n].filetype = "rtc"
Unreadable == {n \in FileNames : ~Readable(EntryOf[n].inode)}

(* An image and programs for which the calls keep the promise of           *)
(* FileCalls: a file, the directory and the clock have one name each, a    *)
(* name fits its field and is not read beyond a full one, and no sum wraps.*)
PlainImage ==
  /\ "closed" \notin Names
  /\ \A m, n \in Names :
       /\ EntryOf[m].filetype = EntryOf[n].filetype
       /\ \/ EntryOf[m].filetype \in {"dir", "rtc"}
          \/ EntryOf[m].filetype = "file" /\ EntryOf[m].inode = EntryOf[n].inode
       => m = n
  /\ \A i \in 1 .. num_dentry :
       /\ NameLength[Dentries[i].name] \in 0 .. MAXIMUM_FILENAME_LENGTH
       /\ \A nbytes \in Sizes :
            \/ NameLength[Dentries[i].name] < MAXIMUM_FILENAME_LENGTH
            \/ Dentries[i].filetype = "rtc"
            \/ nbytes <= MAXIMUM_FILENAME_LENGTH
  /\ \A i \in DOMAIN Inodes, nbytes \in Sizes : nbytes + Inodes[i].length < WORD

(* What a descriptor stands for, while the next entry to list is number n. *)
Handle(f, n) ==
  IF f.flags # 1 THEN [name |-> "closed", at |-> 0]
  ELSE CASE f.func_pointer = "file" ->
              [name |-> NameOfInode[f.inode_num],
               at |-> IF NameOfInode[f.inode_num] \in Unreadable THEN 0 ELSE f.file_position]
         [] f.func_pointer = "dir" -> [name |-> DirName, at |-> n]
         [] OTHER                  -> [name |-> RtcName, at |-> 0]

Handles ==
  [p \in Pids |-> [fd \in FileFds |-> Handle(fd_array[p][fd], dir_readnum)]]

FileKind == [n \in Names \ {"stdin", "stdout"} |-> EntryOf[n].filetype]
FileContent == [n \in FileNames |-> FileBytes(EntryOf[n].inode)]
EntryNames == [i \in 1 .. num_dentry |-> Dentries[i].name]
CutName(name, n) == Smaller(n, NameLength[name])

F == INSTANCE FileCalls WITH
       Fds     <- FileFds,
       Kind    <- FileKind,
       Content <- FileContent,
       Broken  <- Unreadable,
       Listing <- EntryNames,
       Cut     <- CutName,
       handle  <- Handles

(* The calls keep the promise of FileCalls: every descriptor is its        *)
(* process's own and its reads return, in order, the bytes of the file or  *)
(* the names of the directory, whatever other processes open, read, close, *)
(* halt or begin in between (filesystem.c:132, filesystem.c:276).          *)
ImplementsFileCalls == F!Spec
=============================================================================
