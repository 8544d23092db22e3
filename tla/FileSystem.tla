----------------------------- MODULE FileSystem -----------------------------
(***************************************************************************)
(* The read-only file system (filesystem.c): lookup by name and by index,  *)
(* and read_data, which collects a file's bytes from its blocks.  A byte   *)
(* is known by its block and its place there; NULL buffers are left out.   *)
(*                                                                         *)
(* A definition without a comment, before one whose name it extends, is    *)
(* that definition with a mistake in it.                                   *)
(***************************************************************************)
EXTENDS Integers, Sequences

CONSTANTS
  Dentries,        (* the directory: a sequence of [name, filetype, inode] *)
  Inodes,          (* inode number -> [length, blocks]                     *)
  num_data_block,  (* blocks of the image; others are invalid              *)
  FOUR_KB,         (* bytes of a block                                     *)
  NameLength,      (* name -> its number of characters                     *)
  MAXIMUM_FILENAME_LENGTH,
  WORD             (* 2^32: uint32_t sums are modulo WORD                  *)

(* Number of blocks of a file.                                             *)
BlockNum(length) ==
  (length \div FOUR_KB) + (IF length % FOUR_KB > 0 THEN 1 ELSE 0)

ASSUME FileSystemAssumption ==
  /\ Dentries \in Seq([name : STRING, filetype : {"rtc", "dir", "file"},
                       inode : DOMAIN Inodes])
  /\ \A i \in DOMAIN Inodes :
       /\ Inodes[i].length \in 0 .. WORD - 1
       /\ Inodes[i].blocks \in Seq(Nat)
       /\ Len(Inodes[i].blocks) >= BlockNum(Inodes[i].length)
  /\ num_data_block \in Nat
  /\ FOUR_KB \in Nat \ {0}
  /\ MAXIMUM_FILENAME_LENGTH \in Nat
  /\ WORD \in Nat \ {0}

num_dentry == Len(Dentries)

None == [name |-> "", filetype |-> "none", inode |-> -1]

(* The first entry with that name.                                         *)
read_dentry_by_name(fname) ==
  LET found == {i \in 1 .. num_dentry : Dentries[i].name = fname}
  IN IF NameLength[fname] > MAXIMUM_FILENAME_LENGTH \/ found = {} THEN None
     ELSE Dentries[CHOOSE i \in found : \A j \in found : i <= j]

(* The directory counts from 0.                                            *)
read_dentry_by_index(index) ==
  IF index \in 0 .. num_dentry - 1 THEN Dentries[index + 1] ELSE None

(* strlen of an entry's name: one that fills its field has no NUL and is   *)
(* followed by its type, of which 0 (rtc) ends it and 1 and 2 count.       *)
DentryNameLength(d) ==
  IF NameLength[d.name] < MAXIMUM_FILENAME_LENGTH \/ d.filetype = "rtc"
  THEN NameLength[d.name]
  ELSE MAXIMUM_FILENAME_LENGTH + 1

-----------------------------------------------------------------------------
Bytes(block, from, n) == [k \in 1 .. n |-> <<block, from + k - 1>>]

Smaller(a, b) == IF a < b THEN a ELSE b

ChunkFull(off, remain) == IF remain >= FOUR_KB THEN FOUR_KB - off ELSE remain

(* How many bytes to copy from a block, from place off on.                 *)
Chunk(off, remain) ==
  IF remain >= FOUR_KB \/ off + remain > FOUR_KB THEN FOUR_KB - off ELSE remain

(* The loop over the blocks from number first on; a counts the rounds.     *)
Collect(blocks, first, off, length, block_num) ==
  LET loop[a \in 0 .. block_num] ==
        IF a = 0 THEN [data |-> <<>>, remain |-> length]
        ELSE LET i == first + a - 1
                 at == IF a = 1 THEN off ELSE 0
                 n == Chunk(at, loop[a - 1].remain)
             IN IF i >= block_num \/ loop[a - 1].remain = 0 THEN loop[a - 1]
                ELSE [data   |-> loop[a - 1].data \o Bytes(blocks[i + 1], at, n),
                      remain |-> loop[a - 1].remain - n]
  IN loop[block_num].data

(* read_data: the return value and what is put in the buffer.  length +    *)
(* offset may wrap.                                                        *)
read_data(inode, offset, length) ==
  LET node == Inodes[inode]
      len  == IF (length + offset) % WORD > node.length
              THEN node.length - offset ELSE length
      num  == BlockNum(node.length)
  IN IF inode \notin DOMAIN Inodes \/ offset > node.length
     THEN [ret |-> 0, data |-> <<>>]
     ELSE IF \E i \in 1 .. num : node.blocks[i] >= num_data_block
     THEN [ret |-> -1, data |-> <<>>]
     ELSE [ret  |-> len,
           data |-> Collect(node.blocks, offset \div FOUR_KB, offset % FOUR_KB, len, num)]
=============================================================================
