---------------------------- MODULE FilesProofs ----------------------------
(***************************************************************************)
(* Proofs about Files, for any image, any number of processes and of       *)
(* descriptors, and any width of the position.                             *)
(***************************************************************************)
EXTENDS Files, TLAPS, WellFoundedInduction, SequenceTheorems

-----------------------------------------------------------------------------
(* The helpers.                                                            *)

LEMMA SmallestMember ==
  ASSUME NEW S \in SUBSET Nat, S # {}
  PROVE  \E m \in S : \A n \in S : m <= n
<1> DEFINE less == OpToRel(<, Nat)
<1>1. \E m \in S : \A n \in S : <<n, m>> \notin less
  BY NatLessThanWellFounded, WFMin
<1>2. \A m, n \in Nat : <<n, m>> \notin less => m <= n
  BY DEF OpToRel
<1> QED
  BY <1>1, <1>2

LEMMA FirstFreeInRange ==
  ASSUME NEW p \in Pids, FirstFree(p) # Maximum_open_files
  PROVE  FirstFree(p) \in FileFds
<1> DEFINE free == {fd \in FileFds : fd_array[p][fd].flags = 0}
<1>1. free # {}
  BY DEF FirstFree
<1>2. free \in SUBSET Nat
  BY FilesAssumption DEF FileFds
<1>3. \E fd \in free : \A g \in free : fd <= g
  BY <1>1, <1>2, SmallestMember
<1>4. FirstFree(p) = CHOOSE fd \in free : \A g \in free : fd <= g
  BY <1>1 DEF FirstFree
<1> QED
  BY <1>3, <1>4

Entries == [name : STRING, filetype : {"rtc", "dir", "file"}, inode : DOMAIN Inodes]

(* A name that is found is an entry of the directory.                      *)
LEMMA FoundIsEntry ==
  ASSUME NEW fname, read_dentry_by_name(fname) # None
  PROVE  read_dentry_by_name(fname) \in Entries
<1> DEFINE found == {i \in 1 .. num_dentry : Dentries[i].name = fname}
           least == CHOOSE i \in found : \A j \in found : i <= j
<1>1. Dentries \in Seq(Entries)
  BY FileSystemAssumption DEF Entries
<1>2. found # {} /\ read_dentry_by_name(fname) = Dentries[least]
  BY DEF read_dentry_by_name
<1>3. num_dentry \in Nat
  BY <1>1 DEF num_dentry
<1>4. found \in SUBSET Nat
  BY <1>3
<1>5. \E i \in found : \A j \in found : i <= j
  BY <1>2, <1>4, SmallestMember
<1>6. least \in 1 .. Len(Dentries)
  BY <1>5 DEF num_dentry
<1> HIDE DEF least
<1> QED
  BY <1>1, <1>2, <1>6

(* What read_data returns moves a position inside the file to one inside   *)
(* it, also when length + offset wraps around.                             *)
LEMMA ReadStaysInside ==
  ASSUME NEW inode \in DOMAIN Inodes, NEW at \in 0 .. WORD - 1, NEW nbytes \in Nat
  PROVE  /\ (at + read_data(inode, at, nbytes).ret) % WORD \in 0 .. WORD - 1
         /\ Readable(inode) /\ at <= Inodes[inode].length =>
              (at + read_data(inode, at, nbytes).ret) % WORD \in 0 .. Inodes[inode].length
<1> DEFINE length == Inodes[inode].length
           blocks == Inodes[inode].blocks
           num == BlockNum(length)
           len == IF (nbytes + at) % WORD > length THEN length - at ELSE nbytes
           ret == read_data(inode, at, nbytes).ret
<1>1. WORD \in Nat /\ WORD > 0 /\ length \in 0 .. WORD - 1
  BY FileSystemAssumption
<1>2. len \in Int
  BY <1>1
<1>3. ret \in {0, -1, len}
  BY DEF read_data
<1>4. (at + ret) % WORD \in 0 .. WORD - 1
  BY <1>1, <1>2, <1>3
<1>5. ASSUME Readable(inode), at <= length PROVE (at + ret) % WORD \in 0 .. length
  <2>1. /\ num \in Int /\ Len(blocks) >= num
        /\ blocks \in Seq(Nat) /\ num_data_block \in Nat
    <3>1. length \in Int /\ FOUR_KB \in Nat /\ FOUR_KB > 0
      BY <1>1, FileSystemAssumption
    <3>2. num \in Int
      BY <3>1 DEF BlockNum
    <3> QED
      BY <3>2, FileSystemAssumption
  <2>2. ~\E i \in 1 .. num : blocks[i] >= num_data_block
    BY <1>5, <2>1 DEF Readable
  <2>3. ret = len
    BY <1>1, <1>5, <2>2 DEF read_data
  <2>4. CASE (nbytes + at) % WORD > length
    <3>1. at + len = length
      BY <1>1, <2>4
    <3>2. length % WORD = length
      BY <1>1
    <3> QED
      BY <1>1, <2>3, <3>1, <3>2
  <2>5. CASE ~((nbytes + at) % WORD > length)
    <3>1. at + len = nbytes + at
      BY <1>1, <2>5
    <3> QED
      BY <1>1, <2>3, <2>5, <3>1
  <2> QED
    BY <2>4, <2>5
<1> QED
  BY <1>4, <1>5

-----------------------------------------------------------------------------
(* read_data collects the bytes of the file from offset on, whatever the   *)
(* lengths: block by block, the first one from its middle, the last one    *)
(* not to its end.                                                         *)

LEMMA BlockSize == FOUR_KB \in Nat /\ FOUR_KB > 0
BY FileSystemAssumption

LEMMA InBlock ==
  ASSUME NEW i \in Nat, NEW k \in 0 .. FOUR_KB - 1
  PROVE  (i * FOUR_KB + k) \div FOUR_KB = i /\ (i * FOUR_KB + k) % FOUR_KB = k
<1> USE BlockSize
<1> DEFINE p == i * FOUR_KB + k
           q == p \div FOUR_KB
           r == p % FOUR_KB
<1>1. k \in Nat /\ k < FOUR_KB /\ p \in Nat
  OBVIOUS
<1>2. q \in Int /\ r \in 0 .. FOUR_KB - 1 /\ p = FOUR_KB * q + r
  BY <1>1
<1>3. p = FOUR_KB * i + k
  OBVIOUS
<1> HIDE DEF p, q, r
<1>4. FOUR_KB * (q - i) = k - r
  BY <1>1, <1>2, <1>3
<1>5. ~(q - i >= 1)
  <2>1. SUFFICES ASSUME q - i >= 1 PROVE FALSE
    OBVIOUS
  <2>2. FOUR_KB * (q - i) >= FOUR_KB
    BY <1>2, <2>1
  <2> QED
    BY <1>1, <1>2, <1>4, <2>2
<1>6. ~(q - i <= -1)
  <2>1. SUFFICES ASSUME q - i <= -1 PROVE FALSE
    OBVIOUS
  <2>2. FOUR_KB * (q - i) <= -FOUR_KB
    BY <1>2, <2>1
  <2> QED
    BY <1>1, <1>2, <1>4, <2>2
<1>7. q = i
  BY <1>2, <1>5, <1>6
<1>8. r = k
  BY <1>1, <1>2, <1>4, <1>7
<1> QED
  BY <1>7, <1>8 DEF p, q, r

LEMMA BlocksCover ==
  ASSUME NEW length \in Nat
  PROVE  BlockNum(length) \in Nat /\ BlockNum(length) * FOUR_KB >= length
<1> USE BlockSize
<1> DEFINE q == length \div FOUR_KB
           r == length % FOUR_KB
<1>1. q \in Nat /\ r \in 0 .. FOUR_KB - 1 /\ length = FOUR_KB * q + r
  OBVIOUS
<1>2. BlockNum(length) = q + (IF r > 0 THEN 1 ELSE 0)
  BY DEF BlockNum
<1> HIDE DEF q, r
<1>3. CASE r > 0
  <2>1. (q + 1) * FOUR_KB = FOUR_KB * q + FOUR_KB
    BY <1>1
  <2> QED
    BY <1>1, <1>2, <1>3, <2>1
<1>4. CASE ~(r > 0)
  <2>1. q * FOUR_KB = FOUR_KB * q
    BY <1>1
  <2> QED
    BY <1>1, <1>2, <1>4, <2>1
<1> QED
  BY <1>3, <1>4

(* Place k of the file's block number i.                                   *)
Place(i, k) == i * FOUR_KB + k
BlockAt(blocks, i) == blocks[i + 1]
Together(s, r, w) == s \o r = w

(* Byte number k of a file with these blocks, and some of its bytes.       *)
ByteAt(blocks, k) == <<blocks[k \div FOUR_KB + 1], k % FOUR_KB>>
FileSlice(blocks, at, n) == [k \in 1 .. n |-> ByteAt(blocks, at + k - 1)]

(* The bytes of one block follow those before it.                          *)
LEMMA SliceGrows ==
  ASSUME NEW blocks, NEW at \in Nat, NEW d \in Nat, NEW n \in Nat,
         NEW i \in Nat, NEW off \in Nat,
         at + d = Place(i, off), off + n <= FOUR_KB,
         NEW block, block = BlockAt(blocks, i), NEW e, e = d + n
  PROVE  Together(FileSlice(blocks, at, d), Bytes(block, off, n), FileSlice(blocks, at, e))
<1> DEFINE V(k) == ByteAt(blocks, at + k - 1)
           S == {V(k) : k \in 1 .. d + n}
           s == FileSlice(blocks, at, d)
           r == Bytes(block, off, n)
           w == FileSlice(blocks, at, e)
<1>1. ASSUME NEW k \in 1 .. n PROVE V(d + k) = <<block, off + k - 1>>
  <2>1. at + (d + k) - 1 = i * FOUR_KB + (off + k - 1)
    BY BlockSize DEF Place
  <2>2. off + k - 1 \in 0 .. FOUR_KB - 1
    BY BlockSize
  <2> QED
    BY <2>1, <2>2, InBlock DEF ByteAt, BlockAt
<1>2. \A k \in 1 .. n : r[k] = V(d + k)
  BY <1>1 DEF Bytes
<1> HIDE DEF V
<1>3. s = [k \in 1 .. d |-> V(k)] /\ w = [k \in 1 .. d + n |-> V(k)]
  BY DEF FileSlice, V
<1>4. \A k \in 1 .. d : V(k) \in S
  OBVIOUS
<1>5. \A k \in 1 .. n : V(d + k) \in S
  OBVIOUS
<1>6. DOMAIN r = 1 .. n /\ r = [k \in 1 .. n |-> r[k]]
  BY DEF Bytes
<1> HIDE DEF S, s, r, w
<1>7. s \in Seq(S) /\ Len(s) = d
  BY <1>3, <1>4
<1>8. r \in [1 .. n -> S]
  BY <1>2, <1>5, <1>6
<1>9. r \in Seq(S) /\ Len(r) = n
  BY <1>8
<1>10. /\ s \o r \in Seq(S) /\ Len(s \o r) = d + n
       /\ \A k \in 1 .. d + n : (s \o r)[k] = IF k <= d THEN s[k] ELSE r[k - d]
  BY <1>7, <1>9, ConcatProperties
<1>11. \A k \in 1 .. d + n : (s \o r)[k] = V(k)
  <2>1. SUFFICES ASSUME NEW k \in 1 .. d + n PROVE (s \o r)[k] = V(k)
    OBVIOUS
  <2>2. CASE k <= d
    BY <1>3, <1>10, <2>2
  <2>3. CASE k > d
    <3>1. k - d \in 1 .. n /\ d + (k - d) = k
      BY <2>3
    <3> QED
      BY <1>2, <1>10, <2>3, <3>1
  <2>4. k <= d \/ k > d
    OBVIOUS
  <2> QED
    BY <2>2, <2>3, <2>4
<1>12. w \in Seq(S) /\ Len(w) = d + n /\ \A k \in 1 .. d + n : w[k] = V(k)
  <2>1. \A k \in 1 .. d + n : V(k) \in S
    BY DEF S
  <2> QED
    BY <1>3, <2>1
<1>13. s \o r = w
  <2> DEFINE z == s \o r
  <2>1. z \in Seq(S) /\ Len(z) = Len(w) /\ \A k \in 1 .. Len(z) : z[k] = w[k]
    BY <1>10, <1>11, <1>12
  <2> HIDE DEF z
  <2>2. z = w
    BY <1>12, <2>1, SeqEqual
  <2> QED
    BY <2>2 DEF z
<1> QED
  BY <1>13 DEF s, r, w, Together

(* The loop of read_data: what round a makes of the state before it.       *)
Round(blocks, first, off, block_num, a, prev) ==
  LET i == first + a - 1
      at == IF a = 1 THEN off ELSE 0
      n == Chunk(at, prev.remain)
  IN IF i >= block_num \/ prev.remain = 0 THEN prev
     ELSE [data |-> prev.data \o Bytes(blocks[i + 1], at, n), remain |-> prev.remain - n]

LoopOf(loop, blocks, first, off, length, block_num) ==
  loop = [a \in 0 .. block_num |->
            IF a = 0 THEN [data |-> <<>>, remain |-> length]
            ELSE Round(blocks, first, off, block_num, a, loop[a - 1])]

LEMMA CollectIs ==
  ASSUME NEW blocks, NEW first, NEW off, NEW length, NEW block_num
  PROVE Collect(blocks, first, off, length, block_num)
        = (CHOOSE loop : LoopOf(loop, blocks, first, off, length, block_num))[block_num].data
BY DEF Collect, LoopOf, Round

(* There is one such loop: two that differ would differ first somewhere.   *)
LEMMA OneLoop ==
  ASSUME NEW blocks, NEW first, NEW off, NEW length, NEW block_num \in Nat, NEW f, NEW g,
         LoopOf(f, blocks, first, off, length, block_num),
         LoopOf(g, blocks, first, off, length, block_num)
  PROVE  f = g
<1> DEFINE R(a, prev) == Round(blocks, first, off, block_num, a, prev)
           base == [data |-> <<>>, remain |-> length]
           S == {a \in 0 .. block_num : f[a] # g[a]}
<1>1. /\ f = [a \in 0 .. block_num |-> IF a = 0 THEN base ELSE R(a, f[a - 1])]
      /\ g = [a \in 0 .. block_num |-> IF a = 0 THEN base ELSE R(a, g[a - 1])]
  BY DEF LoopOf
<1> HIDE DEF R, base
<1>2. \A a \in 0 .. block_num : /\ f[a] = IF a = 0 THEN base ELSE R(a, f[a - 1])
                               /\ g[a] = IF a = 0 THEN base ELSE R(a, g[a - 1])
  BY <1>1
<1>3. S = {}
  <2>1. SUFFICES ASSUME S # {} PROVE FALSE
    OBVIOUS
  <2>2. S \in SUBSET Nat
    OBVIOUS
  <2>3. PICK m \in S : \A a \in S : m <= a
    <3> HIDE DEF S
    <3> QED
      BY <2>1, <2>2, SmallestMember
  <2>4. m \in 0 .. block_num /\ f[m] # g[m]
    OBVIOUS
  <2>5. m # 0
    BY <1>2, <2>4
  <2>6. m - 1 \in 0 .. block_num /\ m - 1 \notin S
    BY <2>3, <2>4, <2>5
  <2>7. f[m - 1] = g[m - 1]
    BY <2>6
  <2> QED
    BY <1>2, <2>4, <2>5, <2>7
<1>4. DOMAIN f = 0 .. block_num /\ DOMAIN g = 0 .. block_num
  BY <1>1
<1>5. \A a \in 0 .. block_num : f[a] = g[a]
  BY <1>3
<1>6. f = [a \in 0 .. block_num |-> f[a]] /\ g = [a \in 0 .. block_num |-> g[a]]
  BY <1>1, <1>4
<1> QED
  BY <1>5, <1>6

(* What the loop has copied after round a: as much as was asked for, or    *)
(* all up to the end of a block.                                           *)
Copied(off, len, a) == IF a = 0 THEN 0 ELSE Smaller(len, a * FOUR_KB - off)

CopiedState(blocks, at, off, len, a) ==
  [data |-> FileSlice(blocks, at, Copied(off, len, a)), remain |-> len - Copied(off, len, a)]

LEMMA RoundCopies ==
  ASSUME NEW blocks, NEW length \in Nat, NEW at \in Nat, NEW len \in Nat, at + len <= length,
         NEW first \in Nat, NEW off \in 0 .. FOUR_KB - 1, at = Place(first, off),
         NEW num, num = BlockNum(length), NEW a \in 1 .. num,
         NEW prev, prev = CopiedState(blocks, at, off, len, a - 1)
  PROVE  Round(blocks, first, off, num, a, prev) = CopiedState(blocks, at, off, len, a)
<1> USE BlockSize
<1> DEFINE d == Copied(off, len, a - 1)
           i == first + a - 1
           from == IF a = 1 THEN off ELSE 0
           n == Chunk(from, prev.remain)
           before == (a - 1) * FOUR_KB
<1>1. num \in Nat /\ num * FOUR_KB >= length /\ a \in Nat /\ a >= 1 /\ a <= num /\ i \in Nat
  BY BlocksCover
<1>2. before \in Nat /\ a * FOUR_KB = before + FOUR_KB /\ i * FOUR_KB = first * FOUR_KB + before
  BY <1>1
<1>3. a > 1 => before >= FOUR_KB
  <2>1. SUFFICES ASSUME a > 1 PROVE before >= FOUR_KB
    OBVIOUS
  <2>2. a - 1 >= 1 /\ a - 1 \in Nat
    BY <1>1, <2>1
  <2> QED
    BY <2>2
<1>4. first * FOUR_KB \in Nat /\ off \in Nat /\ off < FOUR_KB
  OBVIOUS
<1>5. prev.data = FileSlice(blocks, at, d) /\ prev.remain = len - d
  BY DEF CopiedState
<1>6. d = IF a = 1 THEN 0 ELSE Smaller(len, before - off)
  BY <1>1 DEF Copied
<1>7. Copied(off, len, a) = Smaller(len, before + FOUR_KB - off)
  BY <1>1, <1>2 DEF Copied
<1> HIDE DEF before, d, i
<1>8. d \in Nat /\ d <= len
  BY <1>1, <1>2, <1>3, <1>4, <1>6 DEF Smaller
<1>9. CASE prev.remain = 0
  <2>1. Copied(off, len, a) = d
    BY <1>1, <1>2, <1>3, <1>4, <1>5, <1>6, <1>7, <1>8, <1>9 DEF Smaller
  <2>2. Round(blocks, first, off, num, a, prev) = prev
    BY <1>9 DEF Round
  <2>3. prev = CopiedState(blocks, at, off, len, a)
    BY <2>1 DEF CopiedState, d
  <2> QED
    BY <2>2, <2>3
<1>10. CASE prev.remain # 0
  <2>1. d < len /\ (a > 1 => d = before - off)
    BY <1>1, <1>2, <1>3, <1>4, <1>5, <1>6, <1>8, <1>10 DEF Smaller
  <2>2. at + d = Place(i, from)
    BY <1>1, <1>2, <1>4, <1>6, <2>1 DEF Place
  <2>3. i < num
    <3>1. SUFFICES ASSUME i >= num PROVE FALSE
      BY <1>1
    <3>2. i * FOUR_KB >= num * FOUR_KB
      BY <1>1, <3>1
    <3>3. i * FOUR_KB \in Nat /\ num * FOUR_KB \in Nat
      BY <1>1
    <3>4. from \in Nat
      OBVIOUS
    <3> QED
      BY <1>1, <1>8, <2>1, <2>2, <3>2, <3>3, <3>4 DEF Place
  <2>4. from \in Nat /\ from < FOUR_KB
    OBVIOUS
  <2> HIDE DEF from
  <2>5. n = Smaller(FOUR_KB - from, len - d)
    BY <1>5, <1>8, <2>1, <2>4 DEF Chunk, Smaller
  <2>6. n \in Nat /\ from + n <= FOUR_KB
    BY <1>8, <2>1, <2>4, <2>5 DEF Smaller
  <2>7. Copied(off, len, a) = d + n
    <3>1. CASE a = 1
      <4>1. before = 0 /\ d = 0 /\ from = off
        BY <1>6, <3>1 DEF before, from
      <4> QED
        BY <1>4, <1>7, <1>8, <2>5, <4>1 DEF Smaller
    <3>2. CASE a > 1
      <4>1. from = 0 /\ d = before - off
        BY <2>1, <3>2 DEF from
      <4> QED
        BY <1>2, <1>4, <1>7, <1>8, <2>5, <4>1 DEF Smaller
    <3> QED
      BY <1>1, <3>1, <3>2
  <2>8. Round(blocks, first, off, num, a, prev)
          = [data |-> prev.data \o Bytes(blocks[i + 1], from, n), remain |-> prev.remain - n]
    BY <1>1, <1>10, <2>3 DEF Round, i, from
  <2> HIDE DEF n
  <2>9. prev.data \o Bytes(blocks[i + 1], from, n) = FileSlice(blocks, at, d + n)
    <3>1. d \in Nat /\ n \in Nat /\ i \in Nat /\ from \in Nat
      BY <1>1, <1>8, <2>4, <2>6
    <3>2. PICK block : block = blocks[i + 1]
      OBVIOUS
    <3>3. FileSlice(blocks, at, d) \o Bytes(block, from, n) = FileSlice(blocks, at, d + n)
      <4>1. PICK x \in Nat, y \in Nat, z \in Nat, w \in Nat :
              x = d /\ y = n /\ z = i /\ w = from
        BY <3>1
      <4>2. at + x = Place(z, w) /\ w + y <= FOUR_KB /\ block = BlockAt(blocks, z)
        BY <2>2, <2>6, <3>2, <4>1 DEF BlockAt
      <4>3. FileSlice(blocks, at, x) \o Bytes(block, w, y) = FileSlice(blocks, at, x + y)
        <5>1. PICK e \in Nat : e = x + y
          OBVIOUS
        <5>2. Together(FileSlice(blocks, at, x), Bytes(block, w, y), FileSlice(blocks, at, e))
          BY <4>2, <5>1, SliceGrows
        <5> QED
          BY <5>1, <5>2 DEF Together
      <4> QED
        BY <4>1, <4>3
    <3> QED
      BY <1>5, <3>2, <3>3
  <2>10. prev.remain - n = len - (d + n)
    BY <1>5, <1>8, <2>6
  <2> QED
    BY <2>7, <2>8, <2>9, <2>10 DEF CopiedState
<1> QED
  BY <1>9, <1>10

LEMMA CollectGathers ==
  ASSUME NEW blocks, NEW length \in Nat, NEW at \in Nat, NEW len \in Nat, at + len <= length
  PROVE  Collect(blocks, at \div FOUR_KB, at % FOUR_KB, len, BlockNum(length))
           = FileSlice(blocks, at, len)
<1> USE BlockSize
<1> DEFINE first == at \div FOUR_KB
           off == at % FOUR_KB
           num == BlockNum(length)
           state(a) == CopiedState(blocks, at, off, len, a)
           g == [a \in 0 .. num |-> state(a)]
<1>1. first \in Nat /\ off \in 0 .. FOUR_KB - 1 /\ at = first * FOUR_KB + off
  <2>1. first \in Nat /\ off \in 0 .. FOUR_KB - 1 /\ at = FOUR_KB * first + off
    OBVIOUS
  <2> HIDE DEF first, off
  <2> QED
    BY <2>1
<1>2. num \in Nat /\ num * FOUR_KB >= length
  BY BlocksCover
<1> HIDE DEF first, off, num
<1>3. state(0) = [data |-> <<>>, remain |-> len]
  <2>1. Copied(off, len, 0) = 0
    BY DEF Copied
  <2>2. FileSlice(blocks, at, 0) = <<>>
    BY DEF FileSlice
  <2> QED
    BY <2>1, <2>2 DEF CopiedState
<1>4. \A a \in 1 .. num : Round(blocks, first, off, num, a, state(a - 1)) = state(a)
  <2>1. SUFFICES ASSUME NEW a \in 1 .. num
                 PROVE  Round(blocks, first, off, num, a, state(a - 1)) = state(a)
    OBVIOUS
  <2>2. PICK prev : prev = state(a - 1)
    OBVIOUS
  <2>3. Round(blocks, first, off, num, a, prev) = CopiedState(blocks, at, off, len, a)
    <3>1. PICK n \in Nat, x \in Nat, y \in 0 .. FOUR_KB - 1 : n = num /\ x = first /\ y = off
      BY <1>1, <1>2
    <3>2. /\ n = BlockNum(length) /\ at = Place(x, y) /\ a \in 1 .. n
          /\ prev = CopiedState(blocks, at, y, len, a - 1)
      BY <1>1, <2>2, <3>1 DEF num, state, Place
    <3>3. Round(blocks, x, y, n, a, prev) = CopiedState(blocks, at, y, len, a)
      BY <3>2, RoundCopies
    <3> QED
      BY <3>1, <3>3
  <2> QED
    BY <2>2, <2>3 DEF state
<1> HIDE DEF state
<1>5. LoopOf(g, blocks, first, off, len, num)
  <2>1. ASSUME NEW a \in 0 .. num
        PROVE  state(a) = IF a = 0 THEN [data |-> <<>>, remain |-> len]
                          ELSE Round(blocks, first, off, num, a, g[a - 1])
    <3>1. CASE a = 0
      BY <1>3, <3>1
    <3>2. CASE a # 0
      <4>1. a \in 1 .. num /\ a - 1 \in 0 .. num
        BY <1>2, <3>2
      <4>2. g[a - 1] = state(a - 1)
        BY <4>1
      <4> QED
        BY <1>4, <3>2, <4>1, <4>2
    <3> QED
      BY <3>1, <3>2
  <2> QED
    BY <2>1 DEF LoopOf
<1>6. (CHOOSE loop : LoopOf(loop, blocks, first, off, len, num)) = g
  <2> DEFINE c == CHOOSE loop : LoopOf(loop, blocks, first, off, len, num)
  <2>1. LoopOf(c, blocks, first, off, len, num)
    BY <1>5
  <2> HIDE DEF c, g
  <2>2. c = g
    BY <1>2, <1>5, <2>1, OneLoop
  <2> QED
    BY <2>2 DEF c
<1>7. Collect(blocks, first, off, len, num) = g[num].data
  BY <1>6, CollectIs
<1>8. Copied(off, len, num) = len
  <2>1. CASE num = 0
    BY <1>2, <2>1 DEF Copied
  <2>2. CASE num > 0
    <3>1. first * FOUR_KB \in Nat /\ num * FOUR_KB \in Nat /\ off \in Nat
      BY <1>1, <1>2
    <3>2. num * FOUR_KB - off >= len
      BY <1>1, <1>2, <3>1
    <3> QED
      BY <1>2, <2>2, <3>1, <3>2 DEF Copied, Smaller
  <2> QED
    BY <1>2, <2>1, <2>2
<1>9. g[num] = CopiedState(blocks, at, off, len, num)
  BY <1>2 DEF state
<1>10. g[num].data = FileSlice(blocks, at, len)
  BY <1>8, <1>9 DEF CopiedState
<1> QED
  BY <1>7, <1>10 DEF first, off, num

LEMMA FunctionIsList ==
  ASSUME NEW S, NEW n \in Nat, NEW f \in [1 .. n -> S]
  PROVE  f \in Seq(S) /\ Len(f) = n
OBVIOUS

(* A slice of the file's bytes, as FileCalls has it.                       *)
LEMMA SliceOfBytes ==
  ASSUME NEW inode \in DOMAIN Inodes, NEW at \in Nat, NEW n \in Nat,
         at + n <= Inodes[inode].length
  PROVE  SubSeq(FileBytes(inode), at + 1, at + n) = FileSlice(Inodes[inode].blocks, at, n)
<1> DEFINE length == Inodes[inode].length
           blocks == Inodes[inode].blocks
           S == {ByteAt(blocks, k - 1) : k \in 1 .. length}
           all == FileBytes(inode)
           part == SubSeq(all, at + 1, at + n)
           slice == FileSlice(blocks, at, n)
<1>1. length \in Nat
  BY FileSystemAssumption
<1>2. all = [k \in 1 .. length |-> ByteAt(blocks, k - 1)]
  BY DEF FileBytes, ByteAt
<1>3. slice = [k \in 1 .. n |-> ByteAt(blocks, at + k - 1)]
  BY DEF FileSlice
<1> HIDE DEF blocks, all, slice, length
<1>4. all \in Seq(S) /\ Len(all) = length
  <2>1. \A k \in 1 .. length : ByteAt(blocks, k - 1) \in S
    OBVIOUS
  <2> HIDE DEF S
  <2>2. all \in [1 .. length -> S]
    BY <1>2, <2>1
  <2> QED
    BY <1>1, <2>2, FunctionIsList
<1>5. \A k \in 1 .. n : at + k \in 1 .. length /\ ByteAt(blocks, at + k - 1) \in S
  BY <1>1 DEF length
<1>6. slice \in Seq(S) /\ Len(slice) = n
  <2> HIDE DEF S
  <2>1. slice \in [1 .. n -> S]
    BY <1>3, <1>5
  <2> QED
    BY <2>1, FunctionIsList
<1>7. CASE n = 0
  <2>1. part = <<>>
    BY <1>1, <1>4, <1>7, SubSeqEmpty
  <2>2. slice = <<>>
    BY <1>6, <1>7, EmptySeq
  <2> QED
    BY <2>1, <2>2 DEF slice, all, blocks
<1>8. CASE n > 0
  <2>1. \A k \in at + 1 .. at + n : k \in 1 .. length /\ all[k] \in S
    <3>1. \A k \in 1 .. length : all[k] \in S
      BY <1>4, ElementOfSeq
    <3>2. \A k \in at + 1 .. at + n : k \in 1 .. length
      BY <1>1 DEF length
    <3> HIDE DEF S
    <3> QED
      BY <3>1, <3>2
  <2>2. /\ part \in Seq(S) /\ Len(part) = n
        /\ \A k \in 1 .. n : part[k] = all[at + 1 + k - 1]
    <3>1. at + 1 \in Int /\ at + n \in Int /\ at + 1 <= at + n /\ at + n - (at + 1) + 1 = n
      BY <1>8
    <3>2. \A k \in at + 1 .. at + n : all[k] \in S
      BY <2>1
    <3> HIDE DEF S
    <3>3. PICK m \in Int, j \in Int : m = at + 1 /\ j = at + n
      BY <3>1
    <3>4. /\ SubSeq(all, m, j) \in Seq(S)
          /\ Len(SubSeq(all, m, j)) = IF m <= j THEN j - m + 1 ELSE 0
          /\ \A i \in 1 .. j - m + 1 : SubSeq(all, m, j)[i] = all[m + i - 1]
      BY <3>2, <3>3, SubSeqProperties
    <3> QED
      BY <3>1, <3>3, <3>4
  <2>3. \A k \in 1 .. n : part[k] = slice[k]
    <3>1. SUFFICES ASSUME NEW k \in 1 .. n PROVE part[k] = slice[k]
      OBVIOUS
    <3>2. at + 1 + k - 1 = at + k
      OBVIOUS
    <3>3. part[k] = all[at + k]
      BY <2>2, <3>2
    <3> HIDE DEF part, S
    <3> QED
      BY <1>2, <1>3, <1>5, <3>3
  <2> HIDE DEF part, S
  <2>4. part = slice
    BY <1>6, <2>2, <2>3, SeqEqual
  <2> QED
    BY <2>4 DEF part, slice, all, blocks
<1> QED
  BY <1>7, <1>8

(* What a read of a whole file gives at a position inside it, unless the   *)
(* end of what is asked for is beyond 2^32: as many bytes as are asked for *)
(* and left, and these are the next ones of the file.                      *)
THEOREM ReadGives ==
  ASSUME NEW inode \in DOMAIN Inodes, Readable(inode),
         NEW at \in 0 .. Inodes[inode].length, NEW nbytes \in Nat,
         nbytes + Inodes[inode].length < WORD
  PROVE  LET got == Smaller(nbytes, Inodes[inode].length - at)
         IN /\ got \in Nat /\ at + got <= Inodes[inode].length
            /\ read_data(inode, at, nbytes)
                 = [ret |-> got, data |-> SubSeq(FileBytes(inode), at + 1, at + got)]
<1> DEFINE length == Inodes[inode].length
           blocks == Inodes[inode].blocks
           num == BlockNum(length)
           got == Smaller(nbytes, length - at)
           len == IF (nbytes + at) % WORD > length THEN length - at ELSE nbytes
<1>1. /\ length \in Nat /\ WORD \in Nat /\ WORD > 0 /\ at \in Nat /\ at <= length
      /\ num_data_block \in Nat /\ blocks \in Seq(Nat) /\ Len(blocks) >= num
  BY FileSystemAssumption
<1>2. num \in Nat
  BY <1>1, BlocksCover
<1>3. len = got /\ got \in Nat /\ at + got <= length
  <2>1. (nbytes + at) % WORD = nbytes + at
    <3>1. nbytes + at \in Nat /\ nbytes + at < WORD
      BY <1>1
    <3> HIDE DEF length
    <3> QED
      BY <1>1, <3>1
  <2>2. len = IF nbytes + at > length THEN length - at ELSE nbytes
    BY <2>1
  <2> HIDE DEF len, length
  <2> QED
    BY <1>1, <2>2 DEF Smaller
<1>4. ~\E i \in 1 .. num : blocks[i] >= num_data_block
  BY <1>1, <1>2 DEF Readable
<1>5. read_data(inode, at, nbytes)
        = [ret |-> len, data |-> Collect(blocks, at \div FOUR_KB, at % FOUR_KB, len, num)]
  BY <1>1, <1>4 DEF read_data
<1>6. Collect(blocks, at \div FOUR_KB, at % FOUR_KB, len, num) = FileSlice(blocks, at, got)
  <2>1. PICK n \in Nat : n = got
    BY <1>3
  <2>2. at + n <= length
    BY <1>3, <2>1
  <2>3. Collect(blocks, at \div FOUR_KB, at % FOUR_KB, n, num) = FileSlice(blocks, at, n)
    BY <1>1, <2>2, CollectGathers
  <2> QED
    BY <1>3, <2>1, <2>3
<1>7. SubSeq(FileBytes(inode), at + 1, at + got) = FileSlice(blocks, at, got)
  <2>1. PICK n \in Nat : n = got
    BY <1>3
  <2>2. at + n <= length
    BY <1>3, <2>1
  <2>3. SubSeq(FileBytes(inode), at + 1, at + n) = FileSlice(blocks, at, n)
    BY <1>1, <2>2, SliceOfBytes
  <2> QED
    BY <2>1, <2>3
<1> HIDE DEF len
<1> QED
  BY <1>3, <1>5, <1>6, <1>7

-----------------------------------------------------------------------------
(* The descriptors.                                                        *)

Ops == {"NULL", "stdin", "stdout", "rtc", "dir", "file"}

Descriptors ==
  [func_pointer : Ops, inode_num : DOMAIN Inodes \cup {-1},
   file_position : 0 .. WORD - 1, flags : {0, 1}]

IInv ==
  /\ process_array \in [Pids -> {0, 1}]
  /\ fd_array \in [Pids -> [FdNums -> Descriptors]]
  /\ DescriptorsSound

LEMMA Numbers ==
  /\ Process \in Nat
  /\ Maximum_open_files \in Nat /\ Maximum_open_files > 2
  /\ WORD \in Nat /\ WORD > 0
  /\ 0 \in FdNums /\ 1 \in FdNums /\ FileFds \subseteq FdNums
  /\ 0 \notin FileFds /\ 1 \notin FileFds
BY FilesAssumption, FileSystemAssumption DEF FdNums, FileFds

LEMMA UnusedSound ==
  /\ Unused \in Descriptors
  /\ \A p \in Pids, fd \in FileFds : DescriptorSound(p, fd, Unused)
  /\ \A p \in Pids, fd \in FdNums :
       process_array[p] = 0 => DescriptorSound(p, fd, Unused)
<1>1. Unused \in Descriptors
  BY Numbers DEF Unused, Descriptors, Ops
<1>2. ASSUME NEW p \in Pids, NEW fd \in FdNums, fd \in FileFds \/ process_array[p] = 0
      PROVE  DescriptorSound(p, fd, Unused)
  BY <1>2, Numbers DEF Unused, DescriptorSound
<1> QED
  BY <1>1, <1>2, Numbers

(* A step that gives one descriptor a sound value.                         *)
LEMMA OneChanges ==
  ASSUME IInv, NEW p \in Pids, NEW fd \in FdNums, NEW f \in Descriptors,
         fd_array' = [fd_array EXCEPT ![p][fd] = f], UNCHANGED process_array,
         DescriptorSound(p, fd, f)
  PROVE  IInv'
<1>1. fd_array' \in [Pids -> [FdNums -> Descriptors]]
  BY DEF IInv
<1>2. ASSUME NEW q \in Pids, NEW g \in FdNums
      PROVE  DescriptorSound(q, g, fd_array[q][g])'
  <2>1. fd_array'[q][g] = IF q = p /\ g = fd THEN f ELSE fd_array[q][g]
    BY DEF IInv
  <2>2. DescriptorSound(q, g, fd_array'[q][g])
    BY <2>1 DEF IInv, DescriptorsSound
  <2> QED
    BY <2>2 DEF DescriptorSound
<1> QED
  BY <1>1, <1>2 DEF IInv, DescriptorsSound

LEMMA NoneChanges ==
  ASSUME IInv, UNCHANGED <<process_array, fd_array>> PROVE IInv'
BY DEF IInv, DescriptorsSound, DescriptorSound

(* execute and halt, which replace all descriptors of a PCB.               *)
LEMMA TableChanges ==
  ASSUME IInv, NEW p \in Pids, NEW use \in {0, 1}, NEW table \in [FdNums -> Descriptors],
         process_array' = [process_array EXCEPT ![p] = use],
         fd_array' = [fd_array EXCEPT ![p] = table],
         \A fd \in FdNums : DescriptorSound(p, fd, table[fd])'
  PROVE  IInv'
<1>1. process_array' \in [Pids -> {0, 1}] /\ fd_array' \in [Pids -> [FdNums -> Descriptors]]
  BY DEF IInv
<1>2. ASSUME NEW q \in Pids, NEW g \in FdNums
      PROVE  DescriptorSound(q, g, fd_array[q][g])'
  <2>1. CASE q = p
    <3>1. fd_array'[q][g] = table[g]
      BY <2>1 DEF IInv
    <3> QED
      BY <2>1, <3>1 DEF DescriptorSound
  <2>2. CASE q # p
    <3>1. fd_array'[q][g] = fd_array[q][g] /\ process_array'[q] = process_array[q]
      BY <2>2 DEF IInv
    <3>2. DescriptorSound(q, g, fd_array[q][g])
      BY DEF IInv, DescriptorsSound
    <3> QED
      BY <3>1, <3>2 DEF DescriptorSound
  <2> QED
    BY <2>1, <2>2
<1> QED
  BY <1>1, <1>2 DEF IInv, DescriptorsSound

(* The calls of a program, whatever it calls them with.                    *)
Calling(p, name, fd, nbytes) ==
  \/ OpenTerminal(p, name) \/ OpenFails(p, name) \/ OpenFile(p, name)
  \/ CloseFails(p, fd) \/ CloseWorks(p, fd)
  \/ ReadFails(p, fd) \/ ReadDevice(p, fd) \/ Write(p, fd)
  \/ nbytes \in Sizes /\ ReadFile(p, fd, nbytes)
  \/ ReadDir(p, fd, nbytes)

LEMMA CallKeeps ==
  ASSUME IInv, NEW p \in Pids, NEW name, NEW fd, NEW nbytes, Calling(p, name, fd, nbytes)
  PROVE  IInv'
<1> USE Numbers
<1>1. ASSUME OpenTerminal(p, name) PROVE IInv'
  <2> DEFINE g == IF name = "stdin" THEN 0 ELSE 1
             f == [fd_array[p][g] EXCEPT !.flags = 1, !.func_pointer = name]
  <2>1. name \in {"stdin", "stdout"} /\ p \in Live /\ UNCHANGED process_array
    BY <1>1 DEF OpenTerminal, Calls
  <2>2. g \in FdNums /\ fd_array[p][g] \in Descriptors
    BY DEF IInv
  <2>3. fd_array[p][g].func_pointer = name /\ fd_array[p][g].flags = 1
    BY <2>1, <2>2 DEF IInv, DescriptorsSound, DescriptorSound, Live
  <2>4. f = fd_array[p][g]
    BY <2>2, <2>3 DEF Descriptors
  <2>5. fd_array' = [fd_array EXCEPT ![p][g].flags = 1, ![p][g].func_pointer = name]
    BY <1>1 DEF OpenTerminal
  <2>6. fd_array' = [fd_array EXCEPT ![p][g] = f]
    BY <2>2, <2>5 DEF IInv
  <2>7. DescriptorSound(p, g, f)
    BY <2>2, <2>4 DEF IInv, DescriptorsSound
  <2> HIDE DEF f, g
  <2> QED
    BY <2>1, <2>2, <2>4, <2>6, <2>7, OneChanges
<1>2. ASSUME OpenFails(p, name) PROVE IInv'
  BY <1>2, NoneChanges DEF OpenFails
<1>3. ASSUME OpenFile(p, name) PROVE IInv'
  <2> DEFINE dentry == read_dentry_by_name(name)
             g == FirstFree(p)
             f == InUse(dentry.filetype, IF dentry.filetype = "file" THEN dentry.inode ELSE -1)
  <2>1. /\ p \in Live /\ dentry # None /\ g # Maximum_open_files
        /\ UNCHANGED process_array
        /\ fd_array' = [fd_array EXCEPT ![p][g] = f]
    BY <1>3 DEF OpenFile, Calls
  <2>2. g \in FileFds
    BY <2>1, FirstFreeInRange
  <2>3. dentry.filetype \in {"rtc", "dir", "file"} /\ dentry.inode \in DOMAIN Inodes
    BY <2>1, FoundIsEntry DEF Entries
  <2>4. f \in Descriptors
    BY <2>3 DEF InUse, Descriptors, Ops
  <2>5. f.file_position = 0 /\ f.flags = 1 /\ f.func_pointer = dentry.filetype
        /\ (dentry.filetype = "file" => f.inode_num = dentry.inode)
    BY DEF InUse
  <2>6. \A i \in DOMAIN Inodes : 0 \in 0 .. Inodes[i].length
    BY FileSystemAssumption
  <2> HIDE DEF f, g, dentry
  <2>7. DescriptorSound(p, g, f)
    BY <2>1, <2>2, <2>3, <2>5, <2>6 DEF DescriptorSound, Live
  <2> QED
    BY <2>1, <2>2, <2>4, <2>7, OneChanges
<1>4. ASSUME CloseFails(p, fd) PROVE IInv'
  BY <1>4, NoneChanges DEF CloseFails
(* The descriptor of the terminal cannot be closed.                        *)
<1>5. ASSUME CloseWorks(p, fd) PROVE IInv'
  <2>1. /\ p \in Live /\ fd \in FdNums /\ CanClose(p, fd)
        /\ UNCHANGED process_array
        /\ fd_array' = [fd_array EXCEPT ![p][fd] = Unused]
    BY <1>5 DEF CloseWorks, Calls
  <2>2. fd_array[p][fd].func_pointer \notin {"stdin", "stdout"}
    BY <2>1 DEF CanClose, CloseResult, Op
  <2>3. fd \in FileFds
    BY <2>1, <2>2 DEF IInv, DescriptorsSound, DescriptorSound, Live, FdNums, FileFds
  <2> QED
    BY <2>1, <2>3, UnusedSound, OneChanges
<1>6. ASSUME ReadFails(p, fd) PROVE IInv'
  BY <1>6, NoneChanges DEF ReadFails
<1>7. ASSUME ReadDevice(p, fd) PROVE IInv'
  BY <1>7, NoneChanges DEF ReadDevice
<1>8. ASSUME Write(p, fd) PROVE IInv'
  BY <1>8, NoneChanges DEF Write
<1>9. ASSUME nbytes \in Sizes, ReadFile(p, fd, nbytes)
       PROVE  IInv'
  <2> DEFINE old == fd_array[p][fd]
             at == (old.file_position
                    + read_data(old.inode_num, old.file_position, nbytes).ret) % WORD
             f == [old EXCEPT !.file_position = at]
  <2>1. fd \in FdNums /\ old.func_pointer = "file" /\ UNCHANGED process_array
    BY <1>9 DEF ReadFile, Op
  <2>2. old \in Descriptors /\ DescriptorSound(p, fd, old)
    BY <2>1 DEF IInv, DescriptorsSound
  <2>3. old.inode_num \in DOMAIN Inodes /\ old.file_position \in 0 .. WORD - 1
    BY <2>1, <2>2 DEF DescriptorSound, Descriptors
  <2>4. nbytes \in Nat
    BY <1>9, FilesAssumption
  <2>5. at \in 0 .. WORD - 1
    BY <2>3, <2>4, ReadStaysInside
  <2>6. Readable(old.inode_num) => at \in 0 .. Inodes[old.inode_num].length
    <3>1. ASSUME Readable(old.inode_num)
          PROVE  old.file_position <= Inodes[old.inode_num].length
      BY <2>1, <2>2, <3>1 DEF DescriptorSound
    <3> QED
      BY <2>3, <2>4, <3>1, ReadStaysInside
  <2>7. fd_array' = [fd_array EXCEPT ![p][fd].file_position = at]
    BY <1>9 DEF ReadFile
  <2> HIDE DEF at
  <2>8. fd_array' = [fd_array EXCEPT ![p][fd] = f]
    BY <2>7
  <2>9. f \in Descriptors
    BY <2>2, <2>5 DEF Descriptors
  <2>10. DescriptorSound(p, fd, f)
    BY <2>1, <2>2, <2>6 DEF DescriptorSound, Descriptors
  <2> HIDE DEF f
  <2> QED
    BY <2>1, <2>8, <2>9, <2>10, OneChanges
<1>10. ASSUME ReadDir(p, fd, nbytes)
       PROVE  IInv'
  BY <1>10, NoneChanges DEF ReadDir
<1> QED
  BY <1>1, <1>2, <1>3, <1>4, <1>5, <1>6, <1>7, <1>8, <1>9, <1>10 DEF Calling

LEMMA StepKeeps ==
  ASSUME IInv, [Next]_vars PROVE IInv'
<1> USE Numbers
<1>1. ASSUME NEW p \in Pids, Execute(p) PROVE IInv'
  <2> DEFINE table == [fd \in FdNums |-> CASE fd = 0 -> InUse("stdin", -1)
                                           [] fd = 1 -> InUse("stdout", -1)
                                           [] OTHER  -> Unused]
  <2>1. process_array' = [process_array EXCEPT ![p] = 1]
        /\ fd_array' = [fd_array EXCEPT ![p] = table]
    BY <1>1 DEF Execute
  <2>2. ASSUME NEW op \in Ops PROVE InUse(op, -1) \in Descriptors
    BY DEF InUse, Descriptors, Ops
  <2>3. table \in [FdNums -> Descriptors]
    BY <2>2, UnusedSound DEF Ops
  <2>4. process_array'[p] = 1
    BY <2>1 DEF IInv
  <2>5. ASSUME NEW fd \in FdNums PROVE DescriptorSound(p, fd, table[fd])'
    BY <2>4 DEF DescriptorSound, InUse, Unused, FdNums, FileFds
  <2> HIDE DEF table
  <2> QED
    BY <2>1, <2>3, <2>5, TableChanges
<1>2. ASSUME NEW p \in Pids, Halt(p) PROVE IInv'
  <2> DEFINE table == [fd \in FdNums |-> Unused]
  <2>1. process_array' = [process_array EXCEPT ![p] = 0]
        /\ fd_array' = [fd_array EXCEPT ![p] = table]
    BY <1>2 DEF Halt
  <2>2. table \in [FdNums -> Descriptors]
    BY UnusedSound
  <2>3. process_array'[p] = 0
    BY <2>1 DEF IInv
  <2>4. ASSUME NEW fd \in FdNums PROVE DescriptorSound(p, fd, table[fd])'
    BY <2>3 DEF DescriptorSound, Unused
  <2> HIDE DEF table
  <2> QED
    BY <2>1, <2>2, <2>4, TableChanges
<1>3. ASSUME NEW p \in Pids, NEW name, NEW fd, NEW nbytes, Calling(p, name, fd, nbytes)
      PROVE  IInv'
  BY <1>3, CallKeeps
<1>4. ASSUME NEW p \in Pids, DirFetch(p) PROVE IInv'
  BY <1>4, NoneChanges DEF DirFetch
<1>5. ASSUME NEW p \in Pids, DirAdvance(p) PROVE IInv'
  BY <1>5, NoneChanges DEF DirAdvance
<1>6. ASSUME NEW p \in Pids, getargs(p) PROVE IInv'
  BY <1>6, NoneChanges DEF getargs
<1>7. CASE UNCHANGED vars
  BY <1>7, NoneChanges DEF vars
<1>8. ASSUME NEW p \in Pids, Call(p) PROVE IInv'
  BY <1>2, <1>3, <1>6, <1>8 DEF Call, Calling
<1> QED
  BY <1>1, <1>4, <1>5, <1>7, <1>8 DEF Next

LEMMA InitSound == Init => IInv
<1> SUFFICES ASSUME Init PROVE IInv
  OBVIOUS
<1>1. process_array = [p \in Pids |-> 0]
      /\ fd_array = [p \in Pids |-> [fd \in FdNums |-> Unused]]
  BY DEF Init
<1> QED
  BY <1>1, UnusedSound DEF IInv, DescriptorsSound

(* For every image, number of processes and number of descriptors, also    *)
(* when a sum of a position and a length wraps around, and with two        *)
(* listings at the same time: a free PCB has no descriptor in use, a       *)
(* process keeps its terminal on 0 and 1, every other descriptor in use    *)
(* has a device, and a position is inside its file.                        *)
THEOREM DescriptorsCorrect == Spec => []DescriptorsSound
<1>1. Init => IInv
  BY InitSound
<1>2. IInv /\ [Next]_vars => IInv'
  BY StepKeeps
<1>3. IInv => DescriptorsSound
  BY DEF IInv
<1> QED
  BY <1>1, <1>2, <1>3, PTL DEF Spec

-----------------------------------------------------------------------------
(* The calls keep the promise of FileCalls.                                *)

Opened == Names \ {"stdin", "stdout"}

(* The name a descriptor in use was opened with.                           *)
OpenedAs(f, n) ==
  /\ EntryOf[n].filetype = f.func_pointer
  /\ f.func_pointer = "file" => EntryOf[n].inode = f.inode_num

IsNamed(f) == f.flags = 1 => \E n \in Opened : OpenedAs(f, n)

IsDir(f) == f.func_pointer = "dir" /\ f.flags = 1

(* In the middle of dir_read: its descriptor is the only one of a          *)
(* directory, and there is an entry to return, the one already fetched.    *)
Listing(p) ==
  /\ process_array[p] = 1
  /\ \E fd \in FileFds : DirFds = {<<p, fd>>}
  /\ local[p].nbytes \in Sizes
  /\ dir_readnum < num_dentry
  /\ pc[p] = "advance" => local[p].fetch = Dentries[dir_readnum + 1]

FInv ==
  /\ IInv
  /\ \A p \in Pids, fd \in FileFds : IsNamed(fd_array[p][fd])
  /\ dir_readnum \in 0 .. num_dentry
  /\ pc \in [Pids -> {"user", "fetch", "advance"}]
  /\ local \in [Pids -> [nbytes : Sizes \cup {0}, fetch : Entries \cup {None}]]
  /\ \A p \in Pids : pc[p] # "user" => Listing(p)

LEMMA ImageTypes ==
  /\ num_dentry \in Nat
  /\ \A i \in 1 .. num_dentry : Dentries[i] \in Entries /\ Dentries[i] # None
  /\ Sizes \subseteq Nat
<1>1. Dentries \in Seq(Entries)
  BY FileSystemAssumption DEF Entries
<1>2. ASSUME NEW e \in Entries PROVE e # None
  <2>1. e.filetype \in {"rtc", "dir", "file"}
    BY DEF Entries
  <2>2. None.filetype = "none"
    BY DEF None
  <2> QED
    BY <2>1, <2>2
<1> QED
  BY <1>1, <1>2, FilesAssumption DEF num_dentry

LEMMA DirFdsIs ==
  DirFds = {h \in Pids \X FdNums : IsDir(fd_array[h[1]][h[2]])}
BY DEF DirFds, IsDir, Op

(* A descriptor that is one of a directory.                                *)
LEMMA InDirFds ==
  ASSUME NEW p \in Pids, NEW fd \in FdNums
  PROVE  <<p, fd>> \in DirFds <=> IsDir(fd_array[p][fd])
BY DirFdsIs

LEMMA SameDirFds ==
  ASSUME \A p \in Pids, fd \in FdNums :
           IsDir(fd_array'[p][fd]) <=> IsDir(fd_array[p][fd])
  PROVE  DirFds' = DirFds
<1>1. DirFds' = {h \in Pids \X FdNums : IsDir(fd_array'[h[1]][h[2]])}
  BY DEF DirFds, IsDir, Op
<1>2. \A h \in Pids \X FdNums : h[1] \in Pids /\ h[2] \in FdNums
  OBVIOUS
<1> QED
  BY <1>1, <1>2, DirFdsIs

(* A step of a process that is not in the middle of dir_read, and opens no *)
(* directory.                                                              *)
LEMMA QuietStep ==
  ASSUME FInv, IInv', NEW p \in Pids, pc[p] = "user",
         UNCHANGED <<dir_readnum, pc, local>>,
         \A q \in Pids : q # p =>
           process_array'[q] = process_array[q] /\ fd_array'[q] = fd_array[q],
         \A fd \in FdNums : IsDir(fd_array'[p][fd]) => IsDir(fd_array[p][fd]),
         \A fd \in FileFds : IsNamed(fd_array'[p][fd])
  PROVE  FInv'
<1>1. ASSUME NEW q \in Pids, NEW fd \in FileFds PROVE IsNamed(fd_array'[q][fd])
  BY DEF FInv
<1>2. ASSUME NEW q \in Pids, pc[q] # "user" PROVE Listing(q)'
  <2>1. Listing(q) /\ q # p
    BY <1>2 DEF FInv
  <2>2. PICK fd \in FileFds : DirFds = {<<q, fd>>}
    BY <2>1 DEF Listing
  <2>3. ASSUME NEW g \in FdNums PROVE ~IsDir(fd_array[p][g])
    BY <2>1, <2>2, InDirFds
  <2>4. ASSUME NEW r \in Pids, NEW g \in FdNums
        PROVE  IsDir(fd_array'[r][g]) <=> IsDir(fd_array[r][g])
    <3>1. CASE r = p
      BY <2>3, <3>1
    <3>2. CASE r # p
      BY <3>2
    <3> QED
      BY <3>1, <3>2
  <2>5. DirFds' = DirFds
    BY <2>4, SameDirFds
  <2> QED
    BY <2>1, <2>2, <2>5 DEF Listing
<1>3. \A q \in Pids : pc'[q] # "user" => Listing(q)'
  BY <1>2
<1>4. \A q \in Pids, fd \in FileFds : IsNamed(fd_array[q][fd])'
  BY <1>1 DEF IsNamed, OpenedAs
<1> QED
  BY <1>3, <1>4 DEF FInv

(* A call that changes no descriptor.                                      *)
LEMMA NoStep ==
  ASSUME FInv, UNCHANGED <<process_array, fd_array, dir_readnum, pc, local>>
  PROVE  FInv'
<1>1. IInv'
  BY NoneChanges DEF FInv
<1>2. \A p \in Pids : Listing(p) => Listing(p)'
  BY DEF Listing, DirFds, Op
<1>3. \A q \in Pids, fd \in FileFds : IsNamed(fd_array[q][fd])'
  BY DEF FInv, IsNamed, OpenedAs
<1> QED
  BY <1>1, <1>2, <1>3 DEF FInv

(* A descriptor that is replaced by one that is none of a directory.       *)
LEMMA QuietCall ==
  ASSUME FInv, IInv', NEW p \in Pids, Calls(p), NEW fd \in FdNums, NEW f \in Descriptors,
         fd_array' = [fd_array EXCEPT ![p][fd] = f],
         UNCHANGED <<process_array, dir_readnum, pc, local>>,
         IsDir(f) => IsDir(fd_array[p][fd]), fd \in FileFds => IsNamed(f)
  PROVE  FInv'
<1> USE Numbers
<1>1. \A q \in Pids : q # p =>
        process_array'[q] = process_array[q] /\ fd_array'[q] = fd_array[q]
  BY DEF FInv, IInv
<1>2. \A g \in FdNums : fd_array'[p][g] = IF g = fd THEN f ELSE fd_array[p][g]
  BY DEF FInv, IInv
<1>3. \A g \in FdNums : IsDir(fd_array'[p][g]) => IsDir(fd_array[p][g])
  BY <1>2
<1>4. \A g \in FileFds : IsNamed(fd_array'[p][g])
  BY <1>2 DEF FInv
<1> QED
  BY <1>1, <1>3, <1>4, QuietStep DEF Calls

(* execute and halt, after which no descriptor is a file's.                *)
LEMMA ResetStep ==
  ASSUME FInv, IInv', NEW p \in Pids, Execute(p) \/ Halt(p) PROVE FInv'
<1> USE Numbers
<1>1. pc[p] = "user"
  <2>1. process_array[p] = 0 \/ pc[p] = "user"
    BY DEF Execute, Halt
  <2> QED
    BY <2>1 DEF FInv, Listing
<1>2. UNCHANGED <<dir_readnum, pc, local>>
  BY DEF Execute, Halt, unread
<1>3. \A q \in Pids : q # p =>
        process_array'[q] = process_array[q] /\ fd_array'[q] = fd_array[q]
  BY DEF Execute, Halt, FInv, IInv
<1>4. \A fd \in FdNums : fd_array'[p][fd].func_pointer # "dir"
  BY DEF Execute, Halt, FInv, IInv, InUse, Unused
<1>5. \A fd \in FileFds : fd_array'[p][fd].flags = 0
  <2>1. \A fd \in FileFds : fd # 0 /\ fd # 1 /\ fd \in FdNums
    OBVIOUS
  <2>2. \A fd \in FileFds : fd_array'[p][fd] = Unused
    BY <2>1 DEF Execute, Halt, FInv, IInv
  <2> QED
    BY <2>2 DEF Unused
<1> QED
  BY <1>1, <1>2, <1>3, <1>4, <1>5, QuietStep DEF IsDir, IsNamed

(* An open of a file, of the clock or of the directory.                    *)
LEMMA OpenStep ==
  ASSUME FInv, IInv', SharedListing = FALSE,
         NEW p \in Pids, NEW name \in Names, OpenFile(p, name)
  PROVE  FInv'
<1> DEFINE dentry == read_dentry_by_name(name)
           fd == FirstFree(p)
           f == InUse(dentry.filetype, IF dentry.filetype = "file" THEN dentry.inode ELSE -1)
<1>1. /\ Calls(p) /\ name \in Opened /\ dentry # None /\ fd # Maximum_open_files
      /\ UNCHANGED <<process_array, pc, local>>
      /\ fd_array' = [fd_array EXCEPT ![p][fd] = f]
      /\ dir_readnum' = IF dentry.filetype = "dir" THEN 0 ELSE dir_readnum
      /\ \/ dentry.filetype # "dir"
         \/ \A q \in Pids : pc[q] = "user"
  BY DEF OpenFile, Opened
<1>2. fd \in FileFds /\ fd \in FdNums
  BY <1>1, FirstFreeInRange, Numbers
<1>3. dentry.filetype \in {"rtc", "dir", "file"} /\ dentry.inode \in DOMAIN Inodes
  BY <1>1, FoundIsEntry DEF Entries
<1>4. f \in Descriptors
  BY <1>3, Numbers DEF InUse, Descriptors, Ops
<1>5. f.func_pointer = dentry.filetype /\ (dentry.filetype = "file" => f.inode_num = dentry.inode)
  BY DEF InUse
<1>6. EntryOf[name] = dentry
  BY DEF EntryOf
<1>7. IsNamed(f)
  BY <1>1, <1>5, <1>6 DEF IsNamed, OpenedAs
<1> HIDE DEF dentry, fd, f
<1>8. CASE dentry.filetype # "dir"
  BY <1>1, <1>2, <1>4, <1>5, <1>7, <1>8, QuietCall DEF IsDir
<1>9. CASE dentry.filetype = "dir"
  <2>1. \A q \in Pids : pc'[q] = "user"
    BY <1>1, <1>9
  <2>2. ASSUME NEW q \in Pids, NEW g \in FileFds PROVE IsNamed(fd_array'[q][g])
    <3>1. fd_array'[q][g] = IF q = p /\ g = fd THEN f ELSE fd_array[q][g]
      BY <1>1, <1>2, Numbers DEF FInv, IInv
    <3> QED
      BY <1>7, <3>1 DEF FInv
  <2>3. \A q \in Pids, g \in FileFds : IsNamed(fd_array[q][g])'
    BY <2>2 DEF IsNamed, OpenedAs
  <2>4. dir_readnum' \in 0 .. num_dentry
    BY <1>1, <1>9, ImageTypes
  <2> QED
    BY <1>1, <2>1, <2>3, <2>4 DEF FInv
<1> QED
  BY <1>8, <1>9

(* A read of the directory: nothing is left to list, or it begins ...      *)
LEMMA ListStep ==
  ASSUME FInv, SharedListing = FALSE,
         NEW p \in Pids, NEW fd, NEW nbytes \in Sizes, ReadDir(p, fd, nbytes)
  PROVE  FInv'
<1> USE Numbers
<1>1. /\ Calls(p) /\ fd \in FdNums /\ Op(p, fd) = "dir" /\ DirFds = {<<p, fd>>}
      /\ UNCHANGED <<process_array, fd_array, dir_readnum>>
  BY DEF ReadDir, unread
<1>2. fd \in FileFds
  <2>1. process_array[p] = 1
    BY <1>1 DEF Calls, Live
  <2>2. fd # 0 /\ fd # 1
    BY <1>1, <2>1 DEF FInv, IInv, DescriptorsSound, DescriptorSound, Op
  <2> QED
    BY <1>1, <2>2 DEF FdNums, FileFds
<1>3. CASE dir_readnum >= num_dentry
  BY <1>1, <1>3, NoStep DEF ReadDir, unread
<1>4. CASE ~(dir_readnum >= num_dentry)
  <2>1. pc' = [pc EXCEPT ![p] = "fetch"] /\ local' = [local EXCEPT ![p].nbytes = nbytes]
    BY <1>4 DEF ReadDir
  <2>2. IInv'
    BY <1>1, NoneChanges DEF FInv
  <2>3. DirFds' = DirFds
    BY <1>1 DEF DirFds, Op
  <2>4. dir_readnum < num_dentry
    BY <1>4, ImageTypes DEF FInv
  <2>5. ASSUME NEW q \in Pids, pc'[q] # "user" PROVE Listing(q)'
    <3>1. CASE q = p
      <4>1. pc'[q] = "fetch" /\ local'[q].nbytes = nbytes
        BY <2>1, <3>1 DEF FInv
      <4> QED
        BY <1>1, <1>2, <2>3, <2>4, <3>1, <4>1 DEF Listing, Calls, Live
    <3>2. CASE q # p
      <4>1. Listing(q)
        BY <2>1, <2>5, <3>2 DEF FInv
      <4>2. PICK g \in FileFds : DirFds = {<<q, g>>}
        BY <4>1 DEF Listing
      <4>3. <<p, fd>> \in {<<q, g>>}
        BY <1>1, <4>2
      <4>4. <<p, fd>> = <<q, g>>
        BY <4>3
      <4> QED
        BY <3>2, <4>4
    <3> QED
      BY <3>1, <3>2
  <2>6. local' \in [Pids -> [nbytes : Sizes \cup {0}, fetch : Entries \cup {None}]]
        /\ pc' \in [Pids -> {"user", "fetch", "advance"}]
    BY <2>1 DEF FInv
  <2>7. \A q \in Pids, g \in FileFds : IsNamed(fd_array[q][g])'
    BY <1>1 DEF FInv, IsNamed, OpenedAs
  <2>8. \A q \in Pids : pc'[q] # "user" => Listing(q)'
    BY <2>5
  <2> QED
    BY <1>1, <2>2, <2>6, <2>7, <2>8 DEF FInv
<1> QED
  BY <1>3, <1>4

(* No two processes are in the middle of dir_read.                         *)
LEMMA OneLister ==
  ASSUME FInv, NEW p \in Pids, NEW q \in Pids, pc[p] # "user", pc[q] # "user"
  PROVE  p = q
<1>1. PICK f \in FileFds : DirFds = {<<p, f>>}
  BY DEF FInv, Listing
<1>2. PICK g \in FileFds : DirFds = {<<q, g>>}
  BY DEF FInv, Listing
<1>3. <<p, f>> \in {<<q, g>>}
  BY <1>1, <1>2
<1>4. <<p, f>> = <<q, g>>
  BY <1>3
<1> QED
  BY <1>4

(* ... the entry is fetched, there is one, and nobody else is at it ...    *)
LEMMA FetchStep ==
  ASSUME FInv, NEW p \in Pids, DirFetch(p) PROVE FInv' /\ UNCHANGED answer
<1> DEFINE fetch == read_dentry_by_index(dir_readnum)
<1>1. pc[p] = "fetch" /\ UNCHANGED <<process_array, fd_array, dir_readnum>>
  BY DEF DirFetch
<1>2. Listing(p)
  BY <1>1 DEF FInv
<1>3. fetch = Dentries[dir_readnum + 1] /\ fetch \in Entries /\ fetch # None
  <2>1. dir_readnum \in 0 .. num_dentry - 1 /\ dir_readnum + 1 \in 1 .. num_dentry
    BY <1>2, ImageTypes DEF FInv, Listing
  <2> QED
    BY <2>1, ImageTypes DEF read_dentry_by_index
<1>4. pc' = [pc EXCEPT ![p] = "advance"] /\ local' = [local EXCEPT ![p].fetch = fetch]
      /\ UNCHANGED answer
  BY <1>3 DEF DirFetch
<1> HIDE DEF fetch
<1>5. IInv'
  BY <1>1, NoneChanges DEF FInv
<1>6. DirFds' = DirFds
  BY <1>1 DEF DirFds, Op
<1>7. ASSUME NEW q \in Pids, pc'[q] # "user" PROVE Listing(q)'
  <2>1. pc[q] # "user"
    BY <1>1, <1>4, <1>7 DEF FInv
  <2>2. q = p
    BY <1>1, <2>1, OneLister
  <2>3. local'[p].fetch = fetch /\ local'[p].nbytes = local[p].nbytes
    BY <1>4 DEF FInv
  <2> QED
    BY <1>1, <1>2, <1>3, <1>6, <2>2, <2>3 DEF Listing
<1>8. local' \in [Pids -> [nbytes : Sizes \cup {0}, fetch : Entries \cup {None}]]
      /\ pc' \in [Pids -> {"user", "fetch", "advance"}]
  BY <1>3, <1>4 DEF FInv
<1>9. \A q \in Pids, g \in FileFds : IsNamed(fd_array[q][g])'
  BY <1>1 DEF FInv, IsNamed, OpenedAs
<1>10. \A q \in Pids : pc'[q] # "user" => Listing(q)'
  BY <1>7
<1> QED
  BY <1>1, <1>4, <1>5, <1>8, <1>9, <1>10 DEF FInv

(* ... and the position moves to the next one.                             *)
LEMMA AdvanceStep ==
  ASSUME FInv, NEW p \in Pids, DirAdvance(p) PROVE FInv'
<1>1. /\ pc[p] = "advance" /\ UNCHANGED <<process_array, fd_array>>
      /\ dir_readnum' = dir_readnum + 1
      /\ pc' = [pc EXCEPT ![p] = "user"] /\ local' = [local EXCEPT ![p] = NoLocal]
  BY DEF DirAdvance
<1>2. dir_readnum' \in 0 .. num_dentry
  BY <1>1, ImageTypes DEF FInv, Listing
<1>3. IInv'
  BY <1>1, NoneChanges DEF FInv
<1>4. \A q \in Pids : pc'[q] = "user"
  <2>1. ASSUME NEW q \in Pids, q # p PROVE pc[q] = "user"
    BY <1>1, <2>1, OneLister
  <2> QED
    BY <1>1, <2>1 DEF FInv
<1>5. local' \in [Pids -> [nbytes : Sizes \cup {0}, fetch : Entries \cup {None}]]
      /\ pc' \in [Pids -> {"user", "fetch", "advance"}]
  BY <1>1 DEF FInv, NoLocal
<1>6. \A q \in Pids, g \in FileFds : IsNamed(fd_array[q][g])'
  BY <1>1 DEF FInv, IsNamed, OpenedAs
<1> QED
  BY <1>2, <1>3, <1>4, <1>5, <1>6 DEF FInv

LEMMA CallStep ==
  ASSUME FInv, SharedListing = FALSE,
         NEW p \in Pids, NEW name \in Names, NEW fd, NEW nbytes \in Sizes,
         Calling(p, name, fd, nbytes)
  PROVE  FInv'
<1> USE Numbers
<1>1. IInv'
  BY CallKeeps DEF FInv
<1>2. CASE OpenTerminal(p, name)
  <2> DEFINE g == IF name = "stdin" THEN 0 ELSE 1
             f == fd_array'[p][g]
  <2>1. /\ Calls(p) /\ UNCHANGED <<process_array, dir_readnum, pc, local>>
        /\ fd_array' = [fd_array EXCEPT ![p][g].flags = 1, ![p][g].func_pointer = name]
    BY <1>2 DEF OpenTerminal, unread
  <2>2. g \in FdNums /\ g \notin FileFds
    OBVIOUS
  <2>3. name \in {"stdin", "stdout"}
    BY <1>2 DEF OpenTerminal
  <2>4. f.func_pointer = name
    BY <2>1, <2>2 DEF FInv, IInv, Descriptors
  <2>5. f \in Descriptors
    BY <1>1, <2>2 DEF IInv
  <2>6. fd_array' = [fd_array EXCEPT ![p][g] = f]
    BY <2>1, <2>2 DEF FInv, IInv
  <2> HIDE DEF f, g
  <2> QED
    BY <1>1, <2>1, <2>2, <2>3, <2>4, <2>5, <2>6, QuietCall DEF IsDir
<1>3. CASE OpenFails(p, name)
  BY <1>3, NoStep DEF OpenFails, unread
<1>4. CASE OpenFile(p, name)
  BY <1>1, <1>4, OpenStep
<1>5. CASE CloseFails(p, fd)
  BY <1>5, NoStep DEF CloseFails, unread
<1>6. CASE CloseWorks(p, fd)
  <2>1. /\ Calls(p) /\ fd \in FdNums
        /\ UNCHANGED <<process_array, dir_readnum, pc, local>>
        /\ fd_array' = [fd_array EXCEPT ![p][fd] = Unused]
    BY <1>6 DEF CloseWorks, unread
  <2>2. Unused \in Descriptors /\ ~IsDir(Unused) /\ IsNamed(Unused)
    BY UnusedSound DEF Unused, IsDir, IsNamed
  <2> QED
    BY <1>1, <2>1, <2>2, QuietCall
<1>7. CASE ReadFails(p, fd)
  BY <1>7, NoStep DEF ReadFails, unread
<1>8. CASE ReadDevice(p, fd)
  BY <1>8, NoStep DEF ReadDevice, unread
<1>9. CASE Write(p, fd)
  BY <1>9, NoStep DEF Write, unread
<1>10. CASE ReadFile(p, fd, nbytes)
  <2> DEFINE old == fd_array[p][fd]
             f == fd_array'[p][fd]
  <2>1. /\ Calls(p) /\ fd \in FdNums
        /\ UNCHANGED <<process_array, dir_readnum, pc, local>>
    BY <1>10 DEF ReadFile, unread
  <2>2. PICK at : fd_array' = [fd_array EXCEPT ![p][fd].file_position = at]
    BY <1>10 DEF ReadFile
  <2>3. old \in Descriptors /\ f \in Descriptors
    BY <1>1, <2>1 DEF FInv, IInv
  <2>4. f = [old EXCEPT !.file_position = at]
    BY <2>1, <2>2 DEF FInv, IInv
  <2>5. /\ f.func_pointer = old.func_pointer /\ f.flags = old.flags
        /\ f.inode_num = old.inode_num
    BY <2>3, <2>4 DEF Descriptors
  <2>6. fd_array' = [fd_array EXCEPT ![p][fd] = f]
    BY <2>2, <2>4
  <2>7. fd \in FileFds => IsNamed(old)
    BY <2>1 DEF FInv
  <2>8. fd \in FileFds => IsNamed(f)
    BY <2>5, <2>7 DEF IsNamed, OpenedAs
  <2>9. IsDir(f) => IsDir(old)
    BY <2>5 DEF IsDir
  <2> HIDE DEF f
  <2> QED
    BY <1>1, <2>1, <2>3, <2>6, <2>8, <2>9, QuietCall
<1>11. CASE ReadDir(p, fd, nbytes)
  BY <1>11, ListStep
<1> QED
  BY <1>2, <1>3, <1>4, <1>5, <1>6, <1>7, <1>8, <1>9, <1>10, <1>11 DEF Calling

LEMMA FInvHolds == SharedListing = FALSE => (Spec => []FInv)
<1> SUFFICES ASSUME SharedListing = FALSE PROVE Spec => []FInv
  OBVIOUS
<1>1. Init => FInv
  <2> SUFFICES ASSUME Init PROVE FInv
    OBVIOUS
  <2>1. \A p \in Pids, fd \in FileFds : fd_array[p][fd] = Unused
    BY Numbers DEF Init
  <2>2. \A p \in Pids, fd \in FileFds : IsNamed(fd_array[p][fd])
    BY <2>1 DEF IsNamed, Unused
  <2>3. \A p \in Pids : pc[p] = "user"
    BY DEF Init
  <2>4. local \in [Pids -> [nbytes : Sizes \cup {0}, fetch : Entries \cup {None}]]
        /\ pc \in [Pids -> {"user", "fetch", "advance"}]
    BY DEF Init, NoLocal
  <2>5. dir_readnum \in 0 .. num_dentry
    BY ImageTypes DEF Init
  <2> QED
    BY <2>2, <2>3, <2>4, <2>5, InitSound DEF FInv
<1>2. ASSUME FInv, [Next]_vars PROVE FInv'
  <2>1. CASE UNCHANGED vars
    BY <1>2, <2>1, NoStep DEF vars
  <2>2. IInv'
    BY <1>2, StepKeeps DEF FInv
  <2>3. ASSUME NEW p \in Pids, Execute(p) \/ Halt(p) PROVE FInv'
    BY <1>2, <2>2, <2>3, ResetStep
  <2>4. ASSUME NEW p \in Pids, getargs(p) PROVE FInv'
    BY <1>2, <2>4, NoStep DEF getargs, unread
  <2>5. ASSUME NEW p \in Pids, DirFetch(p) PROVE FInv'
    BY <1>2, <2>5, FetchStep
  <2>6. ASSUME NEW p \in Pids, DirAdvance(p) PROVE FInv'
    BY <1>2, <2>6, AdvanceStep
  <2>7. ASSUME NEW p \in Pids, Call(p) PROVE FInv'
    <3>1. ASSUME NEW name \in Names, NEW fd, NEW nbytes \in Sizes,
                 Calling(p, name, fd, nbytes)
          PROVE  FInv'
      BY <1>2, <3>1, CallStep
    <3>2. PICK stdin \in Names, nbytes \in Sizes : TRUE
      BY FilesAssumption
    <3>3. ASSUME NEW name \in Uses[p],
                 OpenTerminal(p, name) \/ OpenFails(p, name) \/ OpenFile(p, name)
          PROVE  FInv'
      <4>1. name \in Names
        BY FilesAssumption DEF Pids
      <4> QED
        BY <3>1, <3>2, <3>3, <4>1 DEF Calling
    <3>4. ASSUME NEW fd \in FdArgs,
                 \/ CloseFails(p, fd) \/ CloseWorks(p, fd)
                 \/ ReadFails(p, fd) \/ ReadDevice(p, fd) \/ Write(p, fd)
                 \/ \E n \in Sizes : ReadFile(p, fd, n) \/ ReadDir(p, fd, n)
          PROVE  FInv'
      BY <3>1, <3>2, <3>4 DEF Calling
    <3> QED
      BY <2>3, <2>4, <2>7, <3>3, <3>4 DEF Call
  <2> QED
    BY <1>2, <2>1, <2>3, <2>5, <2>6, <2>7 DEF Next
<1> QED
  BY <1>1, <1>2, PTL DEF Spec

-----------------------------------------------------------------------------
(* What the descriptors stand for.                                         *)

LEMMA OneName ==
  ASSUME PlainImage, NEW m \in Names, NEW n \in Names,
         EntryOf[m].filetype = EntryOf[n].filetype,
         \/ EntryOf[m].filetype \in {"dir", "rtc"}
         \/ EntryOf[m].filetype = "file" /\ EntryOf[m].inode = EntryOf[n].inode
  PROVE  m = n
BY DEF PlainImage

Kinds == {"rtc", "dir", "file"}

(* A descriptor in use stands for the name it was opened with.             *)
LEMMA HandleNamed ==
  ASSUME PlainImage, NEW f, f.flags = 1, f.func_pointer \in Kinds,
         NEW n \in Opened, OpenedAs(f, n), NEW r
  PROVE  /\ f.func_pointer = "file" =>
              /\ n \in FileNames
              /\ Handle(f, r) = [name |-> n, at |-> IF n \in Unreadable THEN 0
                                                    ELSE f.file_position]
         /\ f.func_pointer = "dir" => Handle(f, r) = [name |-> n, at |-> r]
         /\ f.func_pointer = "rtc" => Handle(f, r) = [name |-> n, at |-> 0]
<1>1. n \in Names
  BY DEF Opened
<1>2. CASE f.func_pointer = "file"
  <2>1. n \in FileNames /\ EntryOf[n].inode = f.inode_num
    BY <1>1, <1>2 DEF OpenedAs, FileNames
  <2> DEFINE m == CHOOSE m \in FileNames : EntryOf[m].inode = f.inode_num
  <2>2. NameOfInode[f.inode_num] = m
    BY <2>1 DEF NameOfInode
  <2>3. m \in FileNames /\ EntryOf[m].inode = f.inode_num
    BY <2>1
  <2> HIDE DEF m
  <2>4. m = n
    BY <1>1, <2>1, <2>3, OneName DEF FileNames
  <2> QED
    BY <1>2, <2>1, <2>2, <2>4 DEF Handle
<1>3. CASE f.func_pointer = "dir"
  <2>1. EntryOf[n].filetype = "dir"
    BY <1>3 DEF OpenedAs
  <2>2. DirName \in Names /\ EntryOf[DirName].filetype = "dir"
    BY <1>1, <2>1 DEF DirName
  <2>3. DirName = n
    BY <1>1, <2>1, <2>2, OneName
  <2> QED
    BY <1>3, <2>3 DEF Handle
<1>4. CASE f.func_pointer = "rtc"
  <2>1. EntryOf[n].filetype = "rtc"
    BY <1>4 DEF OpenedAs
  <2>2. RtcName \in Names /\ EntryOf[RtcName].filetype = "rtc"
    BY <1>1, <2>1 DEF RtcName
  <2>3. RtcName = n
    BY <1>1, <2>1, <2>2, OneName
  <2> QED
    BY <1>4, <2>3 DEF Handle
<1> QED
  BY <1>2, <1>3, <1>4 DEF Kinds

(* A number that is no file's stands for nothing; a file's, for a name.    *)
LEMMA HandleClosed ==
  ASSUME PlainImage, FInv, NEW p \in Pids, NEW fd \in FileFds
  PROVE  LET f == fd_array[p][fd]
             h == Handles[p][fd]
         IN /\ h = Handle(f, dir_readnum)
            /\ f \in Descriptors
            /\ f.flags = 0 => h = F!Closed
            /\ f.flags # 0 =>
                 /\ f.flags = 1 /\ f.func_pointer \in Kinds
                 /\ \E n \in Opened : /\ OpenedAs(f, n) /\ h.name = n
                                      /\ FileKind[n] = f.func_pointer
                 /\ h # F!Closed
<1> DEFINE f == fd_array[p][fd]
           h == Handles[p][fd]
<1>1. h = Handle(f, dir_readnum)
  BY DEF Handles
<1>2. f \in Descriptors /\ DescriptorSound(p, fd, f) /\ IsNamed(f)
  BY Numbers DEF FInv, IInv, DescriptorsSound
<1>3. f.flags \in {0, 1}
  BY <1>2 DEF Descriptors
<1>4. f.flags = 0 => h = F!Closed
  BY <1>1 DEF Handle, F!Closed
<1>5. ASSUME f.flags = 1
      PROVE  /\ f.func_pointer \in Kinds /\ h # F!Closed
             /\ \E n \in Opened : /\ OpenedAs(f, n) /\ h.name = n
                                  /\ FileKind[n] = f.func_pointer
  <2>1. f.func_pointer \in {"NULL"} \cup Kinds /\ f.func_pointer # "NULL"
    BY <1>2, <1>5 DEF DescriptorSound, Kinds
  <2>2. PICK n \in Opened : OpenedAs(f, n)
    BY <1>2, <1>5 DEF IsNamed
  <2>3. n # "closed"
    BY DEF PlainImage, Opened
  <2>4. h.name = n
    BY <1>1, <1>5, <2>1, <2>2, HandleNamed DEF Kinds
  <2>5. FileKind[n] = f.func_pointer
    BY <2>2 DEF FileKind, OpenedAs, Opened
  <2> QED
    BY <2>1, <2>2, <2>3, <2>4, <2>5 DEF F!Closed
<1> QED
  BY <1>1, <1>2, <1>3, <1>4, <1>5

(* A step on one descriptor changes what it stands for, and no other.      *)
LEMMA OneHandle ==
  ASSUME FInv, NEW p \in Pids, NEW fd \in FileFds, NEW f,
         fd_array' = [fd_array EXCEPT ![p][fd] = f],
         dir_readnum' = dir_readnum \/ DirFds \subseteq {<<p, fd>>}
  PROVE  Handles' = [Handles EXCEPT ![p][fd] = Handle(f, dir_readnum')]
<1> USE Numbers
<1>1. Handles' = [q \in Pids |-> [g \in FileFds |-> Handle(fd_array'[q][g], dir_readnum')]]
  BY DEF Handles, Handle
<1>2. ASSUME NEW q \in Pids, NEW g \in FileFds
      PROVE  Handle(fd_array'[q][g], dir_readnum')
               = IF q = p /\ g = fd THEN Handle(f, dir_readnum')
                 ELSE Handle(fd_array[q][g], dir_readnum)
  <2>1. CASE q = p /\ g = fd
    BY <2>1 DEF FInv, IInv
  <2>2. CASE ~(q = p /\ g = fd)
    <3>1. fd_array'[q][g] = fd_array[q][g]
      BY <2>2 DEF FInv, IInv
    <3>2. CASE dir_readnum' = dir_readnum
      BY <2>2, <3>1, <3>2
    <3>3. CASE DirFds \subseteq {<<p, fd>>}
      <4>1. <<q, g>> \notin DirFds
        BY <2>2, <3>3
      <4>2. ~IsDir(fd_array[q][g])
        BY <4>1, InDirFds
      <4> QED
        BY <2>2, <3>1, <4>2 DEF Handle, IsDir
    <3> QED
      BY <3>2, <3>3
  <2> QED
    BY <2>1, <2>2
<1>3. Handles' = [q \in Pids |-> [g \in FileFds |->
                    IF q = p /\ g = fd THEN Handle(f, dir_readnum')
                    ELSE Handle(fd_array[q][g], dir_readnum)]]
  BY <1>1, <1>2
<1> QED
  BY <1>3 DEF Handles

-----------------------------------------------------------------------------
(* The steps, one by one.                                                  *)

LEMMA NoHandle ==
  ASSUME UNCHANGED <<fd_array, dir_readnum>> PROVE Handles' = Handles
BY DEF Handles, Handle

(* A call on a number that is no file's.                                   *)
LEMMA MapsOther ==
  ASSUME NEW p \in Pids, NEW fd, fd \notin FileFds, NEW call, NEW ret \in -1 .. 1,
         Returns(p, fd, call, ret, NoData), Handles' = Handles
  PROVE  F!Other(p)
BY DEF F!Other, F!Gets, F!Answer, F!NoData, F!Data, Returns, Answer, NoData, Data

LEMMA MapsReset ==
  ASSUME FInv, NEW p \in Pids, Execute(p) \/ Halt(p) PROVE F!Reset(p)
<1> USE Numbers
<1>1. answer' = Answer(p, "none", 0, NoData) /\ UNCHANGED dir_readnum
  BY DEF Execute, Halt, unread
<1>2. \A fd \in FileFds : fd # 0 /\ fd # 1 /\ fd \in FdNums
  OBVIOUS
<1>3. \A q \in Pids, fd \in FileFds :
        fd_array'[q][fd] = IF q = p THEN Unused ELSE fd_array[q][fd]
  BY <1>2 DEF Execute, Halt, FInv, IInv
<1>4. \A r : Handle(Unused, r) = F!Closed
  BY DEF Handle, Unused, F!Closed
<1>5. Handles' = [q \in Pids |-> [fd \in FileFds |-> Handle(fd_array'[q][fd], dir_readnum)]]
  BY <1>1 DEF Handles, Handle
<1>6. ASSUME NEW q \in Pids
      PROVE  [fd \in FileFds |-> Handle(fd_array'[q][fd], dir_readnum)]
               = IF q = p THEN [fd \in FileFds |-> F!Closed] ELSE Handles[q]
  BY <1>3, <1>4 DEF Handles
<1>7. Handles' = [Handles EXCEPT ![p] = [fd \in FileFds |-> F!Closed]]
  <2>1. Handles' = [q \in Pids |-> IF q = p THEN [fd \in FileFds |-> F!Closed]
                                   ELSE Handles[q]]
    BY <1>5, <1>6
  <2> QED
    BY <2>1 DEF Handles
<1> QED
  BY <1>1, <1>7 DEF F!Reset, F!Gets, F!Answer, F!NoData, F!Data, Answer, NoData, Data

LEMMA FreeIs ==
  ASSUME PlainImage, FInv, NEW p \in Pids
  PROVE  F!Free(p) = {fd \in FileFds : fd_array[p][fd].flags = 0}
<1>1. \A fd \in FileFds : Handles[p][fd] = F!Closed <=> fd_array[p][fd].flags = 0
  BY HandleClosed
<1> QED
  BY <1>1 DEF F!Free

(* open takes the number FileCalls says, and fails when it says so.        *)
LEMMA FirstFreeIs ==
  ASSUME PlainImage, FInv, NEW p \in Pids
  PROVE  /\ FirstFree(p) = Maximum_open_files <=> F!Free(p) = {}
         /\ F!Free(p) # {} => FirstFree(p) = F!Smallest(F!Free(p))
<1> DEFINE free == {fd \in FileFds : fd_array[p][fd].flags = 0}
<1>1. F!Free(p) = free
  BY FreeIs
<1>2. free # {} => FirstFree(p) = CHOOSE fd \in free : \A g \in free : fd <= g
  BY DEF FirstFree
<1>3. F!Smallest(free) = CHOOSE fd \in free : \A g \in free : fd <= g
  BY DEF F!Smallest
<1>4. free = {} => FirstFree(p) = Maximum_open_files
  BY DEF FirstFree
<1>5. ASSUME free # {} PROVE FirstFree(p) # Maximum_open_files
  <2>1. free \in SUBSET Nat
    BY FilesAssumption DEF FileFds
  <2>2. \E fd \in free : \A g \in free : fd <= g
    BY <1>5, <2>1, SmallestMember
  <2>3. FirstFree(p) \in free
    BY <1>2, <1>5, <2>2
  <2> QED
    BY <2>3, FilesAssumption DEF FileFds
<1> HIDE DEF free
<1> QED
  BY <1>1, <1>2, <1>3, <1>4, <1>5

LEMMA MapsOpenFails ==
  ASSUME PlainImage, FInv, NEW p \in Pids, NEW name \in Names, OpenFails(p, name)
  PROVE  name \in DOMAIN FileKind /\ F!Open(p, name)
<1>1. /\ name \in Opened /\ answer' = Answer(p, "open", -1, NoData)
      /\ read_dentry_by_name(name) = None \/ FirstFree(p) = Maximum_open_files
      /\ UNCHANGED <<fd_array, dir_readnum>>
  BY DEF OpenFails, unread, Opened
<1>2. DOMAIN FileKind = Opened /\ FileKind[name] = read_dentry_by_name(name).filetype
  BY <1>1 DEF FileKind, Opened, EntryOf
<1>3. FileKind[name] = "none" \/ F!Free(p) = {}
  <2>1. None.filetype = "none"
    BY DEF None
  <2> QED
    BY <1>1, <1>2, <2>1, FirstFreeIs
<1>4. Handles' = Handles
  BY <1>1, NoHandle
<1> QED
  BY <1>1, <1>2, <1>3, <1>4
  DEF F!Open, F!Gets, F!Answer, F!NoData, F!Data, Answer, NoData, Data

LEMMA MapsOpenFile ==
  ASSUME PlainImage, SharedListing = FALSE, FInv,
         NEW p \in Pids, NEW name \in Names, OpenFile(p, name)
  PROVE  name \in DOMAIN FileKind /\ F!Open(p, name)
<1> DEFINE dentry == read_dentry_by_name(name)
           fd == FirstFree(p)
           f == InUse(dentry.filetype, IF dentry.filetype = "file" THEN dentry.inode ELSE -1)
<1>1. /\ name \in Opened /\ dentry # None /\ fd # Maximum_open_files
      /\ fd_array' = [fd_array EXCEPT ![p][fd] = f]
      /\ dir_readnum' = IF dentry.filetype = "dir" THEN 0 ELSE dir_readnum
      /\ answer' = Answer(p, "open", fd, NoData)
      /\ dentry.filetype # "dir" \/ dir_readnum = 0 \/ DirFds = {}
  BY DEF OpenFile, Opened
<1>2. fd \in FileFds
  BY <1>1, FirstFreeInRange
<1>3. dentry.filetype \in Kinds
  BY <1>1, FoundIsEntry DEF Entries, Kinds
<1>4. f.flags = 1 /\ f.func_pointer = dentry.filetype /\ f.file_position = 0
      /\ (dentry.filetype = "file" => f.inode_num = dentry.inode)
  BY DEF InUse
<1>5. EntryOf[name] = dentry
  BY DEF EntryOf
<1>6. DOMAIN FileKind = Opened /\ FileKind[name] = dentry.filetype
  BY <1>1, <1>5 DEF FileKind, Opened
<1>7. fd = F!Smallest(F!Free(p)) /\ F!Free(p) # {}
  BY <1>1, FirstFreeIs
<1> HIDE DEF dentry, fd, f
<1>8. OpenedAs(f, name)
  BY <1>4, <1>5 DEF OpenedAs
<1>9. Handle(f, dir_readnum') = [name |-> name, at |-> 0]
  <2>1. CASE dentry.filetype = "file"
    BY <1>1, <1>3, <1>4, <1>8, <2>1, HandleNamed
  <2>2. CASE dentry.filetype = "dir"
    BY <1>1, <1>3, <1>4, <1>8, <2>2, HandleNamed
  <2>3. CASE dentry.filetype = "rtc"
    BY <1>1, <1>3, <1>4, <1>8, <2>3, HandleNamed
  <2> QED
    BY <1>3, <2>1, <2>2, <2>3 DEF Kinds
<1>10. dir_readnum' = dir_readnum \/ DirFds \subseteq {<<p, fd>>}
  BY <1>1
<1>11. Handles' = [Handles EXCEPT ![p][fd] = [name |-> name, at |-> 0]]
  BY <1>1, <1>2, <1>9, <1>10, OneHandle
<1>12. FileKind[name] # "none"
  BY <1>3, <1>6 DEF Kinds
<1> QED
  BY <1>1, <1>6, <1>7, <1>11, <1>12
  DEF F!Open, F!Gets, F!Answer, F!NoData, F!Data, Answer, NoData, Data

(* 0 and 1 are a process's terminal.                                       *)
LEMMA TerminalFds ==
  ASSUME FInv, NEW p \in Live, NEW fd \in FdNums, fd \notin FileFds
  PROVE  Op(p, fd) \in {"stdin", "stdout"} /\ (Op(p, fd) = "stdin" \/ fd = 1)
<1>1. p \in Pids /\ process_array[p] = 1
  BY DEF Live
<1>2. fd = 0 \/ fd = 1
  BY Numbers DEF FdNums, FileFds
<1> QED
  BY <1>1, <1>2 DEF FInv, IInv, DescriptorsSound, DescriptorSound, Op

(* A file's number is valid exactly while it stands for something.         *)
LEMMA ValidFileFd ==
  ASSUME PlainImage, FInv, NEW p \in Pids, NEW fd \in FileFds
  PROVE  /\ Valid(p, fd) <=> fd_array[p][fd].flags # 0
         /\ Valid(p, fd) <=> Handles[p][fd] # F!Closed
         /\ Valid(p, fd) => Op(p, fd) \in Kinds
<1>1. fd >= 0 /\ fd <= Maximum_open_files /\ fd # Maximum_open_files
  BY Numbers DEF FileFds
<1>2. Valid(p, fd) <=> fd_array[p][fd].flags # 0
  BY <1>1 DEF Valid, InRange, Flags
<1> QED
  BY <1>2, HandleClosed DEF Op

LEMMA SameHandles ==
  ASSUME UNCHANGED dir_readnum,
         \A q \in Pids, g \in FileFds : fd_array'[q][g] = fd_array[q][g]
  PROVE  Handles' = Handles
BY DEF Handles, Handle

LEMMA MapsOpenTerminal ==
  ASSUME PlainImage, FInv, NEW p \in Pids, NEW name, OpenTerminal(p, name)
  PROVE  F!Other(p)
<1> USE Numbers
<1> DEFINE fd == IF name = "stdin" THEN 0 ELSE 1
<1>1. /\ fd_array' = [fd_array EXCEPT ![p][fd].flags = 1, ![p][fd].func_pointer = name]
      /\ UNCHANGED dir_readnum /\ Returns(p, fd, "open", fd, NoData)
  BY DEF OpenTerminal, unread
<1>2. fd \in {0, 1} /\ fd \notin FileFds
  OBVIOUS
<1> HIDE DEF fd
<1>3. \A q \in Pids, g \in FileFds : fd_array'[q][g] = fd_array[q][g]
  BY <1>1, <1>2 DEF FInv, IInv
<1>4. Handles' = Handles
  BY <1>1, <1>3, SameHandles
<1>5. fd \in -1 .. 1
  BY <1>2
<1> QED
  BY <1>1, <1>2, <1>4, <1>5, MapsOther

LEMMA MapsClose ==
  ASSUME PlainImage, FInv, NEW p \in Pids, NEW fd, CloseFails(p, fd) \/ CloseWorks(p, fd)
  PROVE  IF fd \in FileFds THEN F!Close(p, fd) ELSE F!Other(p)
<1> USE Numbers
<1>1. ASSUME CloseFails(p, fd), fd \notin FileFds PROVE F!Other(p)
  <2>1. Returns(p, fd, "close", -1, NoData) /\ Handles' = Handles
    BY <1>1, NoHandle DEF CloseFails, unread
  <2>2. -1 \in -1 .. 1
    OBVIOUS
  <2> QED
    BY <1>1, <2>1, <2>2, MapsOther
<1>2. ASSUME CloseFails(p, fd), fd \in FileFds PROVE F!Close(p, fd)
  <2>1. /\ ~CanClose(p, fd) /\ answer' = Answer(p, "close", -1, NoData)
        /\ Handles' = Handles
    BY <1>2, NoHandle DEF CloseFails, unread, Returns
  <2>2. ~Valid(p, fd)
    BY <1>2, <2>1, ValidFileFd DEF CanClose, CloseResult, Kinds
  <2>3. Handles[p][fd] = F!Closed
    BY <1>2, <2>2, ValidFileFd
  <2>4. Handles' = [Handles EXCEPT ![p][fd] = F!Closed]
    BY <1>2, <2>1, <2>3 DEF Handles
  <2> QED
    BY <2>1, <2>3, <2>4 DEF F!Close, F!Gets, F!Answer, F!NoData, F!Data, Answer, NoData, Data
<1>3. ASSUME CloseWorks(p, fd) PROVE fd \in FileFds /\ F!Close(p, fd)
  <2>1. /\ p \in Live /\ fd \in FdNums /\ CanClose(p, fd)
        /\ fd_array' = [fd_array EXCEPT ![p][fd] = Unused]
        /\ Returns(p, fd, "close", 0, NoData) /\ UNCHANGED dir_readnum
    BY <1>3 DEF CloseWorks, unread, Calls
  <2>2. fd \in FileFds
    BY <2>1, TerminalFds DEF CanClose, CloseResult
  <2>3. Handles[p][fd] # F!Closed
    BY <2>1, <2>2, ValidFileFd DEF CanClose
  <2>4. Handle(Unused, dir_readnum') = F!Closed
    BY DEF Handle, Unused, F!Closed
  <2>5. Handles' = [Handles EXCEPT ![p][fd] = Handle(Unused, dir_readnum')]
    BY <2>1, <2>2, OneHandle
  <2>6. answer' = Answer(p, "close", 0, NoData)
    BY <2>1, <2>2 DEF Returns
  <2>7. Handles' = [Handles EXCEPT ![p][fd] = F!Closed]
    BY <2>4, <2>5
  <2> QED
    BY <2>2, <2>3, <2>6, <2>7
    DEF F!Close, F!Gets, F!Answer, F!NoData, F!Data, Answer, NoData, Data
<1> QED
  BY <1>1, <1>2, <1>3

LEMMA MapsWrite ==
  ASSUME PlainImage, FInv, NEW p \in Pids, NEW fd, Write(p, fd)
  PROVE  IF fd \in FileFds THEN F!Write(p, fd) ELSE F!Other(p)
<1>1. PICK ret \in WriteResults(p, fd) : Returns(p, fd, "write", ret, NoData)
  BY DEF Write
<1>2. Handles' = Handles
  BY NoHandle DEF Write, unread
<1>3. ASSUME fd \notin FileFds PROVE F!Other(p)
  <2>1. ret \in -1 .. 1
    BY <1>1 DEF WriteResults
  <2> QED
    BY <1>1, <1>2, <1>3, <2>1, MapsOther
<1>4. ASSUME fd \in FileFds PROVE F!Write(p, fd)
  <2> DEFINE h == Handles[p][fd]
  <2>1. \/ ret = -1
        \/ ret = 0 /\ h # F!Closed /\ FileKind[h.name] = "rtc"
    <3>1. CASE Valid(p, fd)
      <4>1. fd_array[p][fd].flags # 0
        BY <1>4, <3>1, ValidFileFd
      <4>2. h # F!Closed /\ FileKind[h.name] = Op(p, fd) /\ Op(p, fd) \in Kinds
        BY <1>4, <4>1, HandleClosed DEF Op
      <4>3. Op(p, fd) # "rtc" => ret = -1
        BY <1>1, <3>1, <4>2 DEF WriteResults, Kinds
      <4>4. Op(p, fd) = "rtc" => ret = -1 \/ ret = 0
        BY <1>1, <3>1 DEF WriteResults
      <4>5. Op(p, fd) = "rtc" => FileKind[h.name] = "rtc"
        BY <4>2
      <4> HIDE DEF h
      <4> QED
        BY <4>2, <4>3, <4>4, <4>5
    <3>2. CASE ~Valid(p, fd)
      <4>1. ret \in {-1}
        BY <1>1, <3>2 DEF WriteResults
      <4> QED
        BY <4>1
    <3> QED
      BY <3>1, <3>2
  <2>2. answer' = F!Answer(p, "write", ret, F!NoData)
    BY <1>1, <1>4 DEF Returns, F!Answer, F!NoData, F!Data, Answer, NoData, Data
  <2>3. ret \in IF h # F!Closed /\ FileKind[h.name] = "rtc" THEN {-1, 0} ELSE {-1}
    BY <2>1
  <2> QED
    BY <1>2, <2>2, <2>3 DEF F!Write, F!Gets
<1> QED
  BY <1>3, <1>4

LEMMA MapsReadFails ==
  ASSUME PlainImage, FInv, NEW p \in Pids, NEW fd, NEW n \in Sizes, ReadFails(p, fd)
  PROVE  IF fd \in FileFds THEN F!Read(p, fd, n) ELSE F!Other(p)
<1>1. ~CanRead(p, fd) /\ Returns(p, fd, "read", -1, NoData) /\ Handles' = Handles
  BY NoHandle DEF ReadFails, unread
<1>2. ASSUME fd \notin FileFds PROVE F!Other(p)
  <2>1. -1 \in -1 .. 1
    OBVIOUS
  <2> QED
    BY <1>1, <1>2, <2>1, MapsOther
<1>3. ASSUME fd \in FileFds PROVE F!Read(p, fd, n)
  <2>1. ~Valid(p, fd)
    BY <1>1, <1>3, ValidFileFd DEF CanRead, Kinds
  <2>2. Handles[p][fd] = F!Closed
    BY <1>3, <2>1, ValidFileFd
  <2>3. F!Gets(p, "read", -1, F!NoData)
    BY <1>1, <1>3 DEF Returns, F!Gets, F!Answer, F!NoData, F!Data, Answer, NoData, Data
  <2> QED
    BY <1>1, <2>2, <2>3 DEF F!Read
<1> QED
  BY <1>2, <1>3

(* The terminal's read is none of a file; the clock's has no data.         *)
LEMMA MapsReadDevice ==
  ASSUME PlainImage, FInv, NEW p \in Pids, NEW fd, NEW n \in Sizes, ReadDevice(p, fd)
  PROVE  IF fd \in FileFds THEN F!Read(p, fd, n) ELSE F!Other(p)
<1>1. /\ p \in Live /\ fd \in FdNums /\ Valid(p, fd) /\ Handles' = Handles
      /\ \/ Op(p, fd) = "stdin" /\ Returns(p, fd, "read", 1, NoData)
         \/ Op(p, fd) = "rtc" /\ Returns(p, fd, "read", 0, NoData)
  BY NoHandle DEF ReadDevice, unread, Calls
<1>2. ASSUME fd \notin FileFds PROVE F!Other(p)
  <2>1. Returns(p, fd, "read", 1, NoData)
    BY <1>1, <1>2, TerminalFds
  <2>2. 1 \in -1 .. 1
    OBVIOUS
  <2> QED
    BY <1>1, <1>2, <2>1, <2>2, MapsOther
<1>3. ASSUME fd \in FileFds PROVE F!Read(p, fd, n)
  <2>1. Op(p, fd) = "rtc"
    BY <1>1, <1>3, ValidFileFd DEF Kinds
  <2>2. Handles[p][fd] # F!Closed
    BY <1>1, <1>3, ValidFileFd
  <2>3. FileKind[Handles[p][fd].name] = "rtc"
    BY <1>1, <1>3, <2>1, ValidFileFd, HandleClosed DEF Op
  <2>4. F!Gets(p, "read", 0, F!NoData)
    BY <1>1, <1>3, <2>1
    DEF Returns, F!Gets, F!Answer, F!NoData, F!Data, Answer, NoData, Data
  <2> QED
    BY <1>1, <2>2, <2>3, <2>4 DEF F!Read
<1> QED
  BY <1>2, <1>3

(* A file with a block the image lacks gives nothing.                      *)
LEMMA UnreadableGives ==
  ASSUME NEW inode \in DOMAIN Inodes, ~Readable(inode), NEW at \in Nat, NEW nbytes \in Nat
  PROVE  /\ read_data(inode, at, nbytes).ret \in {-1, 0}
         /\ read_data(inode, at, nbytes).data = <<>>
<1> DEFINE num == BlockNum(Inodes[inode].length)
<1>1. PICK i \in 1 .. num : ~(Inodes[inode].blocks[i] < num_data_block)
  BY DEF Readable
<1>2. Inodes[inode].length \in Nat /\ Inodes[inode].blocks \in Seq(Nat)
      /\ Len(Inodes[inode].blocks) >= num /\ num_data_block \in Nat
  BY FileSystemAssumption
<1>3. num \in Nat
  BY <1>2, BlocksCover
<1> HIDE DEF num
<1>4. Inodes[inode].blocks[i] \in Nat
  BY <1>2, <1>3
<1>5. Inodes[inode].blocks[i] >= num_data_block
  BY <1>1, <1>2, <1>4
<1>6. \/ read_data(inode, at, nbytes) = [ret |-> 0, data |-> <<>>]
      \/ read_data(inode, at, nbytes) = [ret |-> -1, data |-> <<>>]
  BY <1>5 DEF read_data, num
<1> QED
  BY <1>6

LEMMA FileLength ==
  ASSUME NEW inode \in DOMAIN Inodes
  PROVE  Len(FileBytes(inode)) = Inodes[inode].length
<1>1. Inodes[inode].length \in Nat
  BY FileSystemAssumption
<1> QED
  BY <1>1 DEF FileBytes

(* A read of a file gives the next bytes, by ReadGives.                    *)
LEMMA MapsReadFile ==
  ASSUME PlainImage, FInv, NEW p \in Pids, NEW fd, NEW nbytes \in Sizes,
         ReadFile(p, fd, nbytes)
  PROVE  fd \in FileFds /\ F!Read(p, fd, nbytes)
<1> DEFINE f == fd_array[p][fd]
           inode == f.inode_num
           pos == f.file_position
           got == read_data(inode, pos, nbytes)
           g == [f EXCEPT !.file_position = (pos + got.ret) % WORD]
           h == Handles[p][fd]
<1>1. /\ p \in Live /\ fd \in FdNums /\ Valid(p, fd) /\ f.func_pointer = "file"
      /\ fd_array' = [fd_array EXCEPT ![p][fd].file_position = (@ + got.ret) % WORD]
      /\ Returns(p, fd, "read", got.ret, Data(got.data, ""))
      /\ UNCHANGED dir_readnum
  BY DEF ReadFile, unread, Calls, Op
<1> HIDE DEF got
<1>2. fd \in FileFds
  BY <1>1, TerminalFds DEF Op
<1>3. answer' = Answer(p, "read", got.ret, Data(got.data, ""))
  BY <1>1, <1>2 DEF Returns
<1>4. f \in Descriptors /\ DescriptorSound(p, fd, f)
  BY <1>1 DEF FInv, IInv, DescriptorsSound
<1>5. /\ f.flags = 1 /\ h = Handle(f, dir_readnum) /\ h # F!Closed
      /\ \E n \in Opened : OpenedAs(f, n) /\ h.name = n /\ FileKind[n] = "file"
  <2>1. f.flags # 0
    BY <1>1, <1>2, ValidFileFd
  <2> QED
    BY <1>1, <1>2, <2>1, HandleClosed
<1>6. PICK n \in Opened : OpenedAs(f, n) /\ h.name = n /\ FileKind[n] = "file"
  BY <1>5
<1>7. /\ n \in FileNames /\ EntryOf[n].inode = inode
      /\ h = [name |-> n, at |-> IF n \in Unreadable THEN 0 ELSE pos]
  <2>1. f.func_pointer \in Kinds
    BY <1>1 DEF Kinds
  <2>2. EntryOf[n].inode = inode
    BY <1>1, <1>6 DEF OpenedAs
  <2>3. f.flags = 1 /\ f.func_pointer = "file" /\ OpenedAs(f, n) /\ h.name = n
        /\ h = Handle(f, dir_readnum)
    BY <1>1, <1>5, <1>6
  <2> HIDE DEF f, h
  <2>4. /\ n \in FileNames
        /\ Handle(f, dir_readnum) = [name |-> n, at |-> IF n \in Unreadable THEN 0
                                                      ELSE f.file_position]
    BY <2>1, <2>3, HandleNamed
  <2> QED
    BY <2>2, <2>3, <2>4
<1>8. inode \in DOMAIN Inodes /\ pos \in 0 .. WORD - 1 /\ pos \in Nat
      /\ WORD \in Nat /\ WORD > 0 /\ nbytes \in Nat
  <2>1. inode \in DOMAIN Inodes /\ pos \in 0 .. WORD - 1
    BY <1>1, <1>4 DEF DescriptorSound, Descriptors
  <2>2. WORD \in Nat /\ WORD > 0 /\ nbytes \in Nat
    BY Numbers, ImageTypes
  <2> HIDE DEF f, inode, pos
  <2> QED
    BY <2>1, <2>2
<1>9. /\ g.flags = 1 /\ g.func_pointer = "file" /\ OpenedAs(g, n)
      /\ g.file_position = (pos + got.ret) % WORD
      /\ fd_array' = [fd_array EXCEPT ![p][fd] = g]
  <2>1. g = [f EXCEPT !.file_position = (pos + got.ret) % WORD]
    OBVIOUS
  <2>2. fd_array' = [fd_array EXCEPT ![p][fd] = g]
    BY <1>1
  <2>3. /\ g.flags = f.flags /\ g.func_pointer = f.func_pointer
        /\ g.inode_num = f.inode_num
        /\ g.file_position = (pos + got.ret) % WORD
    BY <1>4 DEF Descriptors
  <2> HIDE DEF g
  <2> QED
    BY <1>1, <1>5, <1>6, <2>2, <2>3 DEF OpenedAs
<1> HIDE DEF g
<1>10. Handles' = [Handles EXCEPT ![p][fd] = Handle(g, dir_readnum')]
  <2>1. dir_readnum' = dir_readnum /\ fd_array' = [fd_array EXCEPT ![p][fd] = g]
    BY <1>1, <1>9
  <2> QED
    BY <1>2, <2>1, OneHandle
<1>11. Handle(g, dir_readnum')
         = [name |-> n, at |-> IF n \in Unreadable THEN 0 ELSE g.file_position]
  <2>1. g.func_pointer \in Kinds
    BY <1>9 DEF Kinds
  <2> QED
    BY <1>9, <2>1, HandleNamed
<1>12. CASE n \in Unreadable
  <2>1. ~Readable(inode)
    BY <1>7, <1>12 DEF Unreadable
  <2>2. got.ret \in {-1, 0} /\ got.data = <<>>
    BY <1>8, <2>1, UnreadableGives DEF got
  <2>3. Handle(g, dir_readnum') = h
    BY <1>7, <1>11, <1>12
  <2>4. Handles' = Handles
    <3>1. Handles' = [Handles EXCEPT ![p][fd] = Handles[p][fd]]
      BY <1>10, <2>3
    <3> QED
      BY <1>2, <3>1 DEF Handles
  <2>5. F!Gets(p, "read", got.ret, F!NoData)
    BY <1>3, <2>2 DEF F!Gets, F!Answer, F!NoData, F!Data, Answer, Data
  <2>6. h.name \in Unreadable
    BY <1>6, <1>12
  <2> QED
    BY <1>2, <2>2, <2>4, <2>5, <2>6 DEF F!Read
<1>13. CASE n \notin Unreadable
  <2> DEFINE length == Inodes[inode].length
             k == Smaller(nbytes, length - pos)
  <2>1. Readable(inode)
    BY <1>7, <1>13 DEF Unreadable
  <2>2. pos \in 0 .. length /\ length \in Nat /\ length < WORD
    <3>1. pos \in 0 .. length
      BY <1>1, <1>4, <2>1 DEF DescriptorSound
    <3>2. length \in 0 .. WORD - 1
      BY <1>8, FileSystemAssumption
    <3> HIDE DEF pos, length
    <3> QED
      BY <1>8, <3>1, <3>2
  <2>3. nbytes + length < WORD
    BY <1>8 DEF PlainImage
  <2>4. /\ k \in Nat /\ pos + k <= length
        /\ got = [ret |-> k, data |-> SubSeq(FileBytes(inode), pos + 1, pos + k)]
    BY <1>8, <2>1, <2>2, <2>3, ReadGives DEF got
  <2> HIDE DEF k
  <2>5. got.ret = k /\ got.data = SubSeq(FileBytes(inode), pos + 1, pos + k)
    BY <2>4
  <2>6. FileContent[n] = FileBytes(inode) /\ Len(FileContent[n]) = length
    BY <1>7, <1>8, FileLength DEF FileContent
  <2>7. h.name = n /\ h.at = pos
    BY <1>7, <1>13
  <2> HIDE DEF h, f, length, inode, pos
  <2>8. (pos + k) % WORD = pos + k
    <3>1. pos + k \in Nat /\ pos + k < WORD
      BY <1>8, <2>2, <2>4
    <3> QED
      BY <1>8, <3>1
  <2>9. Handle(g, dir_readnum') = [name |-> n, at |-> pos + k]
    BY <1>9, <1>11, <1>13, <2>5, <2>8
  <2>10. k = IF nbytes < Len(FileContent[h.name]) - h.at
             THEN nbytes ELSE Len(FileContent[h.name]) - h.at
    BY <2>6, <2>7 DEF Smaller, k
  <2>11. F!Gets(p, "read", k,
                F!Data(SubSeq(FileContent[h.name], h.at + 1, h.at + k), ""))
    BY <1>3, <2>5, <2>6, <2>7 DEF F!Gets, F!Answer, F!Data, Answer, Data
  <2>12. Handles' = [Handles EXCEPT ![p][fd].at = @ + k]
    <3>1. h = [name |-> n, at |-> pos]
      BY <1>7, <1>13
    <3>2. [h EXCEPT !.at = @ + k] = [name |-> n, at |-> pos + k]
      BY <3>1
    <3> QED
      BY <1>10, <2>9, <3>2 DEF h
  <2>13. F!ReadFile(p, fd, nbytes)
    BY <2>10, <2>11, <2>12 DEF F!ReadFile, h
  <2>14. h # F!Closed /\ FileKind[h.name] = "file" /\ h.name \notin Unreadable
    BY <1>5, <1>6, <1>13
  <2> QED
    BY <1>2, <2>13, <2>14 DEF F!Read, h
<1> QED
  BY <1>12, <1>13

LEMMA ListingIs ==
  /\ Len(EntryNames) = num_dentry
  /\ \A i \in 1 .. num_dentry : EntryNames[i] = Dentries[i].name
BY ImageTypes DEF EntryNames

(* The number of a directory stands for the position in it.                *)
LEMMA DirHandle ==
  ASSUME PlainImage, FInv, NEW p \in Pids, NEW fd \in FileFds, IsDir(fd_array[p][fd])
  PROVE  \E n \in Opened : /\ Handles[p][fd] = [name |-> n, at |-> dir_readnum]
                           /\ FileKind[n] = "dir"
                           /\ OpenedAs(fd_array[p][fd], n)
                           /\ Handles[p][fd] # F!Closed
<1> DEFINE f == fd_array[p][fd]
<1>1. f.flags = 1 /\ f.func_pointer = "dir" /\ f.flags # 0
  BY DEF IsDir
<1>2. Handles[p][fd] = Handle(f, dir_readnum) /\ Handles[p][fd] # F!Closed
  BY <1>1, HandleClosed
<1>3. PICK n \in Opened : OpenedAs(f, n) /\ FileKind[n] = "dir"
  BY <1>1, HandleClosed
<1>4. f.func_pointer \in Kinds
  BY <1>1 DEF Kinds
<1> HIDE DEF f
<1>5. Handle(f, dir_readnum) = [name |-> n, at |-> dir_readnum]
  BY <1>1, <1>3, <1>4, HandleNamed
<1> QED
  BY <1>2, <1>3, <1>5 DEF f

(* A read of the directory at its end gives nothing; the steps before the  *)
(* increment are none of FileCalls.                                        *)
LEMMA MapsReadDir ==
  ASSUME PlainImage, SharedListing = FALSE, FInv,
         NEW p \in Pids, NEW fd, NEW nbytes \in Sizes, ReadDir(p, fd, nbytes)
  PROVE  \/ fd \in FileFds /\ F!Read(p, fd, nbytes)
         \/ UNCHANGED <<Handles, answer>>
<1>1. /\ p \in Live /\ fd \in FdNums /\ Valid(p, fd) /\ Op(p, fd) = "dir"
      /\ DirFds = {<<p, fd>>} /\ Handles' = Handles
      /\ dir_readnum >= num_dentry => Returns(p, fd, "read", 0, NoData)
      /\ ~(dir_readnum >= num_dentry) => UNCHANGED answer
  BY NoHandle DEF ReadDir, unread, Calls
<1>2. fd \in FileFds
  BY <1>1, TerminalFds
<1>3. ASSUME dir_readnum >= num_dentry PROVE F!Read(p, fd, nbytes)
  <2>1. IsDir(fd_array[p][fd])
    BY <1>1, InDirFds
  <2>2. PICK n \in Opened : /\ Handles[p][fd] = [name |-> n, at |-> dir_readnum]
                            /\ FileKind[n] = "dir"
                            /\ Handles[p][fd] # F!Closed
    BY <1>2, <2>1, DirHandle
  <2>3. dir_readnum = Len(EntryNames)
    BY <1>3, ImageTypes, ListingIs DEF FInv
  <2>4. F!Gets(p, "read", 0, F!NoData)
    BY <1>1, <1>2, <1>3
    DEF Returns, F!Gets, F!Answer, F!NoData, F!Data, Answer, NoData, Data
  <2>5. F!ReadDir(p, fd, nbytes)
    BY <1>1, <2>2, <2>3, <2>4 DEF F!ReadDir
  <2> QED
    BY <1>2, <2>2, <2>5 DEF F!Read
<1> QED
  BY <1>1, <1>2, <1>3

(* The increment is the read: it gives the entry that was fetched.         *)
LEMMA MapsDirAdvance ==
  ASSUME PlainImage, FInv, NEW p \in Pids, DirAdvance(p)
  PROVE  \E fd \in FileFds, n \in Sizes : F!Read(p, fd, n)
<1> DEFINE i == dir_readnum + 1
           n == local[p].nbytes
           name == Dentries[i].name
<1>1. /\ pc[p] = "advance" /\ UNCHANGED fd_array /\ dir_readnum' = i
      /\ answer' = Answer(p, "read", Smaller(n, DentryNameLength(local[p].fetch)),
                          Data(<<>>, local[p].fetch.name))
  BY DEF DirAdvance
<1>2. Listing(p)
  BY <1>1 DEF FInv
<1>3. PICK fd \in FileFds : DirFds = {<<p, fd>>}
  BY <1>2 DEF Listing
<1>4. n \in Sizes /\ local[p].fetch = Dentries[i] /\ dir_readnum < num_dentry
  BY <1>1, <1>2 DEF Listing
<1>5. dir_readnum \in Nat /\ i \in 1 .. num_dentry
  BY <1>4, ImageTypes DEF FInv
<1>6. IsDir(fd_array[p][fd])
  BY <1>3, InDirFds, Numbers
<1>7. PICK m \in Opened : /\ Handles[p][fd] = [name |-> m, at |-> dir_readnum]
                          /\ FileKind[m] = "dir"
                          /\ OpenedAs(fd_array[p][fd], m)
                          /\ Handles[p][fd] # F!Closed
  BY <1>6, DirHandle
<1>8. fd_array' = [fd_array EXCEPT ![p][fd] = fd_array[p][fd]]
  BY <1>1, Numbers DEF FInv, IInv
<1>9. DirFds \subseteq {<<p, fd>>}
  BY <1>3
<1>10. Handles' = [Handles EXCEPT ![p][fd] = Handle(fd_array[p][fd], i)]
  <2> DEFINE f == fd_array[p][fd]
  <2>1. fd_array' = [fd_array EXCEPT ![p][fd] = f]
    BY <1>8
  <2> HIDE DEF f
  <2>2. Handles' = [Handles EXCEPT ![p][fd] = Handle(f, dir_readnum')]
    BY <1>9, <2>1, OneHandle
  <2> QED
    BY <1>1, <2>2 DEF f
<1>11. Handle(fd_array[p][fd], i) = [name |-> m, at |-> i]
  <2> DEFINE f == fd_array[p][fd]
  <2>1. f.flags = 1 /\ f.func_pointer = "dir" /\ f.func_pointer \in Kinds
    BY <1>6 DEF IsDir, Kinds
  <2>2. OpenedAs(f, m)
    BY <1>7
  <2> HIDE DEF f, i
  <2>3. Handle(f, i) = [name |-> m, at |-> i]
    BY <2>1, <2>2, HandleNamed
  <2> QED
    BY <2>3 DEF f
<1>12. Handles' = [Handles EXCEPT ![p][fd].at = @ + 1]
  <2>1. [Handles[p][fd] EXCEPT !.at = @ + 1] = [name |-> m, at |-> i]
    BY <1>7
  <2> QED
    BY <1>10, <1>11, <2>1
(* What is counted of a name that fills its field is as much as is asked.  *)
<1>13. Smaller(n, DentryNameLength(Dentries[i])) = CutName(name, n)
  <2> DEFINE max == MAXIMUM_FILENAME_LENGTH
             len == NameLength[name]
  <2>1. /\ len \in 0 .. max
        /\ len < max \/ Dentries[i].filetype = "rtc" \/ n <= max
    BY <1>4, <1>5 DEF PlainImage
  <2>2. DentryNameLength(Dentries[i])
          = IF len < max \/ Dentries[i].filetype = "rtc" THEN len ELSE max + 1
    BY DEF DentryNameLength
  <2>3. CutName(name, n) = Smaller(n, len)
    BY DEF CutName
  <2>4. n \in Nat /\ max \in Nat
    BY <1>4, ImageTypes, FileSystemAssumption
  <2> HIDE DEF n, len, i
  <2>5. CASE len < max \/ Dentries[i].filetype = "rtc"
    BY <2>2, <2>3, <2>5
  <2>6. CASE ~(len < max \/ Dentries[i].filetype = "rtc")
    <3>1. len = max /\ n <= max /\ max \in Nat
      BY <2>1, <2>4, <2>6
    <3>2. DentryNameLength(Dentries[i]) = max + 1
      BY <2>2, <2>6
    <3> QED
      BY <2>3, <2>4, <3>1, <3>2 DEF Smaller
  <2> QED
    BY <2>5, <2>6
<1>14. EntryNames[i] = name /\ Len(EntryNames) = num_dentry
  BY <1>5, ListingIs
<1>15. F!Gets(p, "read", CutName(EntryNames[i], n), F!Data(<<>>, EntryNames[i]))
  BY <1>1, <1>4, <1>13, <1>14 DEF F!Gets, F!Answer, F!Data, Answer, Data
<1> HIDE DEF n, name
<1>16. F!ReadDir(p, fd, n)
  <2>1. Handles[p][fd].at = dir_readnum /\ dir_readnum # Len(EntryNames)
    BY <1>4, <1>5, <1>7, <1>14, ImageTypes
  <2> QED
    BY <1>12, <1>15, <2>1 DEF F!ReadDir
<1> QED
  BY <1>4, <1>7, <1>16 DEF F!Read

LEMMA FreshHandles == Init => F!Init
<1> SUFFICES ASSUME Init PROVE F!Init
  OBVIOUS
<1>1. ASSUME NEW p \in Pids, NEW fd \in FileFds
      PROVE  Handle(fd_array[p][fd], dir_readnum) = F!Closed
  BY Numbers DEF Init, Unused, Handle, F!Closed
<1>2. Handles = [p \in Pids |-> [fd \in FileFds |-> F!Closed]]
  BY <1>1 DEF Handles
<1>3. 0 \in Pids
  BY FilesAssumption DEF Pids
<1>4. answer = F!Answer(0, "none", 0, F!NoData)
  BY DEF Init, F!Answer, F!NoData, F!Data, Answer, NoData, Data
<1> QED
  BY <1>2, <1>3, <1>4 DEF F!Init

LEMMA MapsStep ==
  ASSUME PlainImage, SharedListing = FALSE, FInv, [Next]_vars
  PROVE  [F!Next]_(F!vars)
<1>1. CASE UNCHANGED vars
  <2>1. UNCHANGED <<Handles, answer>>
    BY <1>1, NoHandle DEF vars
  <2> QED
    BY <2>1 DEF F!vars
<1>2. ASSUME NEW p \in Pids, F!Other(p) \/ F!Reset(p) PROVE F!Next
  BY <1>2 DEF F!Next
<1>3. ASSUME NEW p \in Pids, NEW fd \in FileFds, F!Close(p, fd) \/ F!Write(p, fd)
      PROVE  F!Next
  BY <1>3 DEF F!Next
<1>4. ASSUME NEW p \in Pids, NEW fd \in FileFds, NEW n \in Sizes, F!Read(p, fd, n)
      PROVE  F!Next
  BY <1>4 DEF F!Next
<1>5. PICK nbytes \in Sizes : TRUE
  BY FilesAssumption
<1>6. ASSUME NEW p \in Pids, Execute(p) \/ Halt(p) PROVE F!Next
  BY <1>2, <1>6, MapsReset
<1>7. ASSUME NEW p \in Pids, NEW name \in Uses[p],
             OpenTerminal(p, name) \/ OpenFails(p, name) \/ OpenFile(p, name)
      PROVE  F!Next
  <2>1. name \in Names
    BY FilesAssumption DEF Pids
  <2>2. CASE OpenTerminal(p, name)
    BY <1>2, <2>2, MapsOpenTerminal
  <2>3. CASE OpenFails(p, name) \/ OpenFile(p, name)
    <3>1. name \in DOMAIN FileKind /\ F!Open(p, name)
      BY <2>1, <2>3, MapsOpenFails, MapsOpenFile
    <3> QED
      BY <3>1 DEF F!Next
  <2> QED
    BY <1>7, <2>2, <2>3
<1>8. ASSUME NEW p \in Pids, NEW fd, CloseFails(p, fd) \/ CloseWorks(p, fd) PROVE F!Next
  BY <1>2, <1>3, <1>8, MapsClose
<1>9. ASSUME NEW p \in Pids, NEW fd, Write(p, fd) PROVE F!Next
  BY <1>2, <1>3, <1>9, MapsWrite
<1>10. ASSUME NEW p \in Pids, NEW fd, ReadFails(p, fd) \/ ReadDevice(p, fd) PROVE F!Next
  BY <1>2, <1>4, <1>5, <1>10, MapsReadFails, MapsReadDevice
<1>11. ASSUME NEW p \in Pids, NEW fd, NEW n \in Sizes, ReadFile(p, fd, n) PROVE F!Next
  BY <1>4, <1>11, MapsReadFile
<1>12. ASSUME NEW p \in Pids, NEW fd, NEW n \in Sizes, ReadDir(p, fd, n)
       PROVE  F!Next \/ UNCHANGED <<Handles, answer>>
  BY <1>4, <1>12, MapsReadDir
<1>13. ASSUME NEW p \in Pids, getargs(p) PROVE F!Next
  <2>1. PICK ret \in {-1, 0} : answer' = Answer(p, "other", ret, NoData)
    BY <1>13 DEF getargs
  <2>2. Handles' = Handles
    BY <1>13, NoHandle DEF getargs, unread
  <2>3. ret \in -1 .. 1
    BY <2>1
  <2>4. F!Other(p)
    BY <2>1, <2>2, <2>3
    DEF F!Other, F!Gets, F!Answer, F!NoData, F!Data, Answer, NoData, Data
  <2> QED
    BY <1>2, <2>4
<1>14. ASSUME NEW p \in Pids, DirFetch(p) PROVE UNCHANGED <<Handles, answer>>
  BY <1>14, FetchStep, NoHandle DEF DirFetch
<1>15. ASSUME NEW p \in Pids, DirAdvance(p) PROVE F!Next
  BY <1>4, <1>15, MapsDirAdvance
<1>16. ASSUME NEW p \in Pids, Call(p) PROVE F!Next \/ UNCHANGED <<Handles, answer>>
  BY <1>6, <1>7, <1>8, <1>9, <1>10, <1>11, <1>12, <1>13, <1>16 DEF Call
<1>17. Next => F!Next \/ UNCHANGED <<Handles, answer>>
  BY <1>6, <1>14, <1>15, <1>16 DEF Next
<1> QED
  BY <1>1, <1>17 DEF F!vars

(* For every image with one name for each file, every number of processes  *)
(* and descriptors: every open file or directory is its process's own,     *)
(* starts at its beginning, and reads give what it holds, in order,        *)
(* without gap or repetition, as FileCalls promises, if no two directory   *)
(* descriptors are read in turns.                                          *)
THEOREM CallsKeepPromise ==
  ASSUME PlainImage, SharedListing = FALSE PROVE Spec => ImplementsFileCalls
<1>1. Spec => []FInv
  BY FInvHolds
<1>2. FInv /\ [Next]_vars => [F!Next]_(F!vars)
  BY MapsStep
<1>3. Init => F!Init
  BY FreshHandles
<1> QED
  BY <1>1, <1>2, <1>3, PTL DEF Spec, ImplementsFileCalls, F!Spec
=============================================================================
