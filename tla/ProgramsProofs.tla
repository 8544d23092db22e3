--------------------------- MODULE ProgramsProofs ---------------------------
(***************************************************************************)
(* Proofs about Programs, for any directory, files and typed lines within  *)
(* its assumptions, and buffers of any size.                               *)
(***************************************************************************)
EXTENDS Programs, TLAPS, FiniteSetTheorems, WellFoundedInduction, SequenceTheorems

-----------------------------------------------------------------------------
(* The inductive invariant: what has been printed, at each place a program *)
(* may be.                                                                 *)

(* The program that runs is the one named, with its argument.              *)
Commanded ==
  /\ typed \in Lines \cup {<<>>}
  /\ program # "shell" =>
       /\ typed \notin {<<>>, <<"exit">>}
       /\ Runs(Command(typed))
       /\ program = Entries[Lookup(Command(typed))].kind
       /\ args = Argument(typed)

ShellDone == program = "shell" => output \in Due(typed)

CatSoFar ==
  program = "cat" =>
    \/ entry = 0 /\ output = <<>>
    \/ /\ args # <<>> /\ Found(args) # {} /\ entry = Lookup(args)
       /\ Entries[entry].kind # "dir"
       /\ position \in 0 .. Len(Bytes(entry))
       /\ output = SubSeq(Bytes(entry), 1, position)
    \/ /\ args # <<>> /\ Found(args) # {} /\ entry = Lookup(args)
       /\ Entries[entry].kind = "dir"
       /\ position \in 0 .. Len(Entries)
       /\ output = Joined(position, Names)

LsSoFar ==
  program = "ls" => dir \in 0 .. Len(Entries) /\ output = Joined(dir, NameLines)

CounterSoFar ==
  program = "counter" =>
    \/ max = 0 /\ i = 0 /\ output = <<>>
    \/ /\ \E c \in DOMAIN Counts : max = Counts[c]
       /\ i \in 0 .. max
       /\ output = Joined(i, NumberLines)

(* grep's buffer holds what was read and not yet searched, from "from" on, *)
(* without a newline; a line begins there, or ended in the last buffer but *)
(* for its newline, or the file has ended.                                 *)
Buffered(bytes, from, buf, filled) ==
  /\ from \in 0 .. Len(bytes) /\ filled \in 0 .. BUFSIZE - 1
  /\ from + filled <= Len(bytes)
  /\ \A k \in 0 .. filled - 1 : buf[k] = bytes[from + k + 1]
  /\ \/ from = 0
     \/ bytes[from] = NL
     \/ filled = 0 /\ (from = Len(bytes) \/ bytes[from + 1] = NL)

(* The byte behind a full buffer is no newline.                            *)
Framed(buf) == DOMAIN buf = 0 .. BUFSIZE /\ buf[BUFSIZE] # NL

GrepSoFar ==
  program = "grep" =>
    /\ dir \in 0 .. Len(Entries)
    /\ args = <<>> => dir = 0 /\ entry = 0 /\ output = <<>>
    /\ args # <<>> /\ entry = 0 => output = Joined(dir, FoundIn(args))
    /\ entry # 0 =>
         /\ entry = dir /\ Entries[entry].kind # "dir"
         /\ position \in 0 .. Len(Bytes(entry)) /\ last \in 0 .. BUFSIZE - 1
         /\ Framed(data)
         /\ PlainText(Bytes(entry)) =>
              /\ Buffered(Bytes(entry), position - last, data, last)
              /\ output = Joined(dir - 1, FoundIn(args))
                            \o Joined(position - last, FoundAt(args, entry))
         /\ ~PlainText(Bytes(entry)) => output = Joined(dir - 1, FoundIn(args))

IInv ==
  /\ text \in Texts
  /\ Commanded /\ ShellDone
  /\ CatSoFar /\ LsSoFar /\ CounterSoFar /\ GrepSoFar

-----------------------------------------------------------------------------
(* What is joined.                                                         *)

(* What may be printed while a program runs: the bytes of the files and    *)
(* names, and what the programs add (for the provers a literal is not yet  *)
(* a member of STRING).                                                    *)
Chars == STRING \cup {":", NL} \cup {Digit[d] : d \in 0 .. 9}

LEMMA StringsArePrinted ==
  ASSUME NEW s \in Seq(STRING) PROVE s \in Seq(Chars)
<1>1. STRING \subseteq Chars
  BY DEF Chars
<1> QED
  BY <1>1, SeqMonotonic

LEMMA OneChar ==
  ASSUME NEW c \in Chars
  PROVE  /\ <<c>> \in Seq(Chars) /\ Len(<<c>>) = 1 /\ <<c>>[1] = c
<1>1. <<c>> \in Seq(Chars)
  OBVIOUS
<1>2. Len(<<c>>) = 1
  OBVIOUS
<1>3. <<c>>[1] = c
  OBVIOUS
<1> QED
  BY <1>1, <1>2, <1>3

LEMMA SmallestMember ==
  ASSUME NEW S \in SUBSET Nat, S # {}
  PROVE  \E m \in S : \A n \in S : m <= n
<1> DEFINE less == OpToRel(<, Nat)
<1>1. \E m \in S : \A n \in S : <<n, m>> \notin less
  BY NatLessThanWellFounded, WFMin
<1>2. \A m, n \in Nat : <<n, m>> \notin less => m <= n
  BY DEF OpToRel
<1> QED
  BY <1>1, <1>2

IsJoin(n, parts, f) ==
  f = [k \in 0 .. n |-> IF k = 0 THEN <<>> ELSE f[k - 1] \o parts[k]]

LEMMA JoinExists ==
  ASSUME NEW n \in Nat, NEW parts
  PROVE  \E f : IsJoin(n, parts, f)
<1> DEFINE S == {m \in Nat : ~\E f : IsJoin(m, parts, f)}
<1>1. S = {}
  <2>1. SUFFICES ASSUME S # {} PROVE FALSE
    OBVIOUS
  <2>2. S \in SUBSET Nat
    OBVIOUS
  <2>3. PICK m \in S : \A a \in S : m <= a
    <3> HIDE DEF S
    <3> QED
      BY <2>1, <2>2, SmallestMember
  <2>4. m \in Nat /\ ~\E f : IsJoin(m, parts, f)
    OBVIOUS
  <2>5. CASE m = 0
    <3> DEFINE f == [k \in 0 .. 0 |-> <<>>]
    <3>1. IsJoin(0, parts, f)
      BY DEF IsJoin
    <3> QED
      BY <2>4, <2>5, <3>1
  <2>6. CASE m # 0
    <3>1. m - 1 \in Nat /\ m - 1 \notin S
      BY <2>3, <2>4, <2>6
    <3>2. PICK f : IsJoin(m - 1, parts, f)
      BY <3>1
    <3> DEFINE g == [k \in 0 .. m |-> IF k < m THEN f[k] ELSE f[m - 1] \o parts[m]]
    <3>3. \A k \in 0 .. m - 1 : f[k] = IF k = 0 THEN <<>> ELSE f[k - 1] \o parts[k]
      BY <3>2 DEF IsJoin
    <3>4. ASSUME NEW k \in 0 .. m
          PROVE  g[k] = IF k = 0 THEN <<>> ELSE g[k - 1] \o parts[k]
      <4>1. CASE k = m
        BY <2>4, <2>6, <4>1
      <4>2. CASE k < m
        <5>1. k \in 0 .. m - 1 /\ (k # 0 => k - 1 \in 0 .. m /\ k - 1 < m)
          BY <2>4, <4>2
        <5>2. g[k] = f[k] /\ (k # 0 => g[k - 1] = f[k - 1])
          BY <4>2, <5>1
        <5> HIDE DEF g
        <5> QED
          BY <3>3, <5>1, <5>2
      <4> QED
        BY <2>4, <4>1, <4>2
    <3>5. IsJoin(m, parts, g)
      <4>1. g = [k \in 0 .. m |-> g[k]]
        OBVIOUS
      <4> HIDE DEF g
      <4> QED
        BY <3>4, <4>1 DEF IsJoin
    <3> QED
      BY <2>4, <3>5
  <2> QED
    BY <2>5, <2>6
<1> QED
  BY <1>1

LEMMA SameJoins ==
  ASSUME NEW n \in Nat, NEW m \in Nat, n <= m, NEW p, NEW q, NEW f, NEW g,
         IsJoin(n, p, f), IsJoin(m, q, g), \A k \in 1 .. n : p[k] = q[k]
  PROVE  \A k \in 0 .. n : f[k] = g[k]
<1> DEFINE S == {a \in 0 .. n : f[a] # g[a]}
<1>1. /\ \A k \in 0 .. n : f[k] = IF k = 0 THEN <<>> ELSE f[k - 1] \o p[k]
      /\ \A k \in 0 .. m : g[k] = IF k = 0 THEN <<>> ELSE g[k - 1] \o q[k]
  BY DEF IsJoin
<1>2. S = {}
  <2>1. SUFFICES ASSUME S # {} PROVE FALSE
    OBVIOUS
  <2>2. S \in SUBSET Nat
    OBVIOUS
  <2>3. PICK a \in S : \A b \in S : a <= b
    <3> HIDE DEF S
    <3> QED
      BY <2>1, <2>2, SmallestMember
  <2>4. a \in 0 .. n /\ a \in 0 .. m /\ f[a] # g[a]
    OBVIOUS
  <2>5. a # 0
    BY <1>1, <2>4
  <2>6. a \in 1 .. n /\ a - 1 \in 0 .. n /\ a - 1 \notin S
    BY <2>3, <2>4, <2>5
  <2>7. f[a - 1] = g[a - 1]
    BY <2>6
  <2>8. f[a] = f[a - 1] \o p[a] /\ g[a] = g[a - 1] \o q[a]
    BY <1>1, <2>4, <2>5
  <2> QED
    BY <2>4, <2>6, <2>7, <2>8
<1> QED
  BY <1>2

(* Joined is the last value of the loop.                                   *)
LEMMA JoinedIs ==
  ASSUME NEW n \in Nat, NEW parts
  PROVE  \E f : IsJoin(n, parts, f) /\ Joined(n, parts) = f[n]
<1> DEFINE f == CHOOSE f : IsJoin(n, parts, f)
<1>1. IsJoin(n, parts, f)
  BY JoinExists
<1>2. Joined(n, parts) = f[n]
  BY DEF Joined, IsJoin
<1> HIDE DEF f
<1> QED
  BY <1>1, <1>2

LEMMA JoinedZero ==
  ASSUME NEW parts PROVE Joined(0, parts) = <<>>
<1>1. PICK f : IsJoin(0, parts, f) /\ Joined(0, parts) = f[0]
  BY JoinedIs
<1>2. f[0] = <<>>
  BY <1>1 DEF IsJoin
<1> QED
  BY <1>1, <1>2

LEMMA JoinedNext ==
  ASSUME NEW n \in Nat, NEW m \in Nat, m = n + 1, NEW parts
  PROVE  Joined(m, parts) = Joined(n, parts) \o parts[m]
<1>1. PICK f : IsJoin(n, parts, f) /\ Joined(n, parts) = f[n]
  BY JoinedIs
<1>2. PICK g : IsJoin(m, parts, g) /\ Joined(m, parts) = g[m]
  BY JoinedIs
<1>3. \A k \in 0 .. n : f[k] = g[k]
  BY <1>1, <1>2, SameJoins
<1>4. f[n] = g[n]
  BY <1>3
<1>5. g[m] = g[n] \o parts[m]
  <2>1. \A k \in 0 .. m : g[k] = IF k = 0 THEN <<>> ELSE g[k - 1] \o parts[k]
    BY <1>2 DEF IsJoin
  <2>2. m \in 0 .. m /\ m # 0 /\ m - 1 = n
    OBVIOUS
  <2> QED
    BY <2>1, <2>2
<1> QED
  BY <1>1, <1>2, <1>4, <1>5

LEMMA JoinedType ==
  ASSUME NEW n \in Nat, NEW parts, \A k \in 1 .. n : parts[k] \in Seq(Chars)
  PROVE  Joined(n, parts) \in Seq(Chars)
<1> DEFINE S == {a \in 0 .. n : Joined(a, parts) \notin Seq(Chars)}
<1>1. S = {}
  <2>1. SUFFICES ASSUME S # {} PROVE FALSE
    OBVIOUS
  <2>2. S \in SUBSET Nat
    OBVIOUS
  <2>3. PICK a \in S : \A b \in S : a <= b
    <3> HIDE DEF S
    <3> QED
      BY <2>1, <2>2, SmallestMember
  <2>4. a \in 0 .. n /\ Joined(a, parts) \notin Seq(Chars)
    OBVIOUS
  <2>5. a # 0
    <3>1. SUFFICES ASSUME a = 0 PROVE FALSE
      OBVIOUS
    <3>2. Joined(a, parts) = <<>>
      BY <3>1, JoinedZero
    <3>3. <<>> \in Seq(Chars)
      BY EmptySeq
    <3> QED
      BY <2>4, <3>2, <3>3
  <2>6. PICK b \in Nat : a = b + 1 /\ b \in 0 .. n /\ a \in 1 .. n /\ a \in Nat /\ b \notin S
    <3>1. a - 1 \in Nat /\ a = (a - 1) + 1 /\ a - 1 \in 0 .. n /\ a \in 1 .. n /\ a - 1 \notin S
      BY <2>3, <2>4, <2>5
    <3> QED
      BY <3>1
  <2>7. Joined(b, parts) \in Seq(Chars)
    BY <2>6
  <2>8. Joined(a, parts) = Joined(b, parts) \o parts[a]
    BY <2>6, JoinedNext
  <2>9. Joined(b, parts) \o parts[a] \in Seq(Chars)
    <3>1. parts[a] \in Seq(Chars)
      BY <2>6
    <3> QED
      BY <2>7, <3>1, ConcatProperties
  <2> QED
    BY <2>4, <2>8, <2>9
<1> QED
  BY <1>1

LEMMA Regroup ==
  ASSUME NEW u \in Seq(Chars), NEW v \in Seq(Chars), NEW w \in Seq(Chars)
  PROVE  (u \o v) \o w = u \o (v \o w)
<1>1. \A S : \A s, t, x \in Seq(S) : (s \o t) \o x = s \o (t \o x)
  BY ConcatAssociative
<1> QED
  BY <1>1

(* The first m of q continue p after its first n up to t, and are empty    *)
(* from there on.                                                          *)
Continues(n, m, t, p, q) ==
  /\ n \in Nat /\ m \in Nat /\ t \in Nat /\ n <= t /\ t <= n + m
  /\ \A k \in 1 .. t : p[k] \in Seq(Chars)
  /\ \A k \in 1 .. m : q[k] = IF n + k <= t THEN p[n + k] ELSE <<>>

LEMMA JoinedMore ==
  ASSUME NEW n \in Nat, NEW m \in Nat, NEW t \in Nat, NEW p, NEW q,
         Continues(n, m, t, p, q)
  PROVE  Joined(n, p) \o Joined(m, q) = Joined(t, p)
<1> /\ n <= t /\ t <= n + m
    /\ \A k \in 1 .. t : p[k] \in Seq(Chars)
    /\ \A k \in 1 .. m : q[k] = IF n + k <= t THEN p[n + k] ELSE <<>>
  BY DEF Continues
<1>0. PICK l \in 0 .. m : t = n + l
  <2>1. t - n \in 0 .. m /\ t = n + (t - n)
    OBVIOUS
  <2> QED
    BY <2>1
<1>9. /\ \A k \in 1 .. l : q[k] = p[n + k]
      /\ \A k \in l + 1 .. m : q[k] = <<>>
  BY <1>0
<1> DEFINE Reached(a, b) == IF a <= l THEN b = n + a ELSE b = t
           S == {a \in 0 .. m : \E b \in Nat : /\ Reached(a, b)
                                              /\ Joined(n, p) \o Joined(a, q) # Joined(b, p)}
<1>1. \A a \in Nat : a <= t => Joined(a, p) \in Seq(Chars)
  <2>1. SUFFICES ASSUME NEW a \in Nat, a <= t PROVE Joined(a, p) \in Seq(Chars)
    OBVIOUS
  <2>2. \A k \in 1 .. a : p[k] \in Seq(Chars)
    BY <2>1
  <2> QED
    BY <2>2, JoinedType
<1>2. \A k \in 1 .. m : q[k] \in Seq(Chars)
  <2>1. SUFFICES ASSUME NEW k \in 1 .. m PROVE q[k] \in Seq(Chars)
    OBVIOUS
  <2>2. CASE k <= l
    <3>1. k \in 1 .. l /\ n + k \in 1 .. t
      BY <1>0, <2>2
    <3> QED
      BY <1>9, <3>1
  <2>3. CASE k > l
    <3>1. k \in l + 1 .. m
      BY <2>3
    <3>2. <<>> \in Seq(Chars)
      BY EmptySeq
    <3> QED
      BY <1>9, <3>1, <3>2
  <2> QED
    BY <2>2, <2>3
<1>3. Joined(n, p) \in Seq(Chars)
  BY <1>1
<1>4. S = {}
  <2>1. SUFFICES ASSUME S # {} PROVE FALSE
    OBVIOUS
  <2>2. S \in SUBSET Nat
    OBVIOUS
  <2>3. PICK a \in S : \A b \in S : a <= b
    <3> HIDE DEF S
    <3> QED
      BY <2>1, <2>2, SmallestMember
  <2>4. PICK b \in Nat : Reached(a, b) /\ Joined(n, p) \o Joined(a, q) # Joined(b, p)
    OBVIOUS
  <2>5. a \in Nat /\ a <= m
    OBVIOUS
  <2>6. CASE a = 0
    <3>1. b = n
      BY <2>4, <2>6
    <3>2. Joined(a, q) = <<>>
      BY <2>6, JoinedZero
    <3> QED
      BY <1>3, <2>4, <3>1, <3>2, ConcatEmptySeq
  <2>7. CASE a # 0
    <3>1. PICK c \in Nat : a = c + 1
      <4>1. a - 1 \in Nat /\ a = (a - 1) + 1
        BY <2>5, <2>7
      <4> QED
        BY <4>1
    <3>2. c \notin S /\ c \in 0 .. m /\ a \in 1 .. m
      BY <2>3, <2>5, <3>1
    <3>3. \A d \in Nat : Reached(c, d) => Joined(n, p) \o Joined(c, q) = Joined(d, p)
      BY <3>2
    <3>4. Joined(a, q) = Joined(c, q) \o q[a]
      BY <2>5, <3>1, JoinedNext
    <3>5. Joined(c, q) \in Seq(Chars) /\ q[a] \in Seq(Chars)
      <4>1. \A k \in 1 .. c : q[k] \in Seq(Chars)
        BY <1>2, <2>5, <3>1
      <4> QED
        BY <1>2, <3>2, <4>1, JoinedType
    <3>6. Joined(n, p) \o Joined(a, q) = (Joined(n, p) \o Joined(c, q)) \o q[a]
      <4>1. PICK u \in Seq(Chars), v \in Seq(Chars), w \in Seq(Chars) :
              u = Joined(n, p) /\ v = Joined(c, q) /\ w = q[a]
        BY <1>3, <3>5
      <4>2. (u \o v) \o w = u \o (v \o w)
        BY Regroup
      <4> QED
        BY <3>4, <4>1, <4>2
    <3>7. CASE a <= l
      <4>1. PICK d \in Nat : d = n + c
        BY <3>1
      <4>2. Reached(c, d) /\ b = d + 1 /\ b = n + a /\ a \in 1 .. l
        BY <1>0, <2>4, <2>5, <3>1, <3>7, <4>1
      <4>3. q[a] = p[b]
        BY <1>9, <4>2
      <4>4. Joined(b, p) = Joined(d, p) \o p[b]
        BY <4>2, JoinedNext
      <4> HIDE DEF Reached
      <4> QED
        BY <2>4, <3>3, <3>6, <4>2, <4>3, <4>4
    <3>8. CASE a > l
      <4>1. Reached(c, t) /\ b = t /\ a \in l + 1 .. m
        BY <1>0, <2>4, <2>5, <3>1, <3>8
      <4>2. q[a] = <<>> /\ Joined(t, p) \in Seq(Chars)
        BY <1>1, <1>9, <4>1
      <4>3. Joined(n, p) \o Joined(c, q) = Joined(t, p)
        BY <3>3, <4>1
      <4>4. Joined(t, p) \o q[a] = Joined(t, p)
        BY <4>2, ConcatEmptySeq
      <4> HIDE DEF Reached
      <4> QED
        BY <2>4, <3>6, <4>1, <4>3, <4>4
    <3> QED
      BY <2>5, <3>7, <3>8
  <2> QED
    BY <2>6, <2>7
<1>5. m \in 0 .. m /\ Reached(m, t)
  BY <1>0
<1> HIDE DEF Reached
<1> QED
  BY <1>4, <1>5

(* The first m go on where the first n end.                                *)
GoesOn(n, m, p) == \E t \in Seq(Chars) : Joined(m, p) = Joined(n, p) \o t

LEMMA JoinedSplit ==
  ASSUME NEW n \in Nat, NEW m \in Nat, n <= m, NEW p,
         \A k \in 1 .. m : p[k] \in Seq(Chars)
  PROVE  GoesOn(n, m, p)
<1>1. PICK l \in Nat : m = n + l
  <2>1. m - n \in Nat /\ m = n + (m - n)
    OBVIOUS
  <2> QED
    BY <2>1
<1>2. PICK q : q = [k \in 1 .. l |-> p[n + k]]
  OBVIOUS
<1>3. \A k \in 1 .. l : q[k] = p[n + k]
  BY <1>2
<1>4. \A k \in 1 .. l : q[k] \in Seq(Chars)
  BY <1>1, <1>3
<1>5. \A k \in 1 .. l : q[k] = IF n + k <= m THEN p[n + k] ELSE <<>>
  BY <1>1, <1>3
<1>6. Joined(n, p) \o Joined(l, q) = Joined(m, p)
  <2>1. Continues(n, l, m, p, q)
    BY <1>1, <1>5 DEF Continues
  <2> QED
    BY <2>1, JoinedMore
<1>7. Joined(l, q) \in Seq(Chars)
  BY <1>4, JoinedType
<1> QED
  BY <1>6, <1>7 DEF GoesOn

LEMMA PrefixOf ==
  ASSUME NEW s \in Seq(Chars), NEW t \in Seq(Chars)
  PROVE  IsPrefix(s, s \o t)
<1> DEFINE u == s \o t
<1>1. /\ u \in Seq(Chars) /\ Len(u) = Len(s) + Len(t)
      /\ \A k \in 1 .. Len(s) + Len(t) : u[k] = IF k <= Len(s) THEN s[k] ELSE t[k - Len(s)]
  BY ConcatProperties
<1>2. Len(s) \in Nat /\ Len(t) \in Nat
  BY LenProperties
<1> HIDE DEF u
<1>3. Len(s) <= Len(u) /\ \A k \in 1 .. Len(s) : u[k] = s[k]
  BY <1>1, <1>2
<1>4. SubSeq(s, 1, Len(s)) = s
  BY SubSeqFull
<1>5. SubSeq(u, 1, Len(s)) = s
  <2>1. \A k \in 1 .. Len(s) : u[k] \in Chars
    BY <1>3, ElementOfSeq
  <2>2. /\ SubSeq(u, 1, Len(s)) \in Seq(Chars)
        /\ Len(SubSeq(u, 1, Len(s))) = IF 1 <= Len(s) THEN Len(s) - 1 + 1 ELSE 0
        /\ \A k \in 1 .. Len(s) - 1 + 1 : SubSeq(u, 1, Len(s))[k] = u[1 + k - 1]
    BY <1>2, <2>1, SubSeqProperties
  <2>3. PICK v \in Seq(Chars) : v = SubSeq(u, 1, Len(s))
    BY <2>2
  <2>4. Len(v) = Len(s) /\ \A k \in 1 .. Len(v) : v[k] = s[k]
    BY <1>2, <1>3, <2>2, <2>3
  <2>5. v = s
    BY <2>4, SeqEqual
  <2> QED
    BY <2>3, <2>5
<1>6. IsPrefix(s, u)
  BY <1>3, <1>4, <1>5 DEF IsPrefix
<1> QED
  BY <1>6 DEF u

-----------------------------------------------------------------------------
(* itoa writes the decimal numeral.                                        *)

LEMMA Tenth ==
  ASSUME NEW n \in Nat
  PROVE  /\ n \div 10 \in Nat /\ n % 10 \in 0 .. 9
         /\ n # 0 => n \div 10 < n
         /\ n < 10 => n \div 10 = 0 /\ n % 10 = n
         /\ n >= 10 => n \div 10 # 0
OBVIOUS

LEMMA DigitType ==
  ASSUME NEW d \in 0 .. 9 PROVE Digit[d] \in Chars
BY DEF Chars

DigitsUpTo(m, f) ==
  f = [n \in 0 .. m |-> IF n = 0 THEN <<>> ELSE <<Digit[n % 10]>> \o f[n \div 10]]

LEMMA DigitsExist ==
  ASSUME NEW n \in Nat
  PROVE  \E f : DigitsUpTo(n, f)
<1> DEFINE S == {m \in Nat : ~\E f : DigitsUpTo(m, f)}
<1>1. S = {}
  <2>1. SUFFICES ASSUME S # {} PROVE FALSE
    OBVIOUS
  <2>2. S \in SUBSET Nat
    OBVIOUS
  <2>3. PICK m \in S : \A a \in S : m <= a
    <3> HIDE DEF S
    <3> QED
      BY <2>1, <2>2, SmallestMember
  <2>4. m \in Nat /\ ~\E f : DigitsUpTo(m, f)
    OBVIOUS
  <2>5. CASE m = 0
    <3> DEFINE f == [k \in 0 .. 0 |-> <<>>]
    <3>1. DigitsUpTo(0, f)
      BY DEF DigitsUpTo
    <3> QED
      BY <2>4, <2>5, <3>1
  <2>6. CASE m # 0
    <3>1. m - 1 \in Nat /\ m - 1 \notin S
      BY <2>3, <2>4, <2>6
    <3>2. PICK f : DigitsUpTo(m - 1, f)
      BY <3>1
    <3> DEFINE Step(a, b) == IF a = 0 THEN <<>> ELSE <<Digit[a % 10]>> \o b
               g == [k \in 0 .. m |-> IF k < m THEN f[k] ELSE Step(m, f[m \div 10])]
    <3>3. \A k \in 0 .. m - 1 : f[k] = Step(k, f[k \div 10])
      BY <3>2 DEF DigitsUpTo
    <3> HIDE DEF Step
    <3>4. ASSUME NEW k \in 0 .. m
          PROVE  g[k] = Step(k, g[k \div 10])
      <4>1. k \div 10 \in 0 .. m /\ (k # 0 => k \div 10 < m)
        BY <2>4, Tenth
      <4>2. CASE k = m
        <5>1. g[k \div 10] = f[m \div 10]
          BY <2>6, <4>1, <4>2
        <5>2. g[k] = Step(m, f[m \div 10])
          BY <2>4, <4>2
        <5> QED
          BY <4>2, <5>1, <5>2
      <4>3. CASE k < m
        <5>1. k \in 0 .. m - 1 /\ g[k] = f[k]
          BY <2>4, <4>3
        <5>2. g[k \div 10] = f[k \div 10]
          <6>1. k \div 10 < m
            BY <4>1, <4>3, Tenth
          <6> QED
            BY <4>1, <6>1
        <5> HIDE DEF g
        <5> QED
          BY <3>3, <5>1, <5>2
      <4> QED
        BY <2>4, <4>2, <4>3
    <3>5. DigitsUpTo(m, g)
      <4>1. g = [k \in 0 .. m |-> g[k]]
        OBVIOUS
      <4> HIDE DEF g
      <4>2. g = [k \in 0 .. m |-> Step(k, g[k \div 10])]
        BY <3>4, <4>1
      <4> QED
        BY <4>2 DEF DigitsUpTo, Step
    <3> QED
      BY <2>4, <3>5
  <2> QED
    BY <2>5, <2>6
<1> QED
  BY <1>1

LEMMA OneDigits ==
  ASSUME NEW n \in Nat, NEW m \in Nat, n <= m, NEW f, NEW g,
         DigitsUpTo(n, f), DigitsUpTo(m, g)
  PROVE  \A k \in 0 .. n : f[k] = g[k]
<1> DEFINE S == {a \in 0 .. n : f[a] # g[a]}
           Step(a, b) == IF a = 0 THEN <<>> ELSE <<Digit[a % 10]>> \o b
<1>1. /\ \A k \in 0 .. n : f[k] = Step(k, f[k \div 10])
      /\ \A k \in 0 .. m : g[k] = Step(k, g[k \div 10])
  BY DEF DigitsUpTo
<1>2. S = {}
  <2>1. SUFFICES ASSUME S # {} PROVE FALSE
    OBVIOUS
  <2>2. S \in SUBSET Nat
    OBVIOUS
  <2>3. PICK a \in S : \A b \in S : a <= b
    <3> HIDE DEF S
    <3> QED
      BY <2>1, <2>2, SmallestMember
  <2>4. a \in 0 .. n /\ a \in 0 .. m /\ a \in Nat /\ f[a] # g[a]
    OBVIOUS
  <2>5. a # 0
    BY <1>1, <2>4
  <2>6. a \div 10 \in 0 .. n /\ a \div 10 \notin S
    BY <2>3, <2>4, <2>5, Tenth
  <2>7. f[a \div 10] = g[a \div 10]
    BY <2>6
  <2> HIDE DEF S, Step
  <2> QED
    BY <1>1, <2>4, <2>7
<1> QED
  BY <1>2

LEMMA DigitsAre ==
  /\ Digits[0] = <<>>
  /\ \A n \in Nat \ {0} : Digits[n] = <<Digit[n % 10]>> \o Digits[n \div 10]
<1> DEFINE Step(a, b) == IF a = 0 THEN <<>> ELSE <<Digit[a % 10]>> \o b
           upto(n) == CHOOSE f : DigitsUpTo(n, f)
           g == [n \in Nat |-> upto(n)[n]]
<1>1. \A n \in Nat : DigitsUpTo(n, upto(n))
  BY DigitsExist
<1> HIDE DEF upto
<1>2. ASSUME NEW n \in Nat PROVE g[n] = Step(n, g[n \div 10])
  <2>1. n \div 10 \in Nat /\ n \div 10 <= n /\ n \div 10 \in 0 .. n \div 10 /\ n \in 0 .. n
    BY Tenth
  <2>2. upto(n)[n] = Step(n, upto(n)[n \div 10])
    <3>1. \A k \in 0 .. n : upto(n)[k] = Step(k, upto(n)[k \div 10])
      BY <1>1 DEF DigitsUpTo
    <3> HIDE DEF Step
    <3> QED
      BY <2>1, <3>1
  <2>3. PICK m \in Nat : m = n \div 10
    BY <2>1
  <2>4. \A k \in 0 .. m : upto(m)[k] = upto(n)[k]
    BY <1>1, <2>1, <2>3, OneDigits
  <2>5. g[m] = upto(n)[m]
    BY <2>1, <2>3, <2>4
  <2>6. g[n] = upto(n)[n]
    OBVIOUS
  <2> HIDE DEF g, Step
  <2> QED
    BY <2>2, <2>3, <2>5, <2>6
<1>3. g = [n \in Nat |-> Step(n, g[n \div 10])]
  <2>1. g = [n \in Nat |-> g[n]]
    OBVIOUS
  <2> HIDE DEF g, Step
  <2> QED
    BY <1>2, <2>1
<1> HIDE DEF g
<1>4. Digits = [n \in Nat |-> Step(n, Digits[n \div 10])]
  BY <1>3 DEF Digits
<1>5. \A n \in Nat : Digits[n] = Step(n, Digits[n \div 10])
  <2> HIDE DEF Step
  <2> QED
    BY <1>4
<1> QED
  BY <1>5

LEMMA DigitsType ==
  ASSUME NEW n \in Nat PROVE Digits[n] \in Seq(Chars)
<1> DEFINE S == {a \in Nat : Digits[a] \notin Seq(Chars)}
<1>1. S = {}
  <2>1. SUFFICES ASSUME S # {} PROVE FALSE
    OBVIOUS
  <2>2. S \in SUBSET Nat
    OBVIOUS
  <2>3. PICK a \in S : \A b \in S : a <= b
    <3> HIDE DEF S
    <3> QED
      BY <2>1, <2>2, SmallestMember
  <2>4. a \in Nat /\ Digits[a] \notin Seq(Chars)
    OBVIOUS
  <2>5. a # 0
    BY <2>4, DigitsAre, EmptySeq
  <2>6. a \div 10 \in Nat /\ a \div 10 \notin S
    BY <2>3, <2>4, <2>5, Tenth
  <2>7. Digits[a \div 10] \in Seq(Chars)
    BY <2>6
  <2>8. <<Digit[a % 10]>> \in Seq(Chars)
    <3>1. a % 10 \in 0 .. 9
      BY <2>4, Tenth
    <3>2. Digit[a % 10] \in Chars
      BY <3>1, DigitType
    <3> QED
      BY <3>2
  <2>9. Digits[a] = <<Digit[a % 10]>> \o Digits[a \div 10]
    BY <2>4, <2>5, DigitsAre
  <2>10. <<Digit[a % 10]>> \o Digits[a \div 10] \in Seq(Chars)
    BY <2>7, <2>8, ConcatProperties
  <2> QED
    BY <2>4, <2>9, <2>10
<1> QED
  BY <1>1

LEMMA ReverseType ==
  ASSUME NEW s \in Seq(Chars)
  PROVE  Reverse(s) \in Seq(Chars) /\ Len(Reverse(s)) = Len(s)
<1>1. Len(s) \in Nat
  BY LenProperties
<1>2. \A k \in 1 .. Len(s) : s[(Len(s) - k) + 1] \in Chars
  BY <1>1, ElementOfSeq
<1>3. Reverse(s) = [k \in 1 .. Len(s) |-> s[(Len(s) - k) + 1]]
  BY DEF Reverse
<1> QED
  BY <1>1, <1>2, <1>3

LEMMA ReverseCons ==
  ASSUME NEW s \in Seq(Chars), NEW d \in Chars
  PROVE  Reverse(<<d>> \o s) = Append(Reverse(s), d)
<1> DEFINE u == <<d>> \o s
           v == Append(Reverse(s), d)
<1>1. Len(s) \in Nat
  BY LenProperties
<1>2. PICK e \in Seq(Chars) : e = <<d>>
  BY OneChar
<1>8. Len(e) = 1 /\ e[1] = d
  BY <1>2, OneChar
<1>9. u = e \o s
  BY <1>2
<1>3. /\ u \in Seq(Chars) /\ Len(u) = 1 + Len(s)
      /\ \A k \in 1 .. 1 + Len(s) : u[k] = IF k <= 1 THEN e[k] ELSE s[k - 1]
  BY <1>8, <1>9, ConcatProperties
<1>4. /\ v \in Seq(Chars) /\ Len(v) = Len(s) + 1
      /\ \A k \in 1 .. Len(s) + 1 : v[k] = IF k <= Len(s) THEN Reverse(s)[k] ELSE d
  <2>1. Reverse(s) \in Seq(Chars) /\ Len(Reverse(s)) = Len(s)
    BY ReverseType
  <2>2. PICK w \in Seq(Chars) : w = Reverse(s)
    BY <2>1
  <2>3. /\ Append(w, d) \in Seq(Chars) /\ Len(Append(w, d)) = Len(w) + 1
        /\ \A k \in 1 .. Len(w) + 1 : Append(w, d)[k] = IF k <= Len(w) THEN w[k] ELSE d
    <3>1. /\ Append(w, d) \in Seq(Chars) /\ Len(Append(w, d)) = Len(w) + 1
          /\ \A k \in 1 .. Len(w) : Append(w, d)[k] = w[k]
          /\ Append(w, d)[Len(w) + 1] = d
      BY AppendProperties
    <3> QED
      BY <1>1, <2>1, <2>2, <3>1
  <2> QED
    BY <2>1, <2>2, <2>3
<1> HIDE DEF u, v
<1>5. Reverse(u) \in Seq(Chars) /\ Len(Reverse(u)) = Len(u)
  BY <1>3, ReverseType
<1>6. ASSUME NEW k \in 1 .. Len(s) + 1 PROVE Reverse(u)[k] = v[k]
  <2>1. Reverse(u)[k] = u[(Len(u) - k) + 1]
    BY <1>1, <1>3 DEF Reverse
  <2>2. PICK j \in Nat : j = (Len(s) + 1 - k) + 1 /\ j \in 1 .. 1 + Len(s)
    <3>1. PICK l \in Nat : l = Len(s)
      BY <1>1
    <3>2. k \in 1 .. l + 1 /\ (l + 1 - k) + 1 \in Nat /\ (l + 1 - k) + 1 \in 1 .. 1 + l
      BY <3>1
    <3> QED
      BY <3>1, <3>2
  <2>3. Reverse(u)[k] = u[j]
    BY <1>1, <1>3, <2>1, <2>2
  <2>4. CASE k = Len(s) + 1
    <3>1. j = 1 /\ 1 \in 1 .. 1 + Len(s) /\ k \in 1 .. Len(s) + 1 /\ ~(k <= Len(s))
      BY <1>1, <2>2, <2>4
    <3>2. u[1] = d
      BY <1>3, <1>8, <3>1
    <3>3. v[k] = d
      BY <1>4, <3>1
    <3> QED
      BY <2>3, <3>1, <3>2, <3>3
  <2>5. CASE k <= Len(s)
    <3>1. j > 1 /\ j - 1 = (Len(s) - k) + 1 /\ k \in 1 .. Len(s)
      BY <1>1, <2>2, <2>5
    <3>2. u[j] = s[j - 1]
      BY <1>1, <1>3, <2>2, <3>1
    <3>3. Reverse(s)[k] = s[(Len(s) - k) + 1]
      BY <1>1, <3>1 DEF Reverse
    <3>4. v[k] = Reverse(s)[k]
      BY <1>1, <1>4, <2>5
    <3> QED
      BY <2>3, <3>1, <3>2, <3>3, <3>4
  <2> QED
    BY <1>1, <2>4, <2>5
<1>7. Reverse(u) = v
  <2>1. PICK w \in Seq(Chars) : w = Reverse(u)
    BY <1>5
  <2>2. Len(w) = Len(v) /\ \A k \in 1 .. Len(w) : w[k] = v[k]
    BY <1>1, <1>3, <1>4, <1>5, <1>6, <2>1
  <2>3. w = v
    BY <1>4, <2>2, SeqEqual
  <2> QED
    BY <2>1, <2>3
<1> QED
  BY <1>7 DEF u, v

LEMMA ItoaSteps ==
  ASSUME NEW n \in Nat
  PROVE  /\ itoa(n) \in Seq(Chars)
         /\ itoa(n) = IF n < 10 THEN <<Digit[n]>> ELSE Append(itoa(n \div 10), Digit[n % 10])
<1>1. CASE n = 0
  <2>1. itoa(n) = <<"0">>
    BY <1>1 DEF itoa
  <2>2. Digit[0] = "0"
    BY DEF Digit
  <2>3. itoa(n) = <<Digit[n]>> /\ n < 10
    BY <1>1, <2>1, <2>2
  <2>4. itoa(n) \in Seq(Chars)
    <3>1. Digit[n] \in Chars
      BY <1>1, DigitType
    <3> QED
      BY <2>3, <3>1, OneChar
  <2> QED
    BY <2>3, <2>4
<1>2. CASE n # 0
  <2>1. PICK t \in Nat : t = n \div 10
    BY Tenth
  <2>2. PICK d \in 0 .. 9 : d = n % 10
    BY Tenth
  <2>3. Digits[t] \in Seq(Chars) /\ Digit[d] \in Chars
    BY DigitsType, DigitType
  <2>4. itoa(n) = Append(Reverse(Digits[t]), Digit[d])
    <3>1. itoa(n) = Reverse(Digits[n])
      BY <1>2 DEF itoa
    <3>2. Digits[n] = <<Digit[d]>> \o Digits[t]
      BY <1>2, <2>1, <2>2, DigitsAre
    <3>3. Reverse(<<Digit[d]>> \o Digits[t]) = Append(Reverse(Digits[t]), Digit[d])
      BY <2>3, ReverseCons
    <3> QED
      BY <3>1, <3>2, <3>3
  <2>5. itoa(n) \in Seq(Chars)
    BY <2>3, <2>4, ReverseType
  <2>6. CASE n < 10
    <3>1. t = 0 /\ d = n
      BY <2>1, <2>2, <2>6, Tenth
    <3>2. Reverse(Digits[t]) = <<>>
      <4>1. Reverse(<<>>) = <<>>
        BY DEF Reverse
      <4> QED
        BY <3>1, <4>1, DigitsAre
    <3>3. itoa(n) = <<Digit[n]>>
      BY <2>4, <3>1, <3>2
    <3> QED
      BY <2>5, <2>6, <3>3
  <2>7. CASE n >= 10
    <3>1. t # 0
      BY <2>1, <2>7, Tenth
    <3>2. itoa(t) = Reverse(Digits[t])
      BY <3>1 DEF itoa
    <3> QED
      BY <2>1, <2>2, <2>4, <2>5, <2>7, <3>2
  <2> QED
    BY <2>6, <2>7
<1> QED
  BY <1>1, <1>2

(* ece391_itoa, which takes the digits from the lowest on and reverses the *)
(* string (ece391support.c:49), writes the decimal numeral.                *)
THEOREM ItoaIsNumeral ==
  ASSUME NEW n \in Nat
  PROVE  itoa(n) = Numeral[n] /\ Numeral[n] \in Seq(Chars)
<1> DEFINE Step(a, b) == IF a < 10 THEN <<Digit[a]>> ELSE Append(b, Digit[a % 10])
           g == [a \in Nat |-> itoa(a)]
           S == {a \in Nat : itoa(a) # Numeral[a]}
<1>1. \A a \in Nat : a \div 10 \in Nat
  BY Tenth
<1>2. \A a \in Nat : itoa(a) = Step(a, itoa(a \div 10))
  BY ItoaSteps
<1>3. g = [a \in Nat |-> Step(a, g[a \div 10])]
  <2>1. \A a \in Nat : g[a] = Step(a, g[a \div 10])
    <3>1. \A a \in Nat : g[a] = itoa(a) /\ g[a \div 10] = itoa(a \div 10)
      BY <1>1
    <3> HIDE DEF g, Step
    <3> QED
      BY <1>2, <3>1
  <2>2. g = [a \in Nat |-> g[a]]
    OBVIOUS
  <2> HIDE DEF g, Step
  <2> QED
    BY <2>1, <2>2
<1> HIDE DEF g
<1>4. Numeral = [a \in Nat |-> Step(a, Numeral[a \div 10])]
  BY <1>3 DEF Numeral
<1>5. \A a \in Nat : Numeral[a] = Step(a, Numeral[a \div 10])
  <2> HIDE DEF Step
  <2> QED
    BY <1>4
<1>6. S = {}
  <2>1. SUFFICES ASSUME S # {} PROVE FALSE
    OBVIOUS
  <2>2. S \in SUBSET Nat
    OBVIOUS
  <2>3. PICK a \in S : \A b \in S : a <= b
    <3> HIDE DEF S
    <3> QED
      BY <2>1, <2>2, SmallestMember
  <2>4. a \in Nat /\ itoa(a) # Numeral[a]
    OBVIOUS
  <2>5. a # 0
    <3>1. SUFFICES ASSUME a = 0 PROVE FALSE
      OBVIOUS
    <3>2. itoa(0) = <<Digit[0]>> /\ Numeral[0] = <<Digit[0]>>
      BY <1>2, <1>5
    <3> QED
      BY <2>4, <3>1, <3>2
  <2>6. a \div 10 \in Nat /\ a \div 10 \notin S
    BY <2>3, <2>4, <2>5, Tenth
  <2>7. itoa(a \div 10) = Numeral[a \div 10]
    BY <2>6
  <2> HIDE DEF Step
  <2> QED
    BY <1>2, <1>5, <2>4, <2>7
<1>7. itoa(n) = Numeral[n]
  BY <1>6
<1> QED
  BY <1>7, ItoaSteps

-----------------------------------------------------------------------------
(* Where something ends, and the words of a line.                          *)

LEMMA FirstStop ==
  ASSUME NEW m \in Nat, NEW n \in Nat, m <= n, NEW stops
  PROVE  \E k \in m .. n : (k = n \/ k \in stops) /\ \A j \in m .. k - 1 : j \notin stops
<1> DEFINE S == {k \in m .. n : k = n \/ k \in stops}
<1>1. n \in S /\ S \in SUBSET Nat
  OBVIOUS
<1>2. PICK k \in S : \A j \in S : k <= j
  <2> HIDE DEF S
  <2> QED
    BY <1>1, SmallestMember
<1>3. k \in m .. n /\ (k = n \/ k \in stops)
  OBVIOUS
<1>4. ASSUME NEW j \in m .. k - 1, j \in stops PROVE FALSE
  <2>1. j \in S
    BY <1>3, <1>4
  <2> QED
    BY <1>2, <1>3, <2>1
<1> QED
  BY <1>3, <1>4

IsBegin(s, from, k) ==
  /\ k \in from .. Len(s) + 1
  /\ k = Len(s) + 1 \/ s[k] # Space
  /\ \A j \in from .. k - 1 : s[j] = Space

IsEnd(s, from, c, k) ==
  /\ k \in from .. Len(s) + 1
  /\ k = Len(s) + 1 \/ s[k] = c
  /\ \A j \in from .. k - 1 : s[j] # c

LEMMA BeginIs ==
  ASSUME NEW s \in Seq(STRING), NEW from \in 1 .. Len(s) + 1
  PROVE  IsBegin(s, from, Begin(s, from))
<1>1. Len(s) \in Nat
  BY LenProperties
<1>2. PICK n \in Nat : n = Len(s) + 1 /\ from <= n
  BY <1>1
<1> DEFINE stops == {j \in from .. n : s[j] # Space}
<1>3. PICK k \in from .. n : (k = n \/ k \in stops) /\ \A j \in from .. k - 1 : j \notin stops
  <2> HIDE DEF stops
  <2>1. from \in Nat /\ from <= n
    BY <1>2
  <2> QED
    BY <2>1, FirstStop
<1>4. IsBegin(s, from, k)
  BY <1>1, <1>2, <1>3 DEF IsBegin
<1>5. \E j \in from .. Len(s) + 1 :
        /\ j = Len(s) + 1 \/ s[j] # Space
        /\ \A h \in from .. j - 1 : s[h] = Space
  BY <1>4 DEF IsBegin
<1> QED
  BY <1>5 DEF Begin, IsBegin

LEMMA EndExists ==
  ASSUME NEW s \in Seq(STRING), NEW from \in 1 .. Len(s) + 1, NEW c
  PROVE  \E k \in from .. Len(s) + 1 :
           /\ k = Len(s) + 1 \/ s[k] = c
           /\ \A j \in from .. k - 1 : s[j] # c
<1>1. Len(s) \in Nat
  BY LenProperties
<1>2. PICK n \in Nat : n = Len(s) + 1 /\ from <= n
  BY <1>1
<1> DEFINE stops == {j \in from .. n : s[j] = c}
<1>3. PICK k \in from .. n : (k = n \/ k \in stops) /\ \A j \in from .. k - 1 : j \notin stops
  <2> HIDE DEF stops
  <2>1. from \in Nat /\ from <= n
    BY <1>2
  <2> QED
    BY <2>1, FirstStop
<1>4. k \in from .. Len(s) + 1 /\ (k = Len(s) + 1 \/ s[k] = c)
  BY <1>1, <1>2, <1>3
<1>5. \A j \in from .. k - 1 : s[j] # c
  BY <1>1, <1>2, <1>3
<1> QED
  BY <1>4, <1>5

LEMMA EndIs ==
  ASSUME NEW s \in Seq(STRING), NEW from \in 1 .. Len(s) + 1
  PROVE  IsEnd(s, from, Space, End(s, from))
<1>1. \E k \in from .. Len(s) + 1 :
        /\ k = Len(s) + 1 \/ s[k] = Space
        /\ \A j \in from .. k - 1 : s[j] # Space
  BY EndExists
<1> QED
  BY <1>1 DEF End, IsEnd

LEMMA OneEnd ==
  ASSUME NEW s \in Seq(STRING), NEW from \in 1 .. Len(s) + 1, NEW c, NEW k, NEW l,
         IsEnd(s, from, c, k), IsEnd(s, from, c, l)
  PROVE  k = l
<1>1. Len(s) \in Nat
  BY LenProperties
<1>2. k \in from .. Len(s) + 1 /\ l \in from .. Len(s) + 1
  BY DEF IsEnd
<1>3. ~(k < l)
  <2>1. SUFFICES ASSUME k < l PROVE FALSE
    OBVIOUS
  <2>2. k \in from .. l - 1 /\ k # Len(s) + 1
    BY <1>1, <1>2, <2>1
  <2> QED
    BY <2>2 DEF IsEnd
<1>4. ~(l < k)
  <2>1. SUFFICES ASSUME l < k PROVE FALSE
    OBVIOUS
  <2>2. l \in from .. k - 1 /\ l # Len(s) + 1
    BY <1>1, <1>2, <2>1
  <2> QED
    BY <2>2 DEF IsEnd
<1> QED
  BY <1>1, <1>2, <1>3, <1>4

LEMMA UpToIs ==
  ASSUME NEW s \in Seq(STRING), NEW from \in 1 .. Len(s) + 1, NEW c, NEW k,
         IsEnd(s, from, c, k)
  PROVE  UpTo(s, from, c) = SubSeq(s, from, k - 1)
<1> DEFINE e == CHOOSE j \in from .. Len(s) + 1 :
                  /\ j = Len(s) + 1 \/ s[j] = c
                  /\ \A h \in from .. j - 1 : s[h] # c
<1>1. IsEnd(s, from, c, e)
  BY EndExists DEF IsEnd
<1>2. UpTo(s, from, c) = SubSeq(s, from, e - 1)
  BY DEF UpTo
<1> HIDE DEF e
<1>3. e = k
  BY <1>1, OneEnd
<1> QED
  BY <1>2, <1>3

LEMMA Pair ==
  ASSUME NEW a, NEW b, a # b
  PROVE  IsFiniteSet({a, b}) /\ Cardinality({a, b}) = 2
<1>1. IsFiniteSet({a}) /\ Cardinality({a}) = 1
  BY FS_Singleton
<1>2. b \notin {a} /\ {a} \cup {b} = {a, b}
  OBVIOUS
<1> QED
  BY <1>1, <1>2, FS_AddElement

LEMMA Triple ==
  ASSUME NEW a, NEW b, NEW c, a # b, a # c, b # c
  PROVE  IsFiniteSet({a, b, c}) /\ Cardinality({a, b, c}) = 3
<1>1. IsFiniteSet({a, b}) /\ Cardinality({a, b}) = 2
  BY Pair
<1>2. c \notin {a, b} /\ {a, b} \cup {c} = {a, b, c}
  OBVIOUS
<1> QED
  BY <1>1, <1>2, FS_AddElement

(* How many words begin up to a place.                                     *)
WordsUpTo(line, k) == Cardinality({j \in WordBegins(line) : j <= k})

LEMMA WordsFinite ==
  ASSUME NEW line \in Seq(STRING), NEW k, NEW T,
         T \subseteq {j \in WordBegins(line) : j <= k}
  PROVE  IsFiniteSet(T) /\ Cardinality(T) \in Nat /\ Cardinality(T) <= WordsUpTo(line, k)
<1> DEFINE B == {j \in WordBegins(line) : j <= k}
<1>1. Len(line) \in Nat
  BY LenProperties
<1>2. IsFiniteSet(1 .. Len(line))
  BY <1>1, FS_Interval
<1>3. B \subseteq 1 .. Len(line)
  BY DEF WordBegins
<1>4. IsFiniteSet(B)
  BY <1>2, <1>3, FS_Subset
<1>5. IsFiniteSet(T) /\ Cardinality(T) <= Cardinality(B)
  BY <1>4, FS_Subset
<1>6. Cardinality(T) \in Nat
  BY <1>5, FS_CardinalityType
<1> QED
  BY <1>5, <1>6 DEF WordsUpTo

LEMMA NoWord ==
  ASSUME NEW line, NEW n,
         \A k \in WordBegins(line) : WordsUpTo(line, k) # n
  PROVE  Word(line, n) = <<>>
<1>1. {k \in WordBegins(line) : Cardinality({j \in WordBegins(line) : j <= k}) = n} = {}
  BY DEF WordsUpTo
<1> QED
  BY <1>1 DEF Word

LEMMA TheWord ==
  ASSUME NEW line, NEW n, NEW k \in WordBegins(line), WordsUpTo(line, k) = n,
         \A j \in WordBegins(line) : WordsUpTo(line, j) = n => j = k
  PROVE  Word(line, n) = UpTo(line, k, Space)
<1> DEFINE nth == {j \in WordBegins(line) : WordsUpTo(line, j) = n}
<1>1. nth = {k}
  OBVIOUS
<1>2. Word(line, n) = UpTo(line, CHOOSE j \in nth : TRUE, Space)
  BY <1>1 DEF Word, WordsUpTo
<1>3. (CHOOSE j \in nth : TRUE) = k
  BY <1>1
<1> HIDE DEF nth
<1> QED
  BY <1>2, <1>3

(* The words before the first that begins at or after a place.             *)
LEMMA WordsCount ==
  ASSUME NEW line \in Seq(STRING), NEW k \in WordBegins(line), NEW a \in WordBegins(line),
         \A j \in WordBegins(line) : a <= j
  PROVE  /\ k = a => WordsUpTo(line, k) = 1
         /\ k # a => WordsUpTo(line, k) > 1
<1>1. k \in Nat /\ a \in Nat /\ a <= k
  BY DEF WordBegins
<1>2. ASSUME k = a PROVE WordsUpTo(line, k) = 1
  <2>1. {j \in WordBegins(line) : j <= k} = {a}
    <3>1. ASSUME NEW j \in WordBegins(line), j <= k PROVE j = a
      <4>1. j \in Nat /\ a <= j
        BY DEF WordBegins
      <4> QED
        BY <1>1, <1>2, <3>1, <4>1
    <3>2. a <= k
      BY <1>1
    <3> QED
      BY <3>1, <3>2
  <2> QED
    BY <2>1, FS_Singleton DEF WordsUpTo
<1>3. ASSUME k # a PROVE WordsUpTo(line, k) > 1
  <2>1. {a, k} \subseteq {j \in WordBegins(line) : j <= k}
    BY <1>1
  <2>2. PICK T : T = {a, k}
    OBVIOUS
  <2>3. Cardinality(T) = 2
    BY <1>3, <2>2, Pair
  <2>4. Cardinality(T) \in Nat /\ Cardinality(T) <= WordsUpTo(line, k)
    BY <2>1, <2>2, WordsFinite
  <2>5. WordsUpTo(line, k) \in Nat
    <3>1. {j \in WordBegins(line) : j <= k} \subseteq {j \in WordBegins(line) : j <= k}
      OBVIOUS
    <3> QED
      BY <3>1, WordsFinite DEF WordsUpTo
  <2> QED
    BY <2>3, <2>4, <2>5
<1> QED
  BY <1>2, <1>3

(* The first word begins where parse_command looks for it.                 *)
LEMMA FirstBegins ==
  ASSUME NEW line \in Seq(STRING), NEW start, IsBegin(line, 1, start)
  PROVE  /\ start \in 1 .. Len(line) + 1
         /\ \A j \in WordBegins(line) : start <= j
         /\ start # Len(line) + 1 => start \in WordBegins(line)
<1>1. Len(line) \in Nat
  BY LenProperties
<1>2. start \in 1 .. Len(line) + 1
  BY DEF IsBegin
<1>3. ASSUME NEW j \in WordBegins(line) PROVE start <= j
  <2>1. j \in 1 .. Len(line) /\ line[j] # Space
    BY DEF WordBegins
  <2>2. ~(j \in 1 .. start - 1)
    BY <2>1 DEF IsBegin
  <2> QED
    BY <1>1, <1>2, <2>1, <2>2
<1>4. ASSUME start # Len(line) + 1 PROVE start \in WordBegins(line)
  <2>1. start \in 1 .. Len(line) /\ line[start] # Space
    BY <1>1, <1>2, <1>4 DEF IsBegin
  <2>2. start # 1 => line[start - 1] = Space
    <3>1. start # 1 => start - 1 \in 1 .. start - 1
      BY <2>1
    <3> QED
      BY <3>1 DEF IsBegin
  <2> QED
    BY <2>1, <2>2 DEF WordBegins
<1> QED
  BY <1>2, <1>3, <1>4

LEMMA FirstWord ==
  ASSUME NEW line \in Seq(STRING), NEW start, IsBegin(line, 1, start),
         NEW end, IsEnd(line, start, Space, end)
  PROVE  SubSeq(line, start, end - 1) = Word(line, 1)
<1>1. Len(line) \in Nat /\ start \in 1 .. Len(line) + 1 /\ end \in start .. Len(line) + 1
  BY LenProperties, FirstBegins DEF IsEnd
<1>2. CASE start = Len(line) + 1
  <2>1. WordBegins(line) = {}
    <3>1. SUFFICES ASSUME NEW j \in WordBegins(line) PROVE FALSE
      OBVIOUS
    <3>2. start <= j
      BY FirstBegins
    <3>3. j \in 1 .. Len(line)
      BY DEF WordBegins
    <3> QED
      BY <1>1, <1>2, <3>2, <3>3
  <2>2. Word(line, 1) = <<>>
    BY <2>1, NoWord
  <2>3. SubSeq(line, start, end - 1) = <<>>
    <3>1. start \in Int /\ end - 1 \in Int /\ end - 1 < start
      BY <1>1, <1>2
    <3> QED
      BY <3>1, SubSeqEmpty
  <2> QED
    BY <2>2, <2>3
<1>3. CASE start # Len(line) + 1
  <2>1. start \in WordBegins(line) /\ \A j \in WordBegins(line) : start <= j
    BY <1>3, FirstBegins
  <2>2. WordsUpTo(line, start) = 1
    BY <2>1, WordsCount
  <2>3. ASSUME NEW j \in WordBegins(line), WordsUpTo(line, j) = 1 PROVE j = start
    <3>1. j # start => WordsUpTo(line, j) > 1
      BY <2>1, WordsCount
    <3> QED
      BY <2>3, <3>1
  <2>4. Word(line, 1) = UpTo(line, start, Space)
    BY <2>1, <2>2, <2>3, TheWord
  <2> QED
    BY <1>1, <2>4, UpToIs
<1> QED
  BY <1>2, <1>3

LEMMA SecondWord ==
  ASSUME NEW line \in Seq(STRING), NEW start, IsBegin(line, 1, start),
         NEW end, IsEnd(line, start, Space, end), NEW arg, IsBegin(line, end, arg),
         NEW stop, IsEnd(line, arg, Space, stop)
  PROVE  SubSeq(line, arg, stop - 1) = Word(line, 2)
<1>1. /\ Len(line) \in Nat /\ start \in 1 .. Len(line) + 1 /\ end \in start .. Len(line) + 1
      /\ arg \in end .. Len(line) + 1 /\ stop \in arg .. Len(line) + 1
  BY LenProperties, FirstBegins DEF IsEnd, IsBegin
<1>2. \A j \in WordBegins(line) : start <= j /\ j \in 1 .. Len(line)
  BY FirstBegins DEF WordBegins
<1>3. ASSUME NEW j \in WordBegins(line), j # start PROVE arg <= j
  <2>1. start < j /\ j \in 1 .. Len(line) /\ j - 1 \in 1 .. Len(line) /\ j # 1
    BY <1>1, <1>2, <1>3
  <2>2. line[j] # Space /\ line[j - 1] = Space
    BY <2>1 DEF WordBegins
  <2>3. ~(j - 1 \in start .. end - 1)
    BY <2>2 DEF IsEnd
  <2>4. ~(j \in end .. arg - 1)
    BY <2>2 DEF IsBegin
  <2> QED
    BY <1>1, <2>1, <2>3, <2>4
<1>4. ASSUME NEW a \in WordBegins(line), a = start PROVE WordsUpTo(line, a) = 1
  BY <1>2, <1>4, WordsCount
<1>5. CASE arg = Len(line) + 1
  <2>1. ASSUME NEW j \in WordBegins(line) PROVE WordsUpTo(line, j) # 2
    <3>1. j \in 1 .. Len(line)
      BY <1>2
    <3>2. ~(arg <= j)
      BY <1>1, <1>5, <3>1
    <3>3. j = start
      BY <1>3, <3>2
    <3>4. WordsUpTo(line, j) = 1
      BY <1>4, <3>3
    <3> QED
      BY <3>4
  <2>2. Word(line, 2) = <<>>
    BY <2>1, NoWord
  <2>3. SubSeq(line, arg, stop - 1) = <<>>
    <3>1. arg \in Int /\ stop - 1 \in Int /\ stop - 1 < arg
      BY <1>1, <1>5
    <3> QED
      BY <3>1, SubSeqEmpty
  <2> QED
    BY <2>2, <2>3
<1>6. CASE arg # Len(line) + 1
  <2>1. arg \in 1 .. Len(line) /\ line[arg] # Space
    BY <1>1, <1>6 DEF IsBegin
  <2>2. end \in 1 .. Len(line) /\ line[end] = Space
    <3>1. end \in 1 .. Len(line) /\ end # Len(line) + 1
      BY <1>1, <2>1
    <3> QED
      BY <3>1 DEF IsEnd
  <2>3. end < arg /\ arg - 1 \in end .. arg - 1 /\ arg # 1 /\ start < arg
    BY <1>1, <2>1, <2>2
  <2>4. line[arg - 1] = Space
    BY <2>3 DEF IsBegin
  <2>5. arg \in WordBegins(line)
    BY <2>1, <2>4 DEF WordBegins
  <2>6. start \in WordBegins(line)
    <3>1. start # Len(line) + 1
      BY <1>1, <2>1, <2>3
    <3> QED
      BY <3>1, FirstBegins
  <2>7. WordsUpTo(line, arg) = 2
    <3>1. {j \in WordBegins(line) : j <= arg} = {start, arg}
      <4>1. ASSUME NEW j \in WordBegins(line), j <= arg PROVE j \in {start, arg}
        <5>1. j \in 1 .. Len(line)
          BY <1>2
        <5>2. j # start => j = arg
          BY <1>1, <1>3, <4>1, <5>1
        <5> QED
          BY <5>2
      <4>2. start <= arg /\ arg <= arg
        BY <1>1, <2>3
      <4> QED
        BY <2>5, <2>6, <4>1, <4>2
    <3>2. start # arg
      BY <1>1, <2>3
    <3>3. Cardinality({start, arg}) = 2
      BY <3>2, Pair
    <3> QED
      BY <3>1, <3>3 DEF WordsUpTo
  <2>8. ASSUME NEW j \in WordBegins(line), WordsUpTo(line, j) = 2 PROVE j = arg
    <3>1. SUFFICES ASSUME j # arg PROVE FALSE
      OBVIOUS
    <3>2. j # start
      <4>1. j = start => WordsUpTo(line, j) = 1
        BY <1>4
      <4> QED
        BY <2>8, <4>1
    <3>3. arg <= j /\ j \in 1 .. Len(line)
      BY <1>2, <1>3, <3>2
    <3>4. PICK T : T = {start, arg, j}
      OBVIOUS
    <3>5. Cardinality(T) = 3
      <4>1. start # arg
        BY <1>1, <2>3
      <4> QED
        BY <3>1, <3>2, <3>4, <4>1, Triple
    <3>6. T \subseteq {h \in WordBegins(line) : h <= j}
      <4>1. start <= j /\ arg <= j /\ j <= j
        BY <1>1, <2>3, <3>3
      <4> QED
        BY <2>5, <2>6, <3>4, <4>1
    <3>7. Cardinality(T) <= WordsUpTo(line, j)
      BY <3>6, WordsFinite
    <3> QED
      BY <2>8, <3>5, <3>7
  <2>9. Word(line, 2) = UpTo(line, arg, Space)
    BY <2>5, <2>7, <2>8, TheWord
  <2> QED
    BY <1>1, <2>9, UpToIs
<1> QED
  BY <1>5, <1>6

(* parse_command's two scans (system_call.c:197) give the first and the    *)
(* second word of the line, wherever its spaces are, each cut to its limit.*)
THEOREM ParseRight ==
  ASSUME NEW line \in Seq(STRING)
  PROVE  parse_command(line) = [file_name |-> Command(line), request_command |-> Argument(line)]
<1> DEFINE start == Begin(line, 1)
           end == End(line, start)
           arg == Begin(line, end)
           stop == End(line, arg)
<1>1. Len(line) \in Nat
  BY LenProperties
<1>2. IsBegin(line, 1, start)
  <2>1. 1 \in 1 .. Len(line) + 1
    BY <1>1
  <2> QED
    BY <2>1, BeginIs
<1>3. start \in 1 .. Len(line) + 1
  BY <1>2 DEF IsBegin
<1>4. IsEnd(line, start, Space, end)
  BY <1>3, EndIs
<1>5. end \in 1 .. Len(line) + 1
  BY <1>1, <1>3, <1>4 DEF IsEnd
<1>6. IsBegin(line, end, arg)
  BY <1>5, BeginIs
<1>7. arg \in 1 .. Len(line) + 1
  BY <1>1, <1>5, <1>6 DEF IsBegin
<1>8. IsEnd(line, arg, Space, stop)
  BY <1>7, EndIs
<1>9. parse_command(line) =
        [file_name |-> Cut(SubSeq(line, start, end - 1), MAXIMUM_FILENAME_LENGTH - 1),
         request_command |-> Cut(SubSeq(line, arg, stop - 1), Maximum_command_length - 1)]
  BY DEF parse_command
<1> HIDE DEF start, end, arg, stop
<1>10. SubSeq(line, start, end - 1) = Word(line, 1)
  BY <1>2, <1>4, FirstWord
<1>11. SubSeq(line, arg, stop - 1) = Word(line, 2)
  BY <1>2, <1>4, <1>6, <1>8, SecondWord
<1> QED
  BY <1>9, <1>10, <1>11 DEF Command, Argument

LEMMA Slice ==
  ASSUME NEW S, NEW s \in Seq(S), NEW from \in 1 .. Len(s) + 1, NEW to \in from - 1 .. Len(s)
  PROVE  /\ SubSeq(s, from, to) \in Seq(S)
         /\ Len(SubSeq(s, from, to)) = to - from + 1
         /\ \A k \in 1 .. to - from + 1 : SubSeq(s, from, to)[k] = s[from + k - 1]
<1>1. Len(s) \in Nat
  BY LenProperties
<1>2. from \in Int /\ to \in Int
  BY <1>1
<1>3. \A k \in from .. to : s[k] \in S
  <2>1. SUFFICES ASSUME NEW k \in from .. to PROVE s[k] \in S
    OBVIOUS
  <2>2. k \in 1 .. Len(s)
    BY <1>1
  <2> QED
    BY <2>2, ElementOfSeq
<1>4. /\ SubSeq(s, from, to) \in Seq(S)
      /\ Len(SubSeq(s, from, to)) = IF from <= to THEN to - from + 1 ELSE 0
      /\ \A k \in 1 .. to - from + 1 : SubSeq(s, from, to)[k] = s[from + k - 1]
  BY <1>2, <1>3, SubSeqProperties
<1>5. (IF from <= to THEN to - from + 1 ELSE 0) = to - from + 1
  BY <1>1, <1>2
<1> QED
  BY <1>4, <1>5

LEMMA CutIs ==
  ASSUME NEW S, NEW s \in Seq(S), NEW n \in Nat
  PROVE  /\ Cut(s, n) \in Seq(S)
         /\ Len(Cut(s, n)) = IF Len(s) < n THEN Len(s) ELSE n
         /\ \A k \in 1 .. Len(Cut(s, n)) : k \in 1 .. Len(s) /\ Cut(s, n)[k] = s[k]
<1>1. Len(s) \in Nat
  BY LenProperties
<1>2. PICK m \in 0 .. Len(s) : m = IF Len(s) < n THEN Len(s) ELSE n
  BY <1>1
<1>3. Cut(s, n) = SubSeq(s, 1, m)
  BY <1>2 DEF Cut
<1>4. 1 \in 1 .. Len(s) + 1 /\ m \in 1 - 1 .. Len(s)
  BY <1>1
<1>5. /\ SubSeq(s, 1, m) \in Seq(S)
      /\ Len(SubSeq(s, 1, m)) = m - 1 + 1
      /\ \A k \in 1 .. m - 1 + 1 : SubSeq(s, 1, m)[k] = s[1 + k - 1]
  BY <1>4, Slice
<1>6. m - 1 + 1 = m /\ m \in Nat
  BY <1>1
<1>7. ASSUME NEW k \in 1 .. m PROVE k \in 1 .. Len(s) /\ SubSeq(s, 1, m)[k] = s[k]
  <2>1. 1 + k - 1 = k /\ k \in 1 .. Len(s)
    BY <1>1
  <2> QED
    BY <1>5, <1>6, <2>1
<1> QED
  BY <1>2, <1>3, <1>5, <1>6, <1>7

Plain(s) == s \in Seq(STRING) /\ \A k \in 1 .. Len(s) : s[k] # NUL

LEMMA WordPlain ==
  ASSUME NEW line, Plain(line), NEW n
  PROVE  Plain(Word(line, n))
<1>1. line \in Seq(STRING) /\ Len(line) \in Nat
  BY LenProperties DEF Plain
<1> DEFINE nth == {k \in WordBegins(line) : Cardinality({j \in WordBegins(line) : j <= k}) = n}
           k == CHOOSE k \in nth : TRUE
<1>2. CASE nth = {}
  <2>1. Word(line, n) = <<>>
    BY <1>2 DEF Word
  <2>2. <<>> \in Seq(STRING) /\ Len(<<>>) = 0
    BY EmptySeq
  <2> QED
    BY <2>1, <2>2 DEF Plain
<1>3. CASE nth # {}
  <2>1. Word(line, n) = UpTo(line, k, Space)
    BY <1>3 DEF Word
  <2>2. k \in WordBegins(line)
    BY <1>3
  <2> HIDE DEF k, nth
  <2>3. k \in 1 .. Len(line) + 1
    BY <1>1, <2>2 DEF WordBegins
  <2>4. PICK e : IsEnd(line, k, Space, e)
    <3>1. \E e \in k .. Len(line) + 1 :
            /\ e = Len(line) + 1 \/ line[e] = Space
            /\ \A j \in k .. e - 1 : line[j] # Space
      BY <1>1, <2>3, EndExists
    <3> QED
      BY <3>1 DEF IsEnd
  <2>5. PICK to \in k - 1 .. Len(line) : to = e - 1
    BY <1>1, <2>3, <2>4 DEF IsEnd
  <2>6. UpTo(line, k, Space) = SubSeq(line, k, to)
    BY <1>1, <2>3, <2>4, <2>5, UpToIs
  <2>7. PICK w : w = SubSeq(line, k, to)
    OBVIOUS
  <2>8. /\ w \in Seq(STRING) /\ Len(w) = to - k + 1
        /\ \A j \in 1 .. to - k + 1 : w[j] = line[k + j - 1]
    BY <1>1, <2>3, <2>5, <2>7, Slice
  <2>9. ASSUME NEW j \in 1 .. Len(w) PROVE w[j] # NUL
    <3>1. k + j - 1 \in 1 .. Len(line) /\ j \in 1 .. to - k + 1
      BY <1>1, <2>3, <2>5, <2>8
    <3> QED
      BY <2>8, <3>1 DEF Plain
  <2> QED
    BY <2>1, <2>6, <2>7, <2>8, <2>9 DEF Plain
<1> QED
  BY <1>2, <1>3

LEMMA ArgumentPlain ==
  ASSUME NEW line, Plain(line)
  PROVE  Plain(Argument(line))
<1>1. PICK n \in Nat : n = Maximum_command_length - 1
  BY ProgramsAssumption
<1>2. PICK w : w = Word(line, 2)
  OBVIOUS
<1>3. Plain(w) /\ w \in Seq(STRING)
  BY <1>2, WordPlain DEF Plain
<1>4. Argument(line) = Cut(w, n)
  BY <1>1, <1>2 DEF Argument
<1>5. /\ Cut(w, n) \in Seq(STRING)
      /\ \A k \in 1 .. Len(Cut(w, n)) : k \in 1 .. Len(w) /\ Cut(w, n)[k] = w[k]
  BY <1>3, CutIs
<1> QED
  BY <1>3, <1>4, <1>5 DEF Plain

-----------------------------------------------------------------------------
(* A round of grep.  The buffer holds the bytes of the file from a place   *)
(* on, as far as it is filled.                                             *)

InBuffer(b, p, buf, filled, cnt) ==
  /\ b \in Seq(STRING) /\ PlainText(b)
  /\ p \in 0 .. Len(b) /\ filled \in 0 .. BUFSIZE /\ cnt \in Nat
  /\ p + filled <= Len(b)
  /\ Framed(buf)
  /\ \A k \in 0 .. filled - 1 : buf[k] = b[p + k + 1]
  /\ p = 0 \/ b[p] = NL \/ p = Len(b) \/ b[p + 1] = NL
  /\ cnt = 0 => p + filled = Len(b)
  /\ filled = BUFSIZE \/ p + filled = Len(b)

LEMMA BufferSize == BUFSIZE \in Nat /\ BUFSIZE > 0
BY ProgramsAssumption

LEMMA LargestMember ==
  ASSUME NEW n \in Nat, NEW S \in SUBSET (0 .. n), S # {}
  PROVE  \E m \in S : \A k \in S : k <= m
<1> DEFINE T == {n - k : k \in S}
<1>1. T \in SUBSET Nat /\ T # {}
  <2>1. \A k \in S : n - k \in Nat
    OBVIOUS
  <2>2. PICK k : k \in S
    OBVIOUS
  <2>3. n - k \in T
    BY <2>2
  <2> QED
    BY <2>1, <2>3
<1>2. PICK t \in T : \A u \in T : t <= u
  <2> HIDE DEF T
  <2> QED
    BY <1>1, SmallestMember
<1>3. PICK m \in S : t = n - m
  OBVIOUS
<1>4. ASSUME NEW k \in S PROVE k <= m
  <2>1. n - k \in T /\ k \in 0 .. n /\ m \in 0 .. n
    OBVIOUS
  <2>2. n - m <= n - k
    BY <1>2, <1>3, <2>1
  <2> QED
    BY <2>1, <2>2
<1> QED
  BY <1>4

IsLineEnd(buf, start, filled, k) ==
  /\ k \in start .. filled
  /\ k = filled \/ buf[k] = NL
  /\ \A j \in start .. k - 1 : buf[j] # NL

LEMMA LineEndIs ==
  ASSUME NEW buf, NEW filled \in Nat, NEW start \in 0 .. filled
  PROVE  IsLineEnd(buf, start, filled, LineEnd(buf, start, filled))
<1> DEFINE stops == {j \in start .. filled : buf[j] = NL}
<1>1. PICK k \in start .. filled : (k = filled \/ k \in stops) /\ \A j \in start .. k - 1 : j \notin stops
  <2> HIDE DEF stops
  <2>1. start \in Nat /\ start <= filled
    OBVIOUS
  <2> QED
    BY <2>1, FirstStop
<1>2. \E j \in start .. filled :
        /\ j = filled \/ buf[j] = NL
        /\ \A h \in start .. j - 1 : buf[h] # NL
  <2>1. \A j \in start .. k - 1 : buf[j] # NL
    BY <1>1
  <2> QED
    BY <1>1, <2>1
<1> QED
  BY <1>2 DEF LineEnd, IsLineEnd

LEMMA OneLineEnd ==
  ASSUME NEW buf, NEW filled \in Nat, NEW start \in 0 .. filled, NEW k, NEW l,
         IsLineEnd(buf, start, filled, k), IsLineEnd(buf, start, filled, l)
  PROVE  k = l
<1>1. k \in start .. filled /\ l \in start .. filled
  BY DEF IsLineEnd
<1>2. ~(k < l)
  <2>1. SUFFICES ASSUME k < l PROVE FALSE
    OBVIOUS
  <2>2. k \in start .. l - 1 /\ k # filled
    BY <1>1, <2>1
  <2> QED
    BY <2>2 DEF IsLineEnd
<1>3. ~(l < k)
  <2>1. SUFFICES ASSUME l < k PROVE FALSE
    OBVIOUS
  <2>2. l \in start .. k - 1 /\ l # filled
    BY <1>1, <2>1
  <2> QED
    BY <2>2 DEF IsLineEnd
<1> QED
  BY <1>1, <1>2, <1>3

LEMMA StartsIn ==
  ASSUME NEW buf, NEW filled \in Nat
  PROVE  /\ Starts(buf, filled) \subseteq 0 .. filled
         /\ 0 \in Starts(buf, filled)
         /\ \A k \in Starts(buf, filled) : k < filled \/ k = 0
         /\ \A k \in 1 .. filled - 1 : k \in Starts(buf, filled) <=> buf[k - 1] = NL
BY DEF Starts

LEMMA LastStartIs ==
  ASSUME NEW buf, NEW filled \in Nat
  PROVE  /\ LastStart(buf, filled) \in Starts(buf, filled)
         /\ \A k \in Starts(buf, filled) : k <= LastStart(buf, filled)
<1>1. \E m \in Starts(buf, filled) : \A k \in Starts(buf, filled) : k <= m
  BY StartsIn, LargestMember
<1> QED
  BY <1>1 DEF LastStart

LEMMA SplitIs ==
  ASSUME NEW buf, NEW filled \in 0 .. BUFSIZE, Framed(buf)
  PROVE  /\ Framed(Split(buf, filled)) /\ DOMAIN Split(buf, filled) = 0 .. BUFSIZE
         /\ \A s \in Starts(buf, filled) :
              /\ Split(buf, filled)[LineEnd(buf, s, filled)] = NUL
              /\ \A k \in s .. LineEnd(buf, s, filled) - 1 : Split(buf, filled)[k] = buf[k]
<1> DEFINE ends == {LineEnd(buf, s, filled) : s \in Starts(buf, filled)}
           lines == Split(buf, filled)
<1>1. filled \in Nat /\ filled <= BUFSIZE /\ BUFSIZE \in Nat
  BY BufferSize
<1>2. lines = [k \in 0 .. BUFSIZE |-> IF k \in ends THEN NUL ELSE buf[k]]
  BY DEF Split, Framed
<1>3. \A s \in Starts(buf, filled) : IsLineEnd(buf, s, filled, LineEnd(buf, s, filled))
  <2>1. SUFFICES ASSUME NEW s \in Starts(buf, filled)
                 PROVE  IsLineEnd(buf, s, filled, LineEnd(buf, s, filled))
    OBVIOUS
  <2>2. s \in 0 .. filled
    BY <1>1, StartsIn
  <2> QED
    BY <1>1, <2>2, LineEndIs
<1>4. \A e \in ends : e = filled \/ buf[e] = NL
  BY <1>3 DEF IsLineEnd
<1>5. lines[BUFSIZE] # NL
  <2>1. BUFSIZE \in 0 .. BUFSIZE
    BY <1>1
  <2>2. lines[BUFSIZE] = NUL \/ lines[BUFSIZE] = buf[BUFSIZE]
    BY <1>2, <2>1
  <2> QED
    BY <2>2 DEF Framed, NUL, NL
<1>6. ASSUME NEW s \in Starts(buf, filled)
      PROVE  /\ lines[LineEnd(buf, s, filled)] = NUL
             /\ \A k \in s .. LineEnd(buf, s, filled) - 1 : lines[k] = buf[k]
  <2>1. PICK e : e = LineEnd(buf, s, filled)
    OBVIOUS
  <2>2. s \in 0 .. filled /\ e \in ends /\ IsLineEnd(buf, s, filled, e)
    BY <1>1, <1>3, <2>1, StartsIn
  <2>3. e \in 0 .. BUFSIZE /\ e \in s .. filled
    BY <1>1, <2>2 DEF IsLineEnd
  <2>4. ASSUME NEW k \in s .. e - 1 PROVE lines[k] = buf[k]
    <3>1. k \in 0 .. BUFSIZE /\ k # filled /\ buf[k] # NL
      BY <1>1, <2>2, <2>3 DEF IsLineEnd
    <3>2. k \notin ends
      BY <1>4, <3>1
    <3> QED
      BY <1>2, <3>1, <3>2
  <2>5. lines[e] = NUL
    BY <1>2, <2>2, <2>3
  <2> QED
    BY <2>1, <2>4, <2>5
<1>7. DOMAIN lines = 0 .. BUFSIZE
  BY <1>2
<1>8. Framed(lines)
  BY <1>5, <1>7 DEF Framed
<1> QED
  BY <1>6, <1>7, <1>8

(* A line of the buffer is one of the file, up to where the buffer is      *)
(* filled.                                                                 *)
IsLine(b, p, buf, s, e, line) ==
  /\ line \in Seq(STRING) /\ Len(line) = e - s
  /\ line = SubSeq(b, p + s + 1, p + e)
  /\ \A k \in 1 .. e - s : line[k] = buf[s + k - 1] /\ line[k] # NUL /\ line[k] # NL

LEMMA LineIs ==
  ASSUME NEW b, NEW p, NEW buf, NEW filled, NEW cnt, InBuffer(b, p, buf, filled, cnt),
         NEW s \in Starts(buf, filled), NEW e, e = LineEnd(buf, s, filled)
  PROVE  /\ s \in Nat /\ e \in s .. filled
         /\ IsLine(b, p, buf, s, e, SubSeq(b, p + s + 1, p + e))
<1>1. /\ b \in Seq(STRING) /\ Len(b) \in Nat /\ p \in Nat /\ filled \in Nat /\ filled <= BUFSIZE
      /\ p + filled <= Len(b)
  BY LenProperties, BufferSize DEF InBuffer, PlainText
<1>2. s \in 0 .. filled
  BY <1>1, StartsIn
<1>3. IsLineEnd(buf, s, filled, e)
  BY <1>1, <1>2, LineEndIs
<1>4. e \in s .. filled /\ s \in Nat /\ e \in Nat
  BY <1>1, <1>2, <1>3 DEF IsLineEnd
<1>5. PICK from \in 1 .. Len(b) + 1, to \in Int :
        from = p + s + 1 /\ to = p + e /\ to \in from - 1 .. Len(b)
  <2>1. p + s + 1 \in 1 .. Len(b) + 1 /\ p + e \in Int /\ p + e \in (p + s + 1) - 1 .. Len(b)
    BY <1>1, <1>4
  <2> QED
    BY <2>1
<1>6. PICK line : line = SubSeq(b, from, to)
  OBVIOUS
<1>7. /\ line \in Seq(STRING) /\ Len(line) = to - from + 1
      /\ \A k \in 1 .. to - from + 1 : line[k] = b[from + k - 1]
  BY <1>1, <1>5, <1>6, Slice
<1>8. to - from + 1 = e - s
  BY <1>1, <1>4, <1>5
<1>9. ASSUME NEW k \in 1 .. e - s
      PROVE  line[k] = buf[s + k - 1] /\ line[k] # NUL /\ line[k] # NL
  <2>1. PICK j \in 0 .. filled - 1 : j = s + k - 1
    <3>1. s + k - 1 \in 0 .. filled - 1
      BY <1>1, <1>4
    <3> QED
      BY <3>1
  <2>2. from + k - 1 = p + j + 1 /\ p + j + 1 \in 1 .. Len(b) /\ j \in s .. e - 1
    BY <1>1, <1>4, <1>5, <2>1
  <2>3. line[k] = b[p + j + 1]
    BY <1>7, <1>8, <2>2
  <2>4. buf[j] = b[p + j + 1] /\ b[p + j + 1] # NUL
    BY <2>2 DEF InBuffer, PlainText
  <2>5. buf[j] # NL
    BY <1>3, <2>2 DEF IsLineEnd
  <2> QED
    BY <2>1, <2>3, <2>4, <2>5
<1>10. IsLine(b, p, buf, s, e, line)
  BY <1>5, <1>6, <1>7, <1>8, <1>9 DEF IsLine
<1> QED
  BY <1>4, <1>5, <1>6, <1>10

(* What is printed of it: all of it.                                       *)
LEMMA StringIs ==
  ASSUME NEW b, NEW p, NEW buf, NEW filled, NEW cnt, InBuffer(b, p, buf, filled, cnt),
         NEW s \in Starts(buf, filled), NEW e, e = LineEnd(buf, s, filled)
  PROVE  StringAt(Split(buf, filled), s) = SubSeq(b, p + s + 1, p + e)
<1> DEFINE lines == Split(buf, filled)
<1>1. PICK line : line = SubSeq(b, p + s + 1, p + e)
  OBVIOUS
<1>2. s \in Nat /\ e \in s .. filled /\ IsLine(b, p, buf, s, e, line)
  BY <1>1, LineIs
<1>3. filled \in 0 .. BUFSIZE /\ filled \in Nat /\ BUFSIZE \in Nat
  BY BufferSize DEF InBuffer
<1>4. /\ DOMAIN lines = 0 .. BUFSIZE
      /\ lines[e] = NUL
      /\ \A k \in s .. e - 1 : lines[k] = buf[k]
  BY SplitIs DEF InBuffer
<1> HIDE DEF lines
<1>5. \A k \in s .. e - 1 : lines[k] # NUL
  <2>1. SUFFICES ASSUME NEW k \in s .. e - 1 PROVE lines[k] # NUL
    OBVIOUS
  <2>2. k - s + 1 \in 1 .. e - s /\ s + (k - s + 1) - 1 = k
    BY <1>2, <1>3
  <2>3. line[k - s + 1] = buf[s + (k - s + 1) - 1] /\ line[k - s + 1] # NUL
    BY <1>2, <2>2 DEF IsLine
  <2> QED
    BY <1>4, <2>2, <2>3
<1> DEFINE end == CHOOSE k \in DOMAIN lines :
                    k >= s /\ lines[k] = NUL /\ \A j \in s .. k - 1 : lines[j] # NUL
<1>6. end = e
  <2>1. e \in DOMAIN lines /\ e >= s
    BY <1>2, <1>3, <1>4
  <2>2. end \in DOMAIN lines /\ end >= s /\ lines[end] = NUL /\ \A j \in s .. end - 1 : lines[j] # NUL
    BY <1>4, <1>5, <2>1
  <2> HIDE DEF end
  <2>3. end \in Int /\ e \in Int
    BY <1>2, <1>3, <1>4, <2>2
  <2>4. ~(end < e)
    <3>1. end < e => end \in s .. e - 1
      BY <1>2, <1>3, <2>2, <2>3
    <3> QED
      BY <1>5, <2>2, <3>1
  <2>5. ~(e < end)
    <3>1. e < end => e \in s .. end - 1
      BY <1>2, <1>3, <2>1, <2>3
    <3> QED
      BY <1>4, <2>2, <3>1
  <2> QED
    BY <2>3, <2>4, <2>5
<1>7. StringAt(lines, s) = [k \in 1 .. end - s |-> lines[s + k - 1]]
  BY DEF StringAt
<1> HIDE DEF end
<1>8. \A k \in 1 .. e - s : lines[s + k - 1] = line[k]
  <2>1. SUFFICES ASSUME NEW k \in 1 .. e - s PROVE lines[s + k - 1] = line[k]
    OBVIOUS
  <2>2. s + k - 1 \in s .. e - 1
    BY <1>2, <1>3
  <2> QED
    BY <1>2, <1>4, <2>2 DEF IsLine
<1>9. line = [k \in 1 .. e - s |-> line[k]]
  <2>1. line \in Seq(STRING) /\ Len(line) = e - s
    BY <1>2 DEF IsLine
  <2> QED
    BY <2>1, LenProperties
<1>10. StringAt(lines, s) = line
  BY <1>6, <1>7, <1>8, <1>9
<1> QED
  BY <1>1, <1>10 DEF lines

(* A word matches within its line: a line's end matches no byte of it.     *)
LEMMA MatchesIs ==
  ASSUME NEW b, NEW p, NEW buf, NEW filled, NEW cnt, InBuffer(b, p, buf, filled, cnt),
         NEW s \in Starts(buf, filled), NEW e, e = LineEnd(buf, s, filled),
         Plain(args), args # <<>>
  PROVE  Matches(Split(buf, filled), s, e) <=> Holds(SubSeq(b, p + s + 1, p + e), args)
<1> DEFINE lines == Split(buf, filled)
<1>1. PICK line : line = SubSeq(b, p + s + 1, p + e)
  OBVIOUS
<1>2. s \in Nat /\ e \in s .. filled /\ IsLine(b, p, buf, s, e, line)
  BY <1>1, LineIs
<1>3. filled \in Nat /\ filled <= BUFSIZE /\ BUFSIZE \in Nat
  BY BufferSize DEF InBuffer
<1>4. /\ DOMAIN lines = 0 .. BUFSIZE
      /\ lines[e] = NUL
      /\ \A k \in s .. e - 1 : lines[k] = buf[k]
  BY SplitIs DEF InBuffer
<1> HIDE DEF lines
<1>5. args \in Seq(STRING) /\ \A k \in 1 .. Len(args) : args[k] # NUL
  BY DEF Plain
<1>6. PICK n \in Nat : n = Len(args) /\ n > 0
  BY <1>5, EmptySeq
<1>7. line \in Seq(STRING) /\ Len(line) = e - s /\ e \in Nat
  BY <1>2, <1>3 DEF IsLine
<1>8. ASSUME NEW k \in 1 .. e - s PROVE line[k] = lines[s + k - 1]
  <2>1. s + k - 1 \in s .. e - 1
    BY <1>2, <1>7
  <2> QED
    BY <1>2, <1>4, <2>1 DEF IsLine
<1>9. ASSUME Matches(lines, s, e) PROVE Holds(line, args)
  <2>1. PICK check \in s .. e - 1 : SameString(lines, check, args)
    BY <1>9 DEF Matches
  <2>2. \A k \in 1 .. n : check + k - 1 \in 0 .. BUFSIZE /\ lines[check + k - 1] = args[k]
    BY <1>4, <1>6, <2>1 DEF SameString
  <2>3. check \in Nat /\ s <= check /\ check < e
    BY <1>2, <1>7
  <2>4. check + n <= e
    <3>1. SUFFICES ASSUME check + n > e PROVE FALSE
      BY <1>6, <1>7, <2>3
    <3>2. PICK k \in 1 .. n : k = e - check + 1
      <4>1. e - check + 1 \in 1 .. n
        BY <1>6, <1>7, <2>3, <3>1
      <4> QED
        BY <4>1
    <3>3. check + k - 1 = e
      BY <1>7, <2>3, <3>2
    <3>4. lines[e] = args[k]
      BY <2>2, <3>3
    <3> QED
      BY <1>4, <1>5, <1>6, <3>4
  <2>5. PICK j \in Nat : j = check - s + 1
    BY <1>2, <2>3
  <2>6. j \in 1 .. Len(line) - n + 1
    BY <1>2, <1>6, <1>7, <2>3, <2>4, <2>5
  <2>7. PICK w : w = SubSeq(line, j, j + n - 1)
    OBVIOUS
  <2>8. PICK to \in Int : to = j + n - 1
    <3>1. j + n - 1 \in Int
      BY <1>6, <2>5
    <3> QED
      BY <3>1
  <2>9. j \in 1 .. Len(line) + 1 /\ to \in j - 1 .. Len(line) /\ to - j + 1 = n
    BY <1>2, <1>6, <1>7, <2>6, <2>8
  <2>10. /\ w \in Seq(STRING) /\ Len(w) = to - j + 1
         /\ \A k \in 1 .. to - j + 1 : w[k] = line[j + k - 1]
    BY <1>7, <2>7, <2>8, <2>9, Slice
  <2>11. ASSUME NEW k \in 1 .. n PROVE w[k] = args[k]
    <3>1. PICK h \in 1 .. e - s : h = j + k - 1
      <4>1. j + k - 1 \in 1 .. e - s
        BY <1>2, <1>6, <1>7, <2>6
      <4> QED
        BY <4>1
    <3>2. s + h - 1 = check + k - 1
      BY <1>2, <2>3, <2>5, <3>1
    <3>3. line[h] = lines[check + k - 1]
      BY <1>8, <3>2
    <3>4. w[k] = line[h]
      BY <2>9, <2>10, <3>1
    <3> QED
      BY <2>2, <3>3, <3>4
  <2>12. w = args
    BY <1>5, <1>6, <2>9, <2>10, <2>11, SeqEqual
  <2> QED
    BY <1>6, <2>6, <2>7, <2>12 DEF Holds
<1>10. ASSUME Holds(line, args) PROVE Matches(lines, s, e)
  <2>1. PICK j \in 1 .. Len(line) - n + 1 : SubSeq(line, j, j + n - 1) = args
    BY <1>6, <1>10 DEF Holds
  <2>2. PICK to \in Int : to = j + n - 1
    <3>1. j \in Int /\ j + n - 1 \in Int
      BY <1>2, <1>6, <1>7, <2>1
    <3> QED
      BY <3>1
  <2>3. /\ j \in Nat /\ j \in 1 .. Len(line) + 1 /\ to \in j - 1 .. Len(line)
        /\ to - j + 1 = n /\ j + n - 1 <= e - s
    BY <1>2, <1>6, <1>7, <2>1, <2>2
  <2>4. \A k \in 1 .. to - j + 1 : SubSeq(line, j, to)[k] = line[j + k - 1]
    BY <1>7, <2>3, Slice
  <2>5. PICK check \in s .. e - 1 : check = s + j - 1
    <3>1. s + j - 1 \in s .. e - 1
      BY <1>2, <1>6, <1>7, <2>3
    <3> QED
      BY <3>1
  <2>6. ASSUME NEW k \in 1 .. n
        PROVE  check + k - 1 \in DOMAIN lines /\ lines[check + k - 1] = args[k]
    <3>1. PICK h \in 1 .. e - s : h = j + k - 1
      <4>1. j + k - 1 \in 1 .. e - s
        BY <1>2, <1>6, <1>7, <2>3
      <4> QED
        BY <4>1
    <3>2. s + h - 1 = check + k - 1 /\ check + k - 1 \in 0 .. BUFSIZE
      BY <1>2, <1>3, <1>7, <2>3, <2>5, <3>1
    <3>3. args[k] = line[h]
      BY <2>1, <2>2, <2>3, <2>4, <3>1
    <3> QED
      BY <1>4, <1>8, <3>2, <3>3
  <2>7. SameString(lines, check, args)
    BY <1>6, <2>6 DEF SameString
  <2> QED
    BY <2>7 DEF Matches
<1> QED
  BY <1>1, <1>9, <1>10 DEF lines

(* A line that is searched ends where it ends in the file.                 *)
LEMMA SearchedEnds ==
  ASSUME NEW b, NEW p, NEW buf, NEW filled, NEW cnt, InBuffer(b, p, buf, filled, cnt),
         NEW s \in Searched(buf, filled, cnt), s < filled,
         NEW e, e = LineEnd(buf, s, filled)
  PROVE  UpTo(b, p + s + 1, NL) = SubSeq(b, p + s + 1, p + e)
<1>1. /\ b \in Seq(STRING) /\ Len(b) \in Nat /\ p \in Nat /\ filled \in Nat /\ filled <= BUFSIZE
      /\ p + filled <= Len(b) /\ cnt \in Nat /\ BUFSIZE \in Nat
  BY LenProperties, BufferSize DEF InBuffer, PlainText
<1>2. s \in Starts(buf, filled)
  BY DEF Searched
<1>3. s \in Nat /\ e \in s .. filled /\ e \in Nat
  BY <1>1, <1>2, LineIs
<1>4. IsLineEnd(buf, s, filled, e)
  BY <1>1, <1>3, LineEndIs
<1>5. ASSUME NEW j \in p + s + 1 .. p + e PROVE b[j] # NL
  <2>1. PICK k \in s .. e - 1 : j = p + k + 1
    <3>1. j - p - 1 \in s .. e - 1 /\ j = p + (j - p - 1) + 1
      BY <1>1, <1>3
    <3> QED
      BY <3>1
  <2>2. k \in 0 .. filled - 1 /\ buf[k] # NL
    BY <1>1, <1>3, <1>4 DEF IsLineEnd
  <2> QED
    BY <2>1, <2>2 DEF InBuffer
<1>6. p + e + 1 = Len(b) + 1 \/ b[p + e + 1] = NL
  <2>1. CASE e < filled
    <3>1. buf[e] = NL /\ e \in 0 .. filled - 1
      BY <1>1, <1>3, <1>4, <2>1 DEF IsLineEnd
    <3> QED
      BY <3>1 DEF InBuffer
  <2>2. CASE e = filled /\ p + filled = Len(b)
    BY <1>1, <2>2
  <2>3. CASE e = filled /\ p + filled # Len(b)
    <3>1. cnt # 0 /\ filled = BUFSIZE
      BY <2>3 DEF InBuffer
    <3>2. s = LastStart(buf, filled)
      <4>1. PICK l \in Starts(buf, filled) : l = LastStart(buf, filled) /\ s <= l
        BY <1>1, <1>2, LastStartIs
      <4>2. SUFFICES ASSUME s # l PROVE FALSE
        BY <4>1
      <4>3. l \in 0 .. filled /\ l < filled /\ l > s
        BY <1>1, <1>3, <4>1, <4>2, StartsIn
      <4>4. l \in 1 .. filled - 1 /\ l - 1 \in s .. e - 1
        BY <1>1, <1>3, <2>3, <4>3
      <4>5. buf[l - 1] = NL
        BY <1>1, <4>1, <4>4, StartsIn
      <4> QED
        BY <1>4, <4>4, <4>5 DEF IsLineEnd
    <3>3. ~Keep(buf, filled, cnt)
      BY <3>2 DEF Searched
    <3>4. buf[e] # NL
      BY <2>3, <3>1 DEF InBuffer, Framed
    <3>5. s = 0
      BY <3>1, <3>2, <3>3, <3>4 DEF Keep
    <3>6. p + 1 \in 1 .. Len(b) - BUFSIZE
      BY <1>1, <2>3, <3>1
    <3>7. PICK j \in p + 1 .. p + 1 + BUFSIZE : b[j] = NL
      BY <3>6 DEF InBuffer, PlainText
    <3>8. j = p + 1 + BUFSIZE
      <4>1. ~(j \in p + s + 1 .. p + e)
        BY <1>5, <3>7
      <4> QED
        BY <1>1, <2>3, <3>1, <3>5, <4>1
    <3> QED
      BY <1>1, <2>3, <3>1, <3>7, <3>8
  <2> QED
    BY <1>1, <1>3, <2>1, <2>2, <2>3
<1>7. PICK from \in 1 .. Len(b) + 1 : from = p + s + 1
  <2>1. p + s + 1 \in 1 .. Len(b) + 1
    BY <1>1, <1>3
  <2> QED
    BY <2>1
<1>8. PICK k \in Nat : k = p + e + 1 /\ k - 1 = p + e
  BY <1>1, <1>3
<1>9. IsEnd(b, from, NL, k)
  <2>1. k \in from .. Len(b) + 1
    BY <1>1, <1>3, <1>7, <1>8
  <2>2. k = Len(b) + 1 \/ b[k] = NL
    BY <1>6, <1>8
  <2>3. \A j \in from .. k - 1 : b[j] # NL
    BY <1>5, <1>7, <1>8
  <2> QED
    BY <2>1, <2>2, <2>3 DEF IsEnd
<1>10. UpTo(b, from, NL) = SubSeq(b, from, k - 1)
  BY <1>1, <1>9, UpToIs
<1> QED
  BY <1>7, <1>8, <1>10

(* Up to where a round has dealt with the buffer.                          *)
Taken(buf, filled, cnt) ==
  IF Keep(buf, filled, cnt) THEN LastStart(buf, filled) ELSE filled

(* What a round shows at a place of the buffer is what is due for that     *)
(* place of the file, and nothing from where the buffer is kept.           *)
LEMMA ShownIs ==
  ASSUME NEW ent \in DOMAIN Entries, NEW b, b = Bytes(ent),
         NEW fname, fname = Entries[ent].name,
         NEW p, NEW buf, NEW filled, NEW cnt, InBuffer(b, p, buf, filled, cnt),
         Plain(args), args # <<>>, NEW k \in 0 .. BUFSIZE
  PROVE  Shown(fname, buf, filled, cnt, k) =
           IF k < Taken(buf, filled, cnt) THEN FoundAt(args, ent)[p + k + 1] ELSE <<>>
<1> DEFINE S == Starts(buf, filled)
           T == Taken(buf, filled, cnt)
           e == LineEnd(buf, k, filled)
           line == SubSeq(b, p + k + 1, p + e)
<1>1. /\ b \in Seq(STRING) /\ Len(b) \in Nat /\ p \in Nat /\ filled \in Nat /\ filled <= BUFSIZE
      /\ p + filled <= Len(b) /\ BUFSIZE \in Nat /\ k \in Nat /\ k <= BUFSIZE
  BY LenProperties, BufferSize DEF InBuffer, PlainText
<1>2. /\ S \subseteq 0 .. filled /\ 0 \in S
      /\ \A j \in S : j < filled \/ j = 0
      /\ \A j \in 1 .. filled - 1 : j \in S <=> buf[j - 1] = NL
  BY <1>1, StartsIn
<1>3. T \in 0 .. filled
  <2>1. LastStart(buf, filled) \in 0 .. filled
    BY <1>1, <1>2, LastStartIs
  <2> QED
    BY <1>1, <2>1 DEF Taken
<1>4. ASSUME k \notin Searched(buf, filled, cnt) PROVE Shown(fname, buf, filled, cnt, k) = <<>>
  BY <1>4 DEF Shown
<1>5. ASSUME k < filled
      PROVE  FoundAt(args, ent)[p + k + 1] =
               IF (p + k + 1 = 1 \/ b[p + k] = NL) /\ Holds(UpTo(b, p + k + 1, NL), args)
               THEN fname \o <<":">> \o UpTo(b, p + k + 1, NL) \o <<NL>>
               ELSE <<>>
  <2>1. PICK q \in 1 .. Len(b) : q = p + k + 1 /\ q - 1 = p + k
    <3>1. p + k + 1 \in 1 .. Len(b) /\ (p + k + 1) - 1 = p + k
      BY <1>1, <1>5
    <3> QED
      BY <3>1
  <2>2. FoundAt(args, ent)[q] =
          IF (q = 1 \/ b[q - 1] = NL) /\ Holds(UpTo(b, q, NL), args)
          THEN fname \o <<":">> \o UpTo(b, q, NL) \o <<NL>>
          ELSE <<>>
    BY DEF FoundAt
  <2> QED
    BY <2>1, <2>2
<1>6. CASE k \notin S
  <2>1. Shown(fname, buf, filled, cnt, k) = <<>>
    BY <1>4, <1>6 DEF Searched
  <2>2. ASSUME k < T PROVE FoundAt(args, ent)[p + k + 1] = <<>>
    <3>1. k < filled /\ k \in 1 .. filled - 1 /\ k - 1 \in 0 .. filled - 1
          /\ p + (k - 1) + 1 = p + k /\ p + k + 1 # 1
      BY <1>1, <1>2, <1>3, <1>6, <2>2
    <3>2. buf[k - 1] # NL
      BY <1>2, <1>6, <3>1
    <3>3. b[p + k] # NL
      BY <3>1, <3>2 DEF InBuffer
    <3> QED
      BY <1>5, <3>1, <3>3
  <2> QED
    BY <2>1, <2>2
<1>7. CASE k \in S /\ ~(k < T)
  <2>1. CASE Keep(buf, filled, cnt)
    <3>1. k = LastStart(buf, filled)
      <4>1. LastStart(buf, filled) \in 0 .. filled /\ k <= LastStart(buf, filled)
        BY <1>1, <1>2, <1>7, LastStartIs
      <4> QED
        BY <1>1, <1>7, <2>1, <4>1 DEF Taken
    <3>2. k \notin Searched(buf, filled, cnt)
      BY <2>1, <3>1 DEF Searched
    <3> QED
      BY <1>4, <1>7, <3>2
  <2>2. CASE ~Keep(buf, filled, cnt)
    <3>1. k = 0 /\ filled = 0
      <4>1. ~(k < filled)
        BY <1>7, <2>2 DEF Taken
      <4> QED
        BY <1>1, <1>2, <1>7, <4>1
    <3>2. e = 0
      <4>1. k \in 0 .. filled
        BY <3>1
      <4>2. IsLineEnd(buf, k, filled, e)
        BY <1>1, <4>1, LineEndIs
      <4> HIDE DEF e
      <4> QED
        BY <3>1, <4>2 DEF IsLineEnd
    <3>3. ~Matches(Split(buf, filled), k, e)
      <4> HIDE DEF e
      <4> QED
        BY <3>1, <3>2 DEF Matches
    <3>4. Shown(fname, buf, filled, cnt, k) = <<>>
      BY <3>3 DEF Shown
    <3> QED
      BY <1>7, <3>4
  <2> QED
    BY <2>1, <2>2
<1>8. CASE k \in S /\ k < T
  <2>1. k < filled
    BY <1>1, <1>3, <1>8
  <2>2. k \in Searched(buf, filled, cnt)
    <3>1. Keep(buf, filled, cnt) => k # LastStart(buf, filled)
      BY <1>1, <1>8 DEF Taken
    <3> QED
      BY <1>8, <3>1 DEF Searched
  <2>3. StringAt(Split(buf, filled), k) = line
    BY <1>8, StringIs
  <2>4. Matches(Split(buf, filled), k, e) <=> Holds(line, args)
    BY <1>8, MatchesIs
  <2>5. UpTo(b, p + k + 1, NL) = line
    BY <2>1, <2>2, SearchedEnds
  <2>6. Shown(fname, buf, filled, cnt, k) =
          IF Holds(line, args) THEN fname \o <<":">> \o line \o <<NL>> ELSE <<>>
    BY <2>2, <2>3, <2>4 DEF Shown
  <2>7. \/ p + k + 1 = 1
        \/ b[p + k] = NL
        \/ ~Holds(line, args)
    <3>1. CASE k # 0
      <4>1. k \in 1 .. filled - 1 /\ k - 1 \in 0 .. filled - 1 /\ p + (k - 1) + 1 = p + k
        BY <1>1, <2>1, <3>1
      <4>2. buf[k - 1] = NL
        BY <1>2, <1>8, <4>1
      <4>3. b[p + k] = NL
        BY <4>1, <4>2 DEF InBuffer
      <4> QED
        BY <4>3
    <3>2. CASE k = 0
      <4>1. p = 0 \/ b[p] = NL \/ b[p + 1] = NL
        <5>1. p # Len(b)
          BY <1>1, <2>1, <3>2
        <5> QED
          BY <5>1 DEF InBuffer
      <4>2. p + k = p /\ p + k + 1 = p + 1
        BY <1>1, <3>2
      <4>3. ASSUME b[p + 1] = NL PROVE ~Holds(line, args)
        <5>1. 0 \in 0 .. filled - 1 /\ p + 0 + 1 = p + 1
          BY <1>1, <2>1, <3>2
        <5>2. buf[0] = NL
          BY <4>3, <5>1 DEF InBuffer
        <5>3. IsLineEnd(buf, k, filled, e)
          BY <1>1, <1>2, <1>8, LineEndIs
        <5> HIDE DEF e
        <5>4. e = 0
          <6>1. e \in k .. filled /\ \A j \in k .. e - 1 : buf[j] # NL
            BY <5>3 DEF IsLineEnd
          <6>2. ~(0 \in k .. e - 1)
            BY <5>2, <6>1
          <6> QED
            BY <1>1, <3>2, <6>1, <6>2
        <5>5. Len(line) = 0
          <6>1. p + k + 1 \in Int /\ p + e \in Int /\ p + e < p + k + 1
            BY <1>1, <3>2, <5>4
          <6> QED
            BY <6>1, SubSeqEmpty, EmptySeq
        <5>6. Len(args) \in Nat \ {0}
          BY EmptySeq DEF Plain
        <5> HIDE DEF line
        <5> QED
          BY <5>5, <5>6 DEF Holds
      <4> QED
        BY <1>1, <4>1, <4>2, <4>3
    <3> QED
      BY <3>1, <3>2
  <2> HIDE DEF line, e
  <2>8. FoundAt(args, ent)[p + k + 1] =
          IF Holds(line, args) THEN fname \o <<":">> \o line \o <<NL>> ELSE <<>>
    BY <1>5, <2>1, <2>5, <2>7
  <2> QED
    BY <1>8, <2>6, <2>8
<1> QED
  BY <1>6, <1>7, <1>8

LEMMA BytesType ==
  ASSUME text \in Texts, NEW ent \in DOMAIN Entries
  PROVE  Bytes(ent) \in Seq(STRING)
<1>1. Entries[ent] \in [name : Seq(STRING), kind : STRING, bytes : Seq(STRING)]
  <2>1. ent \in 1 .. Len(Entries)
    BY DirectoryAssumption, LenProperties
  <2> QED
    BY <2>1, DirectoryAssumption, ElementOfSeq
<1>2. text \in Seq(STRING) /\ Entries[ent].bytes \in Seq(STRING)
  BY <1>1, InputAssumption
<1> QED
  BY <1>2 DEF Bytes

LEMMA NameIs ==
  ASSUME NEW ent \in DOMAIN Entries
  PROVE  /\ Entries[ent].name \in Seq(STRING) /\ Entries[ent].name # <<>>
         /\ Entries[ent].name \in Seq(Chars)
<1>1. Entries[ent] \in [name : Seq(STRING), kind : STRING, bytes : Seq(STRING)]
  <2>1. ent \in 1 .. Len(Entries)
    BY DirectoryAssumption, LenProperties
  <2> QED
    BY <2>1, DirectoryAssumption, ElementOfSeq
<1>2. PICK s \in Seq(STRING) : s = Entries[ent].name
  BY <1>1
<1> QED
  BY <1>2, StringsArePrinted, DirectoryAssumption

LEMMA FoundAtType ==
  ASSUME text \in Texts, NEW ent \in DOMAIN Entries, NEW k \in 1 .. Len(Bytes(ent))
  PROVE  FoundAt(args, ent)[k] \in Seq(Chars)
<1> DEFINE b == Bytes(ent)
           name == Entries[ent].name
           line == UpTo(b, k, NL)
           shown == name \o <<":">> \o line \o <<NL>>
<1>1. b \in Seq(STRING) /\ Len(b) \in Nat
  BY BytesType, LenProperties
<1>2. line \in Seq(Chars)
  <2> HIDE DEF b
  <2>1. k \in 1 .. Len(b) + 1
    BY <1>1 DEF b
  <2>2. PICK e \in k .. Len(b) + 1 : IsEnd(b, k, NL, e)
    <3>1. \E e \in k .. Len(b) + 1 :
            /\ e = Len(b) + 1 \/ b[e] = NL
            /\ \A j \in k .. e - 1 : b[j] # NL
      BY <1>1, <2>1, EndExists
    <3> QED
      BY <3>1 DEF IsEnd
  <2>3. PICK to \in k - 1 .. Len(b) : to = e - 1
    <3>1. e - 1 \in k - 1 .. Len(b)
      BY <1>1, <2>1
    <3> QED
      BY <3>1
  <2>4. line = SubSeq(b, k, to)
    BY <1>1, <2>1, <2>2, <2>3, UpToIs
  <2>5. SubSeq(b, k, to) \in Seq(STRING)
    BY <1>1, <2>1, Slice
  <2> HIDE DEF line
  <2> QED
    BY <2>4, <2>5, StringsArePrinted
<1>3. name \in Seq(Chars) /\ <<":">> \in Seq(Chars) /\ <<NL>> \in Seq(Chars)
  <2>1. ":" \in Chars /\ NL \in Chars
    BY DEF Chars
  <2> QED
    BY <2>1, NameIs, OneChar
<1>4. FoundAt(args, ent)[k] = shown \/ FoundAt(args, ent)[k] = <<>>
  BY DEF FoundAt
<1> HIDE DEF line, name
<1>5. shown \in Seq(Chars)
  <2>1. name \o <<":">> \in Seq(Chars)
    BY <1>3, ConcatProperties
  <2>2. (name \o <<":">>) \o line \in Seq(Chars)
    BY <1>2, <2>1, ConcatProperties
  <2> QED
    BY <1>3, <2>2, ConcatProperties
<1> QED
  BY <1>4, <1>5, EmptySeq

LEMMA FoundInType ==
  ASSUME text \in Texts, NEW ent \in DOMAIN Entries
  PROVE  FoundIn(args)[ent] \in Seq(Chars)
<1>1. FoundIn(args)[ent] = IF Entries[ent].kind = "dir" \/ ~PlainText(Bytes(ent)) THEN <<>>
                           ELSE Joined(Len(Bytes(ent)), FoundAt(args, ent))
  BY DEF FoundIn
<1>2. Len(Bytes(ent)) \in Nat
  BY BytesType, LenProperties
<1>3. Joined(Len(Bytes(ent)), FoundAt(args, ent)) \in Seq(Chars)
  <2>1. \A k \in 1 .. Len(Bytes(ent)) : FoundAt(args, ent)[k] \in Seq(Chars)
    BY FoundAtType
  <2> QED
    BY <1>2, <2>1, JoinedType
<1> QED
  BY <1>1, <1>3, EmptySeq

(* A round shows what is due up to where it has dealt with the buffer.     *)
LEMMA RoundShows ==
  ASSUME text \in Texts, NEW ent \in DOMAIN Entries, NEW p, NEW buf, NEW filled, NEW cnt,
         InBuffer(Bytes(ent), p, buf, filled, cnt), Plain(args), args # <<>>
  PROVE  /\ Taken(buf, filled, cnt) \in 0 .. filled
         /\ Matching(Entries[ent].name, buf, filled, cnt) \in Seq(Chars)
         /\ Joined(p, FoundAt(args, ent)) \o Matching(Entries[ent].name, buf, filled, cnt)
              = Joined(p + Taken(buf, filled, cnt), FoundAt(args, ent))
<1> DEFINE b == Bytes(ent)
           name == Entries[ent].name
           f == FoundAt(args, ent)
           T == Taken(buf, filled, cnt)
           q == [k \in 1 .. BUFSIZE + 1 |-> Shown(name, buf, filled, cnt, k - 1)]
<1>1. /\ Len(b) \in Nat /\ p \in Nat /\ filled \in Nat /\ filled <= BUFSIZE
      /\ p + filled <= Len(b) /\ BUFSIZE \in Nat
  BY BytesType, LenProperties, BufferSize DEF InBuffer
<1>2. T \in 0 .. filled
  <2>1. LastStart(buf, filled) \in 0 .. filled
    BY <1>1, StartsIn, LastStartIs
  <2>2. filled \in 0 .. filled
    BY <1>1
  <2>3. T = LastStart(buf, filled) \/ T = filled
    BY DEF Taken
  <2> HIDE DEF T
  <2> QED
    BY <2>1, <2>2, <2>3
<1>3. PICK m \in Nat, t \in Nat : m = BUFSIZE + 1 /\ t = p + T
  <2> HIDE DEF T
  <2>1. BUFSIZE + 1 \in Nat /\ p + T \in Nat
    BY <1>1, <1>2
  <2> QED
    BY <2>1
<1>4. ASSUME NEW k \in 1 .. m PROVE q[k] = IF p + k <= t THEN f[p + k] ELSE <<>>
  <2>1. PICK j \in 0 .. BUFSIZE : j = k - 1
    <3>1. k - 1 \in 0 .. BUFSIZE
      BY <1>1, <1>3
    <3> QED
      BY <3>1
  <2>2. q[k] = Shown(name, buf, filled, cnt, j)
    BY <1>3, <2>1
  <2>3. Shown(name, buf, filled, cnt, j) = IF j < T THEN f[p + j + 1] ELSE <<>>
    BY ShownIs
  <2>4. p + j + 1 = p + k /\ (j < T <=> p + k <= t)
    BY <1>1, <1>2, <1>3, <2>1
  <2> HIDE DEF q, T, f, name
  <2> QED
    BY <2>2, <2>3, <2>4
<1>5. \A k \in 1 .. t : f[k] \in Seq(Chars)
  <2>1. SUFFICES ASSUME NEW k \in 1 .. t PROVE f[k] \in Seq(Chars)
    OBVIOUS
  <2>2. k \in 1 .. Len(b)
    BY <1>1, <1>2, <1>3
  <2> QED
    BY <2>2, FoundAtType
<1> HIDE DEF T, f
<1>6. Continues(p, m, t, f, q)
  <2>1. p <= t /\ t <= p + m
    BY <1>1, <1>2, <1>3
  <2> HIDE DEF q
  <2> QED
    BY <1>1, <1>4, <1>5, <2>1 DEF Continues
<1>7. Joined(p, f) \o Joined(m, q) = Joined(t, f)
  <2> HIDE DEF q
  <2> QED
    BY <1>1, <1>6, JoinedMore
<1>8. Matching(name, buf, filled, cnt) = Joined(m, q)
  BY <1>3 DEF Matching
<1> HIDE DEF q
<1>9. Joined(p, f) \o Matching(name, buf, filled, cnt) = Joined(p + T, f)
  BY <1>3, <1>7, <1>8
<1>10. Matching(name, buf, filled, cnt) \in Seq(Chars)
  <2>1. \A k \in 1 .. m : q[k] \in Seq(Chars)
    <3>1. SUFFICES ASSUME NEW k \in 1 .. m PROVE q[k] \in Seq(Chars)
      OBVIOUS
    <3>2. CASE p + k <= t
      <4>1. p + k \in 1 .. t /\ q[k] = f[p + k]
        BY <1>1, <1>3, <1>4, <3>2
      <4> QED
        BY <1>5, <4>1
    <3>3. CASE ~(p + k <= t)
      BY <1>4, <3>3, EmptySeq
    <3> QED
      BY <3>2, <3>3
  <2> QED
    BY <1>8, <2>1, JoinedType
<1> QED
  BY <1>2, <1>9, <1>10 DEF T, f

(* What is left in the buffer begins a line.                               *)
LEMMA KeptIsBuffered ==
  ASSUME NEW b, NEW p, NEW buf, NEW filled, NEW cnt, InBuffer(b, p, buf, filled, cnt),
         Keep(buf, filled, cnt), NEW start, start = LastStart(buf, filled)
  PROVE  /\ start \in 0 .. filled
         /\ Buffered(b, p + start, strcpyDown(Split(buf, filled), start), filled - start)
<1> DEFINE lines == Split(buf, filled)
           new == strcpyDown(lines, start)
<1>1. /\ b \in Seq(STRING) /\ Len(b) \in Nat /\ p \in Nat /\ filled \in Nat /\ filled <= BUFSIZE
      /\ p + filled <= Len(b) /\ BUFSIZE \in Nat
  BY LenProperties, BufferSize DEF InBuffer, PlainText
<1>2. start \in Starts(buf, filled)
  BY <1>1, LastStartIs
<1>3. start # 0 /\ start \in 1 .. filled - 1
  <2>1. start # 0
    BY DEF Keep
  <2> QED
    BY <1>1, <1>2, <2>1, StartsIn
<1>4. PICK e : e = LineEnd(buf, start, filled)
  OBVIOUS
<1>5. e = filled
  <2>1. start \in 0 .. filled
    BY <1>1, <1>3
  <2>2. IsLineEnd(buf, start, filled, e)
    BY <1>1, <1>4, <2>1, LineEndIs
  <2>3. buf[e] # NL
    BY <1>4 DEF Keep
  <2> QED
    BY <2>2, <2>3 DEF IsLineEnd
<1>6. PICK line : line = SubSeq(b, p + start + 1, p + e)
  OBVIOUS
<1>7. IsLine(b, p, buf, start, filled, line)
  BY <1>2, <1>4, <1>5, <1>6, LineIs
<1>8. StringAt(lines, start) = line
  BY <1>2, <1>4, <1>6, StringIs
<1>9. DOMAIN lines = 0 .. BUFSIZE
  BY SplitIs DEF InBuffer
<1> HIDE DEF lines
<1>10. Len(line) = filled - start /\ filled - start \in Nat
  BY <1>1, <1>3, <1>7 DEF IsLine
<1>11. new = [k \in 0 .. BUFSIZE |-> IF k < filled - start THEN line[k + 1]
                                     ELSE IF k = filled - start THEN NUL ELSE lines[k]]
  BY <1>8, <1>9, <1>10 DEF strcpyDown
<1> HIDE DEF new
<1>13. ASSUME NEW k \in 0 .. (filled - start) - 1 PROVE new[k] = b[p + start + k + 1]
  <2>1. k \in 0 .. BUFSIZE /\ k < filled - start /\ k + 1 \in 1 .. filled - start
        /\ start + (k + 1) - 1 = start + k /\ start + k \in 0 .. filled - 1
        /\ p + (start + k) + 1 = p + start + k + 1
    BY <1>1, <1>3
  <2>2. new[k] = line[k + 1]
    BY <1>11, <2>1
  <2>3. line[k + 1] = buf[start + (k + 1) - 1]
    BY <1>7, <2>1 DEF IsLine
  <2>4. buf[start + k] = b[p + (start + k) + 1]
    BY <2>1 DEF InBuffer
  <2> QED
    BY <2>1, <2>2, <2>3, <2>4
<1>14. b[p + start] = NL
  <2>1. buf[start - 1] = NL
    BY <1>1, <1>2, <1>3, StartsIn
  <2>2. start - 1 \in 0 .. filled - 1 /\ p + (start - 1) + 1 = p + start
    BY <1>1, <1>3
  <2> QED
    BY <2>1, <2>2 DEF InBuffer
<1>16. Buffered(b, p + start, new, filled - start)
  <2>1. p + start \in 0 .. Len(b) /\ filled - start \in 0 .. BUFSIZE - 1
        /\ (p + start) + (filled - start) <= Len(b)
    BY <1>1, <1>3
  <2>2. \A k \in 0 .. (filled - start) - 1 : new[k] = b[(p + start) + k + 1]
    BY <1>13
  <2> QED
    BY <1>14, <2>1, <2>2 DEF Buffered
<1> QED
  BY <1>1, <1>3, <1>16 DEF new, lines

LEMMA DoneIsBuffered ==
  ASSUME NEW b, NEW p, NEW buf, NEW filled, NEW cnt, InBuffer(b, p, buf, filled, cnt),
         ~Keep(buf, filled, cnt)
  PROVE  Buffered(b, p + filled, Split(buf, filled), 0)
<1> DEFINE lines == Split(buf, filled)
<1>1. /\ b \in Seq(STRING) /\ Len(b) \in Nat /\ p \in Nat /\ filled \in Nat /\ filled <= BUFSIZE
      /\ p + filled <= Len(b) /\ BUFSIZE \in Nat /\ BUFSIZE > 0 /\ PlainText(b)
  BY LenProperties, BufferSize DEF InBuffer, PlainText
<1>3. PICK start \in Starts(buf, filled) :
        /\ start = LastStart(buf, filled)
        /\ \A k \in Starts(buf, filled) : k <= start
  BY <1>1, LastStartIs
<1>4. start \in 0 .. filled /\ (start < filled \/ start = 0)
  BY <1>1, StartsIn
<1>5. PICK e : e = LineEnd(buf, start, filled)
  OBVIOUS
<1>6. IsLineEnd(buf, start, filled, e)
  BY <1>1, <1>4, <1>5, LineEndIs
<1>7. e \in start .. filled /\ e \in Nat
  BY <1>1, <1>4, <1>6 DEF IsLineEnd
<1>8. \/ p + filled = 0
      \/ b[p + filled] = NL
      \/ p + filled = Len(b) \/ b[p + filled + 1] = NL
  <2>1. CASE e < filled
    <3>1. buf[e] = NL /\ e \in 0 .. filled - 1
      BY <1>1, <1>6, <1>7, <2>1 DEF IsLineEnd
    <3>2. e = filled - 1
      <4>1. SUFFICES ASSUME e # filled - 1 PROVE FALSE
        OBVIOUS
      <4>2. e + 1 \in 1 .. filled - 1 /\ (e + 1) - 1 = e
        BY <1>1, <1>7, <2>1, <4>1
      <4>3. e + 1 \in Starts(buf, filled)
        BY <1>1, <3>1, <4>2, StartsIn
      <4> QED
        BY <1>3, <1>4, <1>7, <4>3
    <3>3. p + e + 1 = p + filled
      BY <1>1, <1>7, <3>2
    <3> QED
      BY <3>1, <3>3 DEF InBuffer
  <2>2. CASE e = filled /\ p + filled # Len(b)
    <3>1. cnt # 0 /\ filled = BUFSIZE
      BY <2>2 DEF InBuffer
    <3>2. buf[e] # NL
      BY <2>2, <3>1 DEF InBuffer, Framed
    <3>3. start = 0
      BY <1>3, <1>5, <3>1, <3>2 DEF Keep
    <3>4. p + 1 \in 1 .. Len(b) - BUFSIZE
      BY <1>1, <2>2, <3>1
    <3>5. PICK j \in p + 1 .. p + 1 + BUFSIZE : b[j] = NL
      BY <1>1, <3>4 DEF PlainText
    <3>6. CASE j = p + 1 + BUFSIZE
      <4>1. j = p + filled + 1
        BY <1>1, <3>1, <3>6
      <4> QED
        BY <3>5, <4>1
    <3>7. CASE j # p + 1 + BUFSIZE
      <4>1. PICK k \in 0 .. filled - 1 : j = p + k + 1
        <5>1. j - p - 1 \in 0 .. filled - 1 /\ j = p + (j - p - 1) + 1
          BY <1>1, <3>1, <3>7
        <5> QED
          BY <5>1
      <4>2. buf[k] = NL
        BY <3>5, <4>1 DEF InBuffer
      <4>3. k \in start .. e - 1
        BY <1>1, <2>2, <3>3
      <4> QED
        BY <1>6, <4>2, <4>3 DEF IsLineEnd
    <3> QED
      BY <3>6, <3>7
  <2> QED
    BY <1>1, <1>7, <2>1, <2>2
<1> HIDE DEF lines
<1>9. Buffered(b, p + filled, lines, 0)
  <2>1. p + filled \in 0 .. Len(b) /\ 0 \in 0 .. BUFSIZE - 1 /\ (p + filled) + 0 <= Len(b)
    BY <1>1
  <2>2. \A k \in 0 .. 0 - 1 : lines[k] = b[(p + filled) + k + 1]
    OBVIOUS
  <2> QED
    BY <1>8, <2>1, <2>2 DEF Buffered
<1> QED
  BY <1>9 DEF lines

(* What a read of a file returns.                                          *)
FileRead(ent, pos, n, got) ==
  /\ got \in Seq(STRING) /\ Len(got) \in Nat /\ Len(got) <= n
  /\ pos + Len(got) <= Len(Bytes(ent))
  /\ Len(got) = n \/ pos + Len(got) = Len(Bytes(ent))
  /\ \A k \in 1 .. Len(got) : got[k] = Bytes(ent)[pos + k]
  /\ Advance(ent, got) = Len(got)

LEMMA ReadIs ==
  ASSUME text \in Texts, NEW ent \in DOMAIN Entries, Entries[ent].kind # "dir",
         NEW pos \in 0 .. Len(Bytes(ent)), NEW n \in Nat, NEW got, got = Read(ent, pos, n)
  PROVE  FileRead(ent, pos, n, got)
<1>1. PICK b \in Seq(STRING) : b = Bytes(ent)
  BY BytesType
<1>2. Len(b) \in Nat /\ pos \in Nat /\ pos <= Len(b)
  BY <1>1, LenProperties
<1>3. PICK from \in 1 .. Len(b) + 1, to \in Int :
        from = pos + 1 /\ to = Len(b) /\ to \in from - 1 .. Len(b)
  <2>1. pos + 1 \in 1 .. Len(b) + 1 /\ Len(b) \in Int /\ Len(b) \in (pos + 1) - 1 .. Len(b)
    BY <1>2
  <2> QED
    BY <2>1
<1>4. PICK rest \in Seq(STRING) : rest = SubSeq(b, from, to)
  BY <1>3, Slice
<1>5. /\ rest \in Seq(STRING) /\ Len(rest) = to - from + 1
      /\ \A k \in 1 .. to - from + 1 : rest[k] = b[from + k - 1]
  BY <1>3, <1>4, Slice
<1>6. to - from + 1 = Len(b) - pos
  BY <1>2, <1>3
<1>7. got = Cut(rest, n)
  BY <1>1, <1>3, <1>4 DEF Read
<1>8. /\ got \in Seq(STRING)
      /\ Len(got) = IF Len(rest) < n THEN Len(rest) ELSE n
      /\ \A k \in 1 .. Len(got) : k \in 1 .. Len(rest) /\ got[k] = rest[k]
  <2>1. /\ Cut(rest, n) \in Seq(STRING)
        /\ Len(Cut(rest, n)) = IF Len(rest) < n THEN Len(rest) ELSE n
        /\ \A k \in 1 .. Len(Cut(rest, n)) : k \in 1 .. Len(rest) /\ Cut(rest, n)[k] = rest[k]
    BY CutIs
  <2> QED
    BY <1>7, <2>1
<1>9. /\ Len(got) \in Nat /\ Len(got) <= n /\ pos + Len(got) <= Len(b)
      /\ Len(got) = n \/ pos + Len(got) = Len(b)
  BY <1>2, <1>5, <1>6, <1>8
<1>10. ASSUME NEW k \in 1 .. Len(got) PROVE got[k] = b[pos + k]
  <2>1. got[k] = rest[k] /\ k \in 1 .. to - from + 1
    BY <1>5, <1>8
  <2>2. from + k - 1 = pos + k
    BY <1>2, <1>3
  <2> QED
    BY <1>5, <2>1, <2>2
<1>11. Advance(ent, got) = Len(got)
  BY DEF Advance
<1> QED
  BY <1>1, <1>8, <1>9, <1>10, <1>11 DEF FileRead

(* The byte behind a full buffer stays no newline, whatever the file holds.*)
FillIs(old, n, got, filled, buf) ==
  buf = [k \in 0 .. BUFSIZE |-> IF k \in n .. filled - 1 THEN got[k - n + 1] ELSE old[k]]

LEMMA FilledFramed ==
  ASSUME NEW old, Framed(old), NEW n, NEW filled \in 0 .. BUFSIZE, NEW got, NEW buf,
         FillIs(old, n, got, filled, buf)
  PROVE  Framed(buf)
<1>1. BUFSIZE \in 0 .. BUFSIZE /\ BUFSIZE \notin n .. filled - 1
  BY BufferSize
<1>2. buf[BUFSIZE] = old[BUFSIZE] /\ DOMAIN buf = 0 .. BUFSIZE
  BY <1>1 DEF FillIs
<1> QED
  BY <1>2 DEF Framed

LEMMA RoundFramed ==
  ASSUME NEW buf, NEW filled \in 0 .. BUFSIZE, Framed(buf), NEW start, start = LastStart(buf, filled)
  PROVE  /\ start \in 0 .. filled /\ (start = 0 \/ start < filled)
         /\ Framed(Split(buf, filled))
         /\ Framed(strcpyDown(Split(buf, filled), start))
<1>1. filled \in Nat /\ filled <= BUFSIZE /\ BUFSIZE \in Nat
  BY BufferSize
<1>2. start \in Starts(buf, filled)
  BY <1>1, LastStartIs
<1>3. start \in 0 .. filled /\ start \in Nat /\ (start = 0 \/ start < filled)
  BY <1>1, <1>2, StartsIn
<1>4. PICK e : e = LineEnd(buf, start, filled)
  OBVIOUS
<1>5. e \in start .. filled
  <2>1. IsLineEnd(buf, start, filled, e)
    BY <1>1, <1>3, <1>4, LineEndIs
  <2> QED
    BY <2>1 DEF IsLineEnd
<1>6. PICK lines : lines = Split(buf, filled)
  OBVIOUS
<1>7. Framed(lines) /\ DOMAIN lines = 0 .. BUFSIZE /\ lines[e] = NUL
  BY <1>2, <1>4, <1>6, SplitIs
<1> DEFINE end == CHOOSE k \in DOMAIN lines :
                    k >= start /\ lines[k] = NUL /\ \A j \in start .. k - 1 : lines[j] # NUL
           stops == {j \in start .. e : lines[j] = NUL}
<1>8. PICK k \in start .. e : (k = e \/ k \in stops) /\ \A j \in start .. k - 1 : j \notin stops
  <2> HIDE DEF stops
  <2>1. start \in Nat /\ e \in Nat /\ start <= e
    BY <1>1, <1>3, <1>5
  <2> QED
    BY <2>1, FirstStop
<1>9. k \in DOMAIN lines /\ k >= start /\ lines[k] = NUL
  BY <1>1, <1>3, <1>5, <1>7, <1>8
<1>10. \A j \in start .. k - 1 : lines[j] # NUL
  <2>1. \A j \in start .. k - 1 : j \in start .. e
    BY <1>1, <1>3, <1>5, <1>8
  <2> QED
    BY <1>8, <2>1
<1>11. end \in 0 .. BUFSIZE /\ end >= start
  BY <1>7, <1>9, <1>10
<1>12. StringAt(lines, start) = [j \in 1 .. end - start |-> lines[start + j - 1]]
  BY DEF StringAt
<1> HIDE DEF end
<1>13. PICK l \in Nat : l = end - start /\ l <= BUFSIZE
  <2>1. end - start \in Nat /\ end - start <= BUFSIZE
    BY <1>1, <1>3, <1>11
  <2> QED
    BY <2>1
<1>14. PICK str : str = StringAt(lines, start)
  OBVIOUS
<1>15. Len(str) = l
  BY <1>12, <1>13, <1>14
<1>16. strcpyDown(lines, start) =
         [j \in 0 .. BUFSIZE |-> IF j < l THEN str[j + 1] ELSE IF j = l THEN NUL ELSE lines[j]]
  BY <1>7, <1>14, <1>15 DEF strcpyDown
<1>17. strcpyDown(lines, start)[BUFSIZE] = NUL \/ strcpyDown(lines, start)[BUFSIZE] = lines[BUFSIZE]
  BY <1>1, <1>13, <1>16
<1>18. DOMAIN strcpyDown(lines, start) = 0 .. BUFSIZE
  BY <1>16
<1>19. Framed(strcpyDown(lines, start))
  BY <1>7, <1>17, <1>18 DEF Framed, NUL, NL
<1> QED
  BY <1>3, <1>6, <1>7, <1>19

(* A read into the buffer behind what is left of the last one.             *)
ReadBehind(ent, pos, n, old, got, cnt, filled, buf) ==
  /\ Entries[ent].kind # "dir"
  /\ PlainText(Bytes(ent)) /\ Buffered(Bytes(ent), pos - n, old, n) /\ Framed(old)
  /\ got = Read(ent, pos, BUFSIZE - n) /\ cnt = Len(got) /\ filled = n + cnt
  /\ FillIs(old, n, got, filled, buf)

LEMMA ReadFills ==
  ASSUME text \in Texts, NEW ent \in DOMAIN Entries, NEW pos \in Nat, NEW n \in Nat, NEW old,
         NEW got, NEW cnt, NEW filled, NEW buf,
         ReadBehind(ent, pos, n, old, got, cnt, filled, buf)
  PROVE  /\ InBuffer(Bytes(ent), pos - n, buf, filled, cnt)
         /\ Advance(ent, got) = cnt
<1> /\ Entries[ent].kind # "dir"
    /\ PlainText(Bytes(ent)) /\ Buffered(Bytes(ent), pos - n, old, n) /\ Framed(old)
    /\ got = Read(ent, pos, BUFSIZE - n) /\ cnt = Len(got) /\ filled = n + cnt
    /\ FillIs(old, n, got, filled, buf)
    /\ buf = [k \in 0 .. BUFSIZE |-> IF k \in n .. filled - 1 THEN got[k - n + 1] ELSE old[k]]
  BY DEF ReadBehind, FillIs
<1>1. PICK b \in Seq(STRING) : b = Bytes(ent) /\ PlainText(b)
  BY BytesType
<1>2. PICK q \in Nat : q = pos - n /\ q <= Len(b)
  BY <1>1 DEF Buffered
<1>3. /\ Len(b) \in Nat /\ BUFSIZE \in Nat /\ n < BUFSIZE /\ pos = q + n /\ pos <= Len(b)
      /\ Buffered(b, q, old, n)
  <2>1. Buffered(b, q, old, n)
    BY <1>1, <1>2
  <2> QED
    BY <1>2, <2>1, LenProperties, BufferSize DEF Buffered
<1>4. PICK m \in Nat : m = BUFSIZE - n
  BY <1>3
<1>5. /\ cnt \in Nat /\ cnt <= m /\ pos + cnt <= Len(b)
      /\ cnt = m \/ pos + cnt = Len(b)
      /\ \A k \in 1 .. cnt : got[k] = b[pos + k]
      /\ Advance(ent, got) = cnt
  <2>1. pos \in 0 .. Len(Bytes(ent))
    BY <1>1, <1>3
  <2>2. got = Read(ent, pos, m)
    BY <1>4
  <2>3. FileRead(ent, pos, m, got)
    BY <2>1, <2>2, ReadIs
  <2> QED
    BY <1>1, <2>3 DEF FileRead
<1>6. filled \in 0 .. BUFSIZE /\ q + filled = pos + cnt /\ n <= filled
  BY <1>3, <1>4, <1>5
<1>7. ASSUME NEW k \in 0 .. filled - 1 PROVE buf[k] = b[q + k + 1]
  <2>1. k \in 0 .. BUFSIZE
    BY <1>3, <1>6
  <2>2. CASE k < n
    <3>1. k \in 0 .. n - 1 /\ k \notin n .. filled - 1
      BY <2>2
    <3>2. buf[k] = old[k]
      BY <2>1, <3>1
    <3> QED
      BY <1>3, <3>1, <3>2 DEF Buffered
  <2>3. CASE k >= n
    <3>1. PICK j \in 1 .. cnt : j = k - n + 1
      <4>1. k - n + 1 \in 1 .. cnt
        BY <1>5, <2>3
      <4> QED
        BY <4>1
    <3>2. k \in n .. filled - 1 /\ pos + j = q + k + 1
      BY <1>3, <1>6, <2>3, <3>1
    <3>3. buf[k] = got[j]
      BY <2>1, <3>1, <3>2
    <3> QED
      BY <1>5, <3>2, <3>3
  <2> QED
    BY <1>6, <2>2, <2>3
<1>8. Framed(buf)
  BY <1>6, FilledFramed
<1>9. q = 0 \/ b[q] = NL \/ q = Len(b) \/ b[q + 1] = NL
  BY <1>3 DEF Buffered
<1>10. cnt = 0 => q + filled = Len(b)
  BY <1>3, <1>4, <1>5, <1>6
<1>11. filled = BUFSIZE \/ q + filled = Len(b)
  BY <1>3, <1>4, <1>5, <1>6
<1>13. InBuffer(b, q, buf, filled, cnt)
  <2>1. q \in 0 .. Len(b) /\ q + filled <= Len(b)
    BY <1>2, <1>3, <1>5, <1>6
  <2> QED
    BY <1>1, <1>5, <1>6, <1>7, <1>8, <1>9, <1>10, <1>11, <2>1 DEF InBuffer
<1> QED
  BY <1>1, <1>2, <1>5, <1>13

-----------------------------------------------------------------------------
(* The directory.                                                          *)

LEMMA DirectorySize ==
  Len(Entries) \in Nat /\ DOMAIN Entries = 1 .. Len(Entries)
BY DirectoryAssumption, LenProperties

LEMMA DirEntryIs ==
  DirEntry \in DOMAIN Entries /\ Entries[DirEntry].kind = "dir"
BY DirectoryAssumption DEF DirEntry

LEMMA LookupIs ==
  ASSUME NEW ent \in DOMAIN Entries
  PROVE  Lookup(Entries[ent].name) = ent
<1> DEFINE name == Entries[ent].name
<1>1. ent \in Found(name)
  BY DEF Found
<1>2. Lookup(name) \in Found(name)
  BY <1>1 DEF Lookup
<1>3. Lookup(name) \in DOMAIN Entries /\ Entries[Lookup(name)].name = name
  BY <1>2 DEF Found
<1> QED
  BY <1>3, DirectoryAssumption

LEMMA LookupFinds ==
  ASSUME NEW name, Found(name) # {}
  PROVE  Lookup(name) \in DOMAIN Entries
<1>1. Lookup(name) \in Found(name)
  BY DEF Lookup
<1> QED
  BY <1>1 DEF Found

LEMMA CutAll ==
  ASSUME NEW S, NEW s \in Seq(S), NEW n \in Nat, Len(s) <= n
  PROVE  Cut(s, n) = s
<1>1. Len(s) \in Nat
  BY LenProperties
<1>2. Len(Cut(s, n)) = Len(s)
  BY <1>1, CutIs
<1>3. PICK t \in Seq(S) : t = Cut(s, n)
  BY CutIs
<1>4. Len(t) = Len(s) /\ \A k \in 1 .. Len(t) : t[k] = s[k]
  BY <1>2, <1>3, CutIs
<1>5. t = s
  BY <1>4, SeqEqual
<1> QED
  BY <1>3, <1>5

(* A read of the directory returns the next name, whole.                   *)
LEMMA NameRead ==
  ASSUME NEW ent \in DOMAIN Entries, Entries[ent].kind = "dir",
         NEW pos \in 0 .. Len(Entries), NEW m \in Nat, m = pos + 1,
         NEW n \in Nat, \A e \in DOMAIN Entries : Len(Entries[e].name) <= n
  PROVE  /\ pos = Len(Entries) => Read(ent, pos, n) = <<>>
         /\ pos # Len(Entries) => /\ m \in DOMAIN Entries
                                  /\ Read(ent, pos, n) = Entries[m].name
                                  /\ Read(ent, pos, n) # <<>>
                                  /\ Advance(ent, Read(ent, pos, n)) = 1
<1>1. CASE pos = Len(Entries)
  BY <1>1 DEF Read
<1>2. CASE pos # Len(Entries)
  <2>1. m \in DOMAIN Entries
    <3>1. PICK size \in Nat : size = Len(Entries)
      BY DirectorySize
    <3>2. pos \in 0 .. size /\ pos # size
      BY <1>2, <3>1
    <3>3. m \in 1 .. size
      BY <3>2
    <3> QED
      BY <3>1, <3>3, DirectorySize
  <2>2. Read(ent, pos, n) = Cut(Entries[m].name, n)
    BY <1>2 DEF Read
  <2>3. PICK name \in Seq(STRING) : name = Entries[m].name /\ name # <<>> /\ Len(name) <= n
    BY <2>1, NameIs
  <2>4. Cut(name, n) = name
    BY <2>3, CutAll
  <2>5. Read(ent, pos, n) = name
    BY <2>2, <2>3, <2>4
  <2>6. Advance(ent, name) = 1
    BY <2>3 DEF Advance
  <2> QED
    BY <1>2, <2>1, <2>3, <2>5, <2>6
<1> QED
  BY <1>1, <1>2

-----------------------------------------------------------------------------
(* What is due does not change while a program runs.                       *)

LEMMA BytesSame ==
  ASSUME text' = text, NEW ent
  PROVE  Bytes(ent)' = Bytes(ent)
BY DEF Bytes

LEMMA FoundAtSame ==
  ASSUME text' = text, NEW word, NEW ent
  PROVE  FoundAt(word, ent)' = FoundAt(word, ent)
BY BytesSame DEF FoundAt, Bytes

LEMMA FoundInSame ==
  ASSUME text' = text, NEW word
  PROVE  FoundIn(word)' = FoundIn(word)
BY DEF FoundIn, FoundAt, Bytes

LEMMA ContentsSame ==
  ASSUME text' = text, NEW ent
  PROVE  Contents(ent)' = Contents(ent)
BY DEF Contents, Bytes

LEMMA PrintsSame ==
  ASSUME text' = text, NEW kind, NEW word
  PROVE  Prints(kind, word)' = Prints(kind, word)
BY DEF Prints, Contents, FoundIn, FoundAt, Bytes

LEMMA DueIs ==
  ASSUME Commanded, program # "shell"
  PROVE  Due(typed) = Prints(program, args)
BY DEF Commanded, Due


LEMMA DueSame ==
  ASSUME text' = text, typed' = typed
  PROVE  Due(typed)' = Due(typed)
<1>1. PICK line : line = typed
  OBVIOUS
<1>2. Due(line)' = Due(line)
  BY PrintsSame DEF Due, Prints, Contents, FoundIn, FoundAt, Bytes
<1>3. typed' = line
  BY <1>1
<1>4. Due(typed)' = Due(line)'
  BY <1>3 DEF Due, Prints, Contents, FoundIn, FoundAt, Bytes
<1> QED
  BY <1>1, <1>2, <1>4

(* When a program returns, what was printed must be what is due.           *)
LEMMA ReturnsRight ==
  ASSUME IInv, program # "shell", NEW rval, NEW said, Returns(rval, said),
         output' \in Prints(program, args)
  PROVE  IInv'
<1>1. /\ program' = "shell" /\ typed' = typed /\ text' = text
      /\ data' = EmptyData
  BY DEF Returns
<1>2. ShellDone'
  <2>1. output' \in Due(typed)
    BY DueIs DEF IInv
  <2>2. Due(typed)' = Due(typed)
    BY <1>1, DueSame
  <2> QED
    BY <2>1, <2>2 DEF ShellDone
<1>4. Commanded'
  BY <1>1 DEF IInv, Commanded
<1>5. CatSoFar' /\ LsSoFar' /\ CounterSoFar' /\ GrepSoFar'
  BY <1>1 DEF CatSoFar, LsSoFar, CounterSoFar, GrepSoFar
<1>6. text' \in Texts
  BY <1>1 DEF IInv
<1> QED
  BY <1>2, <1>4, <1>5, <1>6 DEF IInv

LEMMA InitRight == Init => IInv
<1> SUFFICES ASSUME Init PROVE IInv
  OBVIOUS
<1>1. Commanded /\ text \in Texts
  BY DEF Init, Commanded
<1>2. ShellDone
  BY DEF Init, ShellDone, Due
<1>4. CatSoFar /\ LsSoFar /\ CounterSoFar /\ GrepSoFar
  BY DEF Init, CatSoFar, LsSoFar, CounterSoFar, GrepSoFar
<1> QED
  BY <1>1, <1>2, <1>4 DEF IInv

-----------------------------------------------------------------------------
(* The shell.                                                              *)

LEMMA ShellAgainRight ==
  ASSUME IInv, NEW line \in Lines, ShellAgain(line)
  PROVE  IInv'
<1>1. /\ program = "shell" /\ program' = "shell" /\ typed' = line /\ output' = <<>>
      /\ text' = text /\ data' = data
  BY DEF ShellAgain, grepVars
<1>2. ShellDone'
  <2>1. Due(typed)' = {<<>>}
    <3>1. typed' \in {<<>>, <<"exit">>}
      BY <1>1 DEF ShellAgain
    <3> QED
      BY <3>1 DEF Due
  <2> QED
    BY <1>1, <2>1 DEF ShellDone
<1>4. Commanded' /\ CatSoFar' /\ LsSoFar' /\ CounterSoFar' /\ GrepSoFar' /\ text' \in Texts
  BY <1>1 DEF IInv, Commanded, CatSoFar, LsSoFar, CounterSoFar, GrepSoFar
<1> QED
  BY <1>2, <1>4 DEF IInv

LEMMA LineIsTyped ==
  ASSUME NEW line \in Lines
  PROVE  /\ Plain(line)
         /\ parse_command(line).file_name = Command(line)
         /\ parse_command(line).request_command = Argument(line)
<1>1. line \in Seq(STRING) /\ Plain(line)
  BY InputAssumption DEF Plain
<1>2. parse_command(line) = [file_name |-> Command(line), request_command |-> Argument(line)]
  BY <1>1, ParseRight
<1> QED
  BY <1>1, <1>2

LEMMA NoSuchCommandRight ==
  ASSUME IInv, NEW line \in Lines, NoSuchCommand(line)
  PROVE  IInv'
<1>1. /\ program = "shell" /\ program' = "shell" /\ typed' = line
      /\ output' = <<"no such command">>
      /\ text' = text /\ data' = data
  BY DEF NoSuchCommand, grepVars
<1>2. ShellDone'
  <2>1. Due(typed)' = {<<"no such command">>}
    <3>1. line \notin {<<>>, <<"exit">>} /\ ~Runs(Command(line))
      BY LineIsTyped DEF NoSuchCommand
    <3> QED
      BY <1>1, <3>1 DEF Due
  <2> QED
    BY <1>1, <2>1 DEF ShellDone
<1>4. Commanded' /\ CatSoFar' /\ LsSoFar' /\ CounterSoFar' /\ GrepSoFar' /\ text' \in Texts
  BY <1>1 DEF IInv, Commanded, CatSoFar, LsSoFar, CounterSoFar, GrepSoFar
<1> QED
  BY <1>2, <1>4 DEF IInv

LEMMA ExecuteRight ==
  ASSUME IInv, NEW line \in Lines, execute(line)
  PROVE  IInv'
<1>1. /\ Runs(Command(line))
      /\ program' = Entries[Lookup(Command(line))].kind
      /\ typed' = line /\ output' = <<>> /\ args' = Argument(line)
      /\ entry' = 0 /\ position' = 0 /\ dir' = 0 /\ last' = 0
      /\ i' = 0 /\ max' = 0 /\ text' = text
  BY LineIsTyped DEF execute
<1>2. line \notin {<<>>, <<"exit">>}
  BY DEF execute
<1>3. program' \in Executable
  BY <1>1 DEF Runs
<1>4. program' # "shell"
  BY <1>3 DEF Executable
<1>5. Commanded'
  BY <1>1, <1>2 DEF Commanded
<1>6. ShellDone'
  BY <1>4 DEF ShellDone
<1>8. CatSoFar' /\ CounterSoFar'
  BY <1>1 DEF CatSoFar, CounterSoFar
<1>9. LsSoFar' /\ GrepSoFar'
  <2>1. 0 \in 0 .. Len(Entries)
    BY DirectorySize
  <2>2. LsSoFar'
    BY <1>1, <2>1, JoinedZero DEF LsSoFar
  <2>3. Joined(dir, FoundIn(args))' = <<>>
    BY <1>1, JoinedZero
  <2> QED
    BY <1>1, <2>1, <2>2, <2>3 DEF GrepSoFar
<1> QED
  BY <1>1, <1>5, <1>6, <1>8, <1>9 DEF IInv


-----------------------------------------------------------------------------
(* cat.                                                                    *)

LEMMA TwoMessages ==
  ASSUME NEW a, NEW b
  PROVE  (<<>> \o <<a>>) \o <<b>> = <<a, b>> /\ (<<>> \o <<a>>) \o <<>> = <<a>>
<1> DEFINE S == {a, b}
<1>1. <<a>> \in Seq(S) /\ <<b>> \in Seq(S)
  OBVIOUS
<1>2. <<>> \o <<a>> = <<a>> /\ <<a>> \o <<>> = <<a>>
  BY <1>1, ConcatEmptySeq
<1>3. <<a>> \o <<b>> = <<a, b>>
  <2>1. PICK v \in Seq(S) : v = <<a>> \o <<b>>
    BY <1>1, ConcatProperties
  <2>2. Len(v) = 2 /\ v[1] = a /\ v[2] = b
    BY <1>1, <2>1, ConcatProperties
  <2>3. <<a, b>> \in Seq(S) /\ Len(<<a, b>>) = 2
    OBVIOUS
  <2>4. PICK w \in Seq(S) : w = <<a, b>>
    BY <2>3
  <2>5. Len(w) = 2 /\ w[1] = a /\ w[2] = b
    BY <2>4
  <2>6. \A k \in 1 .. Len(v) : v[k] = w[k]
    <3>1. \A k \in 1 .. 2 : k = 1 \/ k = 2
      OBVIOUS
    <3> QED
      BY <2>2, <2>5, <3>1
  <2>7. v = w
    BY <2>2, <2>5, <2>6, SeqEqual
  <2> QED
    BY <2>1, <2>4, <2>7
<1> QED
  BY <1>2, <1>3

LEMMA ReturnPrints ==
  ASSUME NEW rval, NEW said, Returns(rval, said)
  PROVE  /\ rval = 0 => output' = (output \o said) \o <<>>
         /\ rval # 0 => output' = (output \o said) \o <<"program terminated abnormally">>
BY DEF Returns

LEMMA EntryIsNotZero ==
  ASSUME NEW ent \in DOMAIN Entries PROVE ent \in Nat /\ ent # 0
BY DirectorySize

LEMMA NamesType ==
  ASSUME NEW k \in 1 .. Len(Entries)
  PROVE  Names[k] \in Seq(Chars)
<1>1. k \in DOMAIN Entries
  BY DirectorySize
<1>2. Names[k] = Entries[k].name
  BY <1>1 DEF Names
<1> QED
  BY <1>1, <1>2, NameIs

LEMMA CatStartRight ==
  ASSUME IInv, CatStart
  PROVE  IInv'
<1>1. program = "cat" /\ entry = 0
  BY DEF CatStart
<1>2. output = <<>>
  <2>1. Found(args) # {} => Lookup(args) # 0
    BY LookupFinds, EntryIsNotZero
  <2> QED
    BY <1>1, <2>1 DEF IInv, CatSoFar
<1>3. CASE args = <<>> /\ Returns(3, <<"could not read arguments">>)
  <2>1. output' = <<"could not read arguments", "program terminated abnormally">>
    <3>1. 3 # 0
      OBVIOUS
    <3>2. output' = (output \o <<"could not read arguments">>) \o <<"program terminated abnormally">>
      BY <1>3, <3>1, ReturnPrints, Zenon
    <3>3. output' = (<<>> \o <<"could not read arguments">>) \o <<"program terminated abnormally">>
      BY <1>2, <3>2, Zenon
    <3> QED
      BY <3>3, TwoMessages
  <2>2. Prints(program, args) = {<<"could not read arguments", "program terminated abnormally">>}
    BY <1>1, <1>3 DEF Prints, Abnormally
  <2> QED
    BY <1>1, <1>3, <2>1, <2>2, ReturnsRight
<1>4. CASE args # <<>> /\ Found(args) = {} /\ Returns(2, <<"file not found">>)
  <2>1. output' = <<"file not found", "program terminated abnormally">>
    <3>1. 2 # 0
      OBVIOUS
    <3>2. output' = (output \o <<"file not found">>) \o <<"program terminated abnormally">>
      BY <1>4, <3>1, ReturnPrints, Zenon
    <3>3. output' = (<<>> \o <<"file not found">>) \o <<"program terminated abnormally">>
      BY <1>2, <3>2, Zenon
    <3> QED
      BY <3>3, TwoMessages
  <2>2. Prints(program, args) = {<<"file not found", "program terminated abnormally">>}
    BY <1>1, <1>4 DEF Prints, Abnormally
  <2> QED
    BY <1>1, <1>4, <2>1, <2>2, ReturnsRight
<1>5. CASE /\ args # <<>> /\ Found(args) # {}
           /\ entry' = Lookup(args) /\ position' = 0
           /\ UNCHANGED <<program, typed, args, text, grepVars, counterVars, output>>
  <2>1. PICK ent \in DOMAIN Entries : ent = Lookup(args)
    BY <1>5, LookupFinds
  <2>2. /\ program' = "cat" /\ typed' = typed /\ args' = args /\ text' = text
        /\ data' = data /\ output' = <<>> /\ entry' = ent /\ position' = 0
    BY <1>1, <1>2, <1>5, <2>1 DEF grepVars
  <2>3. Bytes(ent) \in Seq(STRING) /\ Len(Bytes(ent)) \in Nat
    BY BytesType, LenProperties DEF IInv
  <2>4. SubSeq(Bytes(ent), 1, 0) = <<>>
    BY SubSeqEmpty
  <2>5. Bytes(entry)' = Bytes(ent)
    BY <2>2 DEF Bytes
  <2>6. CatSoFar'
    <3>1. args' # <<>> /\ Found(args)' # {} /\ entry' = Lookup(args)'
      BY <1>5, <2>1, <2>2
    <3>2. CASE Entries[ent].kind # "dir"
      <4>1. position' \in 0 .. Len(Bytes(entry)')
        BY <2>2, <2>3, <2>5
      <4>2. output' = SubSeq(Bytes(entry)', 1, position')
        BY <2>2, <2>4, <2>5
      <4> QED
        BY <2>2, <3>1, <3>2, <4>1, <4>2 DEF CatSoFar
    <3>3. CASE Entries[ent].kind = "dir"
      <4>1. position' \in 0 .. Len(Entries)
        BY <2>2, DirectorySize
      <4>2. output' = Joined(position', Names)
        BY <2>2, JoinedZero
      <4> QED
        BY <2>2, <3>1, <3>3, <4>1, <4>2 DEF CatSoFar
    <3> QED
      BY <3>2, <3>3
    <2>8. Commanded' /\ ShellDone' /\ LsSoFar' /\ CounterSoFar' /\ GrepSoFar' /\ text' \in Texts
    BY <1>1, <2>2 DEF IInv, Commanded, ShellDone, LsSoFar, CounterSoFar, GrepSoFar
  <2> QED
    BY <2>6, <2>8 DEF IInv
<1> QED
  BY <1>3, <1>4, <1>5 DEF CatStart

(* A read adds the bytes that come next.                                   *)
LEMMA MoreBytes ==
  ASSUME NEW b \in Seq(STRING), NEW p \in 0 .. Len(b), NEW got \in Seq(STRING), NEW t \in Nat,
         t = p + Len(got), t <= Len(b), \A k \in 1 .. Len(got) : got[k] = b[p + k]
  PROVE  SubSeq(b, 1, p) \o got = SubSeq(b, 1, t)
<1>1. Len(b) \in Nat /\ Len(got) \in Nat /\ p \in Nat /\ 1 \in 1 .. Len(b) + 1
  BY LenProperties
<1>2. p \in 1 - 1 .. Len(b) /\ t \in 1 - 1 .. Len(b)
  BY <1>1
<1>3. PICK s \in Seq(STRING) : s = SubSeq(b, 1, p)
  BY <1>1, <1>2, Slice
<1>4. Len(s) = p /\ \A k \in 1 .. p : s[k] = b[k]
  <2>1. /\ Len(SubSeq(b, 1, p)) = p - 1 + 1
        /\ \A k \in 1 .. p - 1 + 1 : SubSeq(b, 1, p)[k] = b[1 + k - 1]
    BY <1>1, <1>2, Slice
  <2> QED
    BY <1>1, <1>3, <2>1
<1>5. PICK u \in Seq(STRING) : u = SubSeq(b, 1, t)
  BY <1>1, <1>2, Slice
<1>6. Len(u) = t /\ \A k \in 1 .. t : u[k] = b[k]
  <2>1. /\ Len(SubSeq(b, 1, t)) = t - 1 + 1
        /\ \A k \in 1 .. t - 1 + 1 : SubSeq(b, 1, t)[k] = b[1 + k - 1]
    BY <1>1, <1>2, Slice
  <2> QED
    BY <1>1, <1>5, <2>1
<1>7. PICK v \in Seq(STRING) : v = s \o got
  BY ConcatProperties
<1>8. /\ Len(v) = Len(s) + Len(got)
      /\ \A k \in 1 .. Len(s) + Len(got) : v[k] = IF k <= Len(s) THEN s[k] ELSE got[k - Len(s)]
  BY <1>7, ConcatProperties
<1>9. ASSUME NEW k \in 1 .. Len(v) PROVE v[k] = u[k]
  <2>1. k \in 1 .. t /\ k \in 1 .. Len(s) + Len(got)
    BY <1>1, <1>4, <1>8
  <2>2. CASE k <= p
    <3>1. k \in 1 .. p
      BY <2>1, <2>2
    <3> QED
      BY <1>4, <1>6, <1>8, <2>1, <2>2, <3>1
  <2>3. CASE ~(k <= p)
    <3>1. PICK j \in 1 .. Len(got) : j = k - p
      <4>1. k - p \in 1 .. Len(got)
        BY <1>1, <2>1, <2>3
      <4> QED
        BY <4>1
    <3>2. p + j = k
      BY <1>1, <2>1, <3>1
    <3>3. v[k] = got[j]
      BY <1>4, <1>8, <2>1, <2>3, <3>1
    <3>4. got[j] = b[k]
      BY <3>2
    <3> QED
      BY <1>6, <2>1, <3>3, <3>4
  <2> QED
    BY <2>2, <2>3
<1>10. Len(v) = Len(u)
  BY <1>4, <1>6, <1>8
<1>11. v = u
  BY <1>9, <1>10, SeqEqual
<1> QED
  BY <1>3, <1>5, <1>7, <1>11


(* What stays when a program goes on.                                      *)
LEMMA ProgramGoesOn ==
  ASSUME IInv, program # "shell", program' = program, typed' = typed, args' = args, text' = text
  PROVE  Commanded' /\ ShellDone' /\ text' \in Texts
BY DEF IInv, Commanded, ShellDone

LEMMA NothingSaid ==
  ASSUME NEW out \in Seq(Chars), output = out, Returns(0, <<>>)
  PROVE  output' = out
<1>1. output' = (output \o <<>>) \o <<>>
  BY ReturnPrints, Zenon
<1>2. out \o <<>> = out
  BY ConcatEmptySeq
<1> QED
  BY <1>1, <1>2

LEMMA CatReadFile ==
  ASSUME IInv, CatRead, Entries[entry].kind # "dir"
  PROVE  IInv'
<1>1. program = "cat" /\ entry # 0
  BY DEF CatRead
<1>2. /\ args # <<>> /\ Found(args) # {} /\ entry = Lookup(args)
      /\ position \in 0 .. Len(Bytes(entry))
      /\ output = SubSeq(Bytes(entry), 1, position)
  BY <1>1 DEF IInv, CatSoFar
<1>3. PICK ent \in DOMAIN Entries : ent = entry
  BY <1>2, LookupFinds
<1>4. PICK b \in Seq(STRING) : b = Bytes(ent) /\ Len(b) \in Nat
  BY BytesType, LenProperties DEF IInv
<1>5. PICK p \in 0 .. Len(b) : p = position
  BY <1>2, <1>3, <1>4
<1>6. PICK got : got = Read(ent, p, BUFSIZE)
  OBVIOUS
<1>7. FileRead(ent, p, BUFSIZE, got)
  <2>1. p \in 0 .. Len(Bytes(ent)) /\ Entries[ent].kind # "dir"
    BY <1>3, <1>4
  <2>2. text \in Texts
    BY DEF IInv
  <2> QED
    BY <1>6, <2>1, <2>2, ReadIs, BufferSize
<1>8. output = SubSeq(b, 1, p)
  BY <1>2, <1>3, <1>4, <1>5
<1>9. CASE got = <<>> /\ Returns(0, <<>>)
  <2>1. Len(got) = 0
    BY <1>9, EmptySeq
  <2>2. p = Len(b)
    BY <1>4, <1>5, <1>7, <2>1, BufferSize DEF FileRead
  <2>3. output = b
    BY <1>8, <2>2, SubSeqFull
  <2>4. output' = b
    BY <1>9, <2>3, StringsArePrinted, NothingSaid
  <2>5. Prints(program, args) = {Contents(Lookup(args))}
    BY <1>1, <1>2 DEF Prints
  <2>6. Contents(ent) = b
    BY <1>3, <1>4 DEF Contents
  <2> QED
    BY <1>1, <1>2, <1>3, <1>9, <2>4, <2>5, <2>6, ReturnsRight
<1>10. CASE /\ got # <<>>
            /\ output' = output \o got
            /\ position' = position + Advance(entry, got)
            /\ UNCHANGED <<program, typed, args, text, entry, grepVars, counterVars>>
  <2>1. PICK t \in 0 .. Len(b) : t = p + Len(got)
    BY <1>4, <1>5, <1>7 DEF FileRead
  <2>2. SubSeq(b, 1, p) \o got = SubSeq(b, 1, t)
    <3>1. /\ got \in Seq(STRING) /\ t \in Nat /\ t <= Len(b)
          /\ \A k \in 1 .. Len(got) : got[k] = b[p + k]
      BY <1>4, <1>7, <2>1 DEF FileRead
    <3> QED
      BY <2>1, <3>1, MoreBytes
  <2>3. /\ program' = "cat" /\ typed' = typed /\ args' = args /\ text' = text
        /\ data' = data /\ entry' = ent /\ position' = t
    BY <1>1, <1>3, <1>5, <1>7, <1>10, <2>1 DEF grepVars, FileRead
  <2>4. output' = SubSeq(b, 1, t)
    BY <1>8, <1>10, <2>2
  <2>5. Bytes(entry)' = b
    BY <1>4, <2>3 DEF Bytes
  <2>6. CatSoFar'
    <3>1. args' # <<>> /\ Found(args)' # {} /\ entry' = Lookup(args)'
      BY <1>2, <1>3, <2>3
    <3> QED
      BY <1>3, <2>1, <2>3, <2>4, <2>5, <3>1 DEF CatSoFar
    <2>8. LsSoFar' /\ CounterSoFar' /\ GrepSoFar'
    BY <2>3 DEF LsSoFar, CounterSoFar, GrepSoFar
  <2>9. Commanded' /\ ShellDone' /\ text' \in Texts
    BY <1>1, <2>3, ProgramGoesOn
  <2> QED
    BY <2>6, <2>8, <2>9 DEF IInv
<1> QED
  BY <1>3, <1>5, <1>6, <1>9, <1>10 DEF CatRead

LEMMA CatReadDirectory ==
  ASSUME IInv, CatRead, Entries[entry].kind = "dir"
  PROVE  IInv'
<1>1. program = "cat" /\ entry # 0
  BY DEF CatRead
<1>2. /\ args # <<>> /\ Found(args) # {} /\ entry = Lookup(args)
      /\ position \in 0 .. Len(Entries)
      /\ output = Joined(position, Names)
  BY <1>1 DEF IInv, CatSoFar
<1>3. PICK ent \in DOMAIN Entries : ent = entry
  BY <1>2, LookupFinds
<1>4. PICK p \in Nat : p = position /\ p \in 0 .. Len(Entries)
  BY <1>2, DirectorySize
<1>5. PICK got : got = Read(ent, p, BUFSIZE)
  OBVIOUS
<1>6. PICK m \in Nat : m = p + 1
  OBVIOUS
<1>7. /\ p = Len(Entries) => got = <<>>
      /\ p # Len(Entries) => m \in DOMAIN Entries /\ got = Entries[m].name /\ got # <<>>
                             /\ Advance(ent, got) = 1
  <2>1. \A e \in DOMAIN Entries : Len(Entries[e].name) <= BUFSIZE
    BY DirectoryAssumption
  <2>2. /\ p = Len(Entries) => Read(ent, p, BUFSIZE) = <<>>
        /\ p # Len(Entries) => /\ m \in DOMAIN Entries
                               /\ Read(ent, p, BUFSIZE) = Entries[m].name
                               /\ Read(ent, p, BUFSIZE) # <<>>
                               /\ Advance(ent, Read(ent, p, BUFSIZE)) = 1
    BY <1>3, <1>4, <1>6, <2>1, NameRead, BufferSize
  <2> QED
    BY <1>5, <2>2
<1>8. \A k \in 1 .. p : Names[k] \in Seq(Chars)
  <2>1. \A k \in 1 .. p : k \in 1 .. Len(Entries)
    BY <1>4, DirectorySize
  <2> QED
    BY <2>1, NamesType
<1>9. PICK out \in Seq(Chars) : out = output /\ out = Joined(p, Names)
  BY <1>2, <1>4, <1>8, JoinedType
<1>10. CASE got = <<>> /\ Returns(0, <<>>)
  <2>1. p = Len(Entries)
    BY <1>7, <1>10
  <2>2. output' = out
    BY <1>9, <1>10, NothingSaid
  <2>3. Prints(program, args) = {Contents(Lookup(args))}
    BY <1>1, <1>2 DEF Prints
  <2>4. Contents(ent) = out
    BY <1>3, <1>9, <2>1 DEF Contents
  <2> QED
    BY <1>1, <1>2, <1>3, <1>10, <2>2, <2>3, <2>4, ReturnsRight
<1>11. CASE /\ got # <<>>
            /\ output' = output \o got
            /\ position' = position + Advance(entry, got)
            /\ UNCHANGED <<program, typed, args, text, entry, grepVars, counterVars>>
  <2>1. m \in DOMAIN Entries /\ got = Entries[m].name /\ Advance(ent, got) = 1
    BY <1>7, <1>11
  <2>2. Joined(m, Names) = Joined(p, Names) \o Names[m]
    BY <1>6, JoinedNext
  <2>3. Names[m] = got
    BY <2>1 DEF Names
  <2>4. /\ program' = "cat" /\ typed' = typed /\ args' = args /\ text' = text
        /\ data' = data /\ entry' = ent /\ position' = m
    BY <1>1, <1>3, <1>4, <1>6, <1>11, <2>1 DEF grepVars
  <2>5. output' = Joined(m, Names)
    BY <1>9, <1>11, <2>2, <2>3
  <2>6. m \in 0 .. Len(Entries)
    BY <2>1, DirectorySize
  <2>7. CatSoFar'
    <3>1. args' # <<>> /\ Found(args)' # {} /\ entry' = Lookup(args)'
      BY <1>2, <1>3, <2>4
    <3> QED
      BY <1>3, <2>4, <2>5, <2>6, <3>1 DEF CatSoFar
    <2>9. LsSoFar' /\ CounterSoFar' /\ GrepSoFar'
    BY <2>4 DEF LsSoFar, CounterSoFar, GrepSoFar
  <2>10. Commanded' /\ ShellDone' /\ text' \in Texts
    BY <1>1, <2>4, ProgramGoesOn
  <2> QED
    BY <2>7, <2>9, <2>10 DEF IInv
<1> QED
  BY <1>3, <1>4, <1>5, <1>10, <1>11 DEF CatRead


-----------------------------------------------------------------------------
(* ls and counter.                                                         *)

LEMMA NewlineAdded ==
  ASSUME NEW s \in Seq(Chars)
  PROVE  Append(s, NL) \in Seq(Chars)
<1>1. NL \in Chars
  BY DEF Chars
<1> QED
  BY <1>1, AppendProperties

LEMMA NameLinesType ==
  ASSUME NEW k \in 1 .. Len(Entries)
  PROVE  NameLines[k] \in Seq(Chars)
<1>1. k \in DOMAIN Entries
  BY DirectorySize
<1>2. NameLines[k] = Append(Entries[k].name, NL)
  BY <1>1 DEF NameLines
<1>3. Entries[k].name \in Seq(Chars)
  BY <1>1, NameIs
<1> QED
  BY <1>2, <1>3, NewlineAdded

LEMMA LsReadRight ==
  ASSUME IInv, LsRead
  PROVE  IInv'
<1>1. program = "ls"
  BY DEF LsRead
<1>2. PICK p \in Nat : p = dir /\ p \in 0 .. Len(Entries) /\ output = Joined(p, NameLines)
  BY <1>1, DirectorySize DEF IInv, LsSoFar
<1>3. PICK got : got = Read(DirEntry, p, MAXIMUM_FILENAME_LENGTH)
  OBVIOUS
<1>4. PICK m \in Nat : m = p + 1
  OBVIOUS
<1>5. /\ p = Len(Entries) => got = <<>>
      /\ p # Len(Entries) => m \in DOMAIN Entries /\ got = Entries[m].name
  <2>1. \A e \in DOMAIN Entries : Len(Entries[e].name) <= MAXIMUM_FILENAME_LENGTH
    BY DirectoryAssumption
  <2>2. MAXIMUM_FILENAME_LENGTH \in Nat
    BY ProgramsAssumption
  <2>3. /\ p = Len(Entries) => Read(DirEntry, p, MAXIMUM_FILENAME_LENGTH) = <<>>
        /\ p # Len(Entries) => /\ m \in DOMAIN Entries
                               /\ Read(DirEntry, p, MAXIMUM_FILENAME_LENGTH) = Entries[m].name
                               /\ Read(DirEntry, p, MAXIMUM_FILENAME_LENGTH) # <<>>
                               /\ Advance(DirEntry, Read(DirEntry, p, MAXIMUM_FILENAME_LENGTH)) = 1
    BY <1>2, <1>4, <2>1, <2>2, DirEntryIs, NameRead
  <2> QED
    BY <1>3, <2>3
<1>6. CASE got = <<>> /\ Returns(0, <<>>)
  <2>1. p = Len(Entries)
    BY <1>5, <1>6, NameIs
  <2>2. \A k \in 1 .. p : NameLines[k] \in Seq(Chars)
    BY <2>1, NameLinesType
  <2>3. PICK out \in Seq(Chars) : out = output /\ out = Joined(p, NameLines)
    BY <1>2, <2>2, JoinedType
  <2>4. output' = out
    BY <1>6, <2>3, NothingSaid
  <2>5. Prints(program, args) = {Joined(Len(Entries), NameLines)}
    BY <1>1 DEF Prints
  <2> QED
    BY <1>1, <1>6, <2>1, <2>3, <2>4, <2>5, ReturnsRight
<1>7. CASE /\ got # <<>>
           /\ output' = output \o Append(got, NL)
           /\ dir' = dir + 1
           /\ UNCHANGED <<program, typed, args, text, file, data, last, counterVars>>
  <2>1. m \in DOMAIN Entries /\ got = Entries[m].name
    BY <1>5, <1>7
  <2>2. Joined(m, NameLines) = Joined(p, NameLines) \o NameLines[m]
    BY <1>4, JoinedNext
  <2>3. NameLines[m] = Append(got, NL)
    BY <2>1 DEF NameLines
  <2>4. /\ program' = "ls" /\ typed' = typed /\ args' = args /\ text' = text
        /\ data' = data /\ dir' = m
    BY <1>1, <1>2, <1>4, <1>7
  <2>5. output' = Joined(m, NameLines)
    BY <1>2, <1>7, <2>2, <2>3
  <2>6. m \in 0 .. Len(Entries)
    BY <2>1, DirectorySize
  <2>7. LsSoFar'
    BY <2>4, <2>5, <2>6 DEF LsSoFar
    <2>9. CatSoFar' /\ CounterSoFar' /\ GrepSoFar'
    BY <2>4 DEF CatSoFar, CounterSoFar, GrepSoFar
  <2>10. Commanded' /\ ShellDone' /\ text' \in Texts
    BY <1>1, <2>4, ProgramGoesOn
  <2> QED
    BY <2>7, <2>9, <2>10 DEF IInv
<1> QED
  BY <1>2, <1>3, <1>6, <1>7 DEF LsRead

LEMMA NumberLinesType ==
  ASSUME NEW k \in Nat
  PROVE  NumberLines[k] \in Seq(Chars)
<1>1. NumberLines[k] = Append(Numeral[k], NL)
  BY DEF NumberLines
<1>2. Numeral[k] \in Seq(Chars)
  BY ItoaIsNumeral
<1> QED
  BY <1>1, <1>2, NewlineAdded

LEMMA CounterStartRight ==
  ASSUME IInv, CounterStart
  PROVE  IInv'
<1>1. program = "counter" /\ max = 0
  BY DEF CounterStart
<1>2. output = <<>> /\ i = 0
  <2>1. ~\E c \in DOMAIN Counts : max = Counts[c]
    BY <1>1, InputAssumption
  <2> QED
    BY <1>1, <2>1 DEF IInv, CounterSoFar
<1>3. Prints(program, args) = {<<>>, <<"Wrong Choice!">>} \cup
                              {Joined(Counts[c], NumberLines) : c \in DOMAIN Counts}
  BY <1>1 DEF Prints
<1>4. CASE Returns(0, <<"Wrong Choice!">>)
  <2>1. output' = (output \o <<"Wrong Choice!">>) \o <<>>
    BY <1>4, ReturnPrints, Zenon
  <2>2. output' = (<<>> \o <<"Wrong Choice!">>) \o <<>>
    BY <1>2, <2>1, Zenon
  <2>3. output' = <<"Wrong Choice!">>
    BY <2>2, TwoMessages
  <2> QED
    BY <1>1, <1>3, <1>4, <2>3, ReturnsRight
<1>5. CASE Returns(0, <<>>)
  <2>1. PICK out \in Seq(Chars) : out = <<>>
    BY EmptySeq
  <2>2. output' = <<>>
    BY <1>2, <1>5, <2>1, NothingSaid
  <2> QED
    BY <1>1, <1>3, <1>5, <2>2, ReturnsRight
<1>6. CASE /\ \E choice \in Answers : /\ choice[1] \in DOMAIN Counts
                                      /\ max' = Counts[choice[1]]
           /\ UNCHANGED <<program, typed, args, text, file, grepVars, i, output>>
  <2>1. PICK c \in DOMAIN Counts : max' = Counts[c]
    BY <1>6
  <2>2. /\ program' = "counter" /\ typed' = typed /\ args' = args /\ text' = text
        /\ data' = data /\ i' = 0 /\ output' = <<>>
    BY <1>1, <1>2, <1>6 DEF grepVars
  <2>3. Counts[c] \in Nat /\ 0 \in 0 .. Counts[c]
    BY InputAssumption
  <2>4. CounterSoFar'
    BY <2>1, <2>2, <2>3, JoinedZero DEF CounterSoFar
    <2>6. CatSoFar' /\ LsSoFar' /\ GrepSoFar'
    BY <2>2 DEF CatSoFar, LsSoFar, GrepSoFar
  <2>7. Commanded' /\ ShellDone' /\ text' \in Texts
    BY <1>1, <2>2, ProgramGoesOn
  <2> QED
    BY <2>4, <2>6, <2>7 DEF IInv
<1> QED
  BY <1>4, <1>5, <1>6 DEF CounterStart

LEMMA CounterStepRight ==
  ASSUME IInv, CounterStep
  PROVE  IInv'
<1>1. program = "counter" /\ max # 0
  BY DEF CounterStep
<1>2. PICK c \in DOMAIN Counts : max = Counts[c] /\ i \in 0 .. max /\ output = Joined(i, NumberLines)
  BY <1>1 DEF IInv, CounterSoFar
<1>3. Counts[c] \in Nat
  BY InputAssumption
<1>4. PICK n \in Nat : n = i /\ n \in 0 .. Counts[c]
  BY <1>2, <1>3
<1>5. PICK m \in Nat : m = n + 1
  OBVIOUS
<1>6. \A k \in 1 .. n : NumberLines[k] \in Seq(Chars)
  BY NumberLinesType
<1>7. PICK out \in Seq(Chars) : out = output /\ out = Joined(n, NumberLines)
  BY <1>2, <1>4, <1>6, JoinedType
<1>8. CASE i = max /\ Returns(0, <<>>)
  <2>1. output' = out
    BY <1>7, <1>8, NothingSaid
  <2>2. out = Joined(Counts[c], NumberLines)
    BY <1>2, <1>4, <1>7, <1>8
  <2>3. Prints(program, args) = {<<>>, <<"Wrong Choice!">>} \cup
                                {Joined(Counts[d], NumberLines) : d \in DOMAIN Counts}
    BY <1>1 DEF Prints
  <2> QED
    BY <1>1, <1>8, <2>1, <2>2, <2>3, ReturnsRight
<1>9. CASE /\ i < max
           /\ output' = output \o Append(itoa(i + 1), NL)
           /\ i' = i + 1
           /\ UNCHANGED <<program, typed, args, text, file, grepVars, max>>
  <2>1. Joined(m, NumberLines) = Joined(n, NumberLines) \o NumberLines[m]
    BY <1>5, JoinedNext
  <2>2. NumberLines[m] = Append(itoa(m), NL)
    BY ItoaIsNumeral DEF NumberLines
  <2>3. /\ program' = "counter" /\ typed' = typed /\ args' = args /\ text' = text
        /\ data' = data /\ i' = m /\ max' = Counts[c]
    BY <1>1, <1>2, <1>4, <1>5, <1>9 DEF grepVars
  <2>4. output' = Joined(m, NumberLines)
    <3>1. output' = out \o Append(itoa(m), NL)
      BY <1>4, <1>5, <1>7, <1>9
    <3> QED
      BY <1>7, <2>1, <2>2, <3>1
  <2>5. m \in 0 .. Counts[c]
    BY <1>2, <1>3, <1>4, <1>5, <1>9
  <2>6. CounterSoFar'
    BY <2>3, <2>4, <2>5 DEF CounterSoFar
    <2>8. CatSoFar' /\ LsSoFar' /\ GrepSoFar'
    BY <2>3 DEF CatSoFar, LsSoFar, GrepSoFar
  <2>9. Commanded' /\ ShellDone' /\ text' \in Texts
    BY <1>1, <2>3, ProgramGoesOn
  <2> QED
    BY <2>6, <2>8, <2>9 DEF IInv
<1> QED
  BY <1>8, <1>9 DEF CounterStep


-----------------------------------------------------------------------------
(* grep.                                                                   *)

LEMMA FoundInJoins ==
  ASSUME text \in Texts, NEW d \in Nat, d <= Len(Entries)
  PROVE  Joined(d, FoundIn(args)) \in Seq(Chars)
<1>1. \A k \in 1 .. d : k \in DOMAIN Entries
  BY DirectorySize
<1>2. \A k \in 1 .. d : FoundIn(args)[k] \in Seq(Chars)
  BY <1>1, FoundInType
<1> QED
  BY <1>2, JoinedType

LEMMA GrepEntryRight ==
  ASSUME IInv, GrepEntry
  PROVE  IInv'
<1>1. program = "grep" /\ entry = 0
  BY DEF GrepEntry
<1>2. PICK d \in Nat : d = dir /\ d \in 0 .. Len(Entries) /\ d <= Len(Entries)
  BY <1>1, DirectorySize DEF IInv, GrepSoFar
<1>3. PICK got : got = Read(DirEntry, d, MAXIMUM_FILENAME_LENGTH)
  OBVIOUS
<1>4. PICK m \in Nat : m = d + 1
  OBVIOUS
<1>5. /\ d = Len(Entries) => got = <<>>
      /\ d # Len(Entries) => m \in DOMAIN Entries /\ got = Entries[m].name /\ got # <<>>
  <2>1. \A e \in DOMAIN Entries : Len(Entries[e].name) <= MAXIMUM_FILENAME_LENGTH
    BY DirectoryAssumption
  <2>2. MAXIMUM_FILENAME_LENGTH \in Nat
    BY ProgramsAssumption
  <2>3. /\ d = Len(Entries) => Read(DirEntry, d, MAXIMUM_FILENAME_LENGTH) = <<>>
        /\ d # Len(Entries) => /\ m \in DOMAIN Entries
                               /\ Read(DirEntry, d, MAXIMUM_FILENAME_LENGTH) = Entries[m].name
                               /\ Read(DirEntry, d, MAXIMUM_FILENAME_LENGTH) # <<>>
                               /\ Advance(DirEntry, Read(DirEntry, d, MAXIMUM_FILENAME_LENGTH)) = 1
    BY <1>2, <1>4, <2>1, <2>2, DirEntryIs, NameRead
  <2> QED
    BY <1>3, <2>3
<1>6. CASE args = <<>> /\ Returns(3, <<"could not read argument">>)
  <2>1. output = <<>>
    BY <1>1, <1>6 DEF IInv, GrepSoFar
  <2>2. 3 # 0
    OBVIOUS
  <2>3. output' = (output \o <<"could not read argument">>) \o <<"program terminated abnormally">>
    BY <1>6, <2>2, ReturnPrints, Zenon
  <2>4. output' = (<<>> \o <<"could not read argument">>) \o <<"program terminated abnormally">>
    BY <2>1, <2>3, Zenon
  <2>5. output' = <<"could not read argument", "program terminated abnormally">>
    BY <2>4, TwoMessages
  <2>6. Prints(program, args) = {<<"could not read argument", "program terminated abnormally">>}
    BY <1>1, <1>6 DEF Prints, Abnormally
  <2> QED
    BY <1>1, <1>6, <2>5, <2>6, ReturnsRight
<1>7. ASSUME args # <<>>
      PROVE  \E out \in Seq(Chars) : out = output /\ out = Joined(d, FoundIn(args))
  <2>1. output = Joined(d, FoundIn(args))
    BY <1>1, <1>2, <1>7 DEF IInv, GrepSoFar
  <2>2. Joined(d, FoundIn(args)) \in Seq(Chars)
    BY <1>2, FoundInJoins DEF IInv
  <2> QED
    BY <2>1, <2>2
<1>8. CASE args # <<>> /\ got = <<>> /\ Returns(0, <<>>)
  <2>1. d = Len(Entries)
    BY <1>5, <1>8
  <2>2. PICK out \in Seq(Chars) : out = output /\ out = Joined(d, FoundIn(args))
    BY <1>7, <1>8
  <2>3. output' = out
    BY <1>8, <2>2, NothingSaid
  <2>4. Prints(program, args) = {Joined(Len(Entries), FoundIn(args))}
    BY <1>1, <1>8 DEF Prints
  <2> QED
    BY <1>1, <1>8, <2>1, <2>2, <2>3, <2>4, ReturnsRight
<1>9. CASE /\ args # <<>> /\ got # <<>>
           /\ dir' = dir + 1
           /\ \/ got[1] = "." /\ entry' = 0
              \/ got[1] # "." /\ entry' = Lookup(got) /\ data' \in Uninitialised
           /\ position' = 0 /\ last' = 0
           /\ UNCHANGED <<program, typed, args, text, counterVars, output>>
  <2>1. PICK out \in Seq(Chars) : out = output /\ out = Joined(d, FoundIn(args))
    BY <1>7, <1>9
  <2>2. m \in DOMAIN Entries /\ got = Entries[m].name
    BY <1>5, <1>9
  <2>3. /\ program' = "grep" /\ typed' = typed /\ args' = args /\ text' = text
        /\ dir' = m /\ output' = out /\ position' = 0 /\ last' = 0
    BY <1>1, <1>2, <1>4, <1>9, <2>1
  <2>4. PICK found : found = FoundIn(args)
    OBVIOUS
  <2>5. FoundIn(args)' = found
    BY <2>3, <2>4 DEF FoundIn, FoundAt, Bytes
  <2>6. m \in 0 .. Len(Entries)
    BY <2>2, DirectorySize
  <2>7. GrepSoFar'
    <3>1. CASE got[1] = "."
      <4>1. Entries[m].kind = "dir"
        BY <2>2, <3>1, DirectoryAssumption
      <4>2. found[m] = <<>>
        BY <2>2, <2>4, <4>1 DEF FoundIn
      <4>3. Joined(m, found) = Joined(d, found) \o found[m]
        BY <1>4, JoinedNext
      <4>4. Joined(m, found) = out
        BY <2>1, <2>4, <4>2, <4>3, ConcatEmptySeq
      <4>5. entry' = 0
        BY <1>9, <3>1
      <4> QED
        BY <1>9, <2>3, <2>5, <2>6, <4>4, <4>5 DEF GrepSoFar
    <3>2. CASE got[1] # "."
      <4>1. Entries[m].kind # "dir"
        BY <2>2, <3>2, DirectoryAssumption
      <4>2. entry' = m /\ m # 0
        BY <1>9, <2>2, <3>2, LookupIs, EntryIsNotZero
      <4>3. PICK b \in Seq(STRING) : b = Bytes(m) /\ Len(b) \in Nat
        BY <2>2, BytesType, LenProperties DEF IInv
      <4>4. Bytes(entry)' = b
        BY <2>3, <4>2, <4>3 DEF Bytes
      <4>5. Framed(data')
        BY <1>9, <3>2 DEF Uninitialised, Framed
      <4>6. Buffered(Bytes(entry)', position' - last', data', last')
        <5>1. position' - last' = 0
          BY <2>3
        <5>2. Buffered(b, 0, data', 0)
          BY <4>3, BufferSize DEF Buffered
        <5> QED
          BY <2>3, <4>4, <5>1, <5>2
      <4>7. /\ output' = Joined(dir' - 1, FoundIn(args)')
            /\ output' = Joined(dir' - 1, FoundIn(args)')
                           \o Joined(position' - last', FoundAt(args, entry)')
        <5>1. dir' - 1 = d /\ position' - last' = 0
          BY <1>4, <2>3
        <5>2. Joined(0, FoundAt(args, entry)') = <<>>
          BY JoinedZero
        <5>3. out \o <<>> = out
          BY ConcatEmptySeq
        <5> QED
          BY <2>1, <2>3, <2>4, <2>5, <5>1, <5>2, <5>3
      <4>8. /\ dir' \in 0 .. Len(Entries) /\ args' # <<>> /\ entry' # 0
            /\ entry' = dir' /\ Entries[entry'].kind # "dir"
            /\ position' \in 0 .. Len(Bytes(entry)') /\ last' \in 0 .. BUFSIZE - 1
        <5>1. 0 \in 0 .. Len(b) /\ 0 \in 0 .. BUFSIZE - 1
          BY <4>3, BufferSize
        <5> QED
          BY <1>9, <2>3, <2>6, <4>1, <4>2, <4>4, <5>1
      <4> QED
        BY <4>5, <4>6, <4>7, <4>8 DEF GrepSoFar, Framed, PlainText, Buffered
    <3> QED
      BY <3>1, <3>2
  <2>9. CatSoFar' /\ LsSoFar' /\ CounterSoFar'
    BY <2>3 DEF CatSoFar, LsSoFar, CounterSoFar
  <2>10. Commanded' /\ ShellDone' /\ text' \in Texts
    BY <1>1, <2>3, ProgramGoesOn
  <2> QED
    BY <2>7, <2>9, <2>10 DEF IInv
<1> QED
  BY <1>2, <1>3, <1>6, <1>8, <1>9 DEF GrepEntry


LEMMA GrepRoundRight ==
  ASSUME IInv, GrepRound
  PROVE  IInv'
<1>1. program = "grep" /\ entry # 0
  BY DEF GrepRound
<1>2. /\ dir \in 0 .. Len(Entries) /\ args # <<>>
      /\ entry = dir /\ Entries[entry].kind # "dir"
      /\ position \in 0 .. Len(Bytes(entry)) /\ last \in 0 .. BUFSIZE - 1
      /\ Framed(data)
  BY <1>1 DEF IInv, GrepSoFar
<1>3. PICK ent \in DOMAIN Entries : ent = entry /\ ent # 0 /\ ent \in Nat /\ ent <= Len(Entries)
  <2>1. entry \in DOMAIN Entries /\ entry \in Nat /\ entry <= Len(Entries)
    BY <1>1, <1>2, DirectorySize
  <2> QED
    BY <1>1, <2>1
<1>4. PICK b \in Seq(STRING) : b = Bytes(ent) /\ Len(b) \in Nat
  BY BytesType, LenProperties DEF IInv
<1>5. PICK pos \in Nat : pos = position /\ pos <= Len(b) /\ pos \in 0 .. Len(Bytes(ent))
  BY <1>2, <1>3, <1>4
<1>6. PICK n \in Nat : n = last /\ n < BUFSIZE
  BY <1>2, BufferSize
<1>7. PICK old : old = data /\ Framed(old)
  BY <1>2
<1>8. PICK got, cnt, filled, buf :
        /\ got = Read(ent, pos, BUFSIZE - n) /\ cnt = Len(got) /\ filled = n + cnt
        /\ FillIs(old, n, got, filled, buf)
        /\ output' = IF PlainText(Bytes(ent))
                     THEN output \o Matching(Entries[ent].name, buf, filled, cnt)
                     ELSE output
        /\ \/ LastRound(cnt, filled) /\ entry' = 0
           \/ /\ ~LastRound(cnt, filled) /\ Keep(buf, filled, cnt)
              /\ data' = strcpyDown(Split(buf, filled), LastStart(buf, filled))
              /\ last' = filled - LastStart(buf, filled)
              /\ entry' = ent
           \/ /\ ~LastRound(cnt, filled) /\ ~Keep(buf, filled, cnt)
              /\ data' = Split(buf, filled) /\ last' = 0
              /\ entry' = ent
        /\ position' = pos + Advance(ent, got)
  BY <1>3, <1>5, <1>6, <1>7 DEF GrepRound, FillIs
<1>9. /\ cnt \in Nat /\ filled \in 0 .. BUFSIZE /\ filled \in Nat /\ pos + cnt <= Len(b)
      /\ Advance(ent, got) = cnt
  <2>1. PICK m \in Nat : m = BUFSIZE - n
    BY <1>6, BufferSize
  <2>2. FileRead(ent, pos, m, got)
    <3>1. got = Read(ent, pos, m) /\ text \in Texts /\ Entries[ent].kind # "dir"
      BY <1>2, <1>3, <1>8, <2>1 DEF IInv
    <3> QED
      BY <1>5, <3>1, ReadIs
  <2>3. cnt \in Nat /\ cnt <= m /\ pos + cnt <= Len(b) /\ Advance(ent, got) = cnt
    BY <1>4, <1>8, <2>2 DEF FileRead
  <2> QED
    BY <1>6, <1>8, <2>1, <2>3, BufferSize
<1>10. position' = pos + cnt
  BY <1>8, <1>9
<1>11. PICK start : start = LastStart(buf, filled)
  OBVIOUS
<1>12. /\ start \in 0 .. filled /\ (start = 0 \/ start < filled)
       /\ Framed(Split(buf, filled)) /\ Framed(strcpyDown(Split(buf, filled), start))
  <2>1. Framed(buf)
    BY <1>7, <1>8, <1>9, FilledFramed
  <2> QED
    BY <1>9, <1>11, <2>1, RoundFramed
<1>13. PICK word, found, at, said, t, plain :
         /\ word = args /\ found = FoundIn(args) /\ at = FoundAt(args, ent)
         /\ said = Matching(Entries[ent].name, buf, filled, cnt)
         /\ t = Taken(buf, filled, cnt)
         /\ plain = PlainText(b)
  OBVIOUS
<1>14. PICK d \in Nat : d = ent - 1 /\ ent = d + 1 /\ d <= Len(Entries)
  <2>1. ent - 1 \in Nat /\ ent = (ent - 1) + 1 /\ ent - 1 <= Len(Entries)
    BY <1>3, DirectorySize
  <2> QED
    BY <2>1
<1>15. PICK before \in Seq(Chars) : before = Joined(d, found)
  BY <1>13, <1>14, FoundInJoins DEF IInv
<1>16. /\ program' = "grep" /\ typed' = typed /\ args' = word /\ args' = args
       /\ text' = text /\ dir' = ent
  BY <1>1, <1>2, <1>3, <1>13 DEF GrepRound
<1>17. FoundIn(args)' = found
  BY <1>13, <1>16 DEF FoundIn, FoundAt, Bytes
<1>18. ASSUME PlainText(b)
       PROVE  /\ LastRound(cnt, filled) => output' = Joined(ent, found)
              /\ ~LastRound(cnt, filled) =>
                   /\ Buffered(b, position' - last', data', last')
                   /\ output' = before \o Joined(position' - last', at)
  <2>1. /\ Buffered(Bytes(ent), pos - n, old, n) /\ PlainText(Bytes(ent))
        /\ output = Joined(dir - 1, FoundIn(args)) \o Joined(pos - n, at)
    BY <1>1, <1>2, <1>3, <1>4, <1>5, <1>6, <1>7, <1>13, <1>18 DEF IInv, GrepSoFar
  <2>2. PICK p \in Nat : p = pos - n /\ p <= Len(b)
    BY <1>4, <2>1 DEF Buffered
  <2>3. InBuffer(Bytes(ent), p, buf, filled, cnt)
    <3>1. text \in Texts
      BY DEF IInv
    <3>2. ReadBehind(ent, pos, n, old, got, cnt, filled, buf)
      BY <1>2, <1>3, <1>7, <1>8, <2>1 DEF ReadBehind
    <3>3. InBuffer(Bytes(ent), pos - n, buf, filled, cnt)
      BY <3>1, <3>2, ReadFills
    <3> QED
      BY <2>2, <3>3
  <2>4. Plain(args)
    <3>1. typed \in Lines /\ args = Argument(typed)
      BY <1>1 DEF IInv, Commanded
    <3> QED
      BY <3>1, LineIsTyped, ArgumentPlain
  <2>5. /\ t \in 0 .. filled /\ said \in Seq(Chars)
        /\ Joined(p, at) \o said = Joined(p + t, at)
    <3>1. text \in Texts
      BY DEF IInv
    <3>2. /\ Taken(buf, filled, cnt) \in 0 .. filled
          /\ Matching(Entries[ent].name, buf, filled, cnt) \in Seq(Chars)
          /\ Joined(p, FoundAt(args, ent)) \o Matching(Entries[ent].name, buf, filled, cnt)
               = Joined(p + Taken(buf, filled, cnt), FoundAt(args, ent))
      BY <1>2, <2>3, <2>4, <3>1, RoundShows
    <3> QED
      BY <1>13, <3>2
  <2>6. Joined(p, at) \in Seq(Chars)
    <3>1. \A k \in 1 .. p : k \in 1 .. Len(Bytes(ent))
      BY <1>4, <2>2
    <3>2. \A k \in 1 .. p : at[k] \in Seq(Chars)
      BY <1>13, <3>1, FoundAtType DEF IInv
    <3> QED
      BY <3>2, JoinedType
  <2>7. output' = before \o Joined(p + t, at)
    <3>1. output = before \o Joined(p, at)
      <4>1. dir - 1 = d
        BY <1>2, <1>3, <1>14
      <4> QED
        BY <1>13, <1>15, <2>1, <2>2, <4>1
    <3>2. output' = output \o said
      BY <1>8, <1>13, <2>1
    <3>3. output' = (before \o Joined(p, at)) \o said
      BY <3>1, <3>2
    <3>4. (before \o Joined(p, at)) \o said = before \o (Joined(p, at) \o said)
      BY <2>5, <2>6, Regroup
    <3> QED
      BY <2>5, <3>3, <3>4
  <2>8. ASSUME LastRound(cnt, filled) PROVE output' = Joined(ent, found)
    <3>1. cnt = 0
      BY <2>8 DEF LastRound
    <3>2. p + t = Len(b)
      <4>1. ~Keep(buf, filled, cnt)
        BY <3>1 DEF Keep
      <4>2. t = filled
        BY <1>13, <4>1 DEF Taken
      <4> QED
        BY <1>4, <2>3, <3>1, <4>2 DEF InBuffer
    <3>3. found[ent] = Joined(Len(b), at)
      BY <1>2, <1>3, <1>4, <1>13, <1>18 DEF FoundIn
    <3>4. Joined(ent, found) = Joined(d, found) \o found[ent]
      BY <1>3, <1>14, JoinedNext
    <3> QED
      BY <1>15, <2>7, <3>2, <3>3, <3>4
  <2>9. ASSUME ~LastRound(cnt, filled)
        PROVE  /\ Buffered(b, p + t, data', last')
               /\ position' - last' = p + t
    <3>1. pos = p + n /\ filled = n + cnt
      BY <1>8, <2>2
    <3>2. PICK old2 : old2 = data'
      OBVIOUS
    <3>3. CASE Keep(buf, filled, cnt)
      <4>1. t = start
        BY <1>11, <1>13, <3>3 DEF Taken
      <4>2. last' = filled - start /\ old2 = strcpyDown(Split(buf, filled), start)
        BY <1>8, <1>11, <2>9, <3>2, <3>3
      <4>3. Buffered(Bytes(ent), p + start, strcpyDown(Split(buf, filled), start), filled - start)
        BY <1>11, <2>3, <3>3, KeptIsBuffered
      <4>4. position' - last' = p + start
        BY <1>9, <1>10, <1>12, <3>1, <4>2
      <4> QED
        BY <1>4, <3>2, <4>1, <4>2, <4>3, <4>4
    <3>4. CASE ~Keep(buf, filled, cnt)
      <4>1. t = filled
        BY <1>13, <3>4 DEF Taken
      <4>2. last' = 0 /\ old2 = Split(buf, filled)
        BY <1>8, <2>9, <3>2, <3>4
      <4>3. Buffered(Bytes(ent), p + filled, Split(buf, filled), 0)
        BY <2>3, <3>4, DoneIsBuffered
      <4>4. position' - last' = p + filled
        BY <1>9, <1>10, <3>1, <4>2
      <4> QED
        BY <1>4, <3>2, <4>1, <4>2, <4>3, <4>4
    <3> QED
      BY <3>3, <3>4
  <2> QED
    BY <2>7, <2>8, <2>9
<1>19. ASSUME ~PlainText(b)
       PROVE  /\ output' = before
              /\ LastRound(cnt, filled) => output' = Joined(ent, found)
  <2>1. output = Joined(dir - 1, FoundIn(args))
    BY <1>1, <1>2, <1>3, <1>4, <1>19 DEF IInv, GrepSoFar
  <2>2. output' = before
    <3>1. dir - 1 = d
      BY <1>2, <1>3, <1>14
    <3>2. output' = output
      BY <1>4, <1>8, <1>19
    <3> QED
      BY <1>13, <1>15, <2>1, <3>1, <3>2
  <2>3. found[ent] = <<>>
    BY <1>3, <1>4, <1>13, <1>19 DEF FoundIn
  <2>4. Joined(ent, found) = Joined(d, found) \o found[ent]
    BY <1>3, <1>14, JoinedNext
  <2> QED
    BY <1>15, <2>2, <2>3, <2>4, ConcatEmptySeq
<1>20. dir' \in 0 .. Len(Entries) /\ args' # <<>>
  BY <1>2, <1>3, <1>16
<1>21. GrepSoFar'
  <2>1. CASE LastRound(cnt, filled)
    <3>1. entry' = 0
      BY <1>8, <2>1
    <3>2. output' = Joined(ent, found)
      BY <1>18, <1>19, <2>1
    <3> QED
      BY <1>16, <1>17, <1>20, <3>1, <3>2 DEF GrepSoFar
  <2>2. CASE ~LastRound(cnt, filled)
    <3>1. entry' = ent
      BY <1>8, <2>2
    <3>2. Bytes(entry)' = b
      BY <1>4, <1>16, <3>1 DEF Bytes
    <3>3. FoundAt(args, entry)' = at
      BY <1>13, <1>16, <3>1 DEF FoundAt, Bytes
    <3>4. position' \in 0 .. Len(b)
      BY <1>4, <1>9, <1>10
    <3>5. last' \in 0 .. BUFSIZE - 1 /\ Framed(data')
      <4>1. CASE Keep(buf, filled, cnt)
        <5>1. start # 0
          BY <1>11, <4>1 DEF Keep
        <5>2. last' = filled - start /\ data' = strcpyDown(Split(buf, filled), start)
          BY <1>8, <1>11, <2>2, <4>1
        <5>3. filled - start \in 0 .. BUFSIZE - 1
          BY <1>9, <1>12, <5>1, BufferSize
        <5> QED
          BY <1>12, <5>2, <5>3
      <4>2. CASE ~Keep(buf, filled, cnt)
        <5>1. last' = 0 /\ data' = Split(buf, filled)
          BY <1>8, <2>2, <4>2
        <5> QED
          BY <1>12, <5>1, BufferSize
      <4> QED
        BY <4>1, <4>2
    <3>6. dir' - 1 = d
      BY <1>14, <1>16
    <3>7. Joined(dir' - 1, FoundIn(args)') = before
      BY <1>15, <1>17, <3>6
    <3>8. PlainText(Bytes(entry)') =>
            /\ Buffered(Bytes(entry)', position' - last', data', last')
            /\ output' = Joined(dir' - 1, FoundIn(args)') \o Joined(position' - last', FoundAt(args, entry)')
      BY <1>18, <2>2, <3>2, <3>3, <3>7
    <3>9. ~PlainText(Bytes(entry)') => output' = Joined(dir' - 1, FoundIn(args)')
      BY <1>19, <3>2, <3>7
    <3>10. /\ entry' # 0 /\ entry' = dir' /\ Entries[entry'].kind # "dir"
           /\ position' \in 0 .. Len(Bytes(entry)')
      BY <1>2, <1>3, <1>16, <3>1, <3>2, <3>4
    <3> QED
      BY <1>20, <3>5, <3>8, <3>9, <3>10 DEF GrepSoFar, Framed, PlainText, Buffered
  <2> QED
    BY <2>1, <2>2
<1>22. CatSoFar' /\ LsSoFar' /\ CounterSoFar'
  BY <1>16 DEF CatSoFar, LsSoFar, CounterSoFar
<1>23. Commanded' /\ ShellDone' /\ text' \in Texts
  BY <1>1, <1>16, ProgramGoesOn
<1> QED
  BY <1>21, <1>22, <1>23 DEF IInv


-----------------------------------------------------------------------------
(* What has been printed is a beginning of what is due.                    *)

LEMMA NothingIsPrefix ==
  ASSUME NEW S, NEW due \in Seq(S)
  PROVE  IsPrefix(<<>>, due)
<1>1. Len(<<>>) = 0 /\ Len(due) \in Nat
  BY LenProperties
<1>2. SubSeq(<<>>, 1, 0) = <<>> /\ SubSeq(due, 1, 0) = <<>>
  BY SubSeqEmpty
<1>3. SubSeq(<<>>, 1, Len(<<>>)) = SubSeq(due, 1, Len(<<>>)) /\ Len(<<>>) <= Len(due)
  BY <1>1, <1>2
<1> QED
  BY <1>3 DEF IsPrefix

LEMMA JoinedPrefix ==
  ASSUME NEW n \in Nat, NEW m \in Nat, n <= m, NEW p,
         \A k \in 1 .. m : p[k] \in Seq(Chars)
  PROVE  IsPrefix(Joined(n, p), Joined(m, p))
<1>1. PICK t \in Seq(Chars) : Joined(m, p) = Joined(n, p) \o t
  <2>1. GoesOn(n, m, p)
    BY JoinedSplit
  <2> QED
    BY <2>1 DEF GoesOn
<1>2. Joined(n, p) \in Seq(Chars)
  <2>1. \A k \in 1 .. n : p[k] \in Seq(Chars)
    OBVIOUS
  <2> QED
    BY <2>1, JoinedType
<1> QED
  BY <1>1, <1>2, PrefixOf

LEMMA FilePrefix ==
  ASSUME NEW b \in Seq(STRING), NEW p \in 0 .. Len(b)
  PROVE  IsPrefix(SubSeq(b, 1, p), b)
<1>1. PICK size \in Nat : size = Len(b) /\ p \in Nat /\ p <= size
  BY LenProperties
<1>2. PICK from \in 1 .. Len(b) + 1 : from = p + 1
  BY <1>1
<1>3. PICK got \in Seq(STRING) :
        /\ Len(got) = size - from + 1
        /\ \A k \in 1 .. size - from + 1 : got[k] = b[from + k - 1]
  <2>1. PICK to \in from - 1 .. Len(b) : to = size
    BY <1>1, <1>2
  <2>2. /\ SubSeq(b, from, to) \in Seq(STRING)
        /\ Len(SubSeq(b, from, to)) = to - from + 1
        /\ \A k \in 1 .. to - from + 1 : SubSeq(b, from, to)[k] = b[from + k - 1]
    BY Slice
  <2> QED
    BY <2>1, <2>2
<1>4. size = p + Len(got)
  BY <1>1, <1>2, <1>3
<1>5. ASSUME NEW k \in 1 .. Len(got) PROVE got[k] = b[p + k]
  <2>1. from + k - 1 = p + k /\ k \in 1 .. size - from + 1
    BY <1>1, <1>2, <1>3
  <2> QED
    BY <1>3, <2>1
<1>6. SubSeq(b, 1, p) \o got = SubSeq(b, 1, size)
  BY <1>1, <1>4, <1>5, MoreBytes
<1>7. SubSeq(b, 1, size) = b
  BY <1>1, SubSeqFull
<1>8. SubSeq(b, 1, p) \in Seq(STRING)
  <2>1. 1 \in 1 .. Len(b) + 1 /\ p \in 1 - 1 .. Len(b)
    BY <1>1
  <2> QED
    BY <2>1, Slice
<1>9. SubSeq(b, 1, p) \in Seq(Chars) /\ got \in Seq(Chars)
  BY <1>8, StringsArePrinted
<1>10. IsPrefix(SubSeq(b, 1, p), SubSeq(b, 1, p) \o got)
  BY <1>9, PrefixOf
<1> QED
  BY <1>6, <1>7, <1>10

LEMMA ContentsType ==
  ASSUME text \in Texts, NEW ent \in DOMAIN Entries
  PROVE  Contents(ent) \in Seq(Chars)
<1>1. Bytes(ent) \in Seq(Chars)
  BY BytesType, StringsArePrinted
<1>2. Joined(Len(Entries), Names) \in Seq(Chars)
  BY DirectorySize, NamesType, JoinedType
<1> QED
  BY <1>1, <1>2 DEF Contents

(* A message may follow.                                                   *)
LEMMA BeforeMessage ==
  ASSUME NEW said
  PROVE  \E due \in Abnormally(said) : IsPrefix(<<>>, due)
<1>1. PICK a, b : a = said /\ b = "program terminated abnormally"
  OBVIOUS
<1>2. <<a, b>> \in Seq({a, b})
  OBVIOUS
<1>3. IsPrefix(<<>>, <<a, b>>)
  BY <1>2, NothingIsPrefix
<1> QED
  BY <1>1, <1>3 DEF Abnormally

LEMMA CatPrefix ==
  ASSUME IInv, program = "cat"
  PROVE  \E due \in Prints(program, args) : IsPrefix(output, due)
<1>1. CASE output = <<>> /\ args = <<>>
  <2>1. Prints(program, args) = Abnormally("could not read arguments")
    BY <1>1 DEF Prints
  <2> QED
    BY <1>1, <2>1, BeforeMessage
<1>2. CASE output = <<>> /\ args # <<>> /\ Found(args) = {}
  <2>1. Prints(program, args) = Abnormally("file not found")
    BY <1>2 DEF Prints
  <2> QED
    BY <1>2, <2>1, BeforeMessage
<1>3. ASSUME args # <<>>, Found(args) # {}, IsPrefix(output, Contents(Lookup(args)))
      PROVE  \E due \in Prints(program, args) : IsPrefix(output, due)
  <2>1. Prints(program, args) = {Contents(Lookup(args))}
    BY <1>3 DEF Prints
  <2> QED
    BY <1>3, <2>1
<1>4. CASE output = <<>> /\ args # <<>> /\ Found(args) # {}
  <2>1. PICK due \in Seq(Chars) : due = Contents(Lookup(args))
    BY <1>4, LookupFinds, ContentsType DEF IInv
  <2>2. IsPrefix(output, due)
    BY <1>4, NothingIsPrefix
  <2> QED
    BY <1>3, <1>4, <2>1, <2>2
<1>5. CASE /\ args # <<>> /\ Found(args) # {} /\ entry = Lookup(args)
           /\ Entries[entry].kind # "dir"
           /\ position \in 0 .. Len(Bytes(entry))
           /\ output = SubSeq(Bytes(entry), 1, position)
  <2>1. PICK ent \in DOMAIN Entries : ent = entry
    BY <1>5, LookupFinds
  <2>2. PICK b \in Seq(STRING) : b = Bytes(ent)
    BY BytesType DEF IInv
  <2>3. Contents(ent) = b
    BY <1>5, <2>1, <2>2 DEF Contents
  <2>4. PICK p \in 0 .. Len(b) : p = position
    BY <1>5, <2>1, <2>2
  <2>5. IsPrefix(SubSeq(b, 1, p), b)
    BY FilePrefix
  <2> QED
    BY <1>3, <1>5, <2>1, <2>2, <2>3, <2>4, <2>5
<1>6. CASE /\ args # <<>> /\ Found(args) # {} /\ entry = Lookup(args)
           /\ Entries[entry].kind = "dir"
           /\ position \in 0 .. Len(Entries)
           /\ output = Joined(position, Names)
  <2>1. Contents(entry) = Joined(Len(Entries), Names)
    BY <1>6 DEF Contents
  <2>2. PICK p \in Nat : p = position /\ p <= Len(Entries)
    BY <1>6, DirectorySize
  <2>3. IsPrefix(Joined(p, Names), Joined(Len(Entries), Names))
    BY <2>2, DirectorySize, NamesType, JoinedPrefix
  <2> QED
    BY <1>3, <1>6, <2>1, <2>2, <2>3
<1> QED
  BY <1>1, <1>2, <1>4, <1>5, <1>6 DEF IInv, CatSoFar

LEMMA LsPrefix ==
  ASSUME IInv, program = "ls"
  PROVE  \E due \in Prints(program, args) : IsPrefix(output, due)
<1>1. PICK p \in Nat : p = dir /\ p <= Len(Entries) /\ output = Joined(p, NameLines)
  BY DirectorySize DEF IInv, LsSoFar
<1>2. IsPrefix(Joined(p, NameLines), Joined(Len(Entries), NameLines))
  BY <1>1, DirectorySize, NameLinesType, JoinedPrefix
<1>3. Prints(program, args) = {Joined(Len(Entries), NameLines)}
  BY DEF Prints
<1> QED
  BY <1>1, <1>2, <1>3

LEMMA CounterPrefix ==
  ASSUME IInv, program = "counter"
  PROVE  \E due \in Prints(program, args) : IsPrefix(output, due)
<1>1. Prints(program, args) = {<<>>, <<"Wrong Choice!">>} \cup
                              {Joined(Counts[c], NumberLines) : c \in DOMAIN Counts}
  BY DEF Prints
<1>2. CASE output = <<>>
  <2>1. <<>> \in Seq(Chars)
    BY EmptySeq
  <2>2. IsPrefix(<<>>, <<>>)
    BY <2>1, NothingIsPrefix
  <2> QED
    BY <1>1, <1>2, <2>2
<1>3. ASSUME NEW c \in DOMAIN Counts, max = Counts[c], i \in 0 .. max, output = Joined(i, NumberLines)
      PROVE  \E due \in Prints(program, args) : IsPrefix(output, due)
  <2>1. PICK m \in Nat : m = Counts[c]
    BY InputAssumption
  <2>2. PICK n \in Nat : n = i /\ n <= m
    BY <1>3, <2>1
  <2>3. \A k \in 1 .. m : NumberLines[k] \in Seq(Chars)
    BY NumberLinesType
  <2>4. IsPrefix(Joined(n, NumberLines), Joined(m, NumberLines))
    BY <2>2, <2>3, JoinedPrefix
  <2>5. Joined(m, NumberLines) \in Prints(program, args)
    BY <1>1, <2>1
  <2> QED
    BY <1>3, <2>2, <2>4, <2>5
<1> QED
  BY <1>2, <1>3 DEF IInv, CounterSoFar


LEMMA GrepPrefix ==
  ASSUME IInv, program = "grep"
  PROVE  \E due \in Prints(program, args) : IsPrefix(output, due)
<1>1. CASE args = <<>>
  <2>1. Prints(program, args) = Abnormally("could not read argument")
    BY <1>1 DEF Prints
  <2>2. output = <<>>
    BY <1>1 DEF IInv, GrepSoFar
  <2> QED
    BY <2>1, <2>2, BeforeMessage
<1>2. ASSUME args # <<>>, IsPrefix(output, Joined(Len(Entries), FoundIn(args)))
      PROVE  \E due \in Prints(program, args) : IsPrefix(output, due)
  <2>1. Prints(program, args) = {Joined(Len(Entries), FoundIn(args))}
    BY <1>2 DEF Prints
  <2> QED
    BY <1>2, <2>1
<1>3. PICK size \in Nat, found \in {FoundIn(args)} : size = Len(Entries)
  BY DirectorySize
<1>4. \A k \in 1 .. size : found[k] \in Seq(Chars)
  BY <1>3, DirectorySize, FoundInType DEF IInv
<1>5. CASE args # <<>> /\ entry = 0
  <2>1. PICK d \in Nat : d = dir /\ d <= size /\ output = Joined(d, found)
    BY <1>3, <1>5 DEF IInv, GrepSoFar
  <2>2. IsPrefix(Joined(d, found), Joined(size, found))
    BY <1>4, <2>1, JoinedPrefix
  <2> QED
    BY <1>2, <1>3, <1>5, <2>1, <2>2
<1>6. CASE args # <<>> /\ entry # 0 /\ ~PlainText(Bytes(entry))
  <2>1. PICK d \in Nat : d = dir - 1 /\ d <= size
    BY <1>3, <1>6 DEF IInv, GrepSoFar
  <2>2. output = Joined(d, found)
    BY <1>3, <1>6, <2>1 DEF IInv, GrepSoFar
  <2>3. IsPrefix(Joined(d, found), Joined(size, found))
    BY <1>4, <2>1, JoinedPrefix
  <2> QED
    BY <1>2, <1>3, <1>6, <2>2, <2>3
<1>7. CASE args # <<>> /\ entry # 0 /\ PlainText(Bytes(entry))
  <2>1. /\ dir \in 0 .. Len(Entries)
        /\ entry = dir /\ Entries[entry].kind # "dir"
        /\ Buffered(Bytes(entry), position - last, data, last)
        /\ output = Joined(dir - 1, FoundIn(args))
                      \o Joined(position - last, FoundAt(args, entry))
    BY <1>7 DEF IInv, GrepSoFar
  <2>2. PICK ent \in DOMAIN Entries : ent = entry /\ ent = dir /\ ent \in Nat /\ ent # 0 /\ ent <= size
    <3>1. entry \in DOMAIN Entries /\ entry \in Nat /\ entry <= size
      BY <1>3, <1>7, <2>1, DirectorySize
    <3> QED
      BY <1>7, <2>1, <3>1
  <2>3. PICK b \in Seq(STRING) : b = Bytes(ent) /\ Len(b) \in Nat
    BY BytesType, LenProperties DEF IInv
  <2>4. PICK p \in Nat : p = position - last /\ p <= Len(b)
    BY <2>1, <2>2, <2>3 DEF Buffered
  <2>5. PICK at : at = FoundAt(args, ent)
    OBVIOUS
  <2>6. PICK d \in Nat : d = ent - 1 /\ ent = d + 1 /\ d <= size
    <3>1. ent - 1 \in Nat /\ ent = (ent - 1) + 1 /\ ent - 1 <= size
      BY <2>2
    <3> QED
      BY <3>1
  <2>7. \A k \in 1 .. Len(b) : at[k] \in Seq(Chars)
    BY <2>3, <2>5, FoundAtType DEF IInv
  <2>8. PICK s \in Seq(Chars), t \in Seq(Chars) : s = Joined(p, at) /\ Joined(Len(b), at) = s \o t
    <3>1. \E t \in Seq(Chars) : Joined(Len(b), at) = Joined(p, at) \o t
      <4>1. PICK m \in Nat : m = Len(b) /\ p <= m
        BY <2>3, <2>4
      <4>2. \A k \in 1 .. m : at[k] \in Seq(Chars)
        BY <2>7, <4>1
      <4>3. GoesOn(p, m, at)
        BY <4>1, <4>2, JoinedSplit
      <4> QED
        BY <4>1, <4>3 DEF GoesOn
    <3>2. \A k \in 1 .. p : at[k] \in Seq(Chars)
      BY <2>3, <2>4, <2>7
    <3>3. Joined(p, at) \in Seq(Chars)
      BY <3>2, JoinedType
    <3> QED
      BY <3>1, <3>3
  <2>9. PICK before \in Seq(Chars), after \in Seq(Chars) :
          before = Joined(d, found) /\ Joined(size, found) = Joined(ent, found) \o after
    <3>1. \E after \in Seq(Chars) : Joined(size, found) = Joined(ent, found) \o after
      <4>1. GoesOn(ent, size, found)
        BY <1>4, <2>2, JoinedSplit
      <4> QED
        BY <4>1 DEF GoesOn
    <3>2. Joined(d, found) \in Seq(Chars)
      BY <1>3, <2>6, FoundInJoins DEF IInv
    <3> QED
      BY <3>1, <3>2
  <2>10. Joined(ent, found) = before \o (s \o t)
    <3>1. Joined(ent, found) = Joined(d, found) \o found[ent]
      BY <2>2, <2>6, JoinedNext
    <3>2. found[ent] = Joined(Len(b), at)
      BY <1>3, <1>7, <2>1, <2>2, <2>3, <2>5 DEF FoundIn
    <3> QED
      BY <2>8, <2>9, <3>1, <3>2
  <2>11. output = before \o s
    BY <1>3, <2>1, <2>2, <2>4, <2>5, <2>6, <2>8, <2>9
  <2>12. Joined(size, found) = (before \o s) \o (t \o after)
    <3>1. before \o (s \o t) = (before \o s) \o t
      BY Regroup
    <3>2. before \o s \in Seq(Chars)
      BY ConcatProperties
    <3>3. ((before \o s) \o t) \o after = (before \o s) \o (t \o after)
      BY <3>2, Regroup
    <3> QED
      BY <2>9, <2>10, <3>1, <3>3
  <2>13. IsPrefix(before \o s, (before \o s) \o (t \o after))
    <3>1. before \o s \in Seq(Chars) /\ t \o after \in Seq(Chars)
      BY ConcatProperties
    <3> QED
      BY <3>1, PrefixOf
  <2> QED
    BY <1>2, <1>3, <1>7, <2>11, <2>12, <2>13
<1> QED
  BY <1>1, <1>5, <1>6, <1>7

-----------------------------------------------------------------------------

LEMMA InvariantShows == IInv => OutputRight
<1> SUFFICES ASSUME IInv PROVE OutputRight
  OBVIOUS
<1>1. CASE program = "shell"
  BY <1>1 DEF IInv, ShellDone, OutputRight
<1>2. CASE program # "shell"
  <2>1. Commanded
    BY DEF IInv
  <2>2. Due(typed) = Prints(program, args)
    BY <1>2, <2>1, DueIs
  <2>3. program \in Executable
    BY <1>2, <2>1 DEF Commanded, Runs
  <2>4. \E due \in Prints(program, args) : IsPrefix(output, due)
    BY <2>3, CatPrefix, LsPrefix, CounterPrefix, GrepPrefix DEF Executable
  <2> QED
    BY <1>2, <2>2, <2>4 DEF OutputRight
<1> QED
  BY <1>1, <1>2

LEMMA NextRight ==
  ASSUME IInv, [Next]_vars
  PROVE  IInv'
<1>1. CASE UNCHANGED vars
  <2>1. /\ program' = program /\ typed' = typed /\ args' = args /\ text' = text
        /\ entry' = entry /\ position' = position /\ dir' = dir /\ data' = data /\ last' = last
        /\ i' = i /\ max' = max /\ output' = output
    BY <1>1 DEF vars, file, grepVars, counterVars
  <2>2. text' \in Texts /\ Commanded' /\ CounterSoFar' /\ LsSoFar'
    BY <2>1 DEF IInv, Commanded, CounterSoFar, LsSoFar
  <2>3. ShellDone'
    <3>1. Due(typed)' = Due(typed)
      BY <2>1, DueSame
    <3> QED
      BY <2>1, <3>1 DEF IInv, ShellDone
  <2>4. CatSoFar'
    BY <2>1 DEF IInv, CatSoFar, Bytes
  <2>5. GrepSoFar'
    BY <2>1 DEF IInv, GrepSoFar, FoundIn, FoundAt, Bytes
  <2> QED
    BY <2>2, <2>3, <2>4, <2>5 DEF IInv
<1>2. ASSUME NEW line \in Lines, ShellAgain(line) \/ NoSuchCommand(line) \/ execute(line)
      PROVE  IInv'
  BY <1>2, ShellAgainRight, NoSuchCommandRight, ExecuteRight
<1>3. CASE CatStart
  BY <1>3, CatStartRight
<1>4. CASE CatRead
  BY <1>4, CatReadFile, CatReadDirectory
<1>5. CASE LsRead
  BY <1>5, LsReadRight
<1>6. CASE CounterStart
  BY <1>6, CounterStartRight
<1>7. CASE CounterStep
  BY <1>7, CounterStepRight
<1>8. CASE GrepEntry
  BY <1>8, GrepEntryRight
<1>9. CASE GrepRound
  BY <1>9, GrepRoundRight
<1> QED
  BY <1>1, <1>2, <1>3, <1>4, <1>5, <1>6, <1>7, <1>8, <1>9 DEF Next, Run

(* Each command prints what it is to print and nothing else, in order, and *)
(* all of it by the time the shell is back (ece391shell.c, ece391cat.c,    *)
(* ece391ls.c, ece391counter.c, ece391grep.c, and itoa and strcpy of       *)
(* ece391support.c): a line of a file that lies across two of grep's reads *)
(* is found once and whole, wherever they cut it.                          *)
THEOREM OutputCorrect == Spec => []OutputRight
<1>1. IInv /\ [Next]_vars => IInv'
  BY NextRight
<1> QED
  BY InitRight, <1>1, InvariantShows, PTL DEF Spec

=============================================================================
