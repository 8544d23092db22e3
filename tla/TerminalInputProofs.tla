------------------------ MODULE TerminalInputProofs ------------------------
(***************************************************************************)
(* Proofs about TerminalInput, for any number of terminals, any size of    *)
(* the line buffer and lines of any length.                                *)
(***************************************************************************)
EXTENDS TerminalInput, SequenceTheorems, TLAPS

LEMMA Sizes ==
  /\ buffer_size \in Nat /\ buffer_size > 0
  /\ 0 \in Index /\ buffer_size \in Index /\ 0 \in Terms
  /\ Newline \in Chars /\ Nul \in Chars /\ Letters \subseteq Chars
  /\ Newline \notin Letters
BY InputAssumption DEF Index, Terms, Chars

-----------------------------------------------------------------------------
(* Type correctness, for an impatient user, too.  terminal_read indexes    *)
(* the copy of the line with the number of characters it has stored, so    *)
(* the type of those rests on that number.                                 *)

GotFits ==
  \A t \in Terms :
    pc[t] \in {"user", "wait", "newline", "advance", "copy"} => Len(got[t]) <= buffer_size

TypeInv == TypeOK /\ GotFits

LEMMA GotoType ==
  ASSUME TypeOK, NEW t \in Terms, NEW label \in Labels, Goto(t, label)
  PROVE  /\ pc' \in [Terms -> Labels]
         /\ pc'[t] = label
         /\ \A u \in Terms : u # t => pc'[u] = pc[u]
BY DEF Goto, TypeOK

LEMMA StoreType ==
  ASSUME NEW buffer \in [Index -> Chars], NEW position \in 0 .. buffer_size,
         NEW c \in Chars, Store(buffer, position, c)
  PROVE  /\ keyboard_buffer' \in [Index -> Chars]
         /\ buffer_position' \in 0 .. buffer_size
<1>1. CASE position < buffer_size
  <2>1. keyboard_buffer' = [buffer EXCEPT ![position] = c] /\ buffer_position' = position + 1
    BY <1>1 DEF Store
  <2>2. [buffer EXCEPT ![position] = c] \in [Index -> Chars]
    OBVIOUS
  <2> QED
    BY <1>1, <2>1, <2>2, Sizes
<1>2. CASE ~(position < buffer_size)
  BY <1>2, Sizes DEF Store
<1> QED
  BY <1>1, <1>2

LEMMA BlankType == Blank \in [Index -> Chars]
BY Sizes DEF Blank

LEMMA Shorter ==
  ASSUME NEW S, NEW s \in Seq(S), s # <<>>
  PROVE  /\ SubSeq(s, 1, Len(s) - 1) \in Seq(S)
         /\ Len(SubSeq(s, 1, Len(s) - 1)) = Len(s) - 1
         /\ Len(s) \in Nat /\ Len(s) > 0
         /\ \A i \in 1 .. Len(s) - 1 : SubSeq(s, 1, Len(s) - 1)[i] = s[i]
<1>1. Len(s) \in Nat /\ Len(s) > 0
  BY EmptySeq, LenProperties
<1> DEFINE n == Len(s) - 1
<1>2. n \in Nat /\ \A i \in 1 .. n : s[i] \in S
  BY <1>1, ElementOfSeq
<1> HIDE DEF n
<1>3. /\ SubSeq(s, 1, n) \in Seq(S)
      /\ Len(SubSeq(s, 1, n)) = IF 1 <= n THEN n - 1 + 1 ELSE 0
      /\ \A i \in 1 .. n - 1 + 1 : SubSeq(s, 1, n)[i] = s[1 + i - 1]
  BY <1>2, SubSeqProperties
<1>4. /\ Len(SubSeq(s, 1, n)) = n
      /\ \A i \in 1 .. n : SubSeq(s, 1, n)[i] = s[i]
  BY <1>2, <1>3
<1> QED
  BY <1>1, <1>3, <1>4 DEF n

LEMMA UnshowType ==
  ASSUME TypeOK, Unshow PROVE line' \in [Terms -> Seq(Letters)]
<1>1. \A s \in Seq(Letters) :
        (IF s = <<>> THEN s ELSE SubSeq(s, 1, Len(s) - 1)) \in Seq(Letters)
  BY Shorter
<1> QED
  BY <1>1 DEF Unshow, TypeOK

LEMMA KeyType ==
  ASSUME TypeInv,
         \/ \E c \in Letters : Letter(c)
         \/ Backspace \/ BackspaceOverflow \/ Enter
         \/ \E t \in Terms : terminal_switch(t)
  PROVE  TypeInv'
<1> USE Sizes DEF keyboard, saved, stored, typed, entered
<1>1. ASSUME UNCHANGED <<pc, got>> PROVE GotFits'
  BY <1>1 DEF TypeInv, GotFits
<1>2. ASSUME NEW c \in Letters, Letter(c) PROVE TypeInv'
  <2>1. /\ keyboard_buffer' \in [Index -> Chars]
        /\ buffer_position' \in 0 .. buffer_size
    BY <1>2, StoreType DEF Letter, TypeInv, TypeOK
  <2>2. line' \in [Terms -> Seq(Letters)]
    <3>1. \A s \in Seq(Letters) : Append(s, c) \in Seq(Letters)
      BY AppendProperties
    <3> QED
      BY <1>2, <3>1 DEF Letter, TypeInv, TypeOK
  <2>3. clipped' \in [Terms -> BOOLEAN]
    <3>1. clipped' = [clipped EXCEPT ![cur_display_tid] = @ \/ Full]
      BY <1>2 DEF Letter
    <3> QED
      BY <3>1, Zenon DEF TypeInv, TypeOK
  <2>4. overflow_bits' \in Nat
    BY <1>2 DEF Letter, TypeInv, TypeOK
  <2> QED
    BY <1>1, <1>2, <2>1, <2>2, <2>3, <2>4 DEF Letter, TypeInv, TypeOK
<1>3. CASE Backspace
  <2>1. keyboard_buffer' \in [Index -> Chars]
    BY <1>3 DEF Backspace, TypeInv, TypeOK
  <2>2. buffer_position' \in 0 .. buffer_size
    BY <1>3 DEF Backspace, TypeInv, TypeOK
  <2>3. line' \in [Terms -> Seq(Letters)]
    BY <1>3, UnshowType DEF Backspace, TypeInv
  <2> QED
    BY <1>1, <1>3, <2>1, <2>2, <2>3 DEF Backspace, TypeInv, TypeOK
<1>4. CASE BackspaceOverflow
  <2>1. line' \in [Terms -> Seq(Letters)]
    BY <1>4, UnshowType DEF BackspaceOverflow, TypeInv
  <2> QED
    BY <1>1, <1>4, <2>1 DEF BackspaceOverflow, TypeInv, TypeOK
<1>5. CASE Enter
  <2>1. /\ keyboard_buffer' \in [Index -> Chars]
        /\ buffer_position' \in 0 .. buffer_size
    BY <1>5, StoreType, BlankType DEF Enter
  <2>2. /\ line' \in [Terms -> Seq(Letters)]
        /\ sent' \in [Terms -> Seq(Letters)]
    BY <1>5, EmptySeq DEF Enter, TypeInv, TypeOK
  <2>3. /\ clipped' \in [Terms -> BOOLEAN]
        /\ sent_clipped' \in [Terms -> BOOLEAN]
        /\ pending' \in [Terms -> BOOLEAN]
    BY <1>5, Zenon DEF Enter, TypeInv, TypeOK
  <2> QED
    BY <1>1, <1>5, <2>1, <2>2, <2>3 DEF Enter, TypeInv, TypeOK
<1>6. ASSUME NEW t \in Terms, terminal_switch(t) PROVE TypeInv'
  BY <1>1, <1>6 DEF terminal_switch, TakeKeys, TypeInv, TypeOK
<1> QED
  BY <1>2, <1>3, <1>4, <1>5, <1>6
LEMMA ReaderType ==
  ASSUME TypeInv, NEW t \in Terms, ReadCall(t) \/ Reading(t)
  PROVE  TypeInv'
<1> USE Sizes, GotoType DEF keyboard, saved, stored, typed, entered, Labels
(* Steps that only go on, or fill and clear buffers.                       *)
<1>1. CASE ReadCall(t)
  BY <1>1 DEF ReadCall, TypeInv, TypeOK, GotFits
<1>2. CASE SeeFlag(t)
  BY <1>2 DEF SeeFlag, TypeInv, TypeOK, GotFits
<1>3. CASE PutNewline(t)
  BY <1>3 DEF PutNewline, TypeInv, TypeOK, GotFits
<1>4. CASE Advance(t)
  <2>1. saved_buffer_position' \in 0 .. buffer_size + 1
    BY <1>4 DEF Advance, TypeInv, TypeOK
  <2>2. GotFits'
    BY <1>4 DEF Advance, TypeInv, TypeOK, GotFits
  <2> QED
    BY <1>4, <2>1, <2>2 DEF Advance, TypeInv, TypeOK
<1>5. CASE CopyChar(t)
  <2> DEFINE c == saved_keyboard_buffer[Len(got[t])]
  <2>1. /\ got[t] \in Seq(Chars) /\ Len(got[t]) \in Nat /\ Len(got[t]) <= buffer_size
        /\ pc[t] = "copy"
    BY <1>5, LenProperties DEF CopyChar, TypeInv, TypeOK, GotFits
  <2>2. c \in Chars
    BY <2>1 DEF TypeInv, TypeOK, Index
  <2>3. Append(got[t], c) \in Seq(Chars) /\ Len(Append(got[t], c)) = Len(got[t]) + 1
    BY <2>1, <2>2, AppendProperties
  <2>4. <<>> \in Seq(Chars) /\ Len(<<>>) = 0
    BY EmptySeq
  <2>5. \E g \in Seq(Chars), label \in {"copy", "unflag"} :
          /\ got' = [got EXCEPT ![t] = g] /\ Goto(t, label)
          /\ label = "copy" => Len(g) <= buffer_size
    <3>1. CASE c = Newline
      BY <1>5, <2>3, <3>1 DEF CopyChar
    <3>2. CASE c # Newline /\ Len(got[t]) < buffer_size
      <4>1. got' = [got EXCEPT ![t] = Append(@, c)] /\ pc' = pc
        BY <1>5, <3>2 DEF CopyChar
      <4>2. Goto(t, "copy")
        BY <2>1, <4>1 DEF Goto, TypeInv, TypeOK
      <4>3. Append(got[t], c) \in Seq(Chars) /\ Len(Append(got[t], c)) <= buffer_size
        BY <2>1, <2>3, <3>2
      <4> USE <4>3
      <4> WITNESS Append(got[t], c) \in Seq(Chars), "copy" \in {"copy", "unflag"}
      <4> QED
        BY <4>1, <4>2
    <3>3. CASE c # Newline /\ Len(got[t]) = buffer_size
      <4>1. got' = [got EXCEPT ![t] = <<>>] /\ Goto(t, "unflag")
        BY <1>5, <2>1, <3>3 DEF CopyChar
      <4> WITNESS <<>> \in Seq(Chars), "unflag" \in {"copy", "unflag"}
      <4> QED
        BY <4>1
    <3> QED
      BY <2>1, <3>1, <3>2, <3>3
  <2>6. PICK g \in Seq(Chars), label \in {"copy", "unflag"} :
          /\ got' = [got EXCEPT ![t] = g] /\ Goto(t, label)
          /\ label = "copy" => Len(g) <= buffer_size
    BY <2>5
  <2>7. got' \in [Terms -> Seq(Chars)] /\ GotFits'
    BY <2>6 DEF TypeInv, TypeOK, GotFits
  <2>8. pc' \in [Terms -> Labels]
    BY <2>6 DEF TypeInv
  <2> QED
    BY <1>5, <2>7, <2>8 DEF CopyChar, TypeInv, TypeOK
<1>6. CASE ClearFlag(t)
  BY <1>6 DEF ClearFlag, TypeInv, TypeOK, GotFits
<1>7. CASE ClearCells(t)
  BY <1>7, BlankType DEF ClearCells, TypeInv, TypeOK, GotFits
<1>8. CASE ClearPosition(t)
  <2>1. buffer_position' \in 0 .. buffer_size
    BY <1>8 DEF ClearPosition
  <2>2. GotFits'
    BY <1>8 DEF ClearPosition, TypeInv, TypeOK, GotFits
  <2> QED
    BY <1>8, <2>1, <2>2 DEF ClearPosition, TypeInv, TypeOK
<1>9. CASE ForgetCells(t)
  BY <1>9, BlankType DEF ForgetCells, TypeInv, TypeOK, GotFits
<1>10. CASE ReadReturn(t)
  <2>1. got' = [got EXCEPT ![t] = <<>>] /\ <<>> \in Seq(Chars) /\ Len(<<>>) = 0
    BY <1>10, EmptySeq DEF ReadReturn
  <2>2. /\ sent' \in [Terms -> Seq(Letters)]
        /\ terminal_position' \in [Terms -> 0 .. buffer_size]
    BY <1>10, EmptySeq DEF ReadReturn, TypeInv, TypeOK
  <2>3. sent_clipped' \in [Terms -> BOOLEAN] /\ pending' \in [Terms -> BOOLEAN]
    BY <1>10, Zenon DEF ReadReturn, TypeInv, TypeOK
  <2>4. GotFits'
    <3>1. Goto(t, "user") /\ "user" \in Labels
      BY <1>10 DEF ReadReturn
    <3>2. got \in [Terms -> Seq(Chars)] /\ GotFits /\ \A u \in Terms : u # t => pc'[u] = pc[u]
      BY <3>1 DEF TypeInv, TypeOK
    <3>3. ASSUME NEW u \in Terms, pc'[u] \in {"user", "wait", "newline", "advance", "copy"}
          PROVE  Len(got'[u]) <= buffer_size
      <4>1. CASE u = t
        BY <2>1, <3>2, <4>1
      <4>2. CASE u # t
        BY <2>1, <3>2, <3>3, <4>2 DEF GotFits
      <4> QED
        BY <4>1, <4>2
    <3> QED
      BY <3>3 DEF GotFits
  <2>5. got' \in [Terms -> Seq(Chars)] /\ pc' \in [Terms -> Labels]
    BY <1>10, <2>1 DEF ReadReturn, TypeInv, TypeOK
  <2> QED
    BY <1>10, <2>2, <2>3, <2>4, <2>5 DEF ReadReturn, TypeInv, TypeOK
<1> QED
  BY <1>1, <1>2, <1>3, <1>4, <1>5, <1>6, <1>7, <1>8, <1>9, <1>10 DEF Reading

LEMMA InitType == Init => TypeInv
<1> SUFFICES ASSUME Init PROVE TypeInv
  OBVIOUS
<1>1. /\ clipped \in [Terms -> BOOLEAN] /\ sent_clipped \in [Terms -> BOOLEAN]
      /\ pending \in [Terms -> BOOLEAN]
  BY Zenon DEF Init
<1>2. /\ <<>> \in Seq(Chars) /\ <<>> \in Seq(Letters) /\ Len(<<>>) = 0
  BY EmptySeq
<1> QED
  BY <1>1, <1>2, BlankType, Sizes DEF Init, TypeInv, TypeOK, GotFits, Labels

LEMMA TypeKeeps == TypeInv /\ [Next]_vars => TypeInv'
<1> SUFFICES ASSUME TypeInv, [Next]_vars PROVE TypeInv'
  OBVIOUS
<1>1. CASE UNCHANGED vars
  BY <1>1 DEF vars, keyboard, saved, stored, typed, entered, TypeInv, TypeOK, GotFits
<1> QED
  BY <1>1, KeyType, ReaderType DEF Next

(* Whatever is typed, switched and read at the same time, no position      *)
(* leaves its buffer and terminal_read indexes the copy of the line inside *)
(* it.                                                                     *)
THEOREM TypeCorrect == Spec => []TypeOK
<1>1. TypeInv => TypeOK
  BY DEF TypeInv
<1> QED
  BY <1>1, InitType, TypeKeeps, PTL DEF Spec
-----------------------------------------------------------------------------
(* The line.  LineDelivered is about the end of a read; it holds because   *)
(* the copy taken at Enter stays what the user saw until then, which rests *)
(* on the buffers matching the screens while a line is typed              *)
(* (BuffersMatchScreens, for every terminal and also while a line is       *)
(* pending), and on nobody else reading or typing until then (Turn).       *)

(* A terminal on which nothing is pending does not read, and the flag of   *)
(* the last line does not start another read.                              *)
Turn ==
  \A t \in Terms :
    /\ ~pending[t] => pc[t] \in {"user", "wait"} /\ enter_flag[t] = 0
    /\ pending[t] => t = cur_display_tid
    /\ pc[t] \in {"clear", "position", "forget", "return"} => enter_flag[t] = 0
    /\ pc[t] \in {"user", "wait", "newline", "advance"} => got[t] = <<>>

StoredMatch ==
  \A t \in Terms : t # cur_display_tid /\ ~clipped[t] =>
    Holds(terminal_buffer[t], terminal_position[t], line[t])

TypedMatch ==
  LET t == cur_display_tid
  IN /\ pending[t] => line[t] = <<>> /\ (pc[t] \in {"forget", "return"} => buffer_position = 0)
     /\ ~pending[t] /\ ~clipped[t] => Holds(keyboard_buffer, buffer_position, line[t])

(* The copy before the newline is put after it ...                         *)
SavedMatch(t) ==
  /\ saved_buffer_position <= buffer_size
  /\ ~sent_clipped[t] => Holds(saved_keyboard_buffer, saved_buffer_position, sent[t])

(* ... and while it is copied to the program.                              *)
CopyMatch(t) ==
  LET n == saved_buffer_position - 1
  IN /\ n >= 0 /\ saved_keyboard_buffer[n] = Newline
     /\ Len(got[t]) <= n
     /\ ~sent_clipped[t] =>
          /\ Holds(saved_keyboard_buffer, n, sent[t])
          /\ \A i \in 1 .. Len(got[t]) : got[t][i] = sent[t][i]

LineKept(t) ==
  pending[t] =>
    /\ pc[t] \in {"user", "wait", "newline", "advance"} => SavedMatch(t)
    /\ pc[t] = "advance" => saved_keyboard_buffer[saved_buffer_position] = Newline
    /\ pc[t] = "copy" => CopyMatch(t)

SavedLine == \A t \in Terms : LineKept(t)

IInv == TypeInv /\ Turn /\ StoredMatch /\ TypedMatch /\ SavedLine /\ LineDelivered
LEMMA HoldsMore ==
  ASSUME NEW b \in [Index -> Chars], NEW n \in 0 .. buffer_size, NEW s \in Seq(Letters),
         Holds(b, n, s), NEW c \in Letters, n < buffer_size
  PROVE  Holds([b EXCEPT ![n] = c], n + 1, Append(s, c))
<1>1. /\ Len(s) \in Nat /\ Len(Append(s, c)) = Len(s) + 1
      /\ \A i \in 1 .. Len(s) : Append(s, c)[i] = s[i]
      /\ Append(s, c)[Len(s) + 1] = c
  BY AppendProperties, LenProperties
<1>2. n \in Index
  BY Sizes DEF Index
<1>3. ASSUME NEW i \in 1 .. n + 1
      PROVE  [b EXCEPT ![n] = c][i - 1] = Append(s, c)[i]
  BY <1>1, <1>2, Sizes DEF Holds, Index
<1> QED
  BY <1>1, <1>3 DEF Holds

LEMMA HoldsLess ==
  ASSUME NEW b \in [Index -> Chars], NEW n \in 0 .. buffer_size, NEW s \in Seq(Letters),
         Holds(b, n, s), n # 0
  PROVE  /\ s # <<>>
         /\ Holds([b EXCEPT ![n] = Nul], n - 1, SubSeq(s, 1, Len(s) - 1))
<1>1. s # <<>> /\ Len(s) = n
  BY EmptySeq DEF Holds
<1>2. /\ Len(SubSeq(s, 1, Len(s) - 1)) = Len(s) - 1
      /\ \A i \in 1 .. Len(s) - 1 : SubSeq(s, 1, Len(s) - 1)[i] = s[i]
  BY <1>1, Shorter
<1>3. ASSUME NEW i \in 1 .. n - 1
      PROVE  [b EXCEPT ![n] = Nul][i - 1] = SubSeq(s, 1, Len(s) - 1)[i]
  BY <1>1, <1>2, Sizes DEF Holds, Index
<1> QED
  BY <1>1, <1>2, <1>3 DEF Holds

(* Nothing is pending while a line is typed.                               *)
LEMMA PatientKeys ==
  ASSUME IInv, TypeInv', Patient, KeyComes, UNCHANGED <<enter_flag, pc, got, pending>>
  PROVE  Turn' /\ SavedLine' /\ LineDelivered'
<1>1. \A t \in Terms : ~pending[t] /\ ~pending'[t]
  BY DEF KeyComes
<1> QED
  BY <1>1 DEF IInv, Turn, SavedLine, LineKept, LineDelivered

LEMMA LetterKeeps ==
  ASSUME IInv, TypeInv', Patient, NEW c \in Letters, Letter(c)
  PROVE  IInv'
<1> DEFINE t == cur_display_tid
<1>1. Turn' /\ SavedLine' /\ LineDelivered'
  BY PatientKeys DEF Letter, entered
<1>2. t \in Terms /\ ~pending[t] /\ ~pending'[t] /\ cur_display_tid' = t
  BY DEF Letter, entered, KeyComes, IInv, TypeInv, TypeOK
<1>3. /\ line' = [line EXCEPT ![t] = Append(@, c)]
      /\ clipped' = [clipped EXCEPT ![t] = @ \/ Full]
      /\ UNCHANGED <<terminal_buffer, terminal_position>>
  BY DEF Letter, stored
<1>4. StoredMatch'
  <2>1. \A u \in Terms : u # t => line'[u] = line[u] /\ (clipped'[u] <=> clipped[u])
    BY <1>3 DEF IInv, TypeInv, TypeOK
  <2> QED
    BY <1>2, <1>3, <2>1 DEF IInv, StoredMatch
<1>5. TypedMatch'
  <2>1. CASE clipped[t] \/ Full
    <3>1. clipped'[t]
      BY <1>2, <1>3, <2>1 DEF IInv, TypeInv, TypeOK
    <3> QED
      BY <1>2, <3>1 DEF TypedMatch
  <2>2. CASE ~clipped[t] /\ ~Full
    <3>1. Holds(keyboard_buffer, buffer_position, line[t])
      BY <1>2, <2>2 DEF IInv, TypedMatch
    <3>2. /\ keyboard_buffer \in [Index -> Chars] /\ buffer_position \in 0 .. buffer_size
          /\ line[t] \in Seq(Letters) /\ line'[t] = Append(line[t], c)
      BY <1>2, <1>3 DEF IInv, TypeInv, TypeOK
    <3>3. buffer_position < buffer_size
      BY <2>2, <3>2, Sizes DEF Full
    <3>4. /\ keyboard_buffer' = [keyboard_buffer EXCEPT ![buffer_position] = c]
          /\ buffer_position' = buffer_position + 1
      BY <3>3 DEF Letter, Store
    <3>5. Holds(keyboard_buffer', buffer_position', line'[t])
      BY <3>1, <3>2, <3>3, <3>4, HoldsMore
    <3> QED
      BY <1>2, <3>5 DEF TypedMatch, Holds
  <2> QED
    BY <2>1, <2>2
<1> QED
  BY <1>1, <1>4, <1>5 DEF IInv

LEMMA BackspaceKeeps ==
  ASSUME IInv, TypeInv', Patient, Backspace
  PROVE  IInv'
<1> DEFINE t == cur_display_tid
<1>1. Turn' /\ SavedLine' /\ LineDelivered'
  BY PatientKeys DEF Backspace, entered
<1>2. t \in Terms /\ ~pending[t] /\ ~pending'[t] /\ cur_display_tid' = t
  BY DEF Backspace, entered, KeyComes, IInv, TypeInv, TypeOK
<1>3. /\ line' = [line EXCEPT ![t] = IF @ = <<>> THEN @ ELSE SubSeq(@, 1, Len(@) - 1)]
      /\ UNCHANGED <<terminal_buffer, terminal_position, clipped>>
  BY DEF Backspace, Unshow, stored
<1>4. StoredMatch'
  BY <1>2, <1>3 DEF IInv, TypeInv, TypeOK, StoredMatch
<1>5. ASSUME ~clipped[t] PROVE Holds(keyboard_buffer', buffer_position', line'[t])
  <2>1. Holds(keyboard_buffer, buffer_position, line[t])
    BY <1>2, <1>5 DEF IInv, TypedMatch
  <2>2. /\ keyboard_buffer \in [Index -> Chars] /\ buffer_position \in 0 .. buffer_size
        /\ line[t] \in Seq(Letters)
    BY <1>2 DEF IInv, TypeInv, TypeOK
  <2>3. /\ buffer_position # 0
        /\ keyboard_buffer' = [keyboard_buffer EXCEPT ![buffer_position] = Nul]
        /\ buffer_position' = buffer_position - 1
    BY DEF Backspace
  <2>4. line[t] # <<>>
    BY <2>1, <2>2, <2>3, HoldsLess
  <2>5. line'[t] = SubSeq(line[t], 1, Len(line[t]) - 1)
    BY <1>2, <1>3, <2>4 DEF IInv, TypeInv, TypeOK
  <2> QED
    BY <2>1, <2>2, <2>3, <2>5, HoldsLess
<1>6. TypedMatch'
  BY <1>2, <1>3, <1>5 DEF TypedMatch, Holds
<1> QED
  BY <1>1, <1>4, <1>6 DEF IInv

LEMMA OverflowKeeps ==
  ASSUME IInv, TypeInv', Patient, BackspaceOverflow
  PROVE  IInv'
<1> DEFINE t == cur_display_tid
<1>1. Turn' /\ SavedLine' /\ LineDelivered'
  BY PatientKeys DEF BackspaceOverflow, entered
<1>2. t \in Terms /\ ~pending[t] /\ ~pending'[t] /\ cur_display_tid' = t
  BY DEF BackspaceOverflow, entered, KeyComes, IInv, TypeInv, TypeOK
<1>3. /\ line' = [line EXCEPT ![t] = IF @ = <<>> THEN @ ELSE SubSeq(@, 1, Len(@) - 1)]
      /\ UNCHANGED <<terminal_buffer, terminal_position, clipped,
                     keyboard_buffer, buffer_position>>
      /\ buffer_position = 0
  BY DEF BackspaceOverflow, Unshow, stored
<1>4. StoredMatch'
  BY <1>2, <1>3 DEF IInv, TypeInv, TypeOK, StoredMatch
<1>5. ASSUME ~clipped[t] PROVE Holds(keyboard_buffer', buffer_position', line'[t])
  <2>1. Holds(keyboard_buffer, buffer_position, line[t])
    BY <1>2, <1>5 DEF IInv, TypedMatch
  <2>2. line[t] \in Seq(Letters) /\ Len(line[t]) = 0
    BY <1>2, <1>3, <2>1 DEF IInv, TypeInv, TypeOK, Holds
  <2>3. line[t] = <<>>
    BY <2>2, EmptySeq
  <2>4. line'[t] = line[t]
    BY <1>2, <1>3, <2>3 DEF IInv, TypeInv, TypeOK
  <2> QED
    BY <1>3, <2>1, <2>4
<1>6. TypedMatch'
  BY <1>2, <1>3, <1>5 DEF TypedMatch, Holds
<1> QED
  BY <1>1, <1>4, <1>6 DEF IInv
LEMMA EnterKeeps ==
  ASSUME IInv, TypeInv', Patient, Enter
  PROVE  IInv'
<1> DEFINE t == cur_display_tid
<1>1. /\ t \in Terms /\ cur_display_tid' = t
      /\ \A u \in Terms : ~pending[u] /\ pc[u] \in {"user", "wait"}
  BY DEF Enter, KeyComes, IInv, TypeInv, TypeOK
<1>2. /\ pending' = [pending EXCEPT ![t] = TRUE]
      /\ enter_flag' = [enter_flag EXCEPT ![t] = 1]
      /\ line' = [line EXCEPT ![t] = <<>>]
      /\ clipped' = [clipped EXCEPT ![t] = FALSE]
      /\ sent' = [sent EXCEPT ![t] = line[t]]
      /\ sent_clipped' = [sent_clipped EXCEPT ![t] = clipped[t]]
      /\ saved_keyboard_buffer' = keyboard_buffer
      /\ saved_buffer_position' = buffer_position
      /\ UNCHANGED <<stored, pc, got>>
  BY DEF Enter
<1>3. Turn'
  BY <1>1, <1>2 DEF IInv, TypeInv, TypeOK, Turn
<1>4. StoredMatch'
  BY <1>1, <1>2 DEF stored, IInv, TypeInv, TypeOK, StoredMatch
<1>5. TypedMatch'
  BY <1>1, <1>2 DEF IInv, TypeInv, TypeOK, TypedMatch
<1>6. SavedLine'
  <2>1. SavedMatch(t)'
    <3>1. buffer_position <= buffer_size
      BY Sizes DEF IInv, TypeInv, TypeOK
    <3>2. ~clipped[t] => Holds(keyboard_buffer, buffer_position, line[t])
      BY <1>1 DEF IInv, TypedMatch
    <3>3. sent'[t] = line[t] /\ (sent_clipped'[t] <=> clipped[t])
      BY <1>1, <1>2 DEF IInv, TypeInv, TypeOK
    <3> QED
      BY <1>1, <1>2, <3>1, <3>2, <3>3 DEF SavedMatch, Holds
  <2>2. \A u \in Terms : u # t => ~pending'[u]
    BY <1>1, <1>2 DEF IInv, TypeInv, TypeOK
  <2>3. \A u \in Terms : pc'[u] \in {"user", "wait"}
    BY <1>1, <1>2
  <2> QED
    BY <1>1, <2>1, <2>2, <2>3 DEF SavedLine, LineKept
<1>7. LineDelivered'
  BY <1>1, <1>2 DEF LineDelivered
<1> QED
  BY <1>3, <1>4, <1>5, <1>6, <1>7 DEF IInv

(* The switch exchanges two buffers that both match.                       *)
LEMMA SwitchKeeps ==
  ASSUME IInv, TypeInv', Patient, NEW to \in Terms, terminal_switch(to)
  PROVE  IInv'
<1> DEFINE t == cur_display_tid
<1>1. Turn' /\ SavedLine' /\ LineDelivered'
  BY PatientKeys DEF terminal_switch, entered
<1>2. /\ t \in Terms /\ to # t /\ cur_display_tid' = to
      /\ \A u \in Terms : ~pending[u] /\ ~pending'[u]
  BY DEF terminal_switch, entered, KeyComes, IInv, TypeInv, TypeOK
<1>3. /\ terminal_buffer' = [terminal_buffer EXCEPT ![t] = keyboard_buffer]
      /\ terminal_position' = [terminal_position EXCEPT ![t] = buffer_position]
      /\ keyboard_buffer' = terminal_buffer[to]
      /\ buffer_position' = terminal_position[to]
      /\ UNCHANGED <<line, clipped>>
  BY DEF terminal_switch, TakeKeys, typed
<1>4. StoredMatch'
  <2> SUFFICES ASSUME NEW u \in Terms, u # to, ~clipped[u]
               PROVE  Holds(terminal_buffer'[u], terminal_position'[u], line[u])
    BY <1>2, <1>3 DEF StoredMatch, Holds
  <2>1. CASE u = t
    BY <1>2, <1>3, <2>1 DEF IInv, TypeInv, TypeOK, TypedMatch
  <2>2. CASE u # t
    BY <1>3, <2>2 DEF IInv, TypeInv, TypeOK, StoredMatch
  <2> QED
    BY <2>1, <2>2
<1>5. TypedMatch'
  BY <1>2, <1>3 DEF IInv, StoredMatch, TypedMatch, Holds
<1> QED
  BY <1>1, <1>4, <1>5 DEF IInv

-----------------------------------------------------------------------------
(* The reader.  Every step beyond the wait is on the displayed terminal    *)
(* and of the one line that is pending.                                    *)

LEMMA Reader ==
  ASSUME IInv, NEW t \in Terms, pc[t] \notin {"user", "wait"}
  PROVE  /\ pending[t] /\ t = cur_display_tid
         /\ \A u \in Terms : u # t => ~pending[u]
BY DEF IInv, Turn

(* What a step of the reader of t does to the others.                      *)
LEMMA OthersKeep ==
  ASSUME IInv, NEW t \in Terms, pending[t],
         NEW label \in Labels, pc' = [pc EXCEPT ![t] = label],
         UNCHANGED <<cur_display_tid, line, clipped, sent, sent_clipped, pending>>,
         \A u \in Terms : u # t => /\ terminal_buffer'[u] = terminal_buffer[u]
                                   /\ terminal_position'[u] = terminal_position[u]
  PROVE  /\ StoredMatch'
         /\ LineKept(t)' => SavedLine'
         /\ pc'[t] = label /\ \A u \in Terms : u # t => pc'[u] = pc[u]
         /\ TypedMatch' <=> /\ line[t] = <<>>
                            /\ label \in {"forget", "return"} => buffer_position' = 0
<1>1. t = cur_display_tid /\ \A u \in Terms : u # t => ~pending[u]
  BY DEF IInv, Turn
<1>2. pc'[t] = label /\ \A u \in Terms : u # t => pc'[u] = pc[u]
  BY DEF IInv, TypeInv, TypeOK
<1>3. StoredMatch'
  BY <1>1 DEF IInv, StoredMatch
<1>4. LineKept(t)' => SavedLine'
  BY <1>1 DEF SavedLine, LineKept
<1>5. TypedMatch' <=> /\ line[t] = <<>>
                      /\ label \in {"forget", "return"} => buffer_position' = 0
  BY <1>1, <1>2 DEF TypedMatch
<1> QED
  BY <1>2, <1>3, <1>4, <1>5
LEMMA BeforeCopyKeeps ==
  ASSUME IInv, TypeInv', NEW t \in Terms,
         ReadCall(t) \/ SeeFlag(t) \/ PutNewline(t) \/ Advance(t)
  PROVE  IInv'
<1> USE DEF keyboard, stored, typed, entered, Labels
<1>1. CASE ReadCall(t)
  <2>1. /\ pc[t] = "user" /\ pc' = [pc EXCEPT ![t] = "wait"]
        /\ UNCHANGED <<keyboard, saved, stored, enter_flag, cur_display_tid, got, typed, entered>>
    BY <1>1 DEF ReadCall, Goto
  <2>2. pc'[t] = "wait" /\ \A u \in Terms : u # t => pc'[u] = pc[u]
    BY <2>1 DEF IInv, TypeInv, TypeOK
  <2>3. Turn' /\ StoredMatch' /\ TypedMatch'
    BY <2>1, <2>2 DEF IInv, Turn, StoredMatch, TypedMatch, Holds
  <2>4. SavedLine'
    BY <2>1, <2>2
       DEF IInv, SavedLine, LineKept, SavedMatch, CopyMatch, Holds, saved
  <2>5. LineDelivered'
    BY <2>1, <2>2 DEF IInv, LineDelivered
  <2> QED
    BY <2>3, <2>4, <2>5 DEF IInv
<1>2. CASE SeeFlag(t)
  <2>1. /\ pc[t] = "wait" /\ enter_flag[t] = 1 /\ pc' = [pc EXCEPT ![t] = "newline"]
        /\ UNCHANGED <<keyboard, saved, stored, enter_flag, cur_display_tid, got, typed, entered>>
    BY <1>2 DEF SeeFlag, Goto
  <2>2. pending[t] /\ t = cur_display_tid
    BY <2>1 DEF IInv, Turn
  <2>3. /\ StoredMatch' /\ (LineKept(t)' => SavedLine')
        /\ pc'[t] = "newline" /\ \A u \in Terms : u # t => pc'[u] = pc[u]
        /\ TypedMatch' <=> line[t] = <<>>
    BY <2>1, <2>2, OthersKeep
  <2>4. Turn' /\ TypedMatch' /\ LineDelivered'
    BY <2>1, <2>2, <2>3 DEF IInv, Turn, TypedMatch, LineDelivered
  <2>5. LineKept(t)'
    BY <2>1, <2>2, <2>3 DEF IInv, SavedLine, LineKept, SavedMatch, Holds, saved
  <2> QED
    BY <2>3, <2>4, <2>5 DEF IInv
<1>3. CASE PutNewline(t)
  <2>1. /\ pc[t] = "newline" /\ pc' = [pc EXCEPT ![t] = "advance"]
        /\ saved_keyboard_buffer' =
             [saved_keyboard_buffer EXCEPT ![saved_buffer_position] = Newline]
        /\ UNCHANGED <<keyboard, saved_buffer_position, stored, enter_flag,
                       cur_display_tid, got, typed, entered>>
    BY <1>3 DEF PutNewline, Goto
  <2>2. pending[t] /\ t = cur_display_tid
    BY <2>1, Reader
  <2>3. /\ StoredMatch' /\ (LineKept(t)' => SavedLine')
        /\ pc'[t] = "advance" /\ \A u \in Terms : u # t => pc'[u] = pc[u]
        /\ TypedMatch' <=> line[t] = <<>>
    BY <2>1, <2>2, OthersKeep
  <2>4. Turn' /\ TypedMatch' /\ LineDelivered'
    BY <2>1, <2>2, <2>3 DEF IInv, Turn, TypedMatch, LineDelivered
  <2>5. SavedMatch(t)
    BY <2>1, <2>2 DEF IInv, SavedLine, LineKept
  <2>6. /\ saved_buffer_position \in Index
        /\ saved_keyboard_buffer \in [Index -> Chars]
    BY <2>5, Sizes DEF IInv, TypeInv, TypeOK, SavedMatch, Index
  <2>7. saved_keyboard_buffer'[saved_buffer_position] = Newline
    BY <2>1, <2>6
  <2>8. \A i \in 1 .. saved_buffer_position :
          saved_keyboard_buffer'[i - 1] = saved_keyboard_buffer[i - 1]
    BY <2>1, <2>6, Sizes DEF Index
  <2>9. SavedMatch(t)'
    BY <2>1, <2>5, <2>8 DEF SavedMatch, Holds
  <2>10. LineKept(t)'
    BY <2>1, <2>3, <2>7, <2>9 DEF LineKept
  <2> QED
    BY <2>3, <2>4, <2>10 DEF IInv
<1>4. CASE Advance(t)
  <2>1. /\ pc[t] = "advance" /\ pc' = [pc EXCEPT ![t] = "copy"]
        /\ saved_buffer_position' = saved_buffer_position + 1
        /\ UNCHANGED <<keyboard, saved_keyboard_buffer, stored, enter_flag,
                       cur_display_tid, got, typed, entered>>
    BY <1>4 DEF Advance, Goto
  <2>2. pending[t] /\ t = cur_display_tid
    BY <2>1, Reader
  <2>3. /\ StoredMatch' /\ (LineKept(t)' => SavedLine')
        /\ pc'[t] = "copy" /\ \A u \in Terms : u # t => pc'[u] = pc[u]
        /\ TypedMatch' <=> line[t] = <<>>
    BY <2>1, <2>2, OthersKeep
  <2>4. Turn' /\ TypedMatch' /\ LineDelivered'
    BY <2>1, <2>2, <2>3 DEF IInv, Turn, TypedMatch, LineDelivered
  <2>5. /\ SavedMatch(t) /\ saved_keyboard_buffer[saved_buffer_position] = Newline
        /\ got[t] = <<>>
    BY <2>1, <2>2 DEF IInv, SavedLine, LineKept, Turn
  <2>6. saved_buffer_position \in Nat /\ saved_buffer_position' - 1 = saved_buffer_position
    BY <2>1, Sizes DEF IInv, TypeInv, TypeOK
  <2>7. Len(got'[t]) = 0
    BY <2>1, <2>5, EmptySeq
  <2>8. CopyMatch(t)'
    BY <2>1, <2>5, <2>6, <2>7 DEF SavedMatch, CopyMatch, Holds
  <2>9. LineKept(t)'
    BY <2>3, <2>8 DEF LineKept
  <2> QED
    BY <2>3, <2>4, <2>9 DEF IInv
<1> QED
  BY <1>1, <1>2, <1>3, <1>4
(* What LineDelivered says of one terminal.                                *)
Delivered(t) ==
  IF sent_clipped[t] THEN got[t] # <<>> /\ got[t][Len(got[t])] = Newline
  ELSE got[t] = Append(sent[t], Newline)

LEMMA CopyCharKeeps ==
  ASSUME IInv, TypeInv', NEW t \in Terms, CopyChar(t)
  PROVE  IInv'
<1> USE DEF keyboard, saved, stored, typed, entered, Labels
<1> DEFINE n == saved_buffer_position - 1
           g == got[t]
           c == saved_keyboard_buffer[Len(g)]
<1>1. /\ pc[t] = "copy"
      /\ UNCHANGED <<keyboard, saved, stored, enter_flag, cur_display_tid, typed, entered>>
  BY DEF CopyChar
<1>2. pending[t] /\ t = cur_display_tid
  BY <1>1, Reader
<1>3. CopyMatch(t)
  BY <1>1, <1>2 DEF IInv, SavedLine, LineKept
<1>4. /\ n \in Nat /\ n <= buffer_size
      /\ g \in Seq(Chars) /\ Len(g) \in Nat /\ Len(g) <= n
      /\ saved_keyboard_buffer[n] = Newline
  BY <1>3, Sizes, LenProperties DEF IInv, TypeInv, TypeOK, CopyMatch
<1>5. c \in Chars /\ line[t] = <<>>
  <2>1. Len(g) <= buffer_size
    BY <1>4, Sizes
  <2>2. Len(g) \in Index
    BY <1>4, <2>1, Sizes DEF Index
  <2>3. saved_keyboard_buffer \in [Index -> Chars]
    BY DEF IInv, TypeInv, TypeOK
  <2> QED
    BY <1>2, <2>2, <2>3 DEF IInv, TypedMatch
<1>6. /\ Append(g, c) \in Seq(Chars) /\ Append(g, c) # <<>>
      /\ Len(Append(g, c)) = Len(g) + 1
      /\ \A i \in 1 .. Len(g) : Append(g, c)[i] = g[i]
      /\ Append(g, c)[Len(g) + 1] = c
  BY <1>4, <1>5, AppendProperties
(* The newline ends the copy: an unclipped line has none before its end.   *)
<1>7. CASE c = Newline
  <2>1. got' = [got EXCEPT ![t] = Append(g, c)] /\ pc' = [pc EXCEPT ![t] = "unflag"]
    BY <1>7 DEF CopyChar, Goto
  <2>2. /\ StoredMatch' /\ (LineKept(t)' => SavedLine')
        /\ pc'[t] = "unflag" /\ \A u \in Terms : u # t => pc'[u] = pc[u]
        /\ TypedMatch' <=> line[t] = <<>>
    BY <1>1, <1>2, <2>1, OthersKeep
  <2>3. got'[t] = Append(g, c) /\ \A u \in Terms : u # t => got'[u] = got[u]
    BY <2>1 DEF IInv, TypeInv, TypeOK
  <2>4. Turn' /\ TypedMatch' /\ LineKept(t)'
    BY <1>1, <1>2, <1>5, <2>2, <2>3 DEF IInv, Turn, LineKept
  <2>5. ASSUME ~sent_clipped[t] PROVE g = sent[t]
    <3>1. /\ n = Len(sent[t]) /\ sent[t] \in Seq(Letters)
          /\ \A i \in 1 .. n : saved_keyboard_buffer[i - 1] = sent[t][i]
          /\ \A i \in 1 .. Len(g) : g[i] = sent[t][i]
      BY <1>3, <2>5 DEF IInv, TypeInv, TypeOK, CopyMatch, Holds
    <3>2. Len(g) = n
      <4>1. SUFFICES ASSUME Len(g) < n PROVE FALSE
        BY <1>4
      <4>2. Len(g) + 1 \in 1 .. n /\ Len(g) + 1 - 1 = Len(g)
        BY <1>4, <4>1
      <4>3. sent[t][Len(g) + 1] = Newline
        BY <1>7, <3>1, <4>2
      <4>4. sent[t][Len(g) + 1] \in Letters
        BY <3>1, <4>2, ElementOfSeq
      <4> QED
        BY <4>3, <4>4, Sizes
    <3>3. sent[t] \in Seq(Chars)
      BY <3>1, Sizes, SeqMonotonic
    <3> QED
      BY <1>4, <3>1, <3>2, <3>3, SeqEqual
  <2>6. Delivered(t)'
    BY <1>1, <1>6, <1>7, <2>3, <2>5 DEF Delivered
  <2>7. \A u \in Terms : u # t => ~pending'[u]
    BY <1>1, <1>2 DEF IInv, Turn
  <2>8. LineDelivered'
    BY <2>6, <2>7 DEF LineDelivered, Delivered
  <2> QED
    BY <2>2, <2>4, <2>8 DEF IInv
(* Any other character is not the last: the newline is still to come.      *)
<1>8. CASE c # Newline
  <2>1. Len(g) < n
    BY <1>4, <1>8
  <2>2. got' = [got EXCEPT ![t] = Append(g, c)] /\ pc' = pc
    BY <1>4, <1>8, <2>1, Sizes DEF CopyChar
  <2>3. pc' = [pc EXCEPT ![t] = "copy"]
    BY <1>1, <2>2 DEF IInv, TypeInv, TypeOK
  <2>4. /\ StoredMatch' /\ (LineKept(t)' => SavedLine')
        /\ TypedMatch' <=> line[t] = <<>>
    BY <1>1, <1>2, <2>3, OthersKeep
  <2>5. got'[t] = Append(g, c) /\ \A u \in Terms : u # t => got'[u] = got[u]
    BY <2>2 DEF IInv, TypeInv, TypeOK
  <2>6. Turn' /\ TypedMatch' /\ LineDelivered'
    BY <1>1, <1>2, <1>5, <2>2, <2>4, <2>5 DEF IInv, Turn, LineDelivered
  <2>7. ASSUME ~sent_clipped[t]
        PROVE  /\ Holds(saved_keyboard_buffer, n, sent[t])
               /\ \A i \in 1 .. Len(g) + 1 : Append(g, c)[i] = sent[t][i]
    <3>1. /\ Holds(saved_keyboard_buffer, n, sent[t])
          /\ \A i \in 1 .. Len(g) : g[i] = sent[t][i]
      BY <1>3, <2>7 DEF CopyMatch
    <3>2. Len(g) + 1 \in 1 .. n /\ Len(g) + 1 - 1 = Len(g)
      BY <1>4, <2>1
    <3>3. c = sent[t][Len(g) + 1]
      BY <3>1, <3>2 DEF Holds
    <3> QED
      BY <1>4, <1>6, <3>1, <3>3
  <2>8. CopyMatch(t)'
    BY <1>1, <1>4, <1>6, <2>1, <2>5, <2>7 DEF CopyMatch, Holds
  <2>9. LineKept(t)'
    BY <1>1, <2>2, <2>8 DEF LineKept
  <2> QED
    BY <2>4, <2>6, <2>9 DEF IInv
<1> QED
  BY <1>7, <1>8

LEMMA AfterCopyKeeps ==
  ASSUME IInv, TypeInv', NEW t \in Terms,
         ClearFlag(t) \/ ClearCells(t) \/ ClearPosition(t) \/ ForgetCells(t)
  PROVE  IInv'
<1> USE DEF keyboard, saved, stored, typed, entered, Labels
<1> DEFINE After == {"unflag", "clear", "position", "forget"}
(* The steps differ in what they clear of the displayed terminal.          *)
<1>1. ASSUME NEW label \in {"clear", "position", "forget", "return"},
             pc[t] \in After, pc' = [pc EXCEPT ![t] = label],
             label \in {"forget", "return"} => buffer_position' = 0,
             UNCHANGED <<saved, terminal_position, cur_display_tid, got, typed, entered>>,
             \A u \in Terms : u # t => /\ terminal_buffer'[u] = terminal_buffer[u]
                                       /\ enter_flag'[u] = enter_flag[u],
             enter_flag'[t] = 0
      PROVE  IInv'
  <2>1. pending[t] /\ t = cur_display_tid
    BY <1>1, Reader
  <2>2. /\ StoredMatch' /\ (LineKept(t)' => SavedLine')
        /\ pc'[t] = label /\ \A u \in Terms : u # t => pc'[u] = pc[u]
        /\ TypedMatch' <=> /\ line[t] = <<>>
                           /\ label \in {"forget", "return"} => buffer_position' = 0
    BY <1>1, <2>1, OthersKeep
  <2>3. TypedMatch'
    BY <1>1, <2>1, <2>2 DEF IInv, TypedMatch
  <2>4. Turn'
    BY <1>1, <2>1, <2>2 DEF IInv, Turn
  <2>5. LineKept(t)'
    BY <2>2 DEF LineKept
  <2>6. LineDelivered'
    BY <1>1, <2>2 DEF IInv, LineDelivered
  <2> QED
    BY <2>2, <2>3, <2>4, <2>5, <2>6 DEF IInv
<1>2. CASE ClearFlag(t)
  BY <1>1, <1>2 DEF ClearFlag, Goto, IInv, TypeInv, TypeOK
<1>3. CASE ClearCells(t)
  BY <1>1, <1>3 DEF ClearCells, Goto, IInv, Turn
<1>4. CASE ClearPosition(t)
  BY <1>1, <1>4 DEF ClearPosition, Goto, IInv, Turn
<1>5. CASE ForgetCells(t)
  <2>1. pc[t] = "forget"
    BY <1>5 DEF ForgetCells
  <2>2. buffer_position = 0 /\ enter_flag[t] = 0
    BY <2>1, Reader DEF IInv, TypedMatch, Turn
  <2> QED
    BY <1>1, <1>5, <2>2 DEF ForgetCells, Goto, IInv, TypeInv, TypeOK
<1> QED
  BY <1>2, <1>3, <1>4, <1>5
LEMMA ReturnKeeps ==
  ASSUME IInv, TypeInv', NEW t \in Terms, ReadReturn(t)
  PROVE  IInv'
<1>1. /\ pc[t] = "return" /\ pc' = [pc EXCEPT ![t] = "user"]
      /\ terminal_position' = [terminal_position EXCEPT ![t] = 0]
      /\ got' = [got EXCEPT ![t] = <<>>]
      /\ pending' = [pending EXCEPT ![t] = FALSE]
      /\ UNCHANGED <<keyboard_buffer, buffer_position, terminal_buffer, enter_flag,
                     cur_display_tid, line, clipped>>
  BY DEF ReadReturn, Goto, keyboard, saved, typed
<1>2. pending[t] /\ t = cur_display_tid /\ \A u \in Terms : u # t => ~pending[u]
  BY <1>1, Reader
<1>3. /\ pc'[t] = "user" /\ got'[t] = <<>>
      /\ \A u \in Terms : ~pending'[u]
      /\ \A u \in Terms : u # t => pc'[u] = pc[u] /\ got'[u] = got[u]
  BY <1>1, <1>2 DEF IInv, TypeInv, TypeOK
<1>4. /\ line[t] = <<>> /\ buffer_position = 0 /\ enter_flag[t] = 0
  BY <1>1, <1>2 DEF IInv, TypedMatch, Turn
<1>5. Turn'
  BY <1>1, <1>2, <1>3, <1>4 DEF IInv, Turn
<1>6. StoredMatch'
  BY <1>1, <1>2 DEF IInv, TypeInv, TypeOK, StoredMatch
<1>7. TypedMatch'
  BY <1>1, <1>2, <1>3, <1>4, EmptySeq DEF TypedMatch, Holds
<1>8. SavedLine' /\ LineDelivered'
  BY <1>3 DEF SavedLine, LineKept, LineDelivered
<1> QED
  BY <1>5, <1>6, <1>7, <1>8 DEF IInv

LEMMA InitIInv == Init => IInv
<1> SUFFICES ASSUME Init PROVE IInv
  OBVIOUS
<1>1. \A t \in Terms : ~pending[t] /\ pc[t] = "user" /\ enter_flag[t] = 0 /\ got[t] = <<>>
  BY DEF Init
<1>2. Turn /\ SavedLine /\ LineDelivered
  BY <1>1 DEF Turn, SavedLine, LineKept, LineDelivered
<1>3. StoredMatch /\ TypedMatch
  BY <1>1, EmptySeq, Sizes DEF Init, StoredMatch, TypedMatch, Holds
<1> QED
  BY <1>2, <1>3, InitType DEF IInv

LEMMA Inductive ==
  ASSUME Patient PROVE Spec => []IInv
<1>1. IInv /\ [Next]_vars => IInv'
  <2> SUFFICES ASSUME IInv, [Next]_vars PROVE IInv'
    OBVIOUS
  <2>1. TypeInv'
    BY TypeKeeps DEF IInv
  <2>2. ASSUME NEW c \in Letters, Letter(c) PROVE IInv'
    BY <2>1, <2>2, LetterKeeps
  <2>3. CASE Backspace \/ BackspaceOverflow \/ Enter
    BY <2>1, <2>3, BackspaceKeeps, OverflowKeeps, EnterKeeps
  <2>4. ASSUME NEW t \in Terms, terminal_switch(t) PROVE IInv'
    BY <2>1, <2>4, SwitchKeeps
  <2>5. ASSUME NEW t \in Terms, ReadCall(t) \/ Reading(t) PROVE IInv'
    BY <2>1, <2>5, BeforeCopyKeeps, CopyCharKeeps, AfterCopyKeeps, ReturnKeeps DEF Reading
  <2>6. CASE UNCHANGED vars
    BY <2>1, <2>6
       DEF vars, keyboard, saved, stored, typed, entered, IInv, Turn, StoredMatch, TypedMatch,
           SavedLine, LineKept, SavedMatch, CopyMatch, LineDelivered, Holds
  <2> QED
    BY <2>2, <2>3, <2>4, <2>5, <2>6 DEF Next
<1> QED
  BY <1>1, InitIInv, PTL DEF Spec

(* For every number of terminals, size of the buffer and length of line: a *)
(* read returns the line that stood on the screen of its own terminal at   *)
(* Enter, and of a line that did not fit something that ends in a newline. *)
THEOREM LinesDelivered ==
  ASSUME Patient PROVE Spec => []LineDelivered
<1>1. IInv => LineDelivered
  BY DEF IInv
<1> QED
  BY <1>1, Inductive, PTL

(* Between lines the buffers are what the user sees on every terminal,     *)
(* however often the display is switched in the middle of a line.          *)
THEOREM BuffersMatch ==
  ASSUME Patient PROVE Spec => []BuffersMatchScreens
<1>1. IInv => BuffersMatchScreens
  BY DEF IInv, TypeInv, TypeOK, StoredMatch, TypedMatch, BuffersMatchScreens
<1> QED
  BY <1>1, Inductive, PTL
=============================================================================
