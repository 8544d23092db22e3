---------------------------- MODULE SyserrProofs ----------------------------
(***************************************************************************)
(* Proofs about Syserr: its tests pass, for any number of descriptors and  *)
(* of processes, and whatever the others do in between.                    *)
(***************************************************************************)
EXTENDS Syserr, FilesProofs, SequenceTheorems

M == Maximum_open_files

-----------------------------------------------------------------------------
(* The list of the tests.  The lines of err_open_lots are the seventh to   *)
(* the one numbered LotsEnd; all others expect -1 with no file open.       *)

LotsEnd == 2 * M + 4

FdLines ==
  {Line(call, fd) : call \in {"read", "write", "close"}, fd \in FileFds \cup {-1, M + 1}}
  \cup {Line("close", 0), Line("close", 1), Line("write", 0), Line("read", 1)}
NameLines == {Line("open", name) : name \in {"helloo", "shel", ""}}
PointerLines == {Line("vidmap", "NULL"), Line("vidmap", "kernel")}
NumberLines ==
  {Line("system call", BIG_NUM), Line("system call", NEG_NUM), Line("system call", 0)}

LEMMA NumbersAre ==
  /\ BIG_NUM \in Int /\ BIG_NUM > 10
  /\ NEG_NUM \in Int /\ NEG_NUM < 1
BY DEF BIG_NUM, NEG_NUM

ExpectedToFail == FdLines \cup NameLines \cup PointerLines \cup NumberLines

LotsOpen == Line("open lots", ".")
LotsClose(fd) == Line("close lots", fd)
LotsCount == Line("one failed", 0)
Lines == ExpectedToFail \cup {LotsOpen, LotsCount} \cup {LotsClose(fd) : fd \in FileFds}

LotsLine(i, line) ==
  /\ i \in 7 .. M + 5 => line = LotsOpen
  /\ i \in M + 6 .. 2 * M + 3 => line = LotsClose(i - M - 4)
  /\ i = LotsEnd => line = LotsCount

(* A list that begins with the whole of err_open_lots.                     *)
Listed(s) ==
  /\ s \in Seq(Lines)
  /\ Len(s) >= LotsEnd
  /\ \A i \in 1 .. Len(s) :
       /\ LotsLine(i, s[i])
       /\ i \notin 7 .. LotsEnd => s[i] \in ExpectedToFail

LEMMA MoreListed ==
  ASSUME NEW s, NEW r \in Seq(ExpectedToFail), Listed(s) PROVE Listed(s \o r)
<1>1. M \in Nat /\ M > 2 /\ M = Maximum_open_files
  BY Numbers DEF M
<1>2. r \in Seq(Lines)
  BY SeqMonotonic DEF Lines
<1>3. s \in Seq(Lines)
  BY DEF Listed
<1>4. /\ s \o r \in Seq(Lines) /\ Len(s \o r) = Len(s) + Len(r)
      /\ \A i \in 1 .. Len(s) + Len(r) :
           (s \o r)[i] = IF i <= Len(s) THEN s[i] ELSE r[i - Len(s)]
  BY <1>2, <1>3, ConcatProperties
<1>5. Len(s) \in Nat /\ Len(r) \in Nat
  BY <1>2, <1>3, LenProperties
<1>6. ASSUME NEW i \in 1 .. Len(s) + Len(r)
      PROVE  /\ LotsLine(i, (s \o r)[i])
             /\ i \notin 7 .. LotsEnd => (s \o r)[i] \in ExpectedToFail
  <2>1. CASE i <= Len(s)
    <3>1. i \in 1 .. Len(s) /\ (s \o r)[i] = s[i]
      BY <1>4, <1>5, <2>1
    <3> QED
      BY <3>1 DEF Listed
  <2>2. CASE i > Len(s)
    <3>1. (s \o r)[i] = r[i - Len(s)] /\ i - Len(s) \in 1 .. Len(r)
      BY <1>4, <1>5, <2>2
    <3>2. i > LotsEnd
      BY <1>1, <1>5, <2>2 DEF Listed, LotsEnd
    <3>3. LotsLine(i, (s \o r)[i])
      BY <1>1, <1>5, <3>2 DEF LotsLine, LotsEnd
    <3>4. r[i - Len(s)] \in ExpectedToFail
      BY <3>1, ElementOfSeq
    <3> QED
      BY <3>1, <3>3, <3>4
  <2> QED
    BY <1>5, <2>1, <2>2
<1> QED
  BY <1>1, <1>4, <1>5, <1>6 DEF Listed, LotsEnd

LEMMA ThreeLines ==
  ASSUME NEW S, NEW a \in S, NEW b \in S, NEW c \in S
  PROVE  <<a, b, c>> \in Seq(S) /\ Len(<<a, b, c>>) = 3
OBVIOUS

LEMMA Joined ==
  ASSUME NEW S, NEW s \in Seq(S), NEW r \in Seq(S)
  PROVE  /\ s \o r \in Seq(S) /\ Len(s \o r) = Len(s) + Len(r)
         /\ \A k : k = Len(s) + Len(r) =>
              \A i \in 1 .. k : (s \o r)[i] = IF i <= Len(s) THEN s[i] ELSE r[i - Len(s)]
BY ConcatProperties

(* The same call for each descriptor.                                      *)
LEMMA AllLines ==
  ASSUME NEW call, NEW S, NEW fds \in Seq(S)
  PROVE  /\ All(call, fds) \in Seq({Line(call, fd) : fd \in S})
         /\ Len(All(call, fds)) = Len(fds)
         /\ \A i \in 1 .. Len(fds) : All(call, fds)[i] = Line(call, fds[i])
<1> DEFINE R == {Line(call, fd) : fd \in S}
<1>1. Len(fds) \in Nat
  BY LenProperties
<1>2. \A i \in 1 .. Len(fds) : Line(call, fds[i]) \in R
  BY ElementOfSeq
<1>3. All(call, fds) \in Seq(R)
  BY <1>1, <1>2 DEF All
<1>4. Len(All(call, fds)) = Len(fds)
  BY <1>1, <1>3, LenProperties DEF All
<1> QED
  BY <1>1, <1>3, <1>4 DEF All

LEMMA UpwardsFrom ==
  ASSUME NEW from \in {0, 2}
  PROVE  /\ Upwards(from) \in Seq(from .. M - 1)
         /\ Len(Upwards(from)) = M - from
         /\ \A i \in 1 .. M - from : Upwards(from)[i] = from + i - 1
<1>1. M - from \in Nat
  BY Numbers DEF M
<1>2. \A i \in 1 .. M - from : from + i - 1 \in from .. M - 1
  BY <1>1, Numbers DEF M
<1>3. Upwards(from) = [i \in 1 .. M - from |-> from + i - 1]
  BY DEF Upwards, M
<1>4. Upwards(from) \in [1 .. M - from -> from .. M - 1]
  BY <1>2, <1>3
<1>5. Upwards(from) \in Seq(from .. M - 1) /\ Len(Upwards(from)) = M - from
  BY <1>1, <1>4, FunctionIsList
<1> QED
  BY <1>3, <1>5

LEMMA TestLines == Listed(Tests)
<1>0. M \in Nat /\ M > 2 /\ M = Maximum_open_files
  BY Numbers DEF M
<1> USE <1>0
<1> DEFINE opens == [i \in 1 .. M - 1 |-> LotsOpen]
           closes == All("close lots", Upwards(2))
           last == <<LotsCount>>
           first == err_neg_fd \o err_big_fd
           lots == first \o err_open_lots
           Fail == ExpectedToFail
<1>1. first \in Seq(Fail) /\ Len(first) = 6
  <2>1. err_neg_fd \in Seq(Fail) /\ Len(err_neg_fd) = 3
    <3>1. Line("read", -1) \in Fail /\ Line("write", -1) \in Fail /\ Line("close", -1) \in Fail
      BY DEF ExpectedToFail, FdLines
    <3> QED
      BY <3>1 DEF err_neg_fd, NEG_FD
  <2>2. err_big_fd \in Seq(Fail) /\ Len(err_big_fd) = 3
    <3>1. /\ Line("read", M + 1) \in Fail /\ Line("write", M + 1) \in Fail
          /\ Line("close", M + 1) \in Fail
      BY DEF ExpectedToFail, FdLines
    <3> QED
      BY <3>1 DEF err_big_fd, BIG_FD
  <2> HIDE DEF Fail
  <2>3. first \in Seq(Fail) /\ Len(first) = Len(err_neg_fd) + Len(err_big_fd)
    BY <2>1, <2>2, ConcatProperties
  <2> QED
    BY <2>1, <2>2, <2>3
<1>2. opens \in Seq(Lines) /\ Len(opens) = M - 1
  <2>1. LotsOpen \in Lines
    BY DEF Lines
  <2>2. M - 1 \in Nat
    OBVIOUS
  <2> HIDE DEF M
  <2> QED
    BY <2>1, <2>2
<1>3. /\ closes \in Seq({LotsClose(fd) : fd \in FileFds}) /\ Len(closes) = M - 2
      /\ \A i \in 1 .. M - 2 : closes[i] = LotsClose(i + 1)
  <2>1. /\ Upwards(2) \in Seq(FileFds) /\ Len(Upwards(2)) = M - 2
        /\ \A i \in 1 .. M - 2 : Upwards(2)[i] = 2 + i - 1
    BY UpwardsFrom DEF FileFds
  <2>2. \A i \in 1 .. M - 2 : 2 + i - 1 = i + 1
    OBVIOUS
  <2> QED
    <3>1. {LotsClose(fd) : fd \in FileFds} = {Line("close lots", fd) : fd \in FileFds}
      BY DEF LotsClose
    <3>2. /\ closes \in Seq({Line("close lots", fd) : fd \in FileFds}) /\ Len(closes) = M - 2
          /\ \A i \in 1 .. M - 2 : closes[i] = Line("close lots", Upwards(2)[i])
      BY <2>1, AllLines
    <3> QED
      BY <2>1, <2>2, <3>1, <3>2 DEF LotsClose
<1>4. closes \in Seq(Lines)
  BY <1>3, SeqMonotonic DEF Lines
<1>5. last \in Seq(Lines) /\ Len(last) = 1 /\ last[1] = LotsCount
  <2>1. LotsCount \in Lines
    BY DEF Lines
  <2> QED
    BY <2>1
<1>6. first \in Seq(Lines)
  BY <1>1, SeqMonotonic DEF Lines
<1> HIDE DEF opens, closes, last, first, lots
<1>7. /\ opens \o closes \in Seq(Lines) /\ Len(opens \o closes) = 2 * M - 3
      /\ \A i \in 1 .. 2 * M - 3 :
           (opens \o closes)[i] = IF i <= M - 1 THEN opens[i] ELSE closes[i - (M - 1)]
  <2>1. 2 * M - 3 = Len(opens) + Len(closes)
    BY <1>2, <1>3
  <2>2. opens \in Seq(Lines) /\ closes \in Seq(Lines)
    BY <1>2, <1>4
  <2>3. /\ opens \o closes \in Seq(Lines)
        /\ Len(opens \o closes) = Len(opens) + Len(closes)
        /\ \A k : k = Len(opens) + Len(closes) =>
             \A i \in 1 .. k : (opens \o closes)[i] = IF i <= Len(opens) THEN opens[i]
                                                   ELSE closes[i - Len(opens)]
    BY <2>2, Joined
  <2> QED
    BY <1>2, <2>1, <2>3
<1>8. /\ err_open_lots \in Seq(Lines) /\ Len(err_open_lots) = 2 * M - 2
      /\ \A i \in 1 .. 2 * M - 2 :
           err_open_lots[i] = IF i <= 2 * M - 3 THEN (opens \o closes)[i]
                              ELSE last[i - (2 * M - 3)]
  <2>1. err_open_lots = (opens \o closes) \o last
    BY DEF err_open_lots, opens, closes, last, LotsOpen, LotsCount, M
  <2> DEFINE s == opens \o closes
  <2>2. s \in Seq(Lines) /\ last \in Seq(Lines) /\ Len(s) = 2 * M - 3
    BY <1>5, <1>7
  <2> HIDE DEF s
  <2>3. 2 * M - 2 = Len(s) + Len(last)
    BY <1>5, <2>2
  <2>4. /\ s \o last \in Seq(Lines) /\ Len(s \o last) = Len(s) + Len(last)
        /\ \A k : k = Len(s) + Len(last) =>
             \A i \in 1 .. k : (s \o last)[i] = IF i <= Len(s) THEN s[i]
                                              ELSE last[i - Len(s)]
    BY <2>2, Joined
  <2>5. err_open_lots = s \o last
    BY <2>1 DEF s
  <2>6. /\ err_open_lots \in Seq(Lines) /\ Len(err_open_lots) = 2 * M - 2
        /\ \A i \in 1 .. 2 * M - 2 :
             err_open_lots[i] = IF i <= 2 * M - 3 THEN s[i] ELSE last[i - (2 * M - 3)]
    BY <2>2, <2>3, <2>4, <2>5
  <2> QED
    BY <2>6 DEF s
<1>9. /\ lots \in Seq(Lines) /\ Len(lots) = LotsEnd
      /\ \A i \in 1 .. LotsEnd :
           lots[i] = IF i <= 6 THEN first[i] ELSE err_open_lots[i - 6]
  <2>1. LotsEnd = Len(first) + Len(err_open_lots)
    BY <1>1, <1>8 DEF LotsEnd
  <2>2. /\ lots \in Seq(Lines) /\ Len(lots) = Len(first) + Len(err_open_lots)
        /\ \A k : k = Len(first) + Len(err_open_lots) =>
             \A i \in 1 .. k : lots[i] = IF i <= Len(first) THEN first[i]
                                       ELSE err_open_lots[i - Len(first)]
    BY <1>6, <1>8, Joined DEF lots
  <2> QED
    BY <1>1, <2>1, <2>2
<1>10. ASSUME NEW i \in 1 .. LotsEnd
       PROVE  /\ LotsLine(i, lots[i])
              /\ i \notin 7 .. LotsEnd => lots[i] \in Fail
  <2>1. CASE i <= 6
    <3>1. i \in 1 .. 6
      BY <2>1 DEF LotsEnd
    <3>2. lots[i] \in Fail
      BY <1>1, <1>9, <2>1, <3>1, ElementOfSeq
    <3>3. LotsLine(i, lots[i])
      BY <2>1, <3>1 DEF LotsLine, LotsEnd
    <3> QED
      BY <3>2, <3>3
  <2>2. CASE i \in 7 .. M + 5
    <3>1. /\ i - 6 \in 1 .. M - 1 /\ i - 6 \in 1 .. 2 * M - 3 /\ i - 6 \in 1 .. 2 * M - 2
          /\ i \in 1 .. LotsEnd /\ ~(i <= 6) /\ i - 6 <= 2 * M - 3 /\ i - 6 <= M - 1
      BY <2>2 DEF LotsEnd
    <3>3. lots[i] = opens[i - 6]
      BY <1>7, <1>8, <1>9, <3>1
    <3>2. lots[i] = LotsOpen
      BY <3>1, <3>3 DEF opens
    <3> QED
      BY <2>2, <3>2 DEF LotsLine, LotsEnd
  <2>3. CASE i \in M + 6 .. 2 * M + 3
    <3>1. /\ i - M - 5 \in 1 .. M - 2 /\ i - 6 \in 1 .. 2 * M - 3 /\ i - 6 \in 1 .. 2 * M - 2
          /\ i \in 1 .. LotsEnd /\ ~(i <= 6) /\ i - 6 <= 2 * M - 3 /\ ~(i - 6 <= M - 1)
          /\ i - 6 - (M - 1) = i - M - 5 /\ i - M - 5 + 1 = i - M - 4
      BY <2>3 DEF LotsEnd
    <3>3. lots[i] = closes[i - M - 5]
      BY <1>7, <1>8, <1>9, <3>1
    <3>2. lots[i] = LotsClose(i - M - 4)
      BY <1>3, <3>1, <3>3
    <3> QED
      BY <2>3, <3>2 DEF LotsLine, LotsEnd
  <2>4. CASE i = LotsEnd
    <3>1. lots[i] = last[1]
      BY <1>8, <1>9, <2>4 DEF LotsEnd
    <3> QED
      BY <1>5, <2>4, <3>1 DEF LotsLine, LotsEnd
  <2> QED
    BY <2>1, <2>2, <2>3, <2>4 DEF LotsEnd
<1>11. Listed(lots)
  BY <1>9, <1>10 DEF Listed, LotsEnd
<1>12. err_open \in Seq(Fail)
  <2>1. /\ Line("open", "helloo") \in Fail /\ Line("open", "shel") \in Fail
        /\ Line("open", "") \in Fail
    BY DEF ExpectedToFail, NameLines
  <2> QED
    BY <2>1, ThreeLines DEF err_open
<1>13. err_unopened \in Seq(Fail)
  <2> DEFINE each(call, S) == {Line(call, fd) : fd \in S}
  <2>1. All("close", Upwards(0)) \in Seq(each("close", 0 .. M - 1))
    BY UpwardsFrom, AllLines
  <2>2. \A call : All(call, Upwards(2)) \in Seq(each(call, FileFds))
    BY UpwardsFrom, AllLines DEF FileFds
  <2>3. each("close", 0 .. M - 1) \subseteq Fail
    <3>1. \A fd \in 0 .. M - 1 : fd = 0 \/ fd = 1 \/ fd \in FileFds
      BY DEF FileFds
    <3> QED
      BY <3>1 DEF ExpectedToFail, FdLines
  <2>4. each("read", FileFds) \subseteq Fail /\ each("write", FileFds) \subseteq Fail
    BY DEF ExpectedToFail, FdLines
  <2> HIDE DEF Fail, each
  <2>5. /\ All("close", Upwards(0)) \in Seq(Fail) /\ All("read", Upwards(2)) \in Seq(Fail)
        /\ All("write", Upwards(2)) \in Seq(Fail)
    BY <2>1, <2>2, <2>3, <2>4, SeqMonotonic
  <2> QED
    BY <2>5, ConcatProperties DEF err_unopened
<1>14. err_vidmap \in Seq(Fail)
  <2>1. Line("vidmap", "NULL") \in Fail /\ Line("vidmap", "kernel") \in Fail
    BY DEF ExpectedToFail, PointerLines
  <2> QED
    BY <2>1 DEF err_vidmap
<1>15. err_stdin_out \in Seq(Fail)
  <2>1. Line("write", 0) \in Fail /\ Line("read", 1) \in Fail
    BY DEF ExpectedToFail, FdLines
  <2> QED
    BY <2>1 DEF err_stdin_out
<1>16. err_syscall_num \in Seq(Fail)
  <2>1. /\ Line("system call", BIG_NUM) \in Fail /\ Line("system call", NEG_NUM) \in Fail
        /\ Line("system call", 0) \in Fail
    BY DEF ExpectedToFail, NumberLines
  <2> HIDE DEF Fail
  <2>2. <<Line("system call", BIG_NUM), Line("system call", NEG_NUM),
          Line("system call", 0)>> \in Seq(Fail)
    BY <2>1, ThreeLines
  <2> QED
    BY <2>2 DEF err_syscall_num
<1>17. Tests = lots \o err_open \o err_unopened \o err_vidmap \o err_stdin_out
               \o err_syscall_num
  BY DEF Tests, first, lots
<1> HIDE DEF lots, Fail
<1> QED
  BY <1>11, <1>12, <1>13, <1>14, <1>15, <1>16, <1>17, MoreListed DEF Fail

-----------------------------------------------------------------------------
(* What one line does.                                                     *)

OpenFds == {fd \in FileFds : fd_array[Tester][fd].flags # 0}

Running == IInv /\ process_array[Tester] = 1

NothingOpened == UNCHANGED <<process_array, fd_array>> /\ answer'.ret = -1

LEMMA TesterTerminal ==
  ASSUME Running PROVE Op(Tester, 0) = "stdin" /\ Op(Tester, 1) = "stdout"
BY TesterAssumption, Numbers DEF Running, IInv, DescriptorsSound, DescriptorSound, Op

LEMMA NotOpened ==
  ASSUME Running, OpenFds = {}, NEW fd \in FileFds \cup {-1, M + 1} PROVE ~Valid(Tester, fd)
<1>1. CASE fd \in FileFds
  BY <1>1, Numbers DEF OpenFds, Valid, Flags, FileFds
<1>2. CASE fd = -1
  BY <1>2 DEF Valid, InRange
<1>3. CASE fd = M + 1
  BY <1>3, Numbers DEF Valid, InRange, M
<1> QED
  BY <1>1, <1>2, <1>3

LEMMA RetOf ==
  ASSUME NEW p, NEW fd, NEW call, NEW ret, NEW data, Returns(p, fd, call, ret, data)
  PROVE  answer'.ret = ret
BY DEF Returns, Answer

LEMMA CloseNothing ==
  ASSUME Running, NEW fd, ~CanClose(Tester, fd), Close(fd) PROVE NothingOpened
BY RetOf DEF Close, CloseFails, CloseWorks, NothingOpened

LEMMA ReadNothing ==
  ASSUME Running, NEW fd, ~CanRead(Tester, fd), ReadAny(fd) PROVE NothingOpened
<1>1. ~ReadDevice(Tester, fd) /\ \A nbytes \in Sizes : ~ReadFile(Tester, fd, nbytes)
  BY DEF CanRead, ReadDevice, ReadFile
<1> QED
  BY <1>1, RetOf DEF ReadAny, ReadFails, NothingOpened

LEMMA WriteNothing ==
  ASSUME Running, NEW fd, ~Valid(Tester, fd) \/ fd = 0, Write(Tester, fd) PROVE NothingOpened
<1>1. WriteResults(Tester, fd) = {-1}
  BY TesterTerminal DEF WriteResults
<1> QED
  BY <1>1, RetOf DEF Write, NothingOpened

LEMMA FailsAsExpected ==
  ASSUME Running, OpenFds = {}, NEW line \in ExpectedToFail, Expects(line), fail = FALSE
  PROVE  NothingOpened /\ fail' = FALSE /\ cnt' = cnt
<1>1. CASE line \in FdLines
  <2>1. PICK call \in {"read", "write", "close"},
             fd \in FileFds \cup {-1, M + 1} \cup {0, 1} :
          /\ line = Line(call, fd)
          /\ \/ fd \in FileFds \cup {-1, M + 1}
             \/ call = "close" /\ fd \in {0, 1}
             \/ call = "write" /\ fd = 0
             \/ call = "read" /\ fd = 1
    BY <1>1 DEF FdLines
  <2>2. line.call = call /\ line.arg = fd
    BY <2>1 DEF Line
  <2>3. ASSUME call = "read" PROVE NothingOpened
    <3>1. ReadAny(fd)
      BY <2>2, <2>3 DEF Expects
    <3>2. ~CanRead(Tester, fd)
      BY <2>1, <2>3, NotOpened, TesterTerminal DEF CanRead
    <3> QED
      BY <3>1, <3>2, ReadNothing
  <2>4. ASSUME call = "write" PROVE NothingOpened
    <3>1. Write(Tester, fd)
      BY <2>2, <2>4 DEF Expects
    <3>2. ~Valid(Tester, fd) \/ fd = 0
      BY <2>1, <2>4, NotOpened
    <3> QED
      BY <3>1, <3>2, WriteNothing
  <2>5. ASSUME call = "close" PROVE NothingOpened
    <3>1. Close(fd)
      BY <2>2, <2>5 DEF Expects
    <3>2. ~CanClose(Tester, fd)
      BY <2>1, <2>5, NotOpened, TesterTerminal DEF CanClose, CloseResult
    <3> QED
      BY <3>1, <3>2, CloseNothing
  <2>6. NothingOpened
    BY <2>3, <2>4, <2>5
  <2> QED
    BY <2>6 DEF Expects, NothingOpened
<1>2. CASE line \in NameLines
  <2>1. PICK name \in {"helloo", "shel", ""} : line = Line("open", name)
    BY <1>2 DEF NameLines
  <2>2. line.call = "open" /\ line.arg = name
    BY <2>1 DEF Line
  <2>3. Open(name)
    BY <2>2 DEF Expects
  <2>4. read_dentry_by_name(name) = None
    BY TesterAssumption
  <2>5. ~OpenTerminal(Tester, name) /\ ~OpenFile(Tester, name)
    BY <2>4 DEF OpenTerminal, OpenFile
  <2>6. OpenFails(Tester, name)
    BY <2>3, <2>5 DEF Open
  <2>7. NothingOpened
    BY <2>6 DEF OpenFails, Answer, NothingOpened
  <2> QED
    BY <2>7 DEF Expects, NothingOpened
<1>3. CASE line \in PointerLines
  <2>1. line.call = "vidmap" /\ line.arg \in {"NULL", "kernel"}
    BY <1>3 DEF PointerLines, Line
  <2>2. vidmap(line.arg)
    BY <2>1 DEF Expects
  <2>3. NothingOpened
    BY <2>1, <2>2 DEF vidmap, Only, Answer, NothingOpened
  <2> QED
    BY <2>3 DEF Expects, NothingOpened
<1>4. CASE line \in NumberLines
  <2>1. PICK num : num \in {BIG_NUM, NEG_NUM, 0} /\ line = Line("system call", num)
    BY <1>4 DEF NumberLines
  <2>2. line.call = "system call" /\ line.arg = num
    BY <2>1 DEF Line
  <2>3. systemcall_handler_linkage(num)
    BY <2>2 DEF Expects
  <2>4. num < 1 \/ num > 10
    <3>1. PICK n \in Int : n = num /\ (n < 1 \/ n > 10)
      <4>1. CASE num = BIG_NUM
        BY <4>1, NumbersAre
      <4>2. CASE num = NEG_NUM
        BY <4>2, NumbersAre
      <4>3. CASE num = 0
        BY <4>3
      <4> QED
        BY <2>1, <4>1, <4>2, <4>3
    <3> QED
      BY <3>1
  <2>5. Only(-1)
    BY <2>3, <2>4 DEF systemcall_handler_linkage
  <2>6. NothingOpened
    BY <2>5 DEF Only, Answer, NothingOpened
  <2> QED
    BY <2>6 DEF Expects, NothingOpened
<1> QED
  BY <1>1, <1>2, <1>3, <1>4 DEF ExpectedToFail

LEMMA SameMembers ==
  ASSUME NEW R, NEW S, NEW Q, S \subseteq R, Q \subseteq R, \A x \in R : x \in S <=> x \in Q
  PROVE  S = Q
OBVIOUS

(* An open takes the lowest number; the last of M - 1 finds none.          *)
LEMMA OpensLowest ==
  ASSUME Running, NEW k \in 1 .. M - 1, OpenFds = 2 .. k, Open(".")
  PROVE  /\ process_array' = process_array
         /\ k < M - 1 => answer'.ret # -1 /\ OpenFds' = 2 .. k + 1
         /\ k = M - 1 => NothingOpened
<1>0. M \in Nat /\ M > 2 /\ M = Maximum_open_files /\ k \in Nat /\ k <= M - 1
  BY Numbers DEF M
<1> DEFINE free == {fd \in FileFds : fd_array[Tester][fd].flags = 0}
<1>1. free = k + 1 .. M - 1
  <2>1. \A fd \in FileFds : fd \in free <=> fd \notin OpenFds
    BY DEF OpenFds
  <2>2. FileFds = 2 .. M - 1
    BY DEF FileFds, M
  <2> HIDE DEF free
  <2>3. \A fd \in 2 .. M - 1 : fd \in free <=> fd \in k + 1 .. M - 1
    BY <1>0, <2>1, <2>2
  <2>4. free \subseteq 2 .. M - 1
    BY <2>2 DEF free
  <2>5. k + 1 .. M - 1 \subseteq 2 .. M - 1
    BY <1>0
  <2> QED
    BY <2>3, <2>4, <2>5, SameMembers
<1>2. k = M - 1 => FirstFree(Tester) = Maximum_open_files
  BY <1>0, <1>1 DEF FirstFree
<1>3. k < M - 1 => FirstFree(Tester) = k + 1
  <2>1. SUFFICES ASSUME k < M - 1 PROVE FirstFree(Tester) = k + 1
    OBVIOUS
  <2>2. k + 1 \in free /\ \A g \in free : k + 1 <= g
    BY <1>0, <1>1, <2>1
  <2>3. FirstFree(Tester) = CHOOSE fd \in free : \A g \in free : fd <= g
    BY <2>2 DEF FirstFree
  <2>4. \A fd \in free : fd \in Int
    BY <1>0, <1>1
  <2> HIDE DEF free
  <2>5. \A fd \in free : (\A g \in free : fd <= g) => fd = k + 1
    BY <1>0, <2>2, <2>4
  <2> QED
    BY <2>2, <2>3, <2>5
<1>4. read_dentry_by_name(".") # None
  BY TesterAssumption
<1>5. ~OpenTerminal(Tester, ".")
  BY DEF OpenTerminal
<1>6. process_array' = process_array
  BY <1>5 DEF Open, OpenFails, OpenFile
<1>7. ASSUME k = M - 1 PROVE NothingOpened
  <2>1. ~OpenFile(Tester, ".")
    BY <1>2, <1>7 DEF OpenFile
  <2> QED
    BY <1>5, <2>1 DEF Open, OpenFails, Answer, NothingOpened
<1>8. ASSUME k < M - 1 PROVE answer'.ret # -1 /\ OpenFds' = 2 .. k + 1
  <2>1. ~OpenFails(Tester, ".")
    BY <1>0, <1>3, <1>4, <1>8 DEF OpenFails
  <2>2. OpenFile(Tester, ".")
    BY <1>5, <2>1 DEF Open
  <2>3. PICK op, inode : fd_array' = [fd_array EXCEPT ![Tester][k + 1] = InUse(op, inode)]
    BY <1>3, <1>8, <2>2 DEF OpenFile
  <2>4. answer'.ret = k + 1
    BY <1>3, <1>8, <2>2 DEF OpenFile, Answer
  <2>5. ASSUME NEW fd \in FdNums
        PROVE  fd_array'[Tester][fd] = IF fd = k + 1 THEN InUse(op, inode)
                                       ELSE fd_array[Tester][fd]
    BY <2>3, TesterAssumption DEF Running, IInv
  <2>6. InUse(op, inode).flags = 1
    BY DEF InUse
  <2>7. FileFds = 2 .. M - 1 /\ FileFds \subseteq FdNums
    BY Numbers DEF FileFds, M
  <2>8. \A fd \in FileFds : fd \in OpenFds' <=> fd = k + 1 \/ fd \in OpenFds
    BY <2>5, <2>6, <2>7 DEF OpenFds
  <2>9. OpenFds' \subseteq 2 .. M - 1
    BY <2>7 DEF OpenFds
  <2>10. \A fd \in 2 .. M - 1 : fd \in OpenFds' <=> fd \in 2 .. k + 1
    BY <1>0, <1>8, <2>7, <2>8
  <2>11. OpenFds' = 2 .. k + 1
    <3>1. 2 .. k + 1 \subseteq 2 .. M - 1
      BY <1>0, <1>8
    <3> QED
      BY <2>9, <2>10, <3>1, SameMembers
  <2> QED
    BY <1>0, <2>4, <2>11
<1> QED
  BY <1>6, <1>7, <1>8

(* What was opened is closed.                                              *)
LEMMA ClosesOpened ==
  ASSUME Running, NEW k \in 2 .. M - 1, OpenFds = k .. M - 1, Close(k)
  PROVE  process_array' = process_array /\ OpenFds' = k + 1 .. M - 1
<1>0. M \in Nat /\ M > 2 /\ M = Maximum_open_files /\ k \in Nat /\ k <= M - 1 /\ k >= 2
  BY Numbers DEF M
<1>1. FileFds = 2 .. M - 1 /\ FileFds \subseteq FdNums
  BY Numbers DEF FileFds, M
<1>2. k \in FileFds /\ k \in OpenFds
  BY <1>0, <1>1
<1>3. Valid(Tester, k)
  BY <1>0, <1>2 DEF OpenFds, Valid, InRange, Flags
<1>4. Op(Tester, k) \notin {"stdin", "stdout"}
  BY <1>1, <1>2, TesterAssumption DEF Running, IInv, DescriptorsSound, DescriptorSound, Op
<1>5. CloseWorks(Tester, k)
  BY <1>3, <1>4 DEF Close, CloseFails, CanClose, CloseResult
<1>6. fd_array' = [fd_array EXCEPT ![Tester][k] = Unused] /\ process_array' = process_array
  BY <1>5 DEF CloseWorks
<1>7. ASSUME NEW fd \in FdNums
      PROVE  fd_array'[Tester][fd] = IF fd = k THEN Unused ELSE fd_array[Tester][fd]
  BY <1>6, TesterAssumption DEF Running, IInv
<1>8. \A fd \in FileFds : fd \in OpenFds' <=> fd # k /\ fd \in OpenFds
  BY <1>1, <1>7 DEF OpenFds, Unused
<1>9. OpenFds' \subseteq 2 .. M - 1
  BY <1>1 DEF OpenFds
<1>10. \A fd \in 2 .. M - 1 : fd \in OpenFds' <=> fd \in k + 1 .. M - 1
  BY <1>0, <1>1, <1>8
<1>11. OpenFds' = k + 1 .. M - 1
  <2>1. k + 1 .. M - 1 \subseteq 2 .. M - 1
    BY <1>0
  <2> QED
    BY <1>9, <1>10, <2>1, SameMembers
<1> QED
  BY <1>6, <1>11

-----------------------------------------------------------------------------
(* Which files are open and how many opens have failed before line i.      *)

OpenAt(i) ==
  IF i \in 7 .. M + 5 THEN 2 .. i - 6
  ELSE IF i \in M + 6 .. 2 * M + 3 THEN i - M - 4 .. M - 1
  ELSE {}

CountAt(i) == IF i \in M + 6 .. LotsEnd THEN 1 ELSE 0

At(i) == process_array[Tester] = 1 /\ OpenFds = OpenAt(i) /\ cnt = CountAt(i)

TInv ==
  /\ IInv
  /\ fail = FALSE
  /\ test \in 0 .. Len(Tests)
  /\ IF test = 0 THEN cnt = 0 ELSE At(test)

LEMMA OpenWhileClosing ==
  ASSUME NEW i, i \in M + 6 .. 2 * M + 3, i \notin 7 .. M + 5, NEW k, i - M - 4 = k
  PROVE  OpenAt(i) = k .. M - 1
BY DEF OpenAt

LEMMA LineCalls ==
  /\ LotsOpen.call = "open lots" /\ LotsOpen.arg = "."
  /\ \A fd : LotsClose(fd).call = "close lots" /\ LotsClose(fd).arg = fd
  /\ LotsCount.call = "one failed"
  /\ \A line \in ExpectedToFail :
       line.call \notin {"open lots", "close lots", "one failed"}
<1>1. ASSUME NEW line \in ExpectedToFail
      PROVE  line.call \notin {"open lots", "close lots", "one failed"}
  <2>1. CASE line \in FdLines
    <3>1. line.call \in {"read", "write", "close"}
      BY <2>1 DEF FdLines, Line
    <3> QED
      BY <3>1
  <2>2. CASE line \in NameLines
    <3>1. PICK arg : line = Line("open", arg)
      BY <2>2 DEF NameLines
    <3>2. line.call = "open"
      BY <3>1 DEF Line
    <3> QED
      BY <3>2
  <2>3. CASE line \in PointerLines
    <3>1. line.call = "vidmap"
      BY <2>3 DEF PointerLines, Line
    <3> QED
      BY <3>1
  <2>4. CASE line \in NumberLines
    <3>1. \A num : Line("system call", num).call = "system call"
      BY DEF Line
    <3>2. line.call = "system call"
      BY <2>4, <3>1 DEF NumberLines
    <3> QED
      BY <3>2
  <2> QED
    BY <2>1, <2>2, <2>3, <2>4 DEF ExpectedToFail
<1>2. LotsOpen.call = "open lots" /\ LotsOpen.arg = "."
  BY DEF LotsOpen, Line
<1>3. \A fd : LotsClose(fd).call = "close lots" /\ LotsClose(fd).arg = fd
  BY DEF LotsClose, Line
<1>4. LotsCount.call = "one failed"
  BY DEF LotsCount, Line
<1> QED
  BY <1>1, <1>2, <1>3, <1>4

LEMMA SameFiles ==
  ASSUME UNCHANGED <<process_array, fd_array>>, process_array[Tester] = 1
  PROVE  OpenFds' = OpenFds /\ process_array'[Tester] = 1
BY DEF OpenFds

(* The line done, everything is as it must be before the next one.         *)
LEMMA NextLine ==
  ASSUME TInv, NEW i \in 1 .. Len(Tests), test = i, Step
  PROVE  IInv' /\ fail' = FALSE /\ At(i + 1)'
<1>0. M \in Nat /\ M > 2 /\ M = Maximum_open_files /\ LotsEnd = 2 * M + 4 /\ i \in Nat /\ i >= 1
  <2>1. Len(Tests) \in Nat
    BY TestLines, LenProperties DEF Listed
  <2> QED
    BY <2>1, Numbers DEF M, LotsEnd
<1> DEFINE line == Tests[i]
<1>1. /\ LotsLine(i, line)
      /\ i \notin 7 .. LotsEnd => line \in ExpectedToFail
  BY TestLines DEF Listed
<1>2. Expects(line) \/ OpenLots(line) \/ CloseLots(line) \/ OneFailed(line)
  BY DEF Step
<1>3. Running /\ At(i) /\ fail = FALSE /\ Tester \in Pids
  <2>1. At(i)
    BY <1>0 DEF TInv
  <2> QED
    BY <2>1, TesterAssumption DEF TInv, Running, At
<1> HIDE DEF line
<1>4. CASE i \notin 7 .. LotsEnd
  <2>1. OpenAt(i) = {} /\ CountAt(i) = 0 /\ OpenAt(i + 1) = {} /\ CountAt(i + 1) = 0
    <3>1. i \notin 7 .. M + 5 /\ i \notin M + 6 .. 2 * M + 3 /\ i \notin M + 6 .. LotsEnd
      BY <1>0, <1>4
    <3>2. i + 1 \notin M + 6 .. 2 * M + 3 /\ i + 1 \notin M + 6 .. LotsEnd
      BY <1>0, <1>4
    <3>3. i + 1 \in 7 .. M + 5 => i + 1 = 7 /\ 2 .. 7 - 6 = {}
      BY <1>0, <1>4
    <3> QED
      BY <3>1, <3>2, <3>3 DEF OpenAt, CountAt
  <2>2. line \in ExpectedToFail /\ OpenFds = {} /\ cnt = 0
    BY <1>1, <1>3, <1>4, <2>1 DEF At
  <2>3. Expects(line)
    BY <1>2, <2>2, LineCalls DEF OpenLots, CloseLots, OneFailed
  <2>4. NothingOpened /\ fail' = FALSE /\ cnt' = cnt
    BY <1>3, <2>2, <2>3, FailsAsExpected
  <2>5. IInv' /\ OpenFds' = OpenFds /\ process_array'[Tester] = 1
    BY <1>3, <2>4, NoneChanges, SameFiles DEF Running, NothingOpened
  <2> QED
    BY <2>1, <2>2, <2>4, <2>5 DEF At
<1>5. CASE i \in 7 .. M + 5
  <2> DEFINE k == i - 6
  <2>1. line = LotsOpen
    BY <1>1, <1>5 DEF LotsLine
  <2>2. OpenLots(line)
    BY <1>2, <2>1, LineCalls DEF Expects, CloseLots, OneFailed
  <2>3. /\ Open(".") /\ fail' = fail
        /\ cnt' = IF answer'.ret = -1 THEN cnt + 1 ELSE cnt
    BY <2>1, <2>2, LineCalls DEF OpenLots
  <2>4. k \in 1 .. M - 1 /\ i + 1 \in Nat /\ k + 1 = i + 1 - 6
    BY <1>0, <1>5
  <2>5. OpenFds = 2 .. k /\ cnt = 0
    <3>1. i \notin M + 6 .. LotsEnd
      BY <1>0, <1>5
    <3> QED
      BY <1>3, <1>5, <3>1 DEF At, OpenAt, CountAt
  <2> HIDE DEF k
  <2>6. IInv'
    BY <1>3, <2>3, CallKeeps DEF Running, Calling, Open
  <2>7. process_array'[Tester] = 1
    BY <1>3, <2>3, <2>4, <2>5, OpensLowest DEF Running
  <2>8. CASE k < M - 1
    <3>1. OpenFds' = 2 .. k + 1 /\ cnt' = 0
      BY <1>3, <2>3, <2>4, <2>5, <2>8, OpensLowest
    <3>2. i + 1 \in 7 .. M + 5 /\ i + 1 \notin M + 6 .. LotsEnd
      BY <1>0, <1>5, <2>8 DEF k
    <3>3. OpenAt(i + 1) = 2 .. k + 1 /\ CountAt(i + 1) = 0
      BY <2>4, <3>2 DEF OpenAt, CountAt
    <3> QED
      BY <1>3, <2>3, <2>6, <2>7, <3>1, <3>3 DEF At
  <2>9. CASE k = M - 1
    <3>1. NothingOpened
      BY <1>3, <2>3, <2>4, <2>5, <2>9, OpensLowest
    <3>2. OpenFds' = 2 .. M - 1 /\ cnt' = 1
      BY <1>3, <2>3, <2>5, <2>9, <3>1, SameFiles DEF NothingOpened, Running
    <3>3. /\ i + 1 \notin 7 .. M + 5 /\ i + 1 \in M + 6 .. 2 * M + 3
          /\ i + 1 \in M + 6 .. LotsEnd /\ i + 1 - M - 4 = 2
      BY <1>0, <1>5, <2>9 DEF k
    <3>4. OpenAt(i + 1) = 2 .. M - 1 /\ CountAt(i + 1) = 1
      <4>1. OpenAt(i + 1) = 2 .. M - 1
        <5>1. PICK j \in Nat : j = i + 1
          BY <1>0
        <5>2. j \in M + 6 .. 2 * M + 3 /\ j \notin 7 .. M + 5 /\ j - M - 4 = 2
          BY <1>0, <3>3, <5>1
        <5>3. OpenAt(j) = 2 .. M - 1
          BY <5>2, OpenWhileClosing
        <5> QED
          BY <5>1, <5>3
      <4> QED
        BY <3>3, <4>1 DEF CountAt
    <3> QED
      BY <1>3, <2>3, <2>6, <2>7, <3>2, <3>4 DEF At
  <2>10. k < M - 1 \/ k = M - 1
    BY <1>0, <2>4
  <2> QED
    BY <2>8, <2>9, <2>10
<1>6. CASE i \in M + 6 .. 2 * M + 3
  <2> DEFINE k == i - M - 4
  <2>1. line = LotsClose(k)
    BY <1>1, <1>6 DEF LotsLine
  <2>2. k \in 2 .. M - 1 /\ i \notin 7 .. M + 5 /\ i \in M + 6 .. LotsEnd
    BY <1>0, <1>6
  <2>3. OpenFds = k .. M - 1 /\ cnt = 1
    BY <1>3, <1>6, <2>2 DEF At, OpenAt, CountAt
  <2>4. /\ i + 1 \notin 7 .. M + 5 /\ i + 1 \in M + 6 .. LotsEnd
        /\ i + 1 - M - 4 = k + 1
        /\ i + 1 \notin M + 6 .. 2 * M + 3 => k + 1 .. M - 1 = {}
    BY <1>0, <1>6
  <2> HIDE DEF k
  <2>5. CloseLots(line)
    BY <1>2, <2>1, LineCalls DEF Expects, OpenLots, OneFailed
  <2>6. Close(k) /\ fail' = fail /\ cnt' = cnt
    BY <2>1, <2>5, LineCalls DEF CloseLots
  <2>7. IInv'
    BY <1>3, <2>6, CallKeeps DEF Running, Calling, Close
  <2>8. process_array'[Tester] = 1 /\ OpenFds' = k + 1 .. M - 1
    BY <1>3, <2>2, <2>3, <2>6, ClosesOpened DEF Running
  <2>9. OpenAt(i + 1) = k + 1 .. M - 1 /\ CountAt(i + 1) = 1
    <3>1. CASE i + 1 \in M + 6 .. 2 * M + 3
      <4>1. OpenAt(i + 1) = k + 1 .. M - 1
        <5>1. PICK j \in Nat, n \in Nat : j = i + 1 /\ n = k + 1
          BY <1>0, <2>2
        <5>2. j \in M + 6 .. 2 * M + 3 /\ j \notin 7 .. M + 5 /\ j - M - 4 = n
          BY <1>0, <2>2, <2>4, <3>1, <5>1
        <5>3. OpenAt(j) = n .. M - 1
          BY <5>2, OpenWhileClosing
        <5> QED
          BY <5>1, <5>3
      <4> QED
        BY <2>4, <4>1 DEF CountAt
    <3>2. CASE i + 1 \notin M + 6 .. 2 * M + 3
      BY <2>4, <3>2 DEF OpenAt, CountAt
    <3> QED
      BY <3>1, <3>2
  <2> QED
    BY <1>3, <2>3, <2>6, <2>7, <2>8, <2>9 DEF At
<1>7. CASE i = LotsEnd
  <2>1. line = LotsCount
    BY <1>1, <1>7 DEF LotsLine
  <2>2. OneFailed(line)
    BY <1>2, <2>1, LineCalls DEF Expects, OpenLots, CloseLots
  <2>3. /\ i \notin 7 .. M + 5 /\ i \notin M + 6 .. 2 * M + 3 /\ i \in M + 6 .. LotsEnd
        /\ i + 1 \notin 7 .. M + 5 /\ i + 1 \notin M + 6 .. 2 * M + 3
        /\ i + 1 \notin M + 6 .. LotsEnd
    BY <1>0, <1>7
  <2>4. OpenFds = {} /\ cnt = 1 /\ OpenAt(i + 1) = {} /\ CountAt(i + 1) = 0
    BY <1>3, <2>3 DEF At, OpenAt, CountAt
  <2>5. fail' = FALSE /\ cnt' = 0 /\ UNCHANGED <<process_array, fd_array>>
    BY <1>3, <2>2, <2>4 DEF OneFailed, vars
  <2>6. IInv' /\ OpenFds' = OpenFds /\ process_array'[Tester] = 1
    BY <1>3, <2>5, NoneChanges, SameFiles DEF Running
  <2> QED
    BY <2>4, <2>5, <2>6 DEF At
<1>8. i \notin 7 .. LotsEnd \/ i \in 7 .. M + 5 \/ i \in M + 6 .. 2 * M + 3 \/ i = LotsEnd
  BY <1>0
<1> QED
  BY <1>4, <1>5, <1>6, <1>7, <1>8

-----------------------------------------------------------------------------
(* The others do not touch the tester's PCB.                               *)

Untouched == /\ fd_array'[Tester] = fd_array[Tester]
             /\ process_array'[Tester] = process_array[Tester]

LEMMA OthersApart ==
  ASSUME IInv, NEW p \in Pids, p # Tester,
         Execute(p) \/ Call(p) \/ DirFetch(p) \/ DirAdvance(p)
  PROVE  Untouched
<1>0. /\ Tester \in Pids /\ DOMAIN fd_array = Pids /\ DOMAIN process_array = Pids
  BY TesterAssumption DEF IInv
<1>1. ASSUME UNCHANGED <<process_array, fd_array>> PROVE Untouched
  BY <1>1 DEF Untouched
<1>2. CASE Execute(p)
  BY <1>0, <1>2 DEF Execute, Untouched
<1>3. CASE Halt(p)
  BY <1>0, <1>3 DEF Halt, Untouched
<1>4. ASSUME NEW name, OpenTerminal(p, name) PROVE Untouched
  <2> DEFINE fd == IF name = "stdin" THEN 0 ELSE 1
  <2>1. /\ process_array' = process_array
        /\ fd_array' = [fd_array EXCEPT ![p][fd].flags = 1, ![p][fd].func_pointer = name]
    BY <1>4 DEF OpenTerminal
  <2> HIDE DEF fd
  <2>2. fd_array'[Tester] = fd_array[Tester]
    BY <1>0, <2>1
  <2> QED
    BY <2>1, <2>2 DEF Untouched
<1>5. ASSUME NEW name, OpenFile(p, name) PROVE Untouched
  BY <1>0, <1>5 DEF OpenFile, Untouched
<1>6. ASSUME NEW fd, CloseWorks(p, fd) PROVE Untouched
  BY <1>0, <1>6 DEF CloseWorks, Untouched
<1>7. ASSUME NEW fd, NEW nbytes, ReadFile(p, fd, nbytes) PROVE Untouched
  BY <1>0, <1>7 DEF ReadFile, Untouched
<1>8. ASSUME NEW name, NEW fd, NEW nbytes,
             \/ OpenFails(p, name) \/ CloseFails(p, fd) \/ ReadFails(p, fd)
             \/ ReadDevice(p, fd) \/ Write(p, fd) \/ ReadDir(p, fd, nbytes)
             \/ getargs(p) \/ DirFetch(p) \/ DirAdvance(p)
      PROVE  Untouched
  BY <1>1, <1>8 DEF OpenFails, CloseFails, ReadFails, ReadDevice, Write, ReadDir,
                    getargs, DirFetch, DirAdvance
<1> QED
  BY <1>2, <1>3, <1>4, <1>5, <1>6, <1>7, <1>8 DEF Call

LEMMA TestsKeep ==
  ASSUME TInv, [TestNext]_testVars PROVE TInv'
<1>0. Len(Tests) \in Nat /\ Len(Tests) >= LotsEnd /\ LotsEnd > 7 /\ LotsEnd = 2 * M + 4
  <2>1. Len(Tests) \in Nat /\ Len(Tests) >= LotsEnd
    BY TestLines, LenProperties DEF Listed
  <2> QED
    BY <2>1, Numbers DEF LotsEnd, M
<1>1. CASE Start
  <2>1. Execute(Tester) /\ test' = 1 /\ cnt' = cnt /\ fail' = fail
    BY <1>1 DEF Start
  <2>2. process_array[Tester] = 0
    BY <2>1 DEF Execute
  <2>3. test = 0 /\ cnt = 0 /\ fail = FALSE
    BY <2>2 DEF TInv, At
  <2>4. IInv'
    BY <2>1, TesterAssumption, StepKeeps DEF TInv, Next
  <2>5. /\ process_array'[Tester] = 1
        /\ \A fd \in FileFds : fd_array'[Tester][fd] = Unused
    BY <2>1, TesterAssumption, Numbers DEF Execute, TInv, IInv
  <2>6. OpenFds' = {}
    BY <2>5 DEF OpenFds, Unused
  <2>7. OpenAt(1) = {} /\ CountAt(1) = 0
    <3>1. 1 \notin 7 .. M + 5 /\ 1 \notin M + 6 .. 2 * M + 3 /\ 1 \notin M + 6 .. LotsEnd
      BY Numbers DEF M
    <3> QED
      BY <3>1 DEF OpenAt, CountAt
  <2>8. OpenAt(test') = {} /\ CountAt(test') = 0 /\ test' # 0 /\ test' \in 0 .. Len(Tests)
    BY <1>0, <2>1, <2>7
  <2> QED
    BY <2>1, <2>3, <2>4, <2>5, <2>6, <2>8 DEF TInv, At, OpenAt, CountAt
<1>2. CASE Step
  <2>1. PICK i \in 1 .. Len(Tests) : i = test
    BY <1>0, <1>2 DEF Step, TInv
  <2>2. IInv' /\ fail' = FALSE /\ At(i + 1)'
    BY <1>2, <2>1, NextLine
  <2>3. test' = IF i = Len(Tests) THEN 0 ELSE i + 1
    BY <1>2, <2>1 DEF Step
  <2>4. CASE i = Len(Tests)
    <3>1. i + 1 \notin M + 6 .. LotsEnd
      BY <1>0, <2>4
    <3>2. cnt' = 0
      BY <2>2, <3>1 DEF At, CountAt
    <3> QED
      BY <1>0, <2>2, <2>3, <2>4, <3>2 DEF TInv
  <2>5. CASE i # Len(Tests)
    <3>1. PICK j : j = i + 1
      OBVIOUS
    <3>2. test' = j /\ j # 0 /\ j \in 0 .. Len(Tests)
      BY <1>0, <2>3, <2>5, <3>1
    <3>3. process_array'[Tester] = 1 /\ OpenFds' = OpenAt(j) /\ cnt' = CountAt(j)
      BY <2>2, <3>1 DEF At, OpenAt, CountAt
    <3> QED
      BY <2>2, <3>2, <3>3 DEF TInv, At, OpenAt, CountAt
  <2> QED
    BY <2>4, <2>5
<1>3. CASE Others
  <2>1. PICK p \in Pids :
          /\ Execute(p) \/ Call(p) \/ DirFetch(p) \/ DirAdvance(p)
          /\ test # 0 => p # Tester
    BY <1>3 DEF Others
  <2>2. UNCHANGED <<test, cnt, fail>>
    BY <1>3 DEF Others
  <2>3. IInv'
    BY <2>1, StepKeeps DEF TInv, Next
  <2>4. CASE test = 0
    BY <2>2, <2>3, <2>4 DEF TInv
  <2>5. CASE test # 0
    <3>1. Untouched
      BY <2>1, <2>5, OthersApart DEF TInv
    <3>2. process_array'[Tester] = process_array[Tester] /\ OpenFds' = OpenFds
      BY <3>1 DEF Untouched, OpenFds
    <3> QED
      BY <2>2, <2>3, <2>5, <3>2 DEF TInv, At, OpenAt, CountAt
  <2> QED
    BY <2>4, <2>5
<1>4. CASE UNCHANGED testVars
  <2>1. UNCHANGED <<vars, test, cnt, fail>>
    BY <1>4 DEF testVars
  <2>2. IInv'
    BY <2>1, StepKeeps DEF TInv
  <2>3. OpenFds' = OpenFds /\ process_array' = process_array
    BY <2>1 DEF vars, OpenFds
  <2> QED
    BY <2>1, <2>2, <2>3 DEF TInv, At, OpenAt, CountAt
<1> QED
  BY <1>1, <1>2, <1>3, <1>4 DEF TestNext

LEMMA TestsBegin == TestInit => TInv
<1>1. Len(Tests) \in Nat
  BY TestLines, LenProperties DEF Listed
<1> QED
  BY <1>1, InitSound DEF TestInit, TInv

(* The repository's own test of the system calls passes for any number of  *)
(* descriptors and of processes, whatever the others do between two of its *)
(* calls and whatever ran before in its PCB (ece391syserr.c:296).          *)
THEOREM TestsAlwaysPass == TestSpec => []TestsPass
<1>1. TInv => TestsPass
  BY DEF TInv, TestsPass
<1> QED
  BY <1>1, TestsBegin, TestsKeep, PTL DEF TestSpec
=============================================================================
