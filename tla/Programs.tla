------------------------------ MODULE Programs ------------------------------
(***************************************************************************)
(* The shell and the programs it runs: a typed line is split by            *)
(* parse_command, the program gets its argument with getargs, and cat,     *)
(* grep, ls and counter print what they find, with the string functions of *)
(* ece391support.c.  Files are read as FileCalls promises.  A message is   *)
(* one character.                                                          *)
(*                                                                         *)
(* What grep prints of a file is followed if the file is PlainText.        *)
(*                                                                         *)
(* A definition without a comment, before one whose name it extends, is    *)
(* that definition with a mistake in it.                                   *)
(***************************************************************************)
EXTENDS Integers, SequencesExt

CONSTANTS
  Entries,      (* the directory: [name, kind, bytes]; kind is dir, rtc,   *)
                (* file, or the program that a file holds                  *)
  Texts,        (* what the file of kind "file" may hold                   *)
  Lines,        (* lines typed to the shell, without newline               *)
  Answers,      (* lines typed to counter                                  *)
  Counts,       (* first character of a choice -> how far counter counts   *)
  MAXIMUM_FILENAME_LENGTH,
  Maximum_command_length,
  BUFSIZE,      (* bytes of a buffer in grep and cat                       *)
  Leftover      (* what a byte of grep's buffer may hold before it is read *)

ASSUME ProgramsAssumption ==
  /\ MAXIMUM_FILENAME_LENGTH \in Nat \ {0}
  /\ Maximum_command_length \in Nat \ {0}
  /\ BUFSIZE \in Nat \ {0}

NUL == "NUL"
NL == "nl"
Space == " "

(* No NUL, at which grep's strcpy and fdputs stop, and no line longer than *)
(* BUFSIZE, which grep cuts.                                               *)
PlainText(bytes) ==
  /\ \A k \in 1 .. Len(bytes) : bytes[k] # NUL
  /\ \A k \in 1 .. Len(bytes) - BUFSIZE : \E j \in k .. k + BUFSIZE : bytes[j] = NL

(* A name fits the buffers of ls and cat, and grep knows the directory by  *)
(* its dot.                                                                *)
ASSUME DirectoryAssumption ==
  /\ Entries \in Seq([name : Seq(STRING), kind : STRING, bytes : Seq(STRING)])
  /\ \E e \in DOMAIN Entries : Entries[e].kind = "dir"
  /\ \A e \in DOMAIN Entries :
       /\ Entries[e].name # <<>>
       /\ Len(Entries[e].name) <= MAXIMUM_FILENAME_LENGTH
       /\ Len(Entries[e].name) <= BUFSIZE
       /\ Entries[e].name[1] = "." <=> Entries[e].kind = "dir"
       /\ \A d \in DOMAIN Entries : Entries[d].name = Entries[e].name => d = e

ASSUME InputAssumption ==
  /\ \A bytes \in Texts : bytes \in Seq(STRING)
  /\ \A line \in Lines :
       /\ line \in Seq(STRING)
       /\ \A k \in 1 .. Len(line) : line[k] \notin {NUL, NL}
  /\ \A c \in DOMAIN Counts : Counts[c] \in Nat \ {0}

VARIABLES
  program,    (* "shell" or the program it executed                        *)
  typed,      (* the line typed: not a variable of the code                *)
  args,       (* what getargs gives                                        *)
  text,       (* what the file of kind "file" holds                        *)
  entry,      (* the entry a program has open, or 0                        *)
  position,   (* its position in it                                        *)
  dir,        (* grep's position in the directory                          *)
  data, last, (* grep's buffer and how much of it is filled                *)
  i, max,     (* counter's loop                                            *)
  output      (* what was printed since the line was typed, without what   *)
              (* grep shows of a file that is not PlainText                *)

file == <<entry, position>>
grepVars == <<dir, data, last>>
counterVars == <<i, max>>
vars == <<program, typed, args, text, file, grepVars, counterVars, output>>

EmptyData == [k \in 0 .. BUFSIZE |-> NUL]

(* do_one_file's buffer when it is called.  data[BUFSIZE] is no newline:   *)
(* it would end a line that fills the buffer.                              *)
Uninitialised == {buf \in [0 .. BUFSIZE -> Leftover] : buf[BUFSIZE] # NL}

Init ==
  /\ program = "shell" /\ typed = <<>> /\ args = <<>>
  /\ text \in Texts
  /\ entry = 0 /\ position = 0
  /\ dir = 0 /\ data = EmptyData /\ last = 0
  /\ i = 0 /\ max = 0
  /\ output = <<>>

-----------------------------------------------------------------------------
(* Strings: a buffer is a function, a string what comes before its NUL.    *)

StringAt(buf, from) ==
  LET end == CHOOSE k \in DOMAIN buf :
               k >= from /\ buf[k] = NUL /\ \A j \in from .. k - 1 : buf[j] # NUL
  IN [k \in 1 .. end - from |-> buf[from + k - 1]]

(* strcpy within one buffer, towards its beginning.                        *)
strcpyDown(buf, from) ==
  LET s == StringAt(buf, from)
  IN [k \in DOMAIN buf |-> IF k < Len(s) THEN s[k + 1]
                           ELSE IF k = Len(s) THEN NUL ELSE buf[k]]

(* strncmp with the string s, up to its length: equal?                     *)
SameString(buf, from, s) ==
  \A k \in 1 .. Len(s) : from + k - 1 \in DOMAIN buf /\ buf[from + k - 1] = s[k]

(* itoa: the digits from the lowest on, and strrev.                        *)
Digit == [d \in 0 .. 9 |-> <<"0", "1", "2", "3", "4", "5", "6", "7", "8", "9">>[d + 1]]

Digits[newval \in Nat] ==
  IF newval = 0 THEN <<>> ELSE <<Digit[newval % 10]>> \o Digits[newval \div 10]

itoa(value) == IF value = 0 THEN <<"0">> ELSE Reverse(Digits[value])

(* The first n of these, one after the other.                              *)
Joined(n, parts) ==
  LET upto[k \in 0 .. n] == IF k = 0 THEN <<>> ELSE upto[k - 1] \o parts[k]
  IN upto[n]

Cut(s, n) == SubSeq(s, 1, IF Len(s) < n THEN Len(s) ELSE n)

-----------------------------------------------------------------------------
(* Calls.                                                                  *)

Bytes(e) == IF Entries[e].kind = "file" THEN text ELSE Entries[e].bytes

Found(name) == {e \in DOMAIN Entries : Entries[e].name = name}
Lookup(name) == CHOOSE e \in Found(name) : TRUE

(* A read of a directory returns one name.                                 *)
Read(e, pos, n) ==
  IF Entries[e].kind = "dir"
  THEN IF pos = Len(Entries) THEN <<>> ELSE Cut(Entries[pos + 1].name, n)
  ELSE Cut(SubSeq(Bytes(e), pos + 1, Len(Bytes(e))), n)

Advance(e, got) == IF Entries[e].kind = "dir" /\ got # <<>> THEN 1 ELSE Len(got)

(* The word that begins at the first place from "from" on that holds no    *)
(* space.                                                                  *)
Begin(s, from) ==
  CHOOSE k \in from .. Len(s) + 1 :
    /\ k = Len(s) + 1 \/ s[k] # Space
    /\ \A j \in from .. k - 1 : s[j] = Space
End(s, from) ==
  CHOOSE k \in from .. Len(s) + 1 :
    /\ k = Len(s) + 1 \/ s[k] = Space
    /\ \A j \in from .. k - 1 : s[j] # Space

parse_command(command) ==
  LET start == Begin(command, 1)
      end   == End(command, start)
      arg   == Begin(command, end)
  IN [file_name       |-> Cut(SubSeq(command, start, end - 1), MAXIMUM_FILENAME_LENGTH - 1),
      request_command |-> Cut(SubSeq(command, arg, End(command, arg) - 1),
                              Maximum_command_length - 1)]

-----------------------------------------------------------------------------
(* The shell                                                               *)

Executable == {"cat", "grep", "ls", "counter"}

(* Empty lines and exit: a halted shell is started again.                  *)
ShellAgain(command) ==
  /\ program = "shell"
  /\ command \in {<<>>, <<"exit">>}
  /\ typed' = command /\ output' = <<>>
  /\ UNCHANGED <<program, args, text, file, grepVars, counterVars>>

Runs(name) == Found(name) # {} /\ Entries[Lookup(name)].kind \in Executable

NoSuchCommand(command) ==
  /\ program = "shell"
  /\ command \notin {<<>>, <<"exit">>}
  /\ ~Runs(parse_command(command).file_name)
  /\ typed' = command /\ output' = <<"no such command">>
  /\ UNCHANGED <<program, args, text, file, grepVars, counterVars>>

execute(command) ==
  LET words == parse_command(command)
  IN /\ program = "shell"
     /\ command \notin {<<>>, <<"exit">>}
     /\ Runs(words.file_name)
     /\ program' = Entries[Lookup(words.file_name)].kind
     /\ typed' = command /\ output' = <<>>
     /\ args' = words.request_command
     /\ entry' = 0 /\ position' = 0 /\ dir' = 0 /\ last' = 0 /\ data' = EmptyData
     /\ i' = 0 /\ max' = 0
     /\ UNCHANGED text

(* A program returns rval after it has printed "said".                     *)
Returns(rval, said) ==
  /\ output' = output \o said \o
       IF rval = 0 THEN <<>> ELSE <<"program terminated abnormally">>
  /\ program' = "shell"
  /\ entry' = 0 /\ position' = 0 /\ dir' = 0 /\ last' = 0 /\ data' = EmptyData
  /\ i' = 0 /\ max' = 0
  /\ UNCHANGED <<typed, args, text>>

-----------------------------------------------------------------------------
(* cat                                                                     *)

CatStart ==
  /\ program = "cat" /\ entry = 0
  /\ \/ args = <<>> /\ Returns(3, <<"could not read arguments">>)
     \/ args # <<>> /\ Found(args) = {} /\ Returns(2, <<"file not found">>)
     \/ /\ args # <<>> /\ Found(args) # {}
        /\ entry' = Lookup(args) /\ position' = 0
        /\ UNCHANGED <<program, typed, args, text, grepVars, counterVars, output>>

CatRead ==
  LET got == Read(entry, position, BUFSIZE)
  IN /\ program = "cat" /\ entry # 0
     /\ \/ got = <<>> /\ Returns(0, <<>>)
        \/ /\ got # <<>>
           /\ output' = output \o got
           /\ position' = position + Advance(entry, got)
           /\ UNCHANGED <<program, typed, args, text, entry, grepVars, counterVars>>

-----------------------------------------------------------------------------
(* ls                                                                      *)

DirEntry == CHOOSE e \in DOMAIN Entries : Entries[e].kind = "dir"

LsRead ==
  LET got == Read(DirEntry, dir, MAXIMUM_FILENAME_LENGTH)
  IN /\ program = "ls"
     /\ \/ got = <<>> /\ Returns(0, <<>>)
        \/ /\ got # <<>>
           /\ output' = output \o Append(got, NL)
           /\ dir' = dir + 1
           /\ UNCHANGED <<program, typed, args, text, file, data, last, counterVars>>

-----------------------------------------------------------------------------
(* counter                                                                 *)

(* A choice ends in its newline.                                           *)
WrongChoice(choice) ==
  Len(choice) > 2 \/ (Len(choice) = 2 /\ choice[1] \notin {"0", "1", "2"})

CounterStart ==
  /\ program = "counter" /\ max = 0
  /\ \E choice \in Answers :
       \/ WrongChoice(choice) /\ Returns(0, <<"Wrong Choice!">>)
       \/ ~WrongChoice(choice) /\ choice[1] \notin DOMAIN Counts /\ Returns(0, <<>>)
       \/ /\ ~WrongChoice(choice) /\ choice[1] \in DOMAIN Counts
          /\ max' = Counts[choice[1]]
          /\ UNCHANGED <<program, typed, args, text, file, grepVars, i, output>>

CounterStep ==
  /\ program = "counter" /\ max # 0
  /\ \/ i = max /\ Returns(0, <<>>)
     \/ /\ i < max
        /\ output' = output \o Append(itoa(i + 1), NL)
        /\ i' = i + 1
        /\ UNCHANGED <<program, typed, args, text, file, grepVars, max>>

-----------------------------------------------------------------------------
(* grep                                                                    *)

(* main: the next name, and do_one_file's open.                            *)
GrepEntry ==
  LET name == Read(DirEntry, dir, MAXIMUM_FILENAME_LENGTH)
  IN /\ program = "grep" /\ entry = 0
     /\ \/ args = <<>> /\ Returns(3, <<"could not read argument">>)
        \/ args # <<>> /\ name = <<>> /\ Returns(0, <<>>)
        \/ /\ args # <<>> /\ name # <<>>
           /\ dir' = dir + 1
           /\ \/ name[1] = "." /\ entry' = 0 /\ data' = EmptyData
              \/ name[1] # "." /\ entry' = Lookup(name) /\ data' \in Uninitialised
           /\ position' = 0 /\ last' = 0
           /\ UNCHANGED <<program, typed, args, text, counterVars, output>>

(* The end of the line that begins at "start", or last.                    *)
LineEnd(buf, start, filled) ==
  CHOOSE k \in start .. filled :
    /\ k = filled \/ buf[k] = NL
    /\ \A j \in start .. k - 1 : buf[j] # NL

Starts(buf, filled) == {0} \cup {k \in 1 .. filled - 1 : buf[k - 1] = NL}
LastStart(buf, filled) == CHOOSE k \in Starts(buf, filled) :
                            \A j \in Starts(buf, filled) : j <= k

KeepNoShift(buf, filled, cnt) == FALSE

(* Is what is left after the last newline moved to the front?  Not if it   *)
(* is all there is, or the file has ended.                                 *)
Keep(buf, filled, cnt) ==
  LET start == LastStart(buf, filled)
  IN buf[LineEnd(buf, start, filled)] # NL /\ cnt # 0 /\ start # 0

Searched(buf, filled, cnt) ==
  Starts(buf, filled) \ (IF Keep(buf, filled, cnt) THEN {LastStart(buf, filled)} ELSE {})

(* The buffer with each line's end made a NUL.                             *)
Split(buf, filled) ==
  LET ends == {LineEnd(buf, start, filled) : start \in Starts(buf, filled)}
  IN [k \in DOMAIN buf |-> IF k \in ends THEN NUL ELSE buf[k]]

Matches(buf, start, end) ==
  \E check \in start .. end - 1 : SameString(buf, check, args)

(* fname, a colon, the line and a newline, if the line matches.            *)
Shown(fname, buf, filled, cnt, start) ==
  LET lines == Split(buf, filled)
  IN IF /\ start \in Searched(buf, filled, cnt)
        /\ Matches(lines, start, LineEnd(buf, start, filled))
     THEN fname \o <<":">> \o StringAt(lines, start) \o <<NL>>
     ELSE <<>>

Matching(fname, buf, filled, cnt) ==
  Joined(BUFSIZE + 1, [k \in 1 .. BUFSIZE + 1 |-> Shown(fname, buf, filled, cnt, k - 1)])

LastRoundAnd(cnt, filled) == cnt = 0 /\ filled # 0

LastRound(cnt, filled) == cnt = 0

(* A round of do_one_file: a read, and its lines; the last one closes.     *)
GrepRound ==
  /\ program = "grep" /\ entry # 0
  /\ \E got \in {Read(entry, position, BUFSIZE - last)} :
     LET cnt    == Len(got)
         filled == last + cnt
     IN \E buf \in {[k \in 0 .. BUFSIZE |-> IF k \in last .. filled - 1 THEN got[k - last + 1]
                                           ELSE data[k]]} :
        /\ output' = IF PlainText(Bytes(entry))
                     THEN output \o Matching(Entries[entry].name, buf, filled, cnt)
                     ELSE output
        /\ \/ LastRound(cnt, filled) /\ entry' = 0 /\ data' = EmptyData /\ last' = 0
           \/ /\ ~LastRound(cnt, filled) /\ Keep(buf, filled, cnt)
              /\ data' = strcpyDown(Split(buf, filled), LastStart(buf, filled))
              /\ last' = filled - LastStart(buf, filled)
              /\ UNCHANGED entry
           \/ /\ ~LastRound(cnt, filled) /\ ~Keep(buf, filled, cnt)
              /\ data' = Split(buf, filled) /\ last' = 0
              /\ UNCHANGED entry
        /\ position' = position + Advance(entry, got)
  /\ UNCHANGED <<program, typed, args, text, dir, counterVars>>

-----------------------------------------------------------------------------
Run == CatStart \/ CatRead \/ LsRead \/ CounterStart \/ CounterStep \/ GrepEntry \/ GrepRound

Next ==
  \/ \E line \in Lines : ShellAgain(line) \/ NoSuchCommand(line) \/ execute(line)
  \/ Run

(* Nothing keeps a program from running: the scheduler comes back to every *)
(* terminal (Process).                                                     *)
Spec == Init /\ [][Next]_vars /\ WF_vars(Run)

-----------------------------------------------------------------------------
(* What a line is to print, without buffers.                               *)

(* s from a place on, up to the next c or the end.                         *)
UpTo(s, from, c) ==
  LET end == CHOOSE k \in from .. Len(s) + 1 :
               /\ k = Len(s) + 1 \/ s[k] = c
               /\ \A j \in from .. k - 1 : s[j] # c
  IN SubSeq(s, from, end - 1)

(* Where a word begins, and the n-th one.                                  *)
WordBegins(line) ==
  {k \in 1 .. Len(line) : line[k] # Space /\ (k = 1 \/ line[k - 1] = Space)}

Word(line, n) ==
  LET nth == {k \in WordBegins(line) :
                Cardinality({j \in WordBegins(line) : j <= k}) = n}
  IN IF nth = {} THEN <<>> ELSE UpTo(line, CHOOSE k \in nth : TRUE, Space)

Command(line) == Cut(Word(line, 1), MAXIMUM_FILENAME_LENGTH - 1)
Argument(line) == Cut(Word(line, 2), Maximum_command_length - 1)

Numeral[n \in Nat] ==
  IF n < 10 THEN <<Digit[n]>> ELSE Append(Numeral[n \div 10], Digit[n % 10])

NumberLines == [n \in Nat |-> Append(Numeral[n], NL)]

Names == [e \in DOMAIN Entries |-> Entries[e].name]
NameLines == [e \in DOMAIN Entries |-> Append(Entries[e].name, NL)]

Contents(e) ==
  IF Entries[e].kind = "dir" THEN Joined(Len(Entries), Names) ELSE Bytes(e)

Holds(line, word) ==
  \E k \in 1 .. Len(line) - Len(word) + 1 : SubSeq(line, k, k + Len(word) - 1) = word

(* What is due for a place in a file: the line, if one begins there and    *)
(* holds the word.                                                         *)
FoundAt(word, e) ==
  [k \in 1 .. Len(Bytes(e)) |->
     IF (k = 1 \/ Bytes(e)[k - 1] = NL) /\ Holds(UpTo(Bytes(e), k, NL), word)
     THEN Entries[e].name \o <<":">> \o UpTo(Bytes(e), k, NL) \o <<NL>>
     ELSE <<>>]

FoundIn(word) ==
  [e \in DOMAIN Entries |->
     IF Entries[e].kind = "dir" \/ ~PlainText(Bytes(e)) THEN <<>>
     ELSE Joined(Len(Bytes(e)), FoundAt(word, e))]

Abnormally(said) == {<<said, "program terminated abnormally">>}

(* counter's output depends on what it is answered.                        *)
Prints(kind, word) ==
  CASE kind = "cat" ->
         IF word = <<>> THEN Abnormally("could not read arguments")
         ELSE IF Found(word) = {} THEN Abnormally("file not found")
         ELSE {Contents(Lookup(word))}
    [] kind = "grep" ->
         IF word = <<>> THEN Abnormally("could not read argument")
         ELSE {Joined(Len(Entries), FoundIn(word))}
    [] kind = "ls" -> {Joined(Len(Entries), NameLines)}
    [] OTHER -> {<<>>, <<"Wrong Choice!">>} \cup
                {Joined(Counts[c], NumberLines) : c \in DOMAIN Counts}

Due(line) ==
  IF line \in {<<>>, <<"exit">>} THEN {<<>>}
  ELSE IF ~Runs(Command(line)) THEN {<<"no such command">>}
  ELSE Prints(Entries[Lookup(Command(line))].kind, Argument(line))

(* Each command prints what it is to print and nothing else, in order, and *)
(* all of it by the time the shell is back: cat the file, ls every name,   *)
(* grep every line with the word and its file, whatever the boundaries     *)
(* between the buffers cut (ece391grep.c:33, system_call.c:197).           *)
OutputRight ==
  \E due \in Due(typed) :
    IF program = "shell" THEN output = due ELSE IsPrefix(output, due)

(* Every program ends: no read of grep's or cat's loops is one of nothing  *)
(* when there is more (ece391grep.c:58).                                   *)
CommandsEnd == program # "shell" ~> program = "shell"
=============================================================================
