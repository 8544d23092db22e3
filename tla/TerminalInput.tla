--------------------------- MODULE TerminalInput ---------------------------
(***************************************************************************)
(* From a key to the line a program reads: the line buffer of the keyboard *)
(* handler (keyboard_handler.c), the copy it takes at Enter, the buffers   *)
(* terminal_switch saves and restores, and terminal_read (terminal.c).     *)
(*                                                                         *)
(* The handler and terminal_switch run with interrupts off, each is one    *)
(* step.  terminal_read runs with interrupts on: a key may come, or a      *)
(* reader on another terminal may run, between any two of its steps.  The  *)
(* keyboard buffer and its copy are shared by all terminals.               *)
(*                                                                         *)
(* Each terminal has one program that may read, the foreground process.    *)
(* Keys that store nothing (modifiers, Ctrl+L) are left out.               *)
(*                                                                         *)
(* A definition without a comment, before one whose name it extends, is    *)
(* that definition with a mistake in it.                                   *)
(***************************************************************************)
EXTENDS Integers, Sequences

CONSTANTS
  Terminal_total_num,  (* number of terminals                              *)
  buffer_size,         (* characters of a line, the newline not counted    *)
  Letters,             (* what the other keys store                        *)
  Patient,             (* does the user press nothing from an Enter until  *)
                       (* the line is read?                                *)
  MaxLine              (* bound: characters on the screen of one line      *)

Terms   == 0 .. Terminal_total_num - 1
Newline == "newline"
Nul     == "nul"
Chars   == Letters \cup {Newline, Nul}

ASSUME InputAssumption ==
  /\ Terminal_total_num \in Nat \ {0}
  /\ buffer_size \in 1 .. 254
  /\ Letters \cap {Newline, Nul} = {}
  /\ Patient \in BOOLEAN
  /\ MaxLine \in Nat

VARIABLES
  keyboard_buffer,        (* the line being typed on the displayed terminal*)
  buffer_position,        (* the index of the next character               *)
  saved_keyboard_buffer,  (* the copy taken at Enter                       *)
  saved_buffer_position,
  overflow_bits,          (* characters typed into a full buffer           *)
  terminal_buffer,        (* terminals[t].terminal_buffer and              *)
  terminal_position,      (* terminals[t].buffer_position                  *)
  enter_flag,             (* terminals[t].enter_flag                       *)
  cur_display_tid,
  pc,                     (* where the program of t is in terminal_read    *)
  got,                    (* what that call has stored for it so far       *)
  (* Not variables of the code:                                            *)
  line,                   (* what the user sees of the line typed on t     *)
  clipped,                (* was that line ever longer than the buffer?    *)
  sent,                   (* the line at the last Enter, and whether it    *)
  sent_clipped,           (* was clipped                                   *)
  pending                 (* has it still to be read?                      *)

keyboard == <<keyboard_buffer, buffer_position, overflow_bits>>
saved    == <<saved_keyboard_buffer, saved_buffer_position>>
stored   == <<terminal_buffer, terminal_position>>
typed    == <<line, clipped>>
entered  == <<sent, sent_clipped, pending>>
vars     == <<keyboard, saved, stored, enter_flag, cur_display_tid, pc, got,
              typed, entered>>

Index == 0 .. buffer_size
Blank == [i \in Index |-> Nul]

Init ==
  /\ keyboard_buffer = Blank /\ buffer_position = 0 /\ overflow_bits = 0
  /\ saved_keyboard_buffer = Blank /\ saved_buffer_position = 0
  /\ terminal_buffer = [t \in Terms |-> Blank]
  /\ terminal_position = [t \in Terms |-> 0]
  /\ enter_flag = [t \in Terms |-> 0]
  /\ cur_display_tid = 0
  /\ pc = [t \in Terms |-> "user"]
  /\ got = [t \in Terms |-> <<>>]
  /\ line = [t \in Terms |-> <<>>]
  /\ clipped = [t \in Terms |-> FALSE]
  /\ sent = [t \in Terms |-> <<>>]
  /\ sent_clipped = [t \in Terms |-> FALSE]
  /\ pending = [t \in Terms |-> FALSE]

-----------------------------------------------------------------------------
(* The user.                                                               *)

KeyComes ==
  Patient => \A t \in Terms : ~pending[t] /\ pc[t] \in {"user", "wait"}

(* output_keyvalue(c): store unless full, echo in any case.                *)
StoreOffByOne(buffer, position, c) ==
  IF position <= buffer_size
  THEN /\ keyboard_buffer' = [buffer EXCEPT ![position] = c]
       /\ buffer_position' = position + 1
  ELSE UNCHANGED <<keyboard_buffer, buffer_position>>

Store(buffer, position, c) ==
  /\ keyboard_buffer' = IF position < buffer_size
                        THEN [buffer EXCEPT ![position] = c] ELSE buffer
  /\ buffer_position' = IF position < buffer_size THEN position + 1 ELSE position

Full == buffer_position = buffer_size

Letter(c) ==
  /\ KeyComes
  /\ Len(line[cur_display_tid]) < MaxLine
  /\ Store(keyboard_buffer, buffer_position, c)
  /\ overflow_bits' = IF Full THEN overflow_bits + 1 ELSE overflow_bits
  /\ line' = [line EXCEPT ![cur_display_tid] = Append(@, c)]
  /\ clipped' = [clipped EXCEPT ![cur_display_tid] = @ \/ Full]
  /\ UNCHANGED <<saved, stored, enter_flag, cur_display_tid, pc, got, entered>>

(* The last character leaves the screen.                                   *)
Unshow ==
  line' = [line EXCEPT ![cur_display_tid] = IF @ = <<>> THEN @ ELSE SubSeq(@, 1, Len(@) - 1)]

(* It clears the cell after the character it removes.                      *)
Backspace ==
  /\ KeyComes
  /\ buffer_position # 0
  /\ keyboard_buffer' = [keyboard_buffer EXCEPT ![buffer_position] = Nul]
  /\ buffer_position' = buffer_position - 1
  /\ Unshow
  /\ UNCHANGED <<saved, stored, enter_flag, cur_display_tid, pc, got, entered,
                 clipped, overflow_bits>>

(* With nothing in the buffer, characters that did not fit are removed.    *)
BackspaceOverflow ==
  /\ KeyComes
  /\ buffer_position = 0 /\ overflow_bits # 0
  /\ overflow_bits' = overflow_bits - 1
  /\ Unshow
  /\ UNCHANGED <<keyboard_buffer, buffer_position, saved, stored, enter_flag,
                 cur_display_tid, pc, got, entered, clipped>>

(* The line is copied and cleared, then the newline is stored like any     *)
(* other character.                                                        *)
Enter ==
  /\ KeyComes
  /\ overflow_bits' = 0
  /\ enter_flag' = [enter_flag EXCEPT ![cur_display_tid] = 1]
  /\ saved_keyboard_buffer' = keyboard_buffer
  /\ saved_buffer_position' = buffer_position
  /\ Store(Blank, 0, Newline)
  /\ line' = [line EXCEPT ![cur_display_tid] = <<>>]
  /\ clipped' = [clipped EXCEPT ![cur_display_tid] = FALSE]
  /\ sent' = [sent EXCEPT ![cur_display_tid] = line[cur_display_tid]]
  /\ sent_clipped' = [sent_clipped EXCEPT ![cur_display_tid] = clipped[cur_display_tid]]
  /\ pending' = [pending EXCEPT ![cur_display_tid] = TRUE]
  /\ UNCHANGED <<stored, cur_display_tid, pc, got>>

TakeKeysNoPosition(to) ==
  keyboard_buffer' = terminal_buffer[to] /\ UNCHANGED buffer_position

TakeKeys(to) ==
  /\ keyboard_buffer' = terminal_buffer[to]
  /\ buffer_position' = terminal_position[to]

(* Alt+F1..F3 to another terminal.                                         *)
terminal_switch(to) ==
  /\ KeyComes
  /\ to # cur_display_tid
  /\ terminal_buffer' = [terminal_buffer EXCEPT ![cur_display_tid] = keyboard_buffer]
  /\ terminal_position' = [terminal_position EXCEPT ![cur_display_tid] = buffer_position]
  /\ cur_display_tid' = to
  /\ TakeKeys(to)
  /\ UNCHANGED <<saved, overflow_bits, enter_flag, pc, got, typed, entered>>

-----------------------------------------------------------------------------
(* terminal_read(fd, buf, nbytes) in the program of terminal t, with an    *)
(* nbytes larger than the buffer, as the shell's is.                       *)

Goto(t, label) == pc' = [pc EXCEPT ![t] = label]

ReadCall(t) ==
  /\ pc[t] = "user"
  /\ Goto(t, "wait")
  /\ UNCHANGED <<keyboard, saved, stored, enter_flag, cur_display_tid, got, typed, entered>>

SeeFlag(t) ==
  /\ pc[t] = "wait"
  /\ enter_flag[t] = 1
  /\ Goto(t, "newline")
  /\ UNCHANGED <<keyboard, saved, stored, enter_flag, cur_display_tid, got, typed, entered>>

PutNewlineLast(t) ==
  /\ pc[t] = "newline"
  /\ saved_keyboard_buffer' = [saved_keyboard_buffer EXCEPT ![buffer_size] = Newline]
  /\ Goto(t, "advance")
  /\ UNCHANGED <<keyboard, saved_buffer_position, stored, enter_flag,
                 cur_display_tid, got, typed, entered>>

(* A position past the buffer, which two pending lines can bring about,    *)
(* is not followed.                                                        *)
PutNewline(t) ==
  /\ pc[t] = "newline"
  /\ saved_buffer_position <= buffer_size
  /\ saved_keyboard_buffer' = [saved_keyboard_buffer EXCEPT ![saved_buffer_position] = Newline]
  /\ Goto(t, "advance")
  /\ UNCHANGED <<keyboard, saved_buffer_position, stored, enter_flag,
                 cur_display_tid, got, typed, entered>>

Advance(t) ==
  /\ pc[t] = "advance"
  /\ saved_buffer_position <= buffer_size
  /\ saved_buffer_position' = saved_buffer_position + 1
  /\ Goto(t, "copy")
  /\ UNCHANGED <<keyboard, saved_keyboard_buffer, stored, enter_flag,
                 cur_display_tid, got, typed, entered>>

CopyCharSame(t) ==
  LET c == saved_keyboard_buffer[Len(got[t])]
  IN
  /\ pc[t] = "copy"
  /\ \/ c = Newline /\ got' = [got EXCEPT ![t] = Append(@, c)] /\ Goto(t, "unflag")
     \/ c # Newline /\ UNCHANGED <<got, pc>>
  /\ UNCHANGED <<keyboard, saved, stored, enter_flag, cur_display_tid, typed, entered>>

(* One character; the call returns their number when the newline was       *)
(* found, and 0 when it was not.                                           *)
CopyChar(t) ==
  LET c == saved_keyboard_buffer[Len(got[t])]
  IN
  /\ pc[t] = "copy"
  /\ \/ c = Newline /\ got' = [got EXCEPT ![t] = Append(@, c)] /\ Goto(t, "unflag")
     \/ c # Newline /\ Len(got[t]) < buffer_size
        /\ got' = [got EXCEPT ![t] = Append(@, c)] /\ UNCHANGED pc
     \/ c # Newline /\ Len(got[t]) = buffer_size
        /\ got' = [got EXCEPT ![t] = <<>>] /\ Goto(t, "unflag")
  /\ UNCHANGED <<keyboard, saved, stored, enter_flag, cur_display_tid, typed, entered>>

ClearFlag(t) ==
  /\ pc[t] = "unflag"
  /\ enter_flag' = [enter_flag EXCEPT ![t] = 0]
  /\ Goto(t, "clear")
  /\ UNCHANGED <<keyboard, saved, stored, cur_display_tid, got, typed, entered>>

(* buffer_clear: the cells, then the position, of whichever terminal is    *)
(* displayed.                                                              *)
ClearCells(t) ==
  /\ pc[t] = "clear"
  /\ keyboard_buffer' = Blank
  /\ Goto(t, "position")
  /\ UNCHANGED <<buffer_position, overflow_bits, saved, stored, enter_flag,
                 cur_display_tid, got, typed, entered>>

ClearPosition(t) ==
  /\ pc[t] = "position"
  /\ buffer_position' = 0
  /\ Goto(t, "forget")
  /\ UNCHANGED <<keyboard_buffer, overflow_bits, saved, stored, enter_flag,
                 cur_display_tid, got, typed, entered>>

ForgetCells(t) ==
  /\ pc[t] = "forget"
  /\ terminal_buffer' = [terminal_buffer EXCEPT ![t] = Blank]
  /\ Goto(t, "return")
  /\ UNCHANGED <<keyboard, saved, terminal_position, enter_flag,
                 cur_display_tid, got, typed, entered>>

ReadReturn(t) ==
  /\ pc[t] = "return"
  /\ terminal_position' = [terminal_position EXCEPT ![t] = 0]
  /\ Goto(t, "user")
  /\ got' = [got EXCEPT ![t] = <<>>]
  /\ sent' = [sent EXCEPT ![t] = <<>>]
  /\ sent_clipped' = [sent_clipped EXCEPT ![t] = FALSE]
  /\ pending' = [pending EXCEPT ![t] = FALSE]
  /\ UNCHANGED <<keyboard, saved, terminal_buffer, enter_flag, cur_display_tid, typed>>

Reading(t) ==
  \/ SeeFlag(t) \/ PutNewline(t) \/ Advance(t) \/ CopyChar(t) \/ ClearFlag(t)
  \/ ClearCells(t) \/ ClearPosition(t) \/ ForgetCells(t) \/ ReadReturn(t)

Next ==
  \/ \E c \in Letters : Letter(c)
  \/ Backspace \/ BackspaceOverflow \/ Enter
  \/ \E t \in Terms : terminal_switch(t) \/ ReadCall(t) \/ Reading(t)

(* The foreground process of every terminal gets the CPU again and again   *)
(* (Process, EveryTerminalRuns).                                           *)
Spec == Init /\ [][Next]_vars /\ \A t \in Terms : WF_vars(Reading(t))

-----------------------------------------------------------------------------
(* Properties.                                                             *)

Labels == {"user", "wait", "newline", "advance", "copy", "unflag", "clear",
           "position", "forget", "return"}

(* Positions stay inside the buffers, with a place left for the newline.   *)
TypeOK ==
  /\ keyboard_buffer \in [Index -> Chars] /\ buffer_position \in 0 .. buffer_size
  /\ saved_keyboard_buffer \in [Index -> Chars]
  /\ saved_buffer_position \in 0 .. buffer_size + 1
  /\ overflow_bits \in Nat
  /\ terminal_buffer \in [Terms -> [Index -> Chars]]
  /\ terminal_position \in [Terms -> 0 .. buffer_size]
  /\ enter_flag \in [Terms -> {0, 1}]
  /\ cur_display_tid \in Terms
  /\ pc \in [Terms -> Labels]
  /\ got \in [Terms -> Seq(Chars)] /\ line \in [Terms -> Seq(Letters)]
  /\ sent \in [Terms -> Seq(Letters)]
  /\ clipped \in [Terms -> BOOLEAN] /\ sent_clipped \in [Terms -> BOOLEAN]
  /\ pending \in [Terms -> BOOLEAN]

Holds(buffer, position, text) ==
  position = Len(text) /\ \A i \in 1 .. position : buffer[i - 1] = text[i]

(* With a user who waits for the prompt, a read returns what stood on the  *)
(* screen of its own terminal at Enter, however the line was edited and    *)
(* the display switched while it was typed; of a line that did not fit, as *)
(* much as the buffer takes and the newline.                               *)
LineDelivered ==
  \A t \in Terms : (pending[t] /\ pc[t] \in {"unflag", "clear", "position", "forget", "return"}) =>
    IF sent_clipped[t] THEN got[t] # <<>> /\ got[t][Len(got[t])] = Newline
    ELSE got[t] = Append(sent[t], Newline)

(* Between lines the buffer is what the user sees, on the displayed        *)
(* terminal and on every other one.                                        *)
BuffersMatchScreens ==
  (\A t \in Terms : ~pending[t]) =>
    \A t \in Terms : ~clipped[t] =>
      IF t = cur_display_tid THEN Holds(keyboard_buffer, buffer_position, line[t])
      ELSE Holds(terminal_buffer[t], terminal_position[t], line[t])

(* A program that waits when a line is entered on its terminal returns.    *)
LineAnswered ==
  \A t \in Terms : (pc[t] = "wait" /\ pending[t]) ~> pc[t] = "user"

-----------------------------------------------------------------------------
(* Statements of the sources that the code does not meet; no run checks    *)
(* them.                                                                   *)

(* "using backspace will also delete the characters written by terminal    *)
(* [...] prevent access by user" (buglog.txt): a backspace that erases has *)
(* a character of the user to erase.                                       *)
BackspaceKeepsPrompt ==
  (\A t \in Terms : ~pending[t]) =>
    ((buffer_position # 0 \/ overflow_bits # 0) => line[cur_display_tid] # <<>>)

(* "\n will occur in the end of keyboard buffer" (terminal_read): no       *)
(* newline comes before the one it puts there.                             *)
NewlineAtEnd ==
  \A t \in Terms : pc[t] = "copy" =>
    \A i \in Index : i < saved_buffer_position - 1 => saved_keyboard_buffer[i] # Newline
=============================================================================
