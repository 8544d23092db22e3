------------------------------ MODULE Console ------------------------------
(***************************************************************************)
(* The console (lib.c, terminal.c): one screen and one cursor for several  *)
(* terminals.  The displayed terminal's text is in video memory and its    *)
(* cursor in screen_x and screen_y; the others' are in vid_buf and in      *)
(* x_position and y_position, and terminal_switch exchanges them.          *)
(*                                                                         *)
(* The keyboard handler and terminal_write run with interrupts off.  The   *)
(* kernel's messages (printf in open) do not: anything can come between    *)
(* two of their characters and inside a putc.                              *)
(*                                                                         *)
(* Corners = FALSE leaves out four cases, where the code does not do what  *)
(* it is meant to: a tab that ends in the last column (EdgeTab), a         *)
(* backspaced tab that would begin above the screen (TabAboveTop), a       *)
(* message's newline on the last line (BottomMessage), and anything inside *)
(* a putc.  The text and the cursor of a screen are s.mem, s.x, s.y.       *)
(*                                                                         *)
(* A definition without a comment, before one whose name it extends, is    *)
(* that definition with a mistake in it.                                   *)
(***************************************************************************)
EXTENDS Integers, Sequences

CONSTANTS
  Terms,      (* the terminals                                             *)
  NUM_ROWS,   (* lines of the screen                                       *)
  NUM_COLS,   (* columns of the screen                                     *)
  four_bit,   (* columns of a tab                                          *)
  Letters,    (* characters that leave a mark                              *)
  Texts,      (* what programs write: sequences of letters, nl, tab, bs    *)
  MaxLine,    (* bound: characters of a typed line                         *)
  MaxPuts,    (* bound: characters put on all screens                      *)
  Corners     (* may the four cases above happen?                          *)

Blank == " "
Controls == {"nl", "tab", "bs"}
NUL == "0"

ASSUME ConsoleAssumption ==
  /\ NUM_ROWS \in Nat /\ NUM_ROWS > 1
  /\ four_bit \in Nat \ {0}
  /\ NUM_COLS \in Nat /\ NUM_COLS > four_bit
  /\ Letters \cap Controls = {}
  /\ Texts \subseteq Seq(Letters \cup Controls) \ {<<>>}
  /\ Corners \in BOOLEAN

VARIABLES
  video_mem,        (* the screen, and the rest of its page                *)
  screen_x, screen_y,
  vid_buf,          (* each terminal's page                                *)
  x_position, y_position,
  cur_display_tid,
  call,             (* the terminal_write in progress, or Idle             *)
  printing,         (* what is left of the kernel's message                *)
  half,             (* is the first character of printing half put?        *)
  line,             (* what is in the line buffer of each terminal         *)
  puts              (* characters put so far (bound)                       *)

display == <<video_mem, screen_x, screen_y>>
saved == <<vid_buf, x_position, y_position>>
vars == <<display, saved, cur_display_tid, call, printing, half, line, puts>>

Idle == [tid |-> "none", prev |-> NUL, rest |-> <<>>]

(* The page goes on below the screen; one line of it is kept.              *)
Page == 0 .. NUM_COLS * (NUM_ROWS + 1)
OnScreen == 0 .. NUM_COLS * NUM_ROWS - 1
EmptyScreen == [i \in Page |-> Blank]

Init ==
  /\ video_mem = EmptyScreen
  /\ screen_x = 0 /\ screen_y = 0
  /\ vid_buf = [t \in Terms |-> EmptyScreen]
  /\ x_position = [t \in Terms |-> 0]
  /\ y_position = [t \in Terms |-> 0]
  /\ cur_display_tid \in Terms
  /\ call = Idle /\ printing = <<>> /\ half = FALSE
  /\ line = [t \in Terms |-> <<>>]
  /\ puts = 0

Shown == [mem |-> video_mem, x |-> screen_x, y |-> screen_y]
Stored(t) == [mem |-> vid_buf[t], x |-> x_position[t], y |-> y_position[t]]
Screen(t) == IF t = cur_display_tid THEN Shown ELSE Stored(t)

SetShown(s) == video_mem' = s.mem /\ screen_x' = s.x /\ screen_y' = s.y
SetStored(t, s) ==
  /\ vid_buf' = [vid_buf EXCEPT ![t] = s.mem]
  /\ x_position' = [x_position EXCEPT ![t] = s.x]
  /\ y_position' = [y_position EXCEPT ![t] = s.y]

-----------------------------------------------------------------------------
(* One character on a screen.                                              *)

Cell(x, y) == NUM_COLS * y + x

scrolling_oneline(mem) ==
  [i \in Page |-> IF i + NUM_COLS \in OnScreen THEN mem[i + NUM_COLS]
                  ELSE IF i \in OnScreen THEN Blank ELSE mem[i]]

Scrolled(s) ==
  IF s.y < NUM_ROWS THEN s
  ELSE [mem |-> scrolling_oneline(s.mem), x |-> s.x, y |-> NUM_ROWS - 1]

NewLine(s) == Scrolled([mem |-> s.mem, x |-> 0, y |-> s.y + 1])

EraseTabAsOne(s, c1) ==
  IF s.x = 0 /\ s.y = 0 THEN s
  ELSE LET x == IF s.x = 0 THEN NUM_COLS - 1 ELSE s.x - 1
           y == IF s.x = 0 THEN s.y - 1 ELSE s.y
       IN [mem |-> [s.mem EXCEPT ![Cell(x, y)] = Blank], x |-> x, y |-> y]

(* c1 is the character that is taken back: a tab is four columns and       *)
(* leaves no mark.                                                         *)
Erase(s, c1) ==
  IF s.x = 0 /\ s.y = 0 THEN s
  ELSE IF c1 = "tab"
  THEN IF s.x < four_bit
       THEN [mem |-> s.mem, x |-> NUM_COLS + s.x - four_bit, y |-> s.y - 1]
       ELSE [s EXCEPT !.x = @ - four_bit]
  ELSE LET x == IF s.x = 0 THEN NUM_COLS - 1 ELSE s.x - 1
           y == IF s.x = 0 THEN s.y - 1 ELSE s.y
       IN [mem |-> [s.mem EXCEPT ![Cell(x, y)] = Blank], x |-> x, y |-> y]

Tab(s) ==
  IF s.x <= NUM_COLS - four_bit THEN [s EXCEPT !.x = @ + four_bit]
  ELSE Scrolled([mem |-> s.mem, x |-> (s.x + four_bit) % NUM_COLS, y |-> s.y + 1])

MarkNoWrap(s, c) ==
  [mem |-> [s.mem EXCEPT ![Cell(s.x, s.y)] = c], x |-> s.x + 1, y |-> s.y]

Mark(s, c) ==
  Scrolled([mem |-> [s.mem EXCEPT ![Cell(s.x, s.y)] = c],
            x |-> (s.x + 1) % NUM_COLS,
            y |-> IF (s.x + 1) % NUM_COLS = 0 THEN s.y + 1 ELSE s.y])

special_putc(s, c1, c) ==
  CASE c = "nl"  -> NewLine(s)
    [] c = "bs"  -> Erase(s, c1)
    [] c = "tab" -> Tab(s)
    [] OTHER     -> Mark(s, c)

terminal_special_putcNoTab(s, c1, c) ==
  CASE c = "nl"  -> NewLine(s)
    [] c = "bs"  -> Erase(s, c1)
    [] OTHER     -> Mark(s, c)

(* Its copy for a terminal that is not displayed, line for line the same   *)
(* but for where the screen is.                                            *)
terminal_special_putc(s, c1, c) ==
  CASE c = "nl"  -> NewLine(s)
    [] c = "bs"  -> Erase(s, c1)
    [] c = "tab" -> Tab(s)
    [] OTHER     -> Mark(s, c)

(* The two cases of a character that Corners lets happen.                  *)
EdgeTab(s, c) == c = "tab" /\ s.x = NUM_COLS - four_bit
TabAboveTop(s, c1, c) ==
  c = "bs" /\ c1 = "tab" /\ s.y = 0 /\ s.x \in 1 .. four_bit - 1
Plain(s, c1, c) == Corners \/ ~(EdgeTab(s, c) \/ TabAboveTop(s, c1, c))

Count(n) == puts + n <= MaxPuts /\ puts' = puts + n

(* Nobody but the message itself runs inside a putc.                       *)
Between == ~half \/ Corners

-----------------------------------------------------------------------------
(* terminal_write of a program on terminal t, a step for each character.   *)
(* From its cli to its sti nothing else runs.                              *)

WriteByteShown(t, prev, buffer) ==
  LET c == Head(buffer)
  IN /\ Plain(Shown, prev, c)
     /\ SetShown(special_putc(Shown, prev, c))
     /\ call' = IF Tail(buffer) = <<>> THEN Idle
                ELSE [tid |-> t, prev |-> c, rest |-> Tail(buffer)]
     /\ UNCHANGED <<saved, cur_display_tid, printing, half, line>>

WriteByte(t, prev, buffer) ==
  LET c == Head(buffer)
  IN /\ Plain(Screen(t), prev, c)
     /\ \/ /\ cur_display_tid = t
           /\ SetShown(special_putc(Shown, prev, c))
           /\ UNCHANGED saved
        \/ /\ cur_display_tid # t
           /\ SetStored(t, terminal_special_putc(Stored(t), prev, c))
           /\ UNCHANGED display
     /\ call' = IF Tail(buffer) = <<>> THEN Idle
                ELSE [tid |-> t, prev |-> c, rest |-> Tail(buffer)]
     /\ UNCHANGED <<cur_display_tid, printing, half, line>>

terminal_write(t) ==
  /\ call = Idle /\ Between
  /\ \E buffer \in Texts : Count(Len(buffer)) /\ WriteByte(t, NUL, buffer)

WriteNext == call # Idle /\ WriteByte(call.tid, call.prev, call.rest) /\ UNCHANGED puts

-----------------------------------------------------------------------------
(* Alt+F1..F3.                                                             *)
terminal_switch(t) ==
  /\ call = Idle /\ Between
  /\ t # cur_display_tid
  /\ SetStored(cur_display_tid, Shown)
  /\ SetShown(Stored(t))
  /\ cur_display_tid' = t
  /\ UNCHANGED <<call, printing, half, line, puts>>

-----------------------------------------------------------------------------
(* The keyboard, on the displayed terminal.  The full line and the switch  *)
(* of the line buffers are in TerminalInput.                               *)

Key(c) ==
  /\ call = Idle /\ Between
  /\ Len(line[cur_display_tid]) < MaxLine
  /\ Count(1)
  /\ Plain(Shown, NUL, c)
  /\ line' = [line EXCEPT ![cur_display_tid] =
                            IF c = "nl" THEN <<c>> ELSE Append(@, c)]
  /\ SetShown(special_putc(Shown, NUL, c))
  /\ UNCHANGED <<saved, cur_display_tid, call, printing, half>>

Backspace ==
  LET typed == line[cur_display_tid]
  IN /\ call = Idle /\ Between
     /\ typed # <<>>
     /\ Count(1)
     /\ Plain(Shown, typed[Len(typed)], "bs")
     /\ SetShown(special_putc(Shown, typed[Len(typed)], "bs"))
     /\ line' = [line EXCEPT ![cur_display_tid] = SubSeq(@, 1, Len(@) - 1)]
     /\ UNCHANGED <<saved, cur_display_tid, call, printing, half>>

(* Ctrl+L, which does not touch the line.                                  *)
ClearScreen ==
  /\ call = Idle /\ Between
  /\ SetShown([mem |-> [i \in Page |-> IF i \in OnScreen THEN Blank ELSE video_mem[i]],
               x |-> 0, y |-> 0])
  /\ UNCHANGED <<saved, cur_display_tid, call, printing, half, line, puts>>

(* A read on terminal t ends: it clears the buffer being typed in, too.    *)
LineRead(t) ==
  /\ call = Idle /\ Between
  /\ line[t] # <<>> /\ line[t][1] = "nl"
  /\ line' = [line EXCEPT ![t] = <<>>, ![cur_display_tid] = <<>>]
  /\ UNCHANGED <<display, saved, cur_display_tid, call, printing, half, puts>>

-----------------------------------------------------------------------------
(* A message of the kernel, on whatever terminal is displayed: open of a   *)
(* name that does not exist.  A letter stands for its text.                *)

printf ==
  /\ call = Idle /\ Between
  /\ printing = <<>>
  /\ Count(2)
  /\ \E c \in Letters : printing' = <<c, "nl">>
  /\ UNCHANGED <<display, saved, cur_display_tid, call, half, line>>

BottomMessage(c) == c = "nl" /\ screen_y >= NUM_ROWS - 1

(* The first assignment of putc ...                                        *)
PutcBegin ==
  LET c == Head(printing)
  IN /\ call = Idle /\ printing # <<>> /\ ~half
     /\ Corners \/ ~BottomMessage(c)
     /\ \/ /\ c = "nl"
           /\ screen_y' = screen_y + 1
           /\ UNCHANGED <<video_mem, screen_x>>
        \/ /\ c # "nl"
           /\ video_mem' = [video_mem EXCEPT ![Cell(screen_x, screen_y)] = c]
           /\ UNCHANGED <<screen_x, screen_y>>
     /\ half' = TRUE
     /\ UNCHANGED <<saved, cur_display_tid, call, printing, line, puts>>

(* The cursor after a putc; a line that is full begins again.              *)
PutX(c) == IF c = "nl" THEN 0 ELSE (screen_x + 1) % NUM_COLS
PutY(c) == IF c = "nl" THEN screen_y ELSE screen_y % NUM_ROWS

(* ... and the rest.                                                       *)
PutcEnd ==
  LET c == Head(printing)
  IN /\ call = Idle /\ half
     /\ screen_x' = PutX(c)
     /\ screen_y' = PutY(c)
     /\ half' = FALSE
     /\ printing' = Tail(printing)
     /\ UNCHANGED <<video_mem, saved, cur_display_tid, call, line, puts>>

-----------------------------------------------------------------------------
Next ==
  \/ \E t \in Terms : terminal_write(t) \/ terminal_switch(t) \/ LineRead(t)
  \/ WriteNext
  \/ \E c \in Letters \cup {"nl", "tab"} : Key(c)
  \/ Backspace \/ ClearScreen
  \/ printf \/ PutcBegin \/ PutcEnd

Spec == Init /\ [][Next]_vars

-----------------------------------------------------------------------------
(* Every cursor stays on the screen, in the variables and in the           *)
(* terminals' copies: what is written next is seen, and nothing is written *)
(* outside the page (lib.c:366, lib.c:253).                                *)
CursorInside ==
  \A t \in Terms :
    /\ Screen(t).x \in 0 .. NUM_COLS - 1
    /\ Screen(t).y \in 0 .. NUM_ROWS - 1

(* What is typed and taken back with backspace leaves the cursor where it  *)
(* was, one line higher if the screen scrolled in between, and nothing     *)
(* before the cursor changed (lib.c:253).                                  *)
EraseUndoes ==
  \A c \in Letters \cup {"tab"} :
    Plain(Shown, NUL, c) =>
      LET typed == special_putc(Shown, NUL, c)
          back  == special_putc(typed, c, "bs")
          here  == Cell(screen_x, screen_y)
          up    == here - Cell(back.x, back.y)
      IN /\ up = 0 \/ (up = NUM_COLS /\ typed.y = NUM_ROWS - 1)
         /\ \A i \in 0 .. here - 1 - up : back.mem[i] = video_mem[i + up]

(* A step touches the screen and the cursor of one terminal only: that of  *)
(* the program that writes, or the displayed one for keys and messages.    *)
(* Switching the display changes none (lib.c:366).                         *)
ScreensSeparate ==
  [][\A t \in Terms :
       Screen(t)' # Screen(t) =>
         /\ cur_display_tid' = cur_display_tid
         /\ IF \E u \in Terms : terminal_write(u) THEN terminal_write(t)
            ELSE t = IF call = Idle THEN cur_display_tid ELSE call.tid]_vars

(* Inside a putc the cursor is where the putc is going to leave it.        *)
SeenX(t) == IF half /\ t = cur_display_tid THEN PutX(Head(printing)) ELSE Screen(t).x
SeenY(t) == IF half /\ t = cur_display_tid THEN PutY(Head(printing)) ELSE Screen(t).y

T == INSTANCE Teletypes WITH
       ROWS  <- NUM_ROWS,
       COLS  <- NUM_COLS,
       TAB   <- four_bit,
       text  <- [t \in Terms |-> [i \in OnScreen |-> Screen(t).mem[i]]],
       pos   <- [t \in Terms |-> Cell(SeenX(t), SeenY(t))],
       shown <- cur_display_tid

(* The shared screen, its copies and the two copies of the output routine  *)
(* behave as one teletype per terminal.                                    *)
ImplementsTeletypes == T!Spec

-----------------------------------------------------------------------------
(* Statements of the sources that the code does not meet.                  *)

(* special_putc is to "output a character to the console" (lib.c:213): a   *)
(* typed letter is on the screen, just before the cursor.  It fails with   *)
(* Corners = TRUE, and no run checks it.                                   *)
CharacterShown ==
  [][\A c \in Letters : Key(c) =>
       LET before == Cell(screen_x', screen_y') - 1
       IN before \in OnScreen /\ video_mem'[before] = c]_vars
=============================================================================
