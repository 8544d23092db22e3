--------------------------- MODULE ConsoleProofs ---------------------------
(***************************************************************************)
(* Proofs about Console, for a screen of any size and any number of        *)
(* terminals: the cursors, the screens, and that Console implements        *)
(* Teletypes without the four corner cases.                                *)
(***************************************************************************)
EXTENDS Console, TLAPS, SequenceTheorems

-----------------------------------------------------------------------------
(* The cursors.  CursorInside speaks of the displayed cursor and of the    *)
(* copies of the others; the copy of the displayed terminal is stale, but  *)
(* it must be inside too: nothing else bounds what a switch stores.        *)

Columns == 0 .. NUM_COLS - 1
Rows == 0 .. NUM_ROWS - 1

Cursors ==
  /\ screen_x \in Columns /\ screen_y \in Rows
  /\ x_position \in [Terms -> Columns]
  /\ y_position \in [Terms -> Rows]
  /\ cur_display_tid \in Terms
  /\ call # Idle => call.tid \in Terms

LEMMA Sizes ==
  /\ NUM_ROWS \in Nat /\ NUM_ROWS > 1
  /\ four_bit \in Nat /\ four_bit > 0
  /\ NUM_COLS \in Nat /\ NUM_COLS > four_bit
BY ConsoleAssumption

LEMMA Wrapped ==
  ASSUME NEW a \in Nat PROVE a % NUM_COLS \in Columns
BY Sizes DEF Columns

(* A character leaves the cursor of a screen inside, but for the two cases *)
(* that Plain leaves out.                                                  *)
LEMMA PutInside ==
  ASSUME NEW mem, NEW x \in Columns, NEW y \in Rows, NEW c1, NEW c,
         ~EdgeTab([mem |-> mem, x |-> x, y |-> y], c),
         ~TabAboveTop([mem |-> mem, x |-> x, y |-> y], c1, c)
  PROVE  /\ special_putc([mem |-> mem, x |-> x, y |-> y], c1, c).x \in Columns
         /\ special_putc([mem |-> mem, x |-> x, y |-> y], c1, c).y \in Rows
<1> DEFINE s == [mem |-> mem, x |-> x, y |-> y]
           Inside(r) == r.x \in Columns /\ r.y \in Rows
<1>1. ASSUME NEW m, NEW u \in Columns, NEW v \in 0 .. NUM_ROWS
      PROVE  Inside(Scrolled([mem |-> m, x |-> u, y |-> v]))
  BY Sizes DEF Scrolled, Columns, Rows
<1>2. CASE c = "nl"
  <2>1. Inside(NewLine(s))
    BY Sizes DEF NewLine, Scrolled, Columns, Rows
  <2> QED
    BY <1>2, <2>1 DEF special_putc
<1>3. CASE c = "bs"
  <2>1. Inside(Erase(s, c1))
    BY <1>3, Sizes DEF Erase, TabAboveTop, Columns, Rows
  <2> QED
    BY <1>3, <2>1 DEF special_putc
<1>4. CASE c = "tab"
  <2>1. CASE x <= NUM_COLS - four_bit
    BY <1>4, <2>1, Sizes DEF special_putc, Tab, EdgeTab, Columns, Rows
  <2>2. CASE x > NUM_COLS - four_bit
    <3>2. (x + four_bit) % NUM_COLS \in Columns
      BY Sizes, Wrapped DEF Columns
    <3>3. Inside(Tab(s))
      BY <2>2, <3>2, Sizes DEF Tab, Scrolled, Columns, Rows
    <3> QED
      BY <1>4, <3>3 DEF special_putc
  <2> QED
    BY <2>1, <2>2, Sizes DEF Columns
<1>5. CASE c \notin {"nl", "bs", "tab"}
  <2> DEFINE u == (x + 1) % NUM_COLS
             v == IF u = 0 THEN y + 1 ELSE y
  <2>1. Mark(s, c) = Scrolled([mem |-> [mem EXCEPT ![Cell(x, y)] = c], x |-> u, y |-> v])
    BY DEF Mark
  <2>2. u \in Columns
    BY Sizes, Wrapped DEF Columns
  <2>3. v \in 0 .. NUM_ROWS
    BY Sizes DEF Rows
  <2>4. Inside(Mark(s, c))
    BY <1>1, <2>1, <2>2, <2>3
  <2> QED
    BY <1>5, <2>4 DEF special_putc
<1> QED
  BY <1>2, <1>3, <1>4, <1>5

LEMMA SameRoutine ==
  ASSUME NEW s, NEW c1, NEW c
  PROVE  terminal_special_putc(s, c1, c) = special_putc(s, c1, c)
BY DEF terminal_special_putc, special_putc

LEMMA WriteByteInside ==
  ASSUME Corners = FALSE, Cursors, NEW t \in Terms, NEW prev, NEW buffer,
         WriteByte(t, prev, buffer)
  PROVE  Cursors'
<1> DEFINE c == Head(buffer)
<1>1. call' # Idle => call'.tid \in Terms
  BY DEF WriteByte
<1>2. Plain(Screen(t), prev, c) /\ cur_display_tid' = cur_display_tid
  BY DEF WriteByte
<1>3. CASE cur_display_tid = t
  <2>1. SetShown(special_putc(Shown, prev, c)) /\ UNCHANGED saved
    BY <1>3 DEF WriteByte
  <2>2. ~EdgeTab(Shown, c) /\ ~TabAboveTop(Shown, prev, c)
    BY <1>2, <1>3 DEF Plain, Screen
  <2>3. screen_x' \in Columns /\ screen_y' \in Rows
    BY <2>1, <2>2, PutInside DEF Shown, SetShown, Cursors
  <2> QED
    BY <1>1, <1>2, <2>1, <2>3 DEF Cursors, saved
<1>4. CASE cur_display_tid # t
  <2> DEFINE s == special_putc(Stored(t), prev, c)
  <2>1. SetStored(t, s) /\ UNCHANGED display
    BY <1>4, SameRoutine DEF WriteByte
  <2>2. ~EdgeTab(Stored(t), c) /\ ~TabAboveTop(Stored(t), prev, c)
    BY <1>2, <1>4 DEF Plain, Screen
  <2>3. x_position[t] \in Columns /\ y_position[t] \in Rows
    BY DEF Cursors
  <2>4. s.x \in Columns /\ s.y \in Rows
    BY <2>2, <2>3, PutInside DEF Stored
  <2> HIDE DEF s
  <2> QED
    BY <1>1, <1>2, <2>1, <2>4 DEF Cursors, SetStored, display
<1> QED
  BY <1>3, <1>4

LEMMA CursorsKeep ==
  ASSUME Corners = FALSE, Cursors, [Next]_vars
  PROVE  Cursors'
<1>1. ASSUME NEW t \in Terms, terminal_write(t) PROVE Cursors'
  BY <1>1, WriteByteInside DEF terminal_write
<1>2. ASSUME NEW t \in Terms, terminal_switch(t) PROVE Cursors'
  BY <1>2 DEF terminal_switch, SetStored, SetShown, Stored, Shown, Cursors
<1>3. ASSUME NEW t \in Terms, LineRead(t) PROVE Cursors'
  BY <1>3 DEF LineRead, display, saved, Cursors
<1>4. CASE WriteNext
  <2>1. call.tid \in Terms
    BY <1>4 DEF WriteNext, Cursors
  <2> QED
    BY <1>4, <2>1, WriteByteInside DEF WriteNext
<1>5. ASSUME NEW c, Key(c) PROVE Cursors'
  <2>1. ~EdgeTab(Shown, c) /\ ~TabAboveTop(Shown, NUL, c)
    BY <1>5 DEF Key, Plain
  <2>2. screen_x' \in Columns /\ screen_y' \in Rows
    BY <1>5, <2>1, PutInside DEF Key, Shown, SetShown, Cursors
  <2> QED
    BY <1>5, <2>2 DEF Key, saved, Cursors
<1>6. CASE Backspace
  <2> DEFINE typed == line[cur_display_tid]
             c1 == typed[Len(typed)]
  <2>1. ~EdgeTab(Shown, "bs") /\ ~TabAboveTop(Shown, c1, "bs")
    BY <1>6 DEF Backspace, Plain
  <2>2. SetShown(special_putc(Shown, c1, "bs"))
    BY <1>6 DEF Backspace
  <2>3. screen_x' \in Columns /\ screen_y' \in Rows
    BY <2>1, <2>2, PutInside DEF Shown, SetShown, Cursors
  <2> QED
    BY <1>6, <2>3 DEF Backspace, saved, Cursors
<1>7. CASE ClearScreen
  BY <1>7, Sizes DEF ClearScreen, SetShown, saved, Columns, Rows, Cursors
<1>8. CASE printf
  BY <1>8 DEF printf, display, saved, Cursors
<1>9. CASE PutcBegin
  BY <1>9, Sizes DEF PutcBegin, BottomMessage, saved, Rows, Cursors
<1>10. CASE PutcEnd
  <2>1. PutX(Head(printing)) \in Columns
    BY Sizes, Wrapped DEF PutX, Columns, Cursors
  <2>2. PutY(Head(printing)) \in Rows
    BY Sizes DEF PutY, Rows, Cursors
  <2> QED
    BY <1>10, <2>1, <2>2 DEF PutcEnd, saved, Cursors
<1>11. CASE UNCHANGED vars
  BY <1>11 DEF vars, display, saved, Cursors
<1> QED
  BY <1>1, <1>2, <1>3, <1>4, <1>5, <1>6, <1>7, <1>8, <1>9, <1>10, <1>11 DEF Next

(* Without the four corner cases every cursor stays on the screen, for     *)
(* every size of screen and width of tab, whoever writes and however often *)
(* the display is switched: no character goes to a cell outside it.        *)
THEOREM CursorsInside ==
  ASSUME Corners = FALSE PROVE Spec => []CursorInside
<1>1. Init => Cursors
  BY Sizes DEF Init, Columns, Rows, Cursors
<1>2. Cursors /\ [Next]_vars => Cursors'
  BY CursorsKeep
<1>3. Cursors => CursorInside
  BY DEF Cursors, CursorInside, Screen, Shown, Stored, Columns, Rows
<1> QED
  BY <1>1, <1>2, <1>3, PTL DEF Spec

-----------------------------------------------------------------------------
(* The screens, with or without the corner cases.  All that is needed of   *)
(* the copies is that there is one for each terminal.                      *)

Copies ==
  /\ DOMAIN vid_buf = Terms
  /\ DOMAIN x_position = Terms /\ DOMAIN y_position = Terms
  /\ cur_display_tid \in Terms

LEMMA CopiesKeep ==
  ASSUME Copies, [Next]_vars PROVE Copies'
<1> USE DEF Copies, SetStored, SetShown, display, saved
<1>1. ASSUME NEW t, NEW prev, NEW buffer, WriteByte(t, prev, buffer) PROVE Copies'
  BY <1>1 DEF WriteByte
<1>2. ASSUME NEW t \in Terms, terminal_write(t) PROVE Copies'
  BY <1>1, <1>2 DEF terminal_write
<1>3. ASSUME NEW t \in Terms, terminal_switch(t) PROVE Copies'
  BY <1>3 DEF terminal_switch
<1>4. ASSUME NEW t \in Terms, LineRead(t) PROVE Copies'
  BY <1>4 DEF LineRead
<1>5. CASE WriteNext
  BY <1>1, <1>5 DEF WriteNext
<1>6. ASSUME NEW c, Key(c) PROVE Copies'
  BY <1>6 DEF Key
<1>7. CASE Backspace
  BY <1>7 DEF Backspace
<1>8. CASE ClearScreen
  BY <1>8 DEF ClearScreen
<1>9. CASE printf
  BY <1>9 DEF printf
<1>10. CASE PutcBegin
  BY <1>10 DEF PutcBegin
<1>11. CASE PutcEnd
  BY <1>11 DEF PutcEnd
<1>12. CASE UNCHANGED vars
  BY <1>12 DEF vars
<1> QED
  BY <1>2, <1>3, <1>4, <1>5, <1>6, <1>7, <1>8, <1>9, <1>10, <1>11, <1>12 DEF Next

(* A character of a program goes to that program's screen, displayed or    *)
(* not.                                                                    *)
LEMMA WriteOwn ==
  ASSUME Copies, NEW t, NEW prev, NEW buffer, WriteByte(t, prev, buffer),
         NEW u \in Terms, u # t
  PROVE  Screen(u)' = Screen(u)
<1>1. cur_display_tid' = cur_display_tid
  BY DEF WriteByte
<1>2. CASE cur_display_tid = t
  <2>1. UNCHANGED saved
    BY <1>2 DEF WriteByte
  <2> QED
    BY <1>1, <1>2, <2>1 DEF Screen, Stored, saved
<1>3. CASE cur_display_tid # t
  <2>1. /\ SetStored(t, terminal_special_putc(Stored(t), prev, Head(buffer)))
        /\ UNCHANGED display
    BY <1>3 DEF WriteByte
  <2> QED
    BY <1>1, <2>1 DEF Screen, Stored, Shown, SetStored, display, Copies
<1> QED
  BY <1>2, <1>3

(* What the keyboard and the kernel put goes to the displayed screen.      *)
LEMMA ShownOnly ==
  ASSUME UNCHANGED <<saved, cur_display_tid>>, NEW u \in Terms, u # cur_display_tid
  PROVE  Screen(u)' = Screen(u)
BY DEF Screen, Stored, saved

LEMMA SwitchKeepsScreens ==
  ASSUME Copies, NEW t \in Terms, terminal_switch(t), NEW u \in Terms
  PROVE  Screen(u)' = Screen(u)
<1>1. SetStored(cur_display_tid, Shown) /\ SetShown(Stored(t)) /\ cur_display_tid' = t
  BY DEF terminal_switch
<1>2. t # cur_display_tid
  BY DEF terminal_switch
<1>3. CASE u = t
  BY <1>1, <1>2, <1>3 DEF Screen, Shown, Stored, SetShown
<1>4. CASE u # t
  BY <1>1, <1>4 DEF Screen, Shown, Stored, SetStored, Copies
<1> QED
  BY <1>3, <1>4

(* The part of ScreensSeparate that speaks of one step.                    *)
Separate ==
  \A t \in Terms :
    Screen(t)' # Screen(t) =>
      /\ cur_display_tid' = cur_display_tid
      /\ IF \E u \in Terms : terminal_write(u) THEN terminal_write(t)
         ELSE t = IF call = Idle THEN cur_display_tid ELSE call.tid

LEMMA StepSeparates ==
  ASSUME Copies, [Next]_vars PROVE Separate
<1> SUFFICES ASSUME NEW t \in Terms, Screen(t)' # Screen(t)
             PROVE  /\ cur_display_tid' = cur_display_tid
                    /\ IF \E u \in Terms : terminal_write(u) THEN terminal_write(t)
                       ELSE t = IF call = Idle THEN cur_display_tid ELSE call.tid
  BY DEF Separate
<1>1. CASE \E u \in Terms : terminal_write(u)
  <2>1. PICK u \in Terms : terminal_write(u)
    BY <1>1
  <2>2. PICK buffer \in Texts : WriteByte(u, NUL, buffer)
    BY <2>1 DEF terminal_write
  <2>3. t = u
    BY <2>2, WriteOwn
  <2>4. cur_display_tid' = cur_display_tid
    BY <2>2 DEF WriteByte
  <2> QED
    BY <1>1, <2>1, <2>3, <2>4
<1>2. CASE ~\E u \in Terms : terminal_write(u)
  <2> SUFFICES /\ cur_display_tid' = cur_display_tid
               /\ t = IF call = Idle THEN cur_display_tid ELSE call.tid
    BY <1>2
  <2>1. ASSUME NEW u \in Terms, terminal_switch(u) PROVE FALSE
    BY <2>1, SwitchKeepsScreens
  <2>2. ASSUME NEW u \in Terms, LineRead(u) PROVE FALSE
    BY <2>2 DEF LineRead, display, saved, Screen, Shown, Stored
  <2>3. CASE WriteNext
    <3>1. call # Idle /\ WriteByte(call.tid, call.prev, call.rest)
      BY <2>3 DEF WriteNext
    <3>2. t = call.tid
      BY <3>1, WriteOwn
    <3> QED
      BY <3>1, <3>2 DEF WriteByte
  <2>4. ASSUME call = Idle, UNCHANGED <<saved, cur_display_tid>>
        PROVE  /\ cur_display_tid' = cur_display_tid
               /\ t = IF call = Idle THEN cur_display_tid ELSE call.tid
    BY <2>4, ShownOnly
  <2>5. ASSUME NEW c, Key(c) PROVE call = Idle /\ UNCHANGED <<saved, cur_display_tid>>
    BY <2>5 DEF Key
  <2>6. CASE Backspace
    BY <2>4, <2>6 DEF Backspace
  <2>7. CASE ClearScreen
    BY <2>4, <2>7 DEF ClearScreen
  <2>8. CASE printf
    BY <2>4, <2>8 DEF printf
  <2>9. CASE PutcBegin
    BY <2>4, <2>9 DEF PutcBegin
  <2>10. CASE PutcEnd
    BY <2>4, <2>10 DEF PutcEnd
  <2>11. ~UNCHANGED vars
    BY DEF vars, display, saved, Screen, Shown, Stored
  <2> QED
    BY <1>2, <2>1, <2>2, <2>3, <2>4, <2>5, <2>6, <2>7, <2>8, <2>9, <2>10, <2>11 DEF Next
<1> QED
  BY <1>1, <1>2

(* No step touches the screen or the cursor of a terminal that is neither  *)
(* the writing program's nor the one keys and messages go to, and the      *)
(* switch of the display keeps every screen: for any number of terminals,  *)
(* with the corner cases and with what interrupts a putc.                  *)
THEOREM SeparateScreens == Spec => ScreensSeparate
<1>1. Init => Copies
  BY DEF Init, Copies
<1>2. Copies /\ [Next]_vars => Copies'
  BY CopiesKeep
<1>3. Copies /\ [Next]_vars => [Separate]_vars
  BY StepSeparates
<1> QED
  BY <1>1, <1>2, <1>3, PTL DEF Spec, ScreensSeparate, Separate

-----------------------------------------------------------------------------
(* Cells.  The products are what makes these facts hard for the provers;   *)
(* they are used below only through these lemmas.                          *)

LEMMA CellFacts ==
  ASSUME NEW x \in Columns, NEW y \in Rows
  PROVE  /\ Cell(x, y) \in OnScreen /\ Cell(x, y) \in Page
         /\ Cell(x, y) \in Nat
<1> USE Sizes
<1>1. x \in Nat /\ x <= NUM_COLS - 1 /\ y \in Nat /\ y <= NUM_ROWS - 1
  BY DEF Columns, Rows
<1>2. NUM_COLS * y <= NUM_COLS * (NUM_ROWS - 1)
  BY <1>1
<1>3. NUM_COLS * (NUM_ROWS - 1) = NUM_COLS * NUM_ROWS - NUM_COLS
  OBVIOUS
<1>4. NUM_COLS * (NUM_ROWS + 1) = NUM_COLS * NUM_ROWS + NUM_COLS
  OBVIOUS
<1>5. NUM_COLS * y \in Nat /\ NUM_COLS * NUM_ROWS \in Nat
  BY <1>1
<1> QED
  BY <1>1, <1>2, <1>3, <1>4, <1>5 DEF Cell, OnScreen, Page

(* One line further down.                                                  *)
LEMMA CellBelow ==
  ASSUME NEW x \in Int, NEW y \in Int
  PROVE  Cell(x, y + 1) = Cell(x, y) + NUM_COLS
BY Sizes DEF Cell

LEMMA CellRight ==
  ASSUME NEW x \in Int, NEW y \in Int, NEW k \in Int
  PROVE  Cell(x + k, y) = Cell(x, y) + k
BY Sizes DEF Cell

(* Just below the screen.                                                  *)
LEMMA CellOutside ==
  ASSUME NEW x \in Columns
  PROVE  /\ Cell(x, NUM_ROWS) \notin OnScreen
         /\ Cell(x, NUM_ROWS) - NUM_COLS = Cell(x, NUM_ROWS - 1)
<1>1. NUM_COLS * NUM_ROWS \in Nat
  BY Sizes
<1>2. NUM_COLS * (NUM_ROWS - 1) = NUM_COLS * NUM_ROWS - NUM_COLS
  BY Sizes
<1> QED
  BY <1>1, <1>2, Sizes DEF Cell, OnScreen, Columns

LEMMA CellLine ==
  ASSUME NEW x \in Columns, NEW y \in Nat
  PROVE  /\ Cell(x, y) \div NUM_COLS = y
         /\ Cell(x, y) % NUM_COLS = x
<1> USE Sizes
<1> DEFINE p == Cell(x, y)
           q == p \div NUM_COLS
           r == p % NUM_COLS
<1>1. x \in Nat /\ x < NUM_COLS /\ y \in Nat /\ p = NUM_COLS * y + x /\ p \in Nat
  BY DEF Columns, Cell
<1>2. q \in Int /\ r \in 0 .. NUM_COLS - 1 /\ p = NUM_COLS * q + r
  BY <1>1
<1> HIDE DEF p, q, r
<1>3. NUM_COLS * (q - y) = x - r
  BY <1>1, <1>2
<1>4. q - y < 1
  <2>1. SUFFICES ASSUME q - y >= 1 PROVE FALSE
    BY <1>1, <1>2
  <2>2. NUM_COLS * (q - y) >= NUM_COLS
    BY <1>1, <1>2, <2>1
  <2> QED
    BY <1>1, <1>2, <1>3, <2>2
<1>5. q - y > -1
  <2>1. SUFFICES ASSUME q - y <= -1 PROVE FALSE
    BY <1>1, <1>2
  <2>2. NUM_COLS * (q - y) <= -NUM_COLS
    BY <1>1, <1>2, <2>1
  <2> QED
    BY <1>1, <1>2, <1>3, <2>2
<1>6. q = y
  BY <1>1, <1>2, <1>4, <1>5
<1>7. r = x
  BY <1>1, <1>2, <1>3, <1>6
<1> QED
  BY <1>6, <1>7 DEF p, q, r

(* The next column of a line that begins again when it is full.            *)
LEMMA NextColumn ==
  ASSUME NEW x \in Columns, NEW y \in Rows
  PROVE  (Cell(x, y) + 1) % NUM_COLS = (x + 1) % NUM_COLS
<1>1. x \in Int /\ y \in Nat /\ x + 1 \in 0 .. NUM_COLS
  BY Sizes DEF Columns, Rows
<1>2. Cell(x, y) + 1 = Cell(x + 1, y)
  BY <1>1, CellRight
<1>3. CASE x + 1 < NUM_COLS
  <2>1. x + 1 \in Columns
    BY <1>1, <1>3, Sizes DEF Columns
  <2>2. Cell(x + 1, y) % NUM_COLS = x + 1
    BY <1>1, <2>1, CellLine
  <2>3. (x + 1) % NUM_COLS = x + 1
    BY <1>1, <1>3, Sizes
  <2> QED
    BY <1>2, <2>2, <2>3
<1>4. CASE x + 1 = NUM_COLS
  <2>1. Cell(x + 1, y) = Cell(0, y + 1)
    BY <1>1, <1>4, Sizes DEF Cell
  <2>2. 0 \in Columns /\ y + 1 \in Nat
    BY <1>1, Sizes DEF Columns
  <2>3. Cell(0, y + 1) % NUM_COLS = 0
    BY <2>2, CellLine
  <2>4. (x + 1) % NUM_COLS = 0
    BY <1>4, Sizes
  <2> QED
    BY <1>2, <2>1, <2>3, <2>4
<1> QED
  BY <1>1, <1>3, <1>4, Sizes

-----------------------------------------------------------------------------
(* A screen as a teletype: its paper and its position, and what Set of     *)
(* Teletypes makes of a page and a position.                               *)

Paper(s) == [i \in OnScreen |-> s.mem[i]]
At(s) == Cell(s.x, s.y)
Up(p) == IF p \in OnScreen THEN 0 ELSE NUM_COLS

Moves(page, p, r) ==
  /\ Paper(r) = [i \in OnScreen |-> IF i + Up(p) \in OnScreen THEN page[i + Up(p)]
                                    ELSE Blank]
  /\ At(r) = p - Up(p)

LEMMA ScreenInPage == OnScreen \subseteq Page /\ OnScreen \subseteq Int
<1>1. NUM_COLS * (NUM_ROWS + 1) = NUM_COLS * NUM_ROWS + NUM_COLS
  BY Sizes
<1>2. NUM_COLS * NUM_ROWS \in Nat
  BY Sizes
<1> QED
  BY <1>1, <1>2, Sizes DEF OnScreen, Page

LEMMA StayMoves ==
  ASSUME NEW mem, NEW x \in Columns, NEW y \in Rows
  PROVE  LET s == [mem |-> mem, x |-> x, y |-> y] IN Moves(Paper(s), At(s), s)
<1> DEFINE s == [mem |-> mem, x |-> x, y |-> y]
<1>1. At(s) \in OnScreen /\ At(s) \in Nat
  BY CellFacts DEF At
<1>2. Up(At(s)) = 0
  BY <1>1 DEF Up
<1>3. Paper(s) = [i \in OnScreen |-> IF i + 0 \in OnScreen THEN Paper(s)[i + 0] ELSE Blank]
  BY ScreenInPage DEF Paper
<1> QED
  BY <1>1, <1>2, <1>3 DEF Moves

LEMMA ScrollMoves ==
  ASSUME NEW mem, DOMAIN mem = Page, NEW x \in Columns, NEW y \in 0 .. NUM_ROWS
  PROVE  LET s == [mem |-> mem, x |-> x, y |-> y]
         IN /\ Moves(Paper(s), At(s), Scrolled(s))
            /\ DOMAIN Scrolled(s).mem = Page
<1> DEFINE s == [mem |-> mem, x |-> x, y |-> y]
<1>1. CASE y < NUM_ROWS
  <2>1. y \in Rows
    BY <1>1, Sizes DEF Rows
  <2>2. Scrolled(s) = s
    BY <1>1 DEF Scrolled
  <2> QED
    BY <2>1, <2>2, StayMoves
<1>2. CASE y = NUM_ROWS
  <2> DEFINE r == [mem |-> scrolling_oneline(mem), x |-> x, y |-> NUM_ROWS - 1]
  <2>1. Scrolled(s) = r
    BY <1>2, Sizes DEF Scrolled
  <2>2. Up(At(s)) = NUM_COLS /\ At(r) = At(s) - NUM_COLS
    BY <1>2, CellOutside DEF At, Up
  <2>3. Paper(r) = [i \in OnScreen |->
                     IF i + NUM_COLS \in OnScreen THEN Paper(s)[i + NUM_COLS] ELSE Blank]
    BY ScreenInPage DEF Paper, scrolling_oneline
  <2>4. Moves(Paper(s), At(s), r)
    BY <2>2, <2>3 DEF Moves
  <2>5. DOMAIN r.mem = Page
    BY DEF scrolling_oneline
  <2> QED
    BY <2>1, <2>4, <2>5
<1> QED
  BY <1>1, <1>2, Sizes

(* The page with one cell changed.                                         *)
LEMMA PaperExcept ==
  ASSUME NEW mem, DOMAIN mem = Page, NEW x, NEW y, NEW u, NEW v, NEW p \in OnScreen, NEW c
  PROVE  /\ Paper([mem |-> [mem EXCEPT ![p] = c], x |-> x, y |-> y])
              = [Paper([mem |-> mem, x |-> u, y |-> v]) EXCEPT ![p] = c]
         /\ DOMAIN [mem EXCEPT ![p] = c] = Page
BY ScreenInPage DEF Paper

-----------------------------------------------------------------------------
(* One character: what special_putc makes of a screen is what one of the   *)
(* operations of a teletype makes of its paper.                            *)

LetterMoves(s, r) ==
  \E c \in Letters : Moves([Paper(s) EXCEPT ![At(s)] = c], At(s) + 1, r)
LineMoves(s, r) == Moves(Paper(s), (At(s) \div NUM_COLS + 1) * NUM_COLS, r)
TabMoves(s, r) == Moves(Paper(s), At(s) + four_bit, r)
BackTabMoves(s, r) == At(s) > 0 /\ Moves(Paper(s), At(s) - four_bit, r)
BackMoves(s, r) ==
  At(s) > 0 /\ Moves([Paper(s) EXCEPT ![At(s) - 1] = Blank], At(s) - 1, r)

PutMoves(s, r) ==
  \/ LetterMoves(s, r) \/ LineMoves(s, r) \/ TabMoves(s, r)
  \/ BackTabMoves(s, r) \/ BackMoves(s, r)

LEMMA NewLineMoves ==
  ASSUME NEW mem, DOMAIN mem = Page, NEW x \in Columns, NEW y \in Rows
  PROVE  LET s == [mem |-> mem, x |-> x, y |-> y]
         IN LineMoves(s, NewLine(s)) /\ DOMAIN NewLine(s).mem = Page
<1> DEFINE s == [mem |-> mem, x |-> x, y |-> y]
           down == [mem |-> mem, x |-> 0, y |-> y + 1]
<1>1. NewLine(s) = Scrolled(down)
  BY DEF NewLine
<1>2. 0 \in Columns /\ y + 1 \in 0 .. NUM_ROWS /\ y \in Nat
  BY Sizes DEF Columns, Rows
<1>3. Moves(Paper(down), At(down), Scrolled(down)) /\ DOMAIN Scrolled(down).mem = Page
  BY <1>2, ScrollMoves
<1>4. At(down) = (At(s) \div NUM_COLS + 1) * NUM_COLS
  <2>1. At(s) \div NUM_COLS = y
    BY <1>2, CellLine DEF At
  <2>2. At(down) = NUM_COLS * (y + 1)
    BY <1>2, Sizes DEF At, Cell
  <2> QED
    BY <1>2, <2>1, <2>2, Sizes
<1>5. Paper(down) = Paper(s)
  BY DEF Paper
<1> QED
  BY <1>1, <1>3, <1>4, <1>5 DEF LineMoves

LEMMA TabsMove ==
  ASSUME NEW mem, DOMAIN mem = Page, NEW x \in Columns, NEW y \in Rows,
         x # NUM_COLS - four_bit
  PROVE  LET s == [mem |-> mem, x |-> x, y |-> y]
         IN TabMoves(s, Tab(s)) /\ DOMAIN Tab(s).mem = Page
<1> DEFINE s == [mem |-> mem, x |-> x, y |-> y]
<1>1. x \in Nat /\ x < NUM_COLS /\ y \in Nat /\ y < NUM_ROWS
  BY Sizes DEF Columns, Rows
<1>2. CASE x < NUM_COLS - four_bit
  <2> DEFINE r == [mem |-> mem, x |-> x + four_bit, y |-> y]
  <2>1. Tab(s) = r
    BY <1>1, <1>2, Sizes DEF Tab
  <2>2. x + four_bit \in Columns
    BY <1>1, <1>2, Sizes DEF Columns
  <2>3. Moves(Paper(r), At(r), r)
    BY <2>2, StayMoves
  <2>4. At(r) = At(s) + four_bit
    BY <1>1, CellRight, Sizes DEF At
  <2>5. Paper(r) = Paper(s)
    BY DEF Paper
  <2> QED
    BY <2>1, <2>3, <2>4, <2>5 DEF TabMoves
<1>3. CASE x > NUM_COLS - four_bit
  <2> DEFINE u == x + four_bit - NUM_COLS
             down == [mem |-> mem, x |-> u, y |-> y + 1]
  <2>1. u \in Columns /\ y + 1 \in 0 .. NUM_ROWS
    BY <1>1, <1>3, Sizes DEF Columns
  <2>2. (x + four_bit) % NUM_COLS = u
    BY <1>1, <1>3, <2>1, Sizes DEF Columns
  <2>3. Tab(s) = Scrolled([mem |-> mem, x |-> (x + four_bit) % NUM_COLS, y |-> y + 1])
    BY <1>1, <1>3, Sizes DEF Tab
  <2>4. Tab(s) = Scrolled(down)
    BY <2>2, <2>3
  <2>5. Moves(Paper(down), At(down), Scrolled(down)) /\ DOMAIN Scrolled(down).mem = Page
    BY <2>1, ScrollMoves
  <2>6. At(down) = At(s) + four_bit
    <3>1. At(down) = Cell(u, y) + NUM_COLS
      BY <1>1, <2>1, CellBelow DEF At, Columns
    <3>2. Cell(u, y) = Cell(x, y) + (four_bit - NUM_COLS)
      BY <1>1, CellRight, Sizes
    <3> QED
      BY <1>1, <3>1, <3>2, CellFacts, Sizes DEF At
  <2>7. Paper(down) = Paper(s)
    BY DEF Paper
  <2> QED
    BY <2>4, <2>5, <2>6, <2>7 DEF TabMoves
<1> QED
  BY <1>1, <1>2, <1>3, Sizes

(* A letter: the cell is in the page, and the cursor goes on by one.       *)
LEMMA MarkMoves ==
  ASSUME NEW mem, DOMAIN mem = Page, NEW x \in Columns, NEW y \in Rows,
         NEW c \in Letters
  PROVE  LET s == [mem |-> mem, x |-> x, y |-> y]
         IN LetterMoves(s, Mark(s, c)) /\ DOMAIN Mark(s, c).mem = Page
<1> DEFINE s == [mem |-> mem, x |-> x, y |-> y]
           m == [mem EXCEPT ![Cell(x, y)] = c]
           u == (x + 1) % NUM_COLS
           v == IF u = 0 THEN y + 1 ELSE y
           on == [mem |-> m, x |-> u, y |-> v]
<1>1. x \in Nat /\ x < NUM_COLS /\ y \in Nat /\ y < NUM_ROWS
  BY Sizes DEF Columns, Rows
<1>2. Mark(s, c) = Scrolled(on)
  BY DEF Mark
<1>3. u \in Columns /\ v \in 0 .. NUM_ROWS
  BY <1>1, Wrapped, Sizes
<1>4. Paper(on) = [Paper(s) EXCEPT ![At(s)] = c] /\ DOMAIN m = Page
  <2>1. Cell(x, y) \in OnScreen /\ At(s) = Cell(x, y)
    BY CellFacts DEF At
  <2> DEFINE p == Cell(x, y)
  <2> HIDE DEF p, u, v
  <2>2. Paper(on) = [Paper(s) EXCEPT ![p] = c] /\ DOMAIN m = Page
    BY <2>1, PaperExcept DEF p
  <2> QED
    BY <2>1, <2>2 DEF p
<1>5. At(on) = At(s) + 1
  <2>1. CASE x + 1 < NUM_COLS
    <3>1. u = x + 1 /\ v = y
      BY <1>1, <2>1, Sizes
    <3> QED
      BY <1>1, <3>1, CellRight DEF At
  <2>2. CASE x + 1 = NUM_COLS
    <3>1. u = 0 /\ v = y + 1
      BY <1>1, <2>2, Sizes
    <3>2. Cell(0, y + 1) = Cell(0, y) + NUM_COLS
      BY <1>1, CellBelow
    <3>3. Cell(x, y) = Cell(0, y) + x
      BY <1>1, CellRight
    <3>4. Cell(0, y) \in Int
      BY <1>1, Sizes DEF Cell
    <3> QED
      BY <1>1, <2>2, <3>1, <3>2, <3>3, <3>4 DEF At
  <2> QED
    BY <1>1, <2>1, <2>2, Sizes
<1> HIDE DEF m, u, v
<1>6. Moves(Paper(on), At(on), Scrolled(on)) /\ DOMAIN Scrolled(on).mem = Page
  BY <1>3, <1>4, ScrollMoves
<1> HIDE DEF on, s
<1>7. Moves([Paper(s) EXCEPT ![At(s)] = c], At(s) + 1, Mark(s, c))
  BY <1>2, <1>4, <1>5, <1>6
<1>8. LetterMoves(s, Mark(s, c)) /\ DOMAIN Mark(s, c).mem = Page
  BY <1>2, <1>6, <1>7 DEF LetterMoves
<1> QED
  BY <1>8 DEF s

(* Taking a character back, if there is one before the cursor.             *)
LEMMA EraseMoves ==
  ASSUME NEW mem, DOMAIN mem = Page, NEW x \in Columns, NEW y \in Rows, NEW c1,
         ~TabAboveTop([mem |-> mem, x |-> x, y |-> y], c1, "bs")
  PROVE  LET s == [mem |-> mem, x |-> x, y |-> y]
             r == Erase(s, c1)
         IN /\ r = s \/ BackTabMoves(s, r) \/ BackMoves(s, r)
            /\ DOMAIN r.mem = Page
<1> DEFINE s == [mem |-> mem, x |-> x, y |-> y]
           r == Erase(s, c1)
<1>1. x \in Nat /\ x < NUM_COLS /\ y \in Nat /\ y < NUM_ROWS
  BY Sizes DEF Columns, Rows
<1>2. At(s) \in Nat /\ At(s) = NUM_COLS * y + x
  BY CellFacts DEF At, Cell
<1>3. CASE x = 0 /\ y = 0
  BY <1>3 DEF Erase
<1>4. ASSUME ~(x = 0 /\ y = 0) PROVE At(s) > 0
  <2>1. CASE y = 0
    BY <1>1, <1>2, <1>4, <2>1, Sizes
  <2>2. CASE y > 0
    <3>1. NUM_COLS * y > 0
      BY <1>1, <2>2, Sizes
    <3> QED
      BY <1>1, <1>2, <3>1, Sizes
  <2> QED
    BY <1>1, <2>1, <2>2
<1>5. CASE ~(x = 0 /\ y = 0) /\ c1 = "tab" /\ x < four_bit
  <2> DEFINE u == NUM_COLS + x - four_bit
             b == [mem |-> mem, x |-> u, y |-> y - 1]
  <2>1. y > 0
    BY <1>1, <1>5, Sizes DEF TabAboveTop
  <2>2. u \in Columns /\ y - 1 \in Rows
    BY <1>1, <1>5, <2>1, Sizes DEF Columns, Rows
  <2>3. r = b
    BY <1>5 DEF Erase
  <2>4. Moves(Paper(b), At(b), b)
    BY <2>2, StayMoves
  <2>5. At(b) = At(s) - four_bit
    <3>1. Cell(u, y) = Cell(u, y - 1) + NUM_COLS
      BY <1>1, <2>2, CellBelow, Sizes DEF Columns, Rows
    <3>2. Cell(u, y) = Cell(x, y) + (NUM_COLS - four_bit)
      BY <1>1, CellRight, Sizes
    <3> QED
      BY <1>1, <2>2, <3>1, <3>2, CellFacts, Sizes DEF At
  <2>6. Paper(b) = Paper(s)
    BY DEF Paper
  <2> QED
    BY <1>4, <1>5, <2>3, <2>4, <2>5, <2>6 DEF BackTabMoves
<1>6. CASE ~(x = 0 /\ y = 0) /\ c1 = "tab" /\ x >= four_bit
  <2> DEFINE b == [mem |-> mem, x |-> x - four_bit, y |-> y]
  <2>1. x - four_bit \in Columns
    BY <1>1, <1>6, Sizes DEF Columns
  <2>2. r = b
    BY <1>1, <1>6, Sizes DEF Erase
  <2>3. Moves(Paper(b), At(b), b)
    BY <2>1, StayMoves
  <2>4. At(b) = At(s) - four_bit
    BY <1>1, Sizes DEF At, Cell
  <2>5. Paper(b) = Paper(s)
    BY DEF Paper
  <2> QED
    BY <1>4, <1>6, <2>2, <2>3, <2>4, <2>5 DEF BackTabMoves
<1>7. CASE ~(x = 0 /\ y = 0) /\ c1 # "tab"
  <2> DEFINE u == IF x = 0 THEN NUM_COLS - 1 ELSE x - 1
             v == IF x = 0 THEN y - 1 ELSE y
             m == [mem EXCEPT ![Cell(u, v)] = Blank]
             b == [mem |-> m, x |-> u, y |-> v]
  <2>1. u \in Columns /\ v \in Rows
    BY <1>1, <1>7, Sizes DEF Columns, Rows
  <2>2. r = b
    BY <1>7 DEF Erase
  <2>3. Cell(u, v) = At(s) - 1
    <3>1. CASE x = 0
      <4>1. Cell(0, y) = Cell(0, y - 1) + NUM_COLS
        BY <1>1, <1>7, <3>1, CellBelow
      <4>2. Cell(NUM_COLS - 1, y - 1) = Cell(0, y - 1) + (NUM_COLS - 1)
        BY <1>1, CellRight, Sizes
      <4>3. Cell(0, y - 1) \in Int
        BY <1>1, Sizes DEF Cell
      <4> QED
        BY <3>1, <4>1, <4>2, <4>3, Sizes DEF At
    <3>2. CASE x # 0
      BY <1>1, <3>2, Sizes DEF At, Cell
    <3> QED
      BY <3>1, <3>2
  <2>4. Paper(b) = [Paper(s) EXCEPT ![At(s) - 1] = Blank] /\ DOMAIN m = Page
    <3>1. Cell(u, v) \in OnScreen
      BY <2>1, CellFacts
    <3> DEFINE p == Cell(u, v)
    <3> HIDE DEF p, u, v
    <3>2. Paper(b) = [Paper(s) EXCEPT ![p] = Blank] /\ DOMAIN m = Page
      BY <3>1, ScreenInPage DEF p, Paper
    <3> QED
      BY <2>3, <3>2 DEF p
  <2>5. At(b) = At(s) - 1
    BY <2>3 DEF At
  <2> HIDE DEF m, u, v
  <2>6. Moves(Paper(b), At(b), b)
    BY <2>1, StayMoves
  <2>7. DOMAIN b.mem = Page
    BY <2>4
  <2> HIDE DEF b, s, r
  <2>8. BackMoves(s, r) /\ DOMAIN r.mem = Page
    BY <1>4, <1>7, <2>2, <2>4, <2>5, <2>6, <2>7 DEF BackMoves
  <2> QED
    BY <2>8 DEF r, s
<1> QED
  BY <1>1, <1>3, <1>5, <1>6, <1>7, Sizes

LEMMA CharacterMoves ==
  ASSUME NEW mem, DOMAIN mem = Page, NEW x \in Columns, NEW y \in Rows, NEW c1,
         NEW c \in Letters \cup Controls,
         ~EdgeTab([mem |-> mem, x |-> x, y |-> y], c),
         ~TabAboveTop([mem |-> mem, x |-> x, y |-> y], c1, c)
  PROVE  LET s == [mem |-> mem, x |-> x, y |-> y]
             r == special_putc(s, c1, c)
         IN /\ r = s \/ PutMoves(s, r)
            /\ DOMAIN r.mem = Page
<1> DEFINE s == [mem |-> mem, x |-> x, y |-> y]
<1>1. CASE c = "nl"
  BY <1>1, NewLineMoves DEF special_putc, PutMoves
<1>2. CASE c = "bs"
  BY <1>2, EraseMoves DEF special_putc, PutMoves
<1>3. CASE c = "tab"
  BY <1>3, TabsMove DEF special_putc, PutMoves, EdgeTab
<1>4. CASE c \notin Controls
  BY <1>4, MarkMoves DEF special_putc, PutMoves, Controls
<1> QED
  BY <1>1, <1>2, <1>3, <1>4 DEF Controls

-----------------------------------------------------------------------------
(* The inductive invariant: the cursors and the copies of ConsoleProofs,   *)
(* whole pages, and what is still to be put.  A message inside a putc is   *)
(* alone: there is no write in progress then.                              *)

Pages ==
  /\ DOMAIN video_mem = Page
  /\ \A t \in Terms : DOMAIN vid_buf[t] = Page

ToPut ==
  /\ call # Idle => call.rest \in Seq(Letters \cup Controls) \ {<<>>}
  /\ printing \in Seq(Letters \cup {"nl"})
  /\ half \in BOOLEAN
  /\ half => call = Idle /\ printing # <<>>

Teletype == Cursors /\ Copies /\ Pages /\ ToPut

LEMMA HeadAndTail ==
  ASSUME NEW S, NEW q \in Seq(S), q # <<>>
  PROVE  Head(q) \in S /\ Tail(q) \in Seq(S)
BY HeadTailProperties

(* What has the cells and the cursor of r moves as r does.                 *)
LEMMA AsMoves ==
  ASSUME NEW s, NEW r, NEW q, q.mem = r.mem, q.x = r.x, q.y = r.y, PutMoves(s, r)
  PROVE  PutMoves(s, q)
<1>1. Paper(q) = Paper(r) /\ At(q) = At(r)
  BY DEF Paper, At
<1>2. ASSUME NEW page, NEW p, Moves(page, p, r) PROVE Moves(page, p, q)
  BY <1>1, <1>2 DEF Moves
<1>3. CASE LetterMoves(s, r)
  BY <1>2, <1>3 DEF LetterMoves, PutMoves
<1>4. CASE LineMoves(s, r)
  BY <1>2, <1>4 DEF LineMoves, PutMoves
<1>5. CASE TabMoves(s, r)
  BY <1>2, <1>5 DEF TabMoves, PutMoves
<1>6. CASE BackTabMoves(s, r)
  BY <1>2, <1>6 DEF BackTabMoves, PutMoves
<1>7. CASE BackMoves(s, r)
  BY <1>2, <1>7 DEF BackMoves, PutMoves
<1> QED
  BY <1>3, <1>4, <1>5, <1>6, <1>7 DEF PutMoves

LEMMA WriteByteMoves ==
  ASSUME Corners = FALSE, Teletype, NEW t \in Terms, NEW prev,
         NEW buffer \in Seq(Letters \cup Controls) \ {<<>>},
         WriteByte(t, prev, buffer)
  PROVE  /\ Screen(t)' = Screen(t) \/ PutMoves(Screen(t), Screen(t)')
         /\ Pages'
<1> DEFINE c == Head(buffer)
<1>1. c \in Letters \cup Controls
  BY HeadAndTail
<1>2. Plain(Screen(t), prev, c) /\ cur_display_tid' = cur_display_tid
  BY DEF WriteByte
<1>3. CASE cur_display_tid = t
  <2> DEFINE r == special_putc(Shown, prev, c)
  <2>1. SetShown(r) /\ UNCHANGED saved
    BY <1>3 DEF WriteByte
  <2>2. ~EdgeTab(Shown, c) /\ ~TabAboveTop(Shown, prev, c)
    BY <1>2, <1>3 DEF Plain, Screen
  <2>3. (r = Shown \/ PutMoves(Shown, r)) /\ DOMAIN r.mem = Page
    BY <1>1, <2>2, CharacterMoves DEF Shown, Teletype, Cursors, Pages
  <2> HIDE DEF r
  <2>4. Screen(t) = Shown /\ Screen(t)' = [mem |-> r.mem, x |-> r.x, y |-> r.y]
    BY <1>2, <1>3, <2>1 DEF Screen, Shown, SetShown
  <2>5. Pages'
    BY <2>1, <2>3 DEF Teletype, Pages, SetShown, saved
  <2>6. ASSUME r = Shown PROVE Screen(t)' = Screen(t)
    BY <2>4, <2>6 DEF Shown
  <2>7. ASSUME PutMoves(Shown, r) PROVE PutMoves(Screen(t), Screen(t)')
    BY <2>4, <2>7, AsMoves
  <2> QED
    BY <2>3, <2>5, <2>6, <2>7
<1>4. CASE cur_display_tid # t
  <2> DEFINE r == special_putc(Stored(t), prev, c)
  <2>1. SetStored(t, r) /\ UNCHANGED display
    BY <1>4, SameRoutine DEF WriteByte
  <2>2. ~EdgeTab(Stored(t), c) /\ ~TabAboveTop(Stored(t), prev, c)
    BY <1>2, <1>4 DEF Plain, Screen
  <2>3. /\ DOMAIN vid_buf[t] = Page
        /\ x_position[t] \in Columns /\ y_position[t] \in Rows
    BY DEF Teletype, Cursors, Pages
  <2>4. (r = Stored(t) \/ PutMoves(Stored(t), r)) /\ DOMAIN r.mem = Page
    BY <1>1, <2>2, <2>3, CharacterMoves DEF Stored
  <2> HIDE DEF r
  <2>5. Screen(t) = Stored(t) /\ Screen(t)' = [mem |-> r.mem, x |-> r.x, y |-> r.y]
    BY <1>2, <1>4, <2>1 DEF Screen, Stored, SetStored, Teletype, Copies
  <2>6. Pages'
    BY <2>1, <2>4 DEF Teletype, Copies, Pages, SetStored, display
  <2>7. ASSUME r = Stored(t) PROVE Screen(t)' = Screen(t)
    BY <2>5, <2>7 DEF Stored
  <2>8. ASSUME PutMoves(Stored(t), r) PROVE PutMoves(Screen(t), Screen(t)')
    BY <2>5, <2>8, AsMoves
  <2> QED
    BY <2>4, <2>6, <2>7, <2>8
<1> QED
  BY <1>3, <1>4

(* The keyboard's characters, on the displayed screen.                     *)
LEMMA ShownMoves ==
  ASSUME Corners = FALSE, Teletype, NEW c1, NEW c \in Letters \cup Controls,
         Plain(Shown, c1, c), SetShown(special_putc(Shown, c1, c)),
         UNCHANGED <<saved, cur_display_tid>>
  PROVE  /\ \/ Screen(cur_display_tid)' = Screen(cur_display_tid)
            \/ PutMoves(Screen(cur_display_tid), Screen(cur_display_tid)')
         /\ Pages'
<1> DEFINE r == special_putc(Shown, c1, c)
<1>1. ~EdgeTab(Shown, c) /\ ~TabAboveTop(Shown, c1, c)
  BY DEF Plain
<1>2. (r = Shown \/ PutMoves(Shown, r)) /\ DOMAIN r.mem = Page
  BY <1>1, CharacterMoves DEF Shown, Teletype, Cursors, Pages
<1>3. SetShown(r)
  OBVIOUS
<1> HIDE DEF r
<1>4. /\ Screen(cur_display_tid) = Shown
      /\ Screen(cur_display_tid)' = [mem |-> r.mem, x |-> r.x, y |-> r.y]
  BY <1>3 DEF Screen, Shown, SetShown
<1>5. Pages'
  BY <1>2, <1>3 DEF Teletype, Pages, SetShown, saved
<1>6. ASSUME r = Shown PROVE Screen(cur_display_tid)' = Screen(cur_display_tid)
  BY <1>4, <1>6 DEF Shown
<1>7. ASSUME PutMoves(Shown, r)
      PROVE  PutMoves(Screen(cur_display_tid), Screen(cur_display_tid)')
  BY <1>4, <1>7, AsMoves
<1> QED
  BY <1>2, <1>5, <1>6, <1>7

LEMMA PagesKeep ==
  ASSUME Corners = FALSE, Teletype, [Next]_vars PROVE Pages'
<1> USE DEF Pages, display, saved
<1>1. ASSUME NEW t \in Terms, terminal_write(t) PROVE Pages'
  <2>1. PICK buffer \in Texts : WriteByte(t, NUL, buffer)
    BY <1>1 DEF terminal_write
  <2>2. buffer \in Seq(Letters \cup Controls) \ {<<>>}
    BY ConsoleAssumption
  <2> QED
    BY <2>1, <2>2, WriteByteMoves
<1>2. ASSUME NEW t \in Terms, terminal_switch(t) PROVE Pages'
  BY <1>2 DEF terminal_switch, SetStored, SetShown, Stored, Shown, Teletype, Copies
<1>3. ASSUME NEW t \in Terms, LineRead(t) PROVE Pages'
  BY <1>3 DEF LineRead, Teletype
<1>4. CASE WriteNext
  BY <1>4, WriteByteMoves DEF WriteNext, Teletype, Cursors, ToPut
<1>5. ASSUME NEW c \in Letters \cup {"nl", "tab"}, Key(c) PROVE Pages'
  BY <1>5, ShownMoves DEF Key, Controls
<1>6. CASE Backspace
  BY <1>6, ShownMoves DEF Backspace, Controls
<1>7. CASE ClearScreen
  BY <1>7 DEF ClearScreen, SetShown, Teletype
<1>8. CASE printf
  BY <1>8 DEF printf, Teletype
<1>9. CASE PutcBegin
  BY <1>9 DEF PutcBegin, Teletype
<1>10. CASE PutcEnd
  BY <1>10 DEF PutcEnd, Teletype
<1>11. CASE UNCHANGED vars
  BY <1>11 DEF vars, Teletype
<1> QED
  BY <1>1, <1>2, <1>3, <1>4, <1>5, <1>6, <1>7, <1>8, <1>9, <1>10, <1>11 DEF Next

LEMMA ToPutKeeps ==
  ASSUME Corners = FALSE, ToPut, [Next]_vars PROVE ToPut'
<1>1. ASSUME NEW t, NEW prev, NEW buffer \in Seq(Letters \cup Controls) \ {<<>>},
             ~half, WriteByte(t, prev, buffer)
      PROVE  ToPut'
  <2>1. Tail(buffer) \in Seq(Letters \cup Controls)
    BY HeadAndTail
  <2>2. UNCHANGED <<printing, half>>
    BY <1>1 DEF WriteByte
  <2>3. call' # Idle => call'.rest \in Seq(Letters \cup Controls) \ {<<>>}
    BY <1>1, <2>1 DEF WriteByte
  <2> QED
    BY <1>1, <2>2, <2>3 DEF ToPut
<1>2. ASSUME NEW t \in Terms, terminal_write(t) PROVE ToPut'
  <2>1. PICK buffer \in Texts : WriteByte(t, NUL, buffer)
    BY <1>2 DEF terminal_write
  <2>2. buffer \in Seq(Letters \cup Controls) \ {<<>>}
    BY ConsoleAssumption
  <2> QED
    BY <1>1, <1>2, <2>1, <2>2 DEF terminal_write, Between
<1>3. ASSUME NEW t \in Terms, terminal_switch(t) PROVE ToPut'
  BY <1>3 DEF terminal_switch, ToPut
<1>4. ASSUME NEW t \in Terms, LineRead(t) PROVE ToPut'
  BY <1>4 DEF LineRead, ToPut
<1>5. CASE WriteNext
  BY <1>1, <1>5 DEF WriteNext, ToPut
<1>6. ASSUME NEW c, Key(c) PROVE ToPut'
  BY <1>6 DEF Key, ToPut
<1>7. CASE Backspace
  BY <1>7 DEF Backspace, ToPut
<1>8. CASE ClearScreen
  BY <1>8 DEF ClearScreen, ToPut
<1>9. CASE printf
  <2>1. UNCHANGED <<call, half>> /\ ~half
    BY <1>9 DEF printf, Between
  <2>2. PICK c \in Letters : printing' = <<c, "nl">>
    BY <1>9 DEF printf
  <2> QED
    BY <2>1, <2>2 DEF ToPut
<1>10. CASE PutcBegin
  BY <1>10 DEF PutcBegin, ToPut
<1>11. CASE PutcEnd
  <2>1. Tail(printing) \in Seq(Letters \cup {"nl"})
    BY <1>11, HeadAndTail DEF PutcEnd, ToPut
  <2> QED
    BY <1>11, <2>1 DEF PutcEnd, ToPut
<1>12. CASE UNCHANGED vars
  BY <1>12 DEF vars, ToPut
<1> QED
  BY <1>2, <1>3, <1>4, <1>5, <1>6, <1>7, <1>8, <1>9, <1>10, <1>11, <1>12 DEF Next

LEMMA TeletypeKeeps ==
  ASSUME Corners = FALSE, Teletype, [Next]_vars PROVE Teletype'
BY CursorsKeep, CopiesKeep, PagesKeep, ToPutKeeps DEF Teletype

LEMMA TeletypeInit == Init => Teletype
<1> SUFFICES ASSUME Init PROVE Teletype
  OBVIOUS
<1>1. Cursors
  BY Sizes DEF Init, Columns, Rows, Cursors
<1>2. Copies /\ Pages
  BY DEF Init, Copies, Pages, EmptyScreen
<1>3. ToPut
  <2>1. <<>> \in Seq(Letters \cup {"nl"})
    OBVIOUS
  <2>2. call = Idle /\ printing = <<>> /\ half = FALSE
    BY DEF Init
  <2> QED
    BY <2>1, <2>2 DEF ToPut
<1> QED
  BY <1>1, <1>2, <1>3 DEF Teletype

-----------------------------------------------------------------------------
(* The mapping.                                                            *)

Papers == [t \in Terms |-> Paper(Screen(t))]
Positions == [t \in Terms |-> Cell(SeenX(t), SeenY(t))]

LEMMA MappedCells == T!Cells = OnScreen
BY Sizes DEF T!Cells, OnScreen

LEMMA MappedState == Papers = [t \in Terms |-> [i \in OnScreen |-> Screen(t).mem[i]]]
BY DEF Papers, Paper

(* Set of Teletypes, and what makes a step one.                            *)
MappedUp(p) == IF p \in T!Cells THEN 0 ELSE NUM_COLS
MappedSet(t, page, p) ==
  /\ Papers' = [Papers EXCEPT ![t] =
                 [i \in T!Cells |-> IF i + MappedUp(p) \in T!Cells
                                    THEN page[i + MappedUp(p)] ELSE Blank]]
  /\ Positions' = [Positions EXCEPT ![t] = p - MappedUp(p)]
  /\ UNCHANGED cur_display_tid

LEMMA SetByMoves ==
  ASSUME NEW t \in Terms, NEW page, NEW p, NEW r, Moves(page, p, r),
         Papers' = [Papers EXCEPT ![t] = Paper(r)],
         Positions' = [Positions EXCEPT ![t] = At(r)],
         cur_display_tid' = cur_display_tid
  PROVE  MappedSet(t, page, p)
<1>1. MappedUp(p) = Up(p)
  BY MappedCells DEF Up, MappedUp
<1> QED
  BY <1>1, MappedCells DEF Moves, MappedSet

(* A step that changes one screen at most, outside a message: the others'  *)
(* papers and positions stay.                                              *)
LEMMA MappedOthers ==
  ASSUME NEW t \in Terms, ~half, ~half',
         \A u \in Terms : u # t => Screen(u)' = Screen(u)
  PROVE  /\ Papers' = [Papers EXCEPT ![t] = Paper(Screen(t)')]
         /\ Positions' = [Positions EXCEPT ![t] = At(Screen(t)')]
<1>1. Papers = [u \in Terms |-> Paper(Screen(u))] /\ Papers' = [u \in Terms |-> Paper(Screen(u)')]
  BY DEF Papers, Paper
<1>2. /\ Positions = [u \in Terms |-> At(Screen(u))]
      /\ Positions' = [u \in Terms |-> At(Screen(u)')]
  BY DEF Positions, SeenX, SeenY, At
<1> QED
  BY <1>1, <1>2

LEMMA MappedPut ==
  ASSUME NEW t \in Terms, ~half, ~half', cur_display_tid' = cur_display_tid,
         \A u \in Terms : u # t => Screen(u)' = Screen(u),
         Screen(t)' = Screen(t) \/ PutMoves(Screen(t), Screen(t)')
  PROVE  [T!Next]_(T!vars)
<1> DEFINE s == Screen(t)
           r == Screen(t)'
<1>1. /\ Papers' = [Papers EXCEPT ![t] = Paper(r)]
      /\ Positions' = [Positions EXCEPT ![t] = At(r)]
  BY MappedOthers
<1>2. ASSUME NEW page, NEW p, Moves(page, p, r) PROVE MappedSet(t, page, p)
  BY <1>1, <1>2, SetByMoves
<1>3. Papers[t] = Paper(s) /\ Positions[t] = At(s)
  BY DEF Papers, Positions, SeenX, SeenY, At
<1> HIDE DEF s, r
<1>5. CASE Screen(t)' = Screen(t)
  <2>1. \A u \in Terms : Screen(u)' = Screen(u)
    BY <1>5
  <2>2. UNCHANGED <<Papers, Positions, cur_display_tid>>
    BY <2>1 DEF Papers, Paper, Positions, SeenX, SeenY
  <2> QED
    BY <2>2 DEF T!vars, Papers, Paper, Positions
<1>6. CASE PutMoves(s, r)
  <2>1. CASE LetterMoves(s, r)
    <3>1. PICK c \in Letters : Moves([Paper(s) EXCEPT ![At(s)] = c], At(s) + 1, r)
      BY <2>1 DEF LetterMoves
    <3>2. Moves([Papers[t] EXCEPT ![Positions[t]] = c], Positions[t] + 1, r)
      BY <1>3, <3>1
    <3>3. MappedSet(t, [Papers[t] EXCEPT ![Positions[t]] = c], Positions[t] + 1)
      BY <1>2, <3>2
    <3>4. T!Letter(t, c)
      BY <3>3 DEF T!Letter, T!Set, MappedSet, MappedUp,
                     Papers, Paper, Positions
    <3> QED
      BY <3>4 DEF T!Put, T!Next
  <2>2. CASE LineMoves(s, r)
    <3>1. Moves(Papers[t], (Positions[t] \div NUM_COLS + 1) * NUM_COLS, r)
      BY <1>3, <2>2 DEF LineMoves
    <3>2. MappedSet(t, Papers[t], (Positions[t] \div NUM_COLS + 1) * NUM_COLS)
      BY <1>2, <3>1
    <3>3. T!NewLine(t)
      BY <3>1, <3>2 DEF T!NewLine, T!LineOf, T!Set, MappedSet, MappedUp,
                     Papers, Paper, Positions
    <3> QED
      BY <3>3 DEF T!Put, T!Next
  <2>3. CASE TabMoves(s, r)
    <3>1. Moves(Papers[t], Positions[t] + four_bit, r)
      BY <1>3, <2>3 DEF TabMoves
    <3>2. MappedSet(t, Papers[t], Positions[t] + four_bit)
      BY <1>2, <3>1
    <3>3. T!Tab(t)
      BY <3>1, <3>2 DEF T!Tab, T!Set, MappedSet, MappedUp,
                     Papers, Paper, Positions
    <3> QED
      BY <3>3 DEF T!Put, T!Next
  <2>4. CASE BackTabMoves(s, r)
    <3>1. Positions[t] > 0 /\ Moves(Papers[t], Positions[t] - four_bit, r)
      BY <1>3, <2>4 DEF BackTabMoves
    <3>2. MappedSet(t, Papers[t], Positions[t] - four_bit)
      BY <1>2, <3>1
    <3>3. T!EraseTab(t)
      BY <3>1, <3>2 DEF T!EraseTab, T!Set, MappedSet, MappedUp,
                     Papers, Paper, Positions
    <3> QED
      BY <3>3 DEF T!Put, T!Next
  <2>5. CASE BackMoves(s, r)
    <3>1. Positions[t] > 0 /\ Moves([Papers[t] EXCEPT ![Positions[t] - 1] = Blank],
                Positions[t] - 1, r)
      BY <1>3, <2>5 DEF BackMoves
    <3>2. MappedSet(t, [Papers[t] EXCEPT ![Positions[t] - 1] = Blank],
                Positions[t] - 1)
      BY <1>2, <3>1
    <3>3. T!EraseOne(t)
      BY <3>1, <3>2 DEF T!EraseOne, T!Set, MappedSet, MappedUp,
                     Papers, Paper, Positions
    <3> QED
      BY <3>3 DEF T!Put, T!Next
  <2> QED
    BY <1>6, <2>1, <2>2, <2>3, <2>4, <2>5 DEF PutMoves
<1> QED
  BY <1>5, <1>6 DEF s, r

(* Ctrl+L empties the shown page.                                          *)
LEMMA MappedClear ==
  ASSUME Teletype, Corners = FALSE, ClearScreen PROVE T!Clear(cur_display_tid)
<1> DEFINE t == cur_display_tid
           r == Screen(t)'
<1>1. t \in Terms /\ ~half /\ half' = half /\ cur_display_tid' = cur_display_tid
  BY DEF ClearScreen, Between, Teletype, Copies
<1>2. \A u \in Terms : u # t => Screen(u)' = Screen(u)
  BY ShownOnly DEF ClearScreen
<1>3. /\ Papers' = [Papers EXCEPT ![t] = Paper(r)]
      /\ Positions' = [Positions EXCEPT ![t] = At(r)]
  BY <1>1, <1>2, MappedOthers
<1>4. r = [mem |-> [i \in Page |-> IF i \in OnScreen THEN Blank ELSE video_mem[i]],
           x |-> 0, y |-> 0]
  BY <1>1 DEF ClearScreen, SetShown, Screen, Shown
<1>5. Paper(r) = [i \in OnScreen |-> Blank]
  BY <1>4, ScreenInPage DEF Paper
<1>6. At(r) = 0 /\ 0 \in OnScreen
  BY <1>4, CellFacts, Sizes DEF At, Cell, Columns, Rows
<1>7. T!EmptyPage = [i \in OnScreen |-> Blank]
  BY MappedCells DEF T!EmptyPage
<1> HIDE DEF r
<1>8. Moves(T!EmptyPage, 0, r)
  BY <1>5, <1>6, <1>7, ScreenInPage DEF Moves, Up
<1>9. MappedSet(t, T!EmptyPage, 0)
  BY <1>1, <1>3, <1>8, SetByMoves
<1> QED
  BY <1>9 DEF T!Clear, T!Set, MappedSet, MappedUp, Papers, Paper, Positions

(* The first half of a putc does to the page what the whole will have      *)
(* done.                                                                   *)
LEMMA MappedMessage ==
  ASSUME Teletype, Corners = FALSE, PutcBegin PROVE T!Message(cur_display_tid)
<1> DEFINE t == cur_display_tid
           s == Screen(t)
           c == Head(printing)
           here == Cell(screen_x, screen_y)
           m == IF c = "nl" THEN video_mem ELSE [video_mem EXCEPT ![here] = c]
           v == IF c = "nl" THEN screen_y + 1 ELSE screen_y
           u == IF c = "nl" THEN 0 ELSE (screen_x + 1) % NUM_COLS
           r == [mem |-> m, x |-> u, y |-> v]
<1>1. /\ t \in Terms /\ ~half /\ half' = TRUE
      /\ UNCHANGED <<saved, cur_display_tid, printing>>
  BY DEF PutcBegin, Teletype, Copies
<1>2. /\ screen_x \in Columns /\ screen_y \in Rows /\ DOMAIN video_mem = Page
      /\ screen_y \in Nat /\ screen_y < NUM_ROWS
  BY Sizes DEF Teletype, Cursors, Pages, Rows
<1>3. c \in Letters \cup {"nl"}
  BY HeadAndTail DEF PutcBegin, Teletype, ToPut
<1>4. c = "nl" => screen_y + 1 < NUM_ROWS
  BY <1>2, Sizes DEF PutcBegin, BottomMessage
<1>5. u \in Columns /\ v \in Rows
  BY <1>2, <1>4, Wrapped, Sizes DEF Columns, Rows
<1>6. video_mem' = m /\ screen_x' = screen_x /\ screen_y' = v
  BY DEF PutcBegin
<1>7. SeenX(t)' = u /\ SeenY(t)' = v
  <2>1. screen_y' % NUM_ROWS = screen_y'
    BY <1>2, <1>4, <1>6, Sizes
  <2>2. c' = c
    BY <1>1
  <2> QED
    BY <1>1, <1>6, <2>1, <2>2 DEF SeenX, SeenY, PutX, PutY
<1>8. ASSUME NEW w \in Terms, w # t
      PROVE  /\ Screen(w)' = Screen(w)
             /\ SeenX(w)' = SeenX(w) /\ SeenY(w)' = SeenY(w)
  <2>1. Screen(w)' = Screen(w)
    BY <1>1, <1>8, ShownOnly
  <2> QED
    BY <1>1, <1>8, <2>1 DEF SeenX, SeenY
<1>9. Screen(t)'.mem = m
  BY <1>1, <1>6 DEF Screen, Shown
<1> HIDE DEF m, u, v
<1>10. /\ Papers' = [Papers EXCEPT ![t] = Paper(r)]
       /\ Positions' = [Positions EXCEPT ![t] = At(r)]
  <2>1. Papers = [w \in Terms |-> Paper(Screen(w))] /\ Papers' = [w \in Terms |-> Paper(Screen(w)')]
    BY DEF Papers, Paper
  <2>2. Paper(Screen(t)') = Paper(r)
    BY <1>9 DEF Paper
  <2>3. Papers' = [Papers EXCEPT ![t] = Paper(r)]
    BY <1>1, <1>8, <2>1, <2>2
  <2>4. /\ Positions = [w \in Terms |-> Cell(SeenX(w), SeenY(w))]
        /\ Positions' = [w \in Terms |-> Cell(SeenX(w)', SeenY(w)')]
    BY DEF Positions, Cell
  <2>5. Positions' = [Positions EXCEPT ![t] = At(r)]
    BY <1>1, <1>7, <1>8, <2>4 DEF At
  <2> QED
    BY <2>3, <2>5
<1>11. Papers[t] = Paper(Shown) /\ Positions[t] = here
  BY <1>1 DEF Papers, Positions, SeenX, SeenY, Screen, Shown
<1>12. Moves(Paper(r), At(r), r)
  BY <1>5, StayMoves
<1>13. here \in OnScreen /\ here \div NUM_COLS = screen_y
  BY <1>2, CellFacts, CellLine
<1>14. CASE c = "nl"
  <2>1. Paper(r) = Papers[t]
    BY <1>11, <1>14 DEF Paper, Shown, m
  <2>2. At(r) = (Positions[t] \div NUM_COLS + 1) * NUM_COLS
    <3>1. At(r) = NUM_COLS * (screen_y + 1)
      BY <1>2, <1>14, Sizes DEF At, Cell, u, v
    <3> QED
      BY <1>2, <1>11, <1>13, <3>1, Sizes
  <2>3. Moves(Papers[t], (Positions[t] \div NUM_COLS + 1) * NUM_COLS, r)
    BY <1>12, <2>1, <2>2
  <2>4. MappedSet(t, Papers[t], (Positions[t] \div NUM_COLS + 1) * NUM_COLS)
    BY <1>1, <1>10, <2>3, SetByMoves
  <2>5. T!NewLine(t)
    BY <2>4 DEF T!NewLine, T!LineOf, T!Set, MappedSet, MappedUp, Papers, Paper, Positions
  <2> QED
    BY <2>5 DEF T!Message
<1>15. CASE c # "nl"
  <2> DEFINE p == NUM_COLS * (Positions[t] \div NUM_COLS) + ((Positions[t] + 1) % NUM_COLS)
  <2>1. Paper(r) = [Papers[t] EXCEPT ![Positions[t]] = c]
    BY <1>2, <1>11, <1>13, <1>15, ScreenInPage DEF Paper, Shown, m
  <2>2. At(r) = p
    <3>1. (here + 1) % NUM_COLS = (screen_x + 1) % NUM_COLS
      BY <1>2, NextColumn
    <3>2. At(r) = NUM_COLS * screen_y + ((screen_x + 1) % NUM_COLS)
      BY <1>15 DEF At, Cell, u, v
    <3> QED
      BY <1>11, <1>13, <3>1, <3>2
  <2>3. Moves([Papers[t] EXCEPT ![Positions[t]] = c], p, r)
    BY <1>12, <2>1, <2>2
  <2>4. MappedSet(t, [Papers[t] EXCEPT ![Positions[t]] = c], p)
    BY <1>1, <1>10, <2>3, SetByMoves
  <2>5. \E d \in Letters : MappedSet(t, [Papers[t] EXCEPT ![Positions[t]] = d], p)
    BY <1>3, <1>15, <2>4
  <2> QED
    BY <2>5 DEF T!Message, T!LineOf, T!Set, MappedSet, MappedUp, Papers, Paper, Positions
<1> QED
  BY <1>14, <1>15

LEMMA MappedStutter ==
  ASSUME UNCHANGED <<display, saved, cur_display_tid, printing, half>>
  PROVE  UNCHANGED T!vars
<1>1. \A t \in Terms : /\ Screen(t)' = Screen(t)
                       /\ SeenX(t)' = SeenX(t) /\ SeenY(t)' = SeenY(t)
  BY DEF display, saved, Screen, Shown, Stored, SeenX, SeenY, PutX, PutY
<1>2. UNCHANGED <<Papers, Positions>>
  BY <1>1 DEF Papers, Paper, Positions, Cell
<1> QED
  BY <1>2 DEF T!vars, Papers, Paper, Positions

LEMMA MappedStep ==
  ASSUME Corners = FALSE, Teletype, [Next]_vars PROVE [T!Next]_(T!vars)
<1>1. ASSUME NEW t \in Terms, NEW prev, ~half,
             NEW buffer \in Seq(Letters \cup Controls) \ {<<>>},
             WriteByte(t, prev, buffer)
      PROVE  [T!Next]_(T!vars)
  <2>1. cur_display_tid' = cur_display_tid /\ ~half'
    BY <1>1 DEF WriteByte
  <2>2. \A u \in Terms : u # t => Screen(u)' = Screen(u)
    BY <1>1, WriteOwn DEF Teletype
  <2>3. Screen(t)' = Screen(t) \/ PutMoves(Screen(t), Screen(t)')
    BY <1>1, WriteByteMoves
  <2> QED
    BY <1>1, <2>1, <2>2, <2>3, MappedPut
<1>2. ASSUME NEW t \in Terms, terminal_write(t) PROVE [T!Next]_(T!vars)
  <2>1. PICK buffer \in Texts : WriteByte(t, NUL, buffer)
    BY <1>2 DEF terminal_write
  <2>2. buffer \in Seq(Letters \cup Controls) \ {<<>>} /\ ~half
    BY <1>2, ConsoleAssumption DEF terminal_write, Between
  <2> QED
    BY <1>1, <2>1, <2>2
<1>3. CASE WriteNext
  <2>1. call # Idle /\ WriteByte(call.tid, call.prev, call.rest)
    BY <1>3 DEF WriteNext
  <2>2. /\ call.tid \in Terms /\ ~half
        /\ call.rest \in Seq(Letters \cup Controls) \ {<<>>}
    BY <2>1 DEF Teletype, Cursors, ToPut
  <2> QED
    BY <1>1, <2>1, <2>2
<1>4. ASSUME NEW t \in Terms, terminal_switch(t) PROVE [T!Next]_(T!vars)
  <2>1. cur_display_tid' = t /\ ~half /\ ~half'
    BY <1>4 DEF terminal_switch, Between
  <2>2. \A u \in Terms : Screen(u)' = Screen(u)
    BY <1>4, SwitchKeepsScreens DEF Teletype
  <2>3. UNCHANGED <<Papers, Positions>>
    BY <2>1, <2>2 DEF Papers, Paper, Positions, SeenX, SeenY, Cell
  <2>4. T!Show(t)
    BY <2>1, <2>3 DEF T!Show, Papers, Paper, Positions
  <2> QED
    BY <2>4 DEF T!Next
<1>5. ASSUME NEW c1, NEW c \in Letters \cup Controls, call = Idle, Between,
             Plain(Shown, c1, c), SetShown(special_putc(Shown, c1, c)),
             UNCHANGED <<saved, cur_display_tid, half>>
      PROVE  [T!Next]_(T!vars)
  <2> DEFINE t == cur_display_tid
  <2>1. ~half /\ ~half' /\ t \in Terms /\ cur_display_tid' = cur_display_tid
    BY <1>5 DEF Between, Teletype, Copies
  <2>2. \A u \in Terms : u # t => Screen(u)' = Screen(u)
    BY <1>5, ShownOnly
  <2>3. Screen(t)' = Screen(t) \/ PutMoves(Screen(t), Screen(t)')
    BY <1>5, ShownMoves
  <2> QED
    BY <2>1, <2>2, <2>3, MappedPut
<1>6. ASSUME NEW c \in Letters \cup {"nl", "tab"}, Key(c) PROVE [T!Next]_(T!vars)
  BY <1>5, <1>6 DEF Key, Controls
<1>7. CASE Backspace
  BY <1>5, <1>7 DEF Backspace, Controls
<1>8. CASE ClearScreen
  BY <1>8, MappedClear DEF T!Next
<1>9. CASE PutcBegin
  BY <1>9, MappedMessage DEF T!Next
<1>10. CASE PutcEnd
  <2>1. /\ half /\ ~half' /\ UNCHANGED <<video_mem, saved, cur_display_tid>>
        /\ screen_x' = PutX(Head(printing)) /\ screen_y' = PutY(Head(printing))
    BY <1>10 DEF PutcEnd
  <2>2. ASSUME NEW t \in Terms
        PROVE  /\ Paper(Screen(t))' = Paper(Screen(t))
               /\ SeenX(t)' = SeenX(t) /\ SeenY(t)' = SeenY(t)
    <3>1. CASE t = cur_display_tid
      BY <2>1, <3>1 DEF Screen, Shown, Paper, SeenX, SeenY
    <3>2. CASE t # cur_display_tid
      BY <2>1, <3>2 DEF Screen, Stored, saved, Paper, SeenX, SeenY
    <3> QED
      BY <3>1, <3>2
  <2>3. UNCHANGED <<Papers, Positions, cur_display_tid>>
    BY <2>1, <2>2 DEF Papers, Positions, Cell
  <2> QED
    BY <2>3 DEF T!vars, Papers, Paper, Positions
<1>11. ASSUME NEW t \in Terms, LineRead(t) PROVE [T!Next]_(T!vars)
  BY <1>11, MappedStutter DEF LineRead
<1>12. CASE printf
  <2>1. ~half /\ ~half' /\ UNCHANGED <<display, saved, cur_display_tid>>
    BY <1>12 DEF printf, Between
  <2>2. \A t \in Terms : Screen(t)' = Screen(t)
    BY <2>1 DEF display, saved, Screen, Shown, Stored
  <2>3. UNCHANGED <<Papers, Positions, cur_display_tid>>
    BY <2>1, <2>2 DEF Papers, Paper, Positions, SeenX, SeenY, Cell
  <2> QED
    BY <2>3 DEF T!vars, Papers, Paper, Positions
<1>13. CASE UNCHANGED vars
  BY <1>13, MappedStutter DEF vars
<1> QED
  BY <1>2, <1>3, <1>4, <1>6, <1>7, <1>8, <1>9, <1>10, <1>11, <1>12, <1>13 DEF Next

LEMMA MappedInit == Init => T!Init
<1> SUFFICES ASSUME Init PROVE T!Init
  OBVIOUS
<1>1. \A t \in Terms : Screen(t) = [mem |-> EmptyScreen, x |-> 0, y |-> 0]
  BY DEF Init, Screen, Shown, Stored
<1>2. \A i \in OnScreen : EmptyScreen[i] = Blank
  BY ScreenInPage DEF EmptyScreen
<1>3. Papers = [t \in Terms |-> T!EmptyPage]
  BY <1>1, <1>2, MappedCells DEF Papers, Paper, T!EmptyPage
<1>4. ~half /\ cur_display_tid \in Terms
  BY DEF Init
<1>5. Positions = [t \in Terms |-> 0]
  BY <1>1, <1>4, Sizes DEF Positions, SeenX, SeenY, Cell
<1> QED
  BY <1>3, <1>4, <1>5 DEF T!Init, Papers, Paper, Positions

(* Without the four corner cases the console is one teletype for each      *)
(* terminal, whatever the size of the screen, the number of terminals and  *)
(* the texts: the shared screen and cursor, their copies and the switch    *)
(* between them cannot be told from screens of their own.                  *)
THEOREM OneTeletypeEach ==
  ASSUME Corners = FALSE PROVE Spec => ImplementsTeletypes
<1>1. Init => Teletype
  BY TeletypeInit
<1>2. Teletype /\ [Next]_vars => Teletype'
  BY TeletypeKeeps
<1>3. Teletype /\ [Next]_vars => [T!Next]_(T!vars)
  BY MappedStep
<1>4. Init => T!Init
  BY MappedInit
<1> QED
  BY <1>1, <1>2, <1>3, <1>4, PTL DEF Spec, ImplementsTeletypes, T!Spec

-----------------------------------------------------------------------------
(* What is typed and taken back.  Scrolling or not, the cells before the   *)
(* cursor are where they were, or one line higher.                         *)

Undone(mem, here, typed, back) ==
  LET up == here - At(back)
  IN /\ up = 0 \/ (up = NUM_COLS /\ typed.y = NUM_ROWS - 1)
     /\ \A i \in 0 .. here - 1 - up : back.mem[i] = mem[i + up]

LEMMA UndoneInPlace ==
  ASSUME NEW mem, NEW here \in OnScreen, NEW typed, NEW back, At(back) = here,
         \A i \in Page : i # here => back.mem[i] = mem[i]
  PROVE  Undone(mem, here, typed, back)
<1>1. here \in Int
  BY ScreenInPage
<1>2. here - At(back) = 0
  BY <1>1
<1>3. ASSUME NEW i \in 0 .. here - 1 - 0 PROVE back.mem[i] = mem[i + 0]
  <2>1. i \in OnScreen /\ i # here /\ i + 0 = i
    BY <1>1, Sizes DEF OnScreen
  <2>2. i \in Page
    BY <2>1, ScreenInPage
  <2> QED
    BY <2>1, <2>2
<1> QED
  BY <1>2, <1>3 DEF Undone

(* The screen scrolled: the last line's here is one line higher.           *)
LEMMA UndoneScrolled ==
  ASSUME NEW mem, NEW m, NEW here \in OnScreen, NEW typed, NEW back,
         At(back) = here - NUM_COLS, typed.y = NUM_ROWS - 1,
         \A i \in Page : i # here => m[i] = mem[i],
         \A i \in Page : i # here - NUM_COLS => back.mem[i] = scrolling_oneline(m)[i]
  PROVE  Undone(mem, here, typed, back)
<1>1. here \in Int /\ NUM_COLS \in Int /\ NUM_COLS > 0
  BY ScreenInPage, Sizes
<1>2. here - At(back) = NUM_COLS
  BY <1>1
<1>3. ASSUME NEW i \in 0 .. here - 1 - NUM_COLS PROVE back.mem[i] = mem[i + NUM_COLS]
  <2>1. /\ i \in OnScreen /\ i + NUM_COLS \in OnScreen
        /\ i # here - NUM_COLS /\ i + NUM_COLS # here
    BY <1>1, Sizes DEF OnScreen
  <2>2. i \in Page /\ i + NUM_COLS \in Page
    BY <2>1, ScreenInPage
  <2>3. scrolling_oneline(m)[i] = m[i + NUM_COLS]
    BY <2>1, <2>2 DEF scrolling_oneline
  <2> QED
    BY <2>1, <2>2, <2>3
<1> QED
  BY <1>2, <1>3 DEF Undone

LEMMA TabUndone ==
  ASSUME NEW mem, NEW x \in Columns, NEW y \in Rows, x # NUM_COLS - four_bit
  PROVE  LET s == [mem |-> mem, x |-> x, y |-> y]
         IN Undone(mem, Cell(x, y), Tab(s), Erase(Tab(s), "tab"))
<1> DEFINE s == [mem |-> mem, x |-> x, y |-> y]
           here == Cell(x, y)
<1>1. x \in Nat /\ x < NUM_COLS /\ y \in Nat /\ y < NUM_ROWS
  BY Sizes DEF Columns, Rows
<1>2. here \in OnScreen
  BY CellFacts
<1>3. CASE x < NUM_COLS - four_bit
  <2> DEFINE r == [mem |-> mem, x |-> x + four_bit, y |-> y]
  <2>1. Tab(s) = r
    BY <1>1, <1>3, Sizes DEF Tab
  <2>2. Erase(r, "tab") = s
    BY <1>1, Sizes DEF Erase
  <2> QED
    BY <1>2, <2>1, <2>2, UndoneInPlace DEF At
<1>4. CASE x > NUM_COLS - four_bit
  <2> DEFINE u == x + four_bit - NUM_COLS
             down == [mem |-> mem, x |-> u, y |-> y + 1]
  <2>1. u \in Nat /\ u > 0 /\ u < four_bit /\ NUM_COLS + u - four_bit = x
    BY <1>1, <1>4, Sizes
  <2>2. (x + four_bit) % NUM_COLS = u
    BY <1>1, <1>4, <2>1, Sizes
  <2>3. Tab(s) = Scrolled(down)
    <3>1. Tab(s) = Scrolled([mem |-> mem, x |-> (x + four_bit) % NUM_COLS, y |-> y + 1])
      BY <1>1, <1>4, Sizes DEF Tab
    <3> QED
      BY <2>2, <3>1
  <2> HIDE DEF u
  <2>4. CASE y + 1 < NUM_ROWS
    <3>1. Tab(s) = down
      BY <2>3, <2>4 DEF Scrolled
    <3>2. Erase(down, "tab") = s
      BY <1>1, <2>1 DEF Erase
    <3> QED
      BY <1>2, <3>1, <3>2, UndoneInPlace DEF At
  <2>5. CASE y + 1 = NUM_ROWS
    <3> DEFINE m == scrolling_oneline(mem)
               r == [mem |-> m, x |-> u, y |-> NUM_ROWS - 1]
               b == [mem |-> m, x |-> x, y |-> NUM_ROWS - 1 - 1]
    <3>1. Tab(s) = r
      BY <1>1, <2>3, <2>5, Sizes DEF Scrolled
    <3>2. Erase(r, "tab") = b
      BY <1>1, <2>1, Sizes DEF Erase
    <3>3. At(b) = here - NUM_COLS
      <4>1. Cell(x, y - 1 + 1) = Cell(x, y - 1) + NUM_COLS
        BY <1>1, CellBelow
      <4>2. y - 1 + 1 = y /\ NUM_ROWS - 1 - 1 = y - 1
        BY <1>1, <2>5, Sizes
      <4>3. Cell(x, y - 1) \in Int /\ NUM_COLS \in Int
        BY <1>1, Sizes DEF Cell
      <4> QED
        BY <4>1, <4>2, <4>3 DEF At
    <3> HIDE DEF m, here
    <3>4. Undone(mem, here, r, b)
      BY <1>2, <3>3, UndoneScrolled DEF m
    <3> QED
      BY <3>1, <3>2, <3>4 DEF here
  <2> QED
    BY <1>1, <2>4, <2>5, Sizes
<1> QED
  BY <1>1, <1>3, <1>4, Sizes

LEMMA MarkUndone ==
  ASSUME NEW mem, DOMAIN mem = Page, NEW x \in Columns, NEW y \in Rows,
         NEW c, c # "tab"
  PROVE  LET s == [mem |-> mem, x |-> x, y |-> y]
         IN Undone(mem, Cell(x, y), Mark(s, c), Erase(Mark(s, c), c))
<1> DEFINE s == [mem |-> mem, x |-> x, y |-> y]
           here == Cell(x, y)
           m == [mem EXCEPT ![here] = c]
<1>1. x \in Nat /\ x < NUM_COLS /\ y \in Nat /\ y < NUM_ROWS
  BY Sizes DEF Columns, Rows
<1>2. here \in OnScreen
  BY CellFacts
<1>3. DOMAIN m = Page /\ \A i \in Page : i # here => m[i] = mem[i]
  OBVIOUS
<1>4. CASE x + 1 < NUM_COLS
  <2> DEFINE r == [mem |-> m, x |-> x + 1, y |-> y]
             b == [mem |-> [m EXCEPT ![here] = Blank], x |-> x, y |-> y]
  <2>1. Mark(s, c) = r
    <3>1. (x + 1) % NUM_COLS = x + 1 /\ x + 1 # 0
      BY <1>1, <1>4, Sizes
    <3> QED
      BY <1>1, <3>1 DEF Mark, Scrolled
  <2>2. Erase(r, c) = b
    BY <1>1 DEF Erase
  <2>3. \A i \in Page : i # here => b.mem[i] = mem[i]
    BY <1>3
  <2>4. At(b) = here
    BY DEF At
  <2> HIDE DEF b, r, here
  <2>5. Undone(mem, here, r, b)
    BY <1>2, <2>3, <2>4, UndoneInPlace
  <2> QED
    BY <2>1, <2>2, <2>5 DEF here
<1>5. CASE x + 1 = NUM_COLS
  <2>1. (x + 1) % NUM_COLS = 0 /\ x = NUM_COLS - 1
    BY <1>1, <1>5, Sizes
  <2>2. Mark(s, c) = Scrolled([mem |-> m, x |-> 0, y |-> y + 1])
    BY <2>1 DEF Mark
  <2>3. CASE y + 1 < NUM_ROWS
    <3> DEFINE r == [mem |-> m, x |-> 0, y |-> y + 1]
               b == [mem |-> [m EXCEPT ![here] = Blank], x |-> x, y |-> y]
    <3>1. Mark(s, c) = r
      BY <2>2, <2>3 DEF Scrolled
    <3>2. Erase(r, c) = b
      BY <1>1, <2>1 DEF Erase
    <3>3. \A i \in Page : i # here => b.mem[i] = mem[i]
      BY <1>3
    <3>4. At(b) = here
      BY DEF At
    <3> HIDE DEF b, r, here
    <3>5. Undone(mem, here, r, b)
      BY <1>2, <3>3, <3>4, UndoneInPlace
    <3> QED
      BY <3>1, <3>2, <3>5 DEF here
  <2>4. CASE y + 1 = NUM_ROWS
    <3> DEFINE r == [mem |-> scrolling_oneline(m), x |-> 0, y |-> NUM_ROWS - 1]
               above == Cell(x, NUM_ROWS - 1 - 1)
               b == [mem |-> [scrolling_oneline(m) EXCEPT ![above] = Blank],
                     x |-> x, y |-> NUM_ROWS - 1 - 1]
    <3>1. Mark(s, c) = r
      BY <1>1, <2>2, <2>4, Sizes DEF Scrolled
    <3>2. Erase(r, c) = b
      BY <1>1, <2>1, Sizes DEF Erase
    <3>3. above = here - NUM_COLS
      <4>1. Cell(x, y - 1 + 1) = Cell(x, y - 1) + NUM_COLS
        BY <1>1, CellBelow
      <4>2. y - 1 + 1 = y /\ NUM_ROWS - 1 - 1 = y - 1
        BY <1>1, <2>4, Sizes
      <4>3. Cell(x, y - 1) \in Int /\ NUM_COLS \in Int
        BY <1>1, Sizes DEF Cell
      <4> QED
        BY <4>1, <4>2, <4>3
    <3>4. DOMAIN scrolling_oneline(m) = Page
      BY DEF scrolling_oneline
    <3>5. \A i \in Page : i # above => b.mem[i] = scrolling_oneline(m)[i]
      BY <3>4
    <3>6. At(b) = above /\ r.y = NUM_ROWS - 1
      BY DEF At
    <3> HIDE DEF b, r, m, here, above
    <3>7. Undone(mem, here, r, b)
      BY <1>2, <1>3, <3>3, <3>5, <3>6, UndoneScrolled
    <3> QED
      BY <3>1, <3>2, <3>7 DEF here
  <2> QED
    BY <1>1, <2>3, <2>4, Sizes
<1> QED
  BY <1>1, <1>4, <1>5, Sizes

LEMMA ErasesWhatIsTyped ==
  ASSUME Corners = FALSE, Teletype PROVE EraseUndoes
<1>1. /\ screen_x \in Columns /\ screen_y \in Rows /\ DOMAIN video_mem = Page
  BY DEF Teletype, Cursors, Pages
<1> SUFFICES ASSUME NEW c \in Letters \cup {"tab"}, Plain(Shown, NUL, c)
             PROVE  Undone(video_mem, Cell(screen_x, screen_y), special_putc(Shown, NUL, c),
                           special_putc(special_putc(Shown, NUL, c), c, "bs"))
  BY DEF EraseUndoes, Undone, At
<1>2. \A s : special_putc(s, c, "bs") = Erase(s, c)
  BY DEF special_putc
<1>3. CASE c = "tab"
  <2>1. special_putc(Shown, NUL, c) = Tab(Shown)
    BY <1>3 DEF special_putc
  <2>2. screen_x # NUM_COLS - four_bit
    BY <1>3 DEF Plain, EdgeTab, Shown
  <2> QED
    BY <1>1, <1>2, <1>3, <2>1, <2>2, TabUndone DEF Shown
<1>4. CASE c # "tab"
  <2>1. c \notin Controls
    BY <1>4, ConsoleAssumption
  <2>2. special_putc(Shown, NUL, c) = Mark(Shown, c)
    BY <2>1 DEF special_putc, Controls
  <2> QED
    BY <1>1, <1>2, <1>4, <2>2, MarkUndone DEF Shown
<1> QED
  BY <1>3, <1>4

(* Without the four corner cases, on a screen of any size: what is typed   *)
(* and taken back leaves everything before the cursor as it was, also when *)
(* the screen scrolled in between (lib.c:253).                             *)
THEOREM TypedIsErased ==
  ASSUME Corners = FALSE PROVE Spec => []EraseUndoes
<1>1. Init => Teletype
  BY TeletypeInit
<1>2. Teletype /\ [Next]_vars => Teletype'
  BY TeletypeKeeps
<1>3. Teletype => EraseUndoes
  BY ErasesWhatIsTyped
<1> QED
  BY <1>1, <1>2, <1>3, PTL DEF Spec
=============================================================================
