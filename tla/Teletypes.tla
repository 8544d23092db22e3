----------------------------- MODULE Teletypes -----------------------------
(***************************************************************************)
(* What the terminals promise: each is a teletype of its own, a page of    *)
(* cells and a position in it, whoever is shown.  Programs write on their  *)
(* own page, keys and the kernel's messages go to the page that is shown,  *)
(* and showing another page changes none of them.                          *)
(***************************************************************************)
EXTENDS Integers

CONSTANTS
  Terms,    (* the terminals                                               *)
  ROWS,     (* lines of a page                                             *)
  COLS,     (* cells of a line                                             *)
  TAB,      (* cells of a tab                                              *)
  Letters,  (* the characters that leave a mark                            *)
  Blank     (* an empty cell                                               *)

VARIABLES
  text,   (* the cells of each page, line after line                       *)
  pos,    (* where its next character goes                                 *)
  shown   (* the page on the screen                                        *)

vars == <<text, pos, shown>>

Cells == 0 .. ROWS * COLS - 1
EmptyPage == [i \in Cells |-> Blank]

Init ==
  /\ text = [t \in Terms |-> EmptyPage]
  /\ pos = [t \in Terms |-> 0]
  /\ shown \in Terms

LineOf(p) == p \div COLS

(* The page and the position move up together when the position leaves the *)
(* last line.                                                              *)
Set(t, page, p) ==
  LET up == IF p \in Cells THEN 0 ELSE COLS
      at(i) == IF i + up \in Cells THEN page[i + up] ELSE Blank
  IN /\ text' = [text EXCEPT ![t] = [i \in Cells |-> at(i)]]
     /\ pos' = [pos EXCEPT ![t] = p - up]
     /\ UNCHANGED shown

Letter(t, c)  == Set(t, [text[t] EXCEPT ![pos[t]] = c], pos[t] + 1)
NewLine(t)    == Set(t, text[t], (LineOf(pos[t]) + 1) * COLS)
Tab(t)        == Set(t, text[t], pos[t] + TAB)
EraseTab(t)   == pos[t] > 0 /\ Set(t, text[t], pos[t] - TAB)
EraseOne(t)   == pos[t] > 0 /\ Set(t, [text[t] EXCEPT ![pos[t] - 1] = Blank], pos[t] - 1)

Put(t) ==
  \/ \E c \in Letters : Letter(t, c)
  \/ NewLine(t) \/ Tab(t) \/ EraseTab(t) \/ EraseOne(t)

Clear(t) == Set(t, EmptyPage, 0)

(* The kernel's own messages stay on their line.                           *)
Message(t) ==
  \/ \E c \in Letters :
       Set(t, [text[t] EXCEPT ![pos[t]] = c],
           COLS * LineOf(pos[t]) + ((pos[t] + 1) % COLS))
  \/ NewLine(t)

Show(t) == shown' = t /\ UNCHANGED <<text, pos>>

Next ==
  \/ \E t \in Terms : Put(t) \/ Show(t)
  \/ Clear(shown) \/ Message(shown)

Spec == Init /\ [][Next]_vars
=============================================================================
