----------------------------- MODULE MCConsole -----------------------------
(***************************************************************************)
(* Console with what programs write: a letter, a line, a tab and what      *)
(* takes each of them back; a backspace that begins a write counts as one  *)
(* of a letter, whatever is before the cursor.                             *)
(***************************************************************************)
EXTENDS Console, TLC

MCTexts ==
  {<<"a">>, <<"a", "nl">>, <<"tab", "a">>, <<"tab", "bs">>, <<"bs">>}

TermsAlike == Permutations(Terms)
=============================================================================
