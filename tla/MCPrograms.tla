----------------------------- MODULE MCPrograms -----------------------------
(***************************************************************************)
(* A directory, files of few lines and commands for Programs.  Buffers of  *)
(* four bytes hold a line, or two, or cut one anywhere.                    *)
(***************************************************************************)
EXTENDS Programs, TLC

Entry(name, kind, bytes) == [name |-> name, kind |-> kind, bytes |-> bytes]

MCEntries ==
  <<Entry(<<".">>, "dir", <<>>), Entry(<<"r">>, "rtc", <<>>),
    Entry(<<"c", "a", "t">>, "cat", <<"E", "a", "NUL", NL, "a", "a", "a", "a", "a">>),
    Entry(<<"g">>, "grep", <<"E">>),
    Entry(<<"l", "s">>, "ls", <<"E">>), Entry(<<"n">>, "counter", <<"E">>),
    Entry(<<"f">>, "file", <<>>)>>

MCTexts ==
  {t \in UNION {[1 .. n -> {"a", "b", NL}] : n \in 0 .. 6} : PlainText(t)}

MCLines ==
  {<<>>, <<" ">>, <<"exit">>, <<"f">>, <<"x">>,
   <<"c", "a", "t">>, <<"c", "a", "t", " ", "f">>, <<" ", "c", "a", "t", "s", " ", " ", ".">>,
   <<"c", "a", "t", " ", "x", " ", "f">>, <<"l", "s">>, <<"n">>, <<"g">>,
   <<"g", " ", "a">>, <<" ", "g", " ", "a", "b", " ", "b">>, <<"g", " ", "a", "a", "a">>}

MCAnswers == {<<NL>>, <<"0", NL>>, <<"7", NL>>, <<"0", "0", NL>>}
MCCounts == "0" :> 11
=============================================================================
