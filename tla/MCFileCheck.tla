----------------------------- MODULE MCFileCheck -----------------------------
(***************************************************************************)
(* Sessions for FileCheck.                                                 *)
(***************************************************************************)
EXTENDS FileCheck, SequencesExt

Line(kind, text) == [kind |-> kind, text |-> text]
Run(command, output) == [command |-> command, output |-> output]

\* Every test of up to three directives, on every output of up to three lines.
Directives == {Line(kind, <<text>>) : kind \in Types, text \in {"a", "b"}}
CheckSessions ==
  [file : SeqOf(Directives, 3),
   commands : {<<Run("check", output)>> : output \in SeqOf({<<"a">>, <<"b">>, <<"a", "b">>}, 3)}]

\* Two runs of --update, each with a check of the output it was given.
Tests ==
  {<<Line("RUN", <<>>), Line("NEXT", <<"c">>), Line("text", <<"a">>), Line("NOT", <<"a">>)>>,
   <<Line("unknown", <<"a">>), Line("PLAIN", <<" ">>), Line("RUN", <<>>), Line("RUN", <<>>)>>,
   <<Line("LABEL", <<" ">>), Line("text", <<>>)>>}

\* Paths first in the line, behind a blank, and behind other text.
Paths ==
  {<<"a", "/", "c", "/", "b", ".mn", " ", "a">>, <<" ", "/", "b", ".mn">>,
   <<"a", " ", "/", "b", ".mn">>, <<"|", "a", "/", "b", ".mn">>}
Lines ==
  {<<>>, <<" ">>, <<"a">>, <<"b">>, <<"b", ".mn">>, <<"a", " ", "b">>, <<"RUN:", "a">>, <<"a", "CHECK:">>,
   <<AnyText>>, <<"b", "{{a}}">>} \cup Paths
UpdateSessions ==
  [file : Tests,
   commands : {<<Run("update", output), Run("check", output), Run("update", then), Run("check", then)>> :
                 output \in SeqOf(Lines, 3), then \in {<<<<"a">>, <<"b">>>>, <<<<"b">>, <<>>, <<"a">>>>}}]

MCSessions == CheckSessions \cup UpdateSessions
=============================================================================
