---------------------------- MODULE MCSubtitles ----------------------------
(* The subtitle files that may lie beside a film, in the order of their    *)
(* names: its own, one of its sequel, one of another film, a binary one,   *)
(* and one in the folder Subs that has the name of another.                *)
EXTENDS Subtitles

Groups == <<{"de"}, {"en", "english"}>>

Stems == <<
  <<"alien", "3", "en">>, <<"alien", "3">>, <<"alien", "de", "en", "full">>,
  <<"alien", "de">>, <<"alien", "en", "forced">>, <<"alien", "en">>,
  <<"alien", "english">>, <<"alien", "forced">>, <<"alien", "mkv", "en", "sdh">>,
  <<"alien", "mkv">>, <<"alien">>, <<"aliens", "en">> >>

SomeFiles ==
  {[dir |-> "", stem |-> Stems[k], text |-> k # 6, name |-> k] : k \in DOMAIN Stems}
    \cup {[dir |-> "Subs", stem |-> Stems[4], text |-> TRUE, name |-> 4]}

SomePrefs == {<< >>, <<1>>, <<2, 1>>}
=============================================================================
