--------------------------- MODULE MCCheckServer ----------------------------
(***************************************************************************)
(* Sources with an error, with a warning that verification takes back, and *)
(* with a counterexample.                                                  *)
(***************************************************************************)
EXTENDS CheckServer

MCSources ==
  {[diagnostics |-> <<"error">>, verdicts |-> <<>>],
   [diagnostics |-> <<"A04008", "warning">>, verdicts |-> <<"verified", "unknown">>],
   [diagnostics |-> <<"A04008">>, verdicts |-> <<"verified", "counterexample">>]}
=============================================================================
