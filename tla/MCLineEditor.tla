---------------------------- MODULE MCLineEditor ----------------------------
(* A small instance of LineEditor: two commands, one a prefix of the       *)
(* other.                                                                  *)
EXTENDS LineEditor

TwoCommands == {<<"s">>, <<"s", "s">>}
=============================================================================
