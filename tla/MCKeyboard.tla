----------------------------- MODULE MCKeyboard -----------------------------
(* A small instance of Keyboard.                                           *)
EXTENDS Keyboard

\* An unused control character, Enter, Backspace, ESC by itself, an arrow and
\* the two ends of MOD_KEY.
EveryKind ==
  {2, NEWLINE_KEY, BACK_SPACE_KEY, ESC_KEY, ARROW_KEY_BEGIN, MOD_KEY_BEGIN,
   MOD_KEY_END}
=============================================================================
