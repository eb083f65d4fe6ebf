----------------------------- MODULE MCConsole ------------------------------
(* A console of a few columns and rows for TLC. *)
EXTENDS Console

(* A letter, a newline, a carriage return, a tab, a NUL, a backspace. *)
SomeChars == {97, LF, CR, TAB, NUL, BS}
NoGarbage == {}
=============================================================================
