----------------------------- MODULE MCKeyboard -----------------------------
(* Small keyboards for TLC; the console is 3 columns by 3 rows. *)
EXTENDS Keyboard

(* Make and break of `a', Enter and Backspace: a letter, a NUL, a newline  *)
(* and the character that takes itself off the buffer.                     *)
LettersOnly == {30, 158}
AllScans    == {30, 158, 28, 14}

NoGarbage == {}
=============================================================================
