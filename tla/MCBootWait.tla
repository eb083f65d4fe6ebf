----------------------------- MODULE MCBootWait -----------------------------
(* The boot prompt for TLC. *)
EXTENDS BootWait

(* Make and break of `a'. *)
LetterScans == {30, 158}
(* Make and break of `a' and the left shift, so that there are shifted     *)
(* letters; Ctrl, Enter and Backspace.                                     *)
MoreScans   == {30, 158, 42, 170, 29, 28, 14}
NoGarbage   == {}
=============================================================================
