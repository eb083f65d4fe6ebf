----------------------------- MODULE KeyStream ------------------------------
(***************************************************************************)
(* What the keyboard promises a reader: an ordered stream of what was      *)
(* typed that may lose and repeat characters.                              *)
(*                                                                         *)
(* typed is all that was typed; last is the position in it of the          *)
(* character read last, 0 before the first.                                *)
(***************************************************************************)
EXTENDS Integers, Sequences

VARIABLES typed, last

Init == typed = << >> /\ last = 0

(* A key event appends a character. *)
Type ==
  /\ \E c \in 0 .. 255 : typed' = Append(typed, c)
  /\ UNCHANGED last

(* A read stays where it is or goes on, over any number of characters. *)
Read ==
  /\ last' \in last .. Len(typed)
  /\ UNCHANGED typed

Next == Type \/ Read

Spec == Init /\ [][Next]_<< typed, last >>
=============================================================================
