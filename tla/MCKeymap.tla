------------------------------ MODULE MCKeymap ------------------------------
(* A few keys of each kind for TLC. *)
EXTENDS Keymap

Plain(c) == [code |-> c, gray |-> FALSE]
Gray(c)  == [code |-> c, gray |-> TRUE]

(* A, left and right shift, Ctrl, F2 and the left arrow of a later layout. *)
MixedKeys == {Plain(30), Plain(42), Plain(54), Plain(29), Plain(60), Gray(75)}
(* A byte behind SCAN_SET_1_SHIFT. *)
SomeGarbage == {200}
=============================================================================
