------------------------------ MODULE ScanCode ------------------------------
(***************************************************************************)
(* Scan code translation of klib/Stdin.d: the two tables SCAN_SET_1 and    *)
(* SCAN_SET_1_SHIFT and scan2char(), as a function of KB_KEYMAP and the    *)
(* byte read from port 0x60.                                               *)
(*                                                                         *)
(* Characters are their codes.  KB_KEYMAP is the set of its flags that are *)
(* up.  scan2char() indexes its tables without a bounds check (the kernel  *)
(* is built with -frelease), so some scan codes read a byte that lies      *)
(* behind a table; such a read may give any member of Garbage.  The result *)
(* is therefore a SET of outcomes, a singleton when nothing is undefined.  *)
(***************************************************************************)
EXTENDS Integers, Sequences

CONSTANT Garbage        \* characters an out-of-bounds table read may give

ASSUME GarbageAssumption == Garbage \subseteq 0..255

NUL == 0
BS  == 8
TAB == 9
LF  == 10
CR  == 13
ESC == 27
NoInit == 255           \* char.init, what D stores in an element never set

Flags == {"LEFT", "RIGHT", "UP", "DOWN", "LSHIFT", "RSHIFT", "CTRL"}
Shift == {"LSHIFT", "RSHIFT"}

(* The arrays are indexed from 0, the tuples here from 1. *)
SCAN_SET_1 ==
  << NoInit, ESC, 49, 50, 51, 52, 53, 54, 55, 56, 57, 48, 45, 61, BS, TAB,
     113, 119, 101, 114, 116, 121, 117, 105, 111, 112, 91, 93, LF, NUL,
     97, 115, 100, 102, 103, 104, 106, 107, 108, 59, 39, 96, NUL, 92,
     122, 120, 99, 118, 98, 110, 109, 44, 46, 47, NUL, NUL, NUL, 32 >>

SCAN_SET_1_SHIFT ==
  << NoInit, NoInit, 33, 64, 35, 36, 37, 94, 38, 42, 40, 41, 95, 43, NUL, NUL,
     81, 87, 69, 82, 84, 89, 85, 73, 79, 80, 123, 125, NUL, NUL,
     65, 83, 68, 70, 71, 72, 74, 75, 76, 58, 34, 126, NUL, 124,
     90, 88, 67, 86, 66, 78, 77, 60, 62, 63 >>

(* MUTANT: tables that begin with scan code 0, not 1. *)
LookupOneDown(table, i) == IF i < Len(table) THEN {table[i]} ELSE Garbage

Lookup(table, i) == IF i < Len(table) THEN {table[i + 1]} ELSE Garbage

(* The `+ 2' with which scan2char() compares a scan code. *)
Limit == Len(SCAN_SET_1) + 2

(* scan & 29 = 29: bits 0, 2, 3 and 4 are up. *)
CtrlBits(scan) ==
  \A b \in {1, 4, 8, 16} : (scan \div b) % 2 = 1

(* The flag a make code raises, as a set. *)
MakeFlag(scan) ==
  CASE scan = 75 -> {"LEFT"}
    [] scan = 72 -> {"UP"}
    [] scan = 77 -> {"RIGHT"}
    [] scan = 80 -> {"DOWN"}
    [] scan = 42 -> {"LSHIFT"}
    [] scan = 54 -> {"RSHIFT"}
    [] OTHER     -> {}

(* MUTANT: no check for a negative result. *)
ControlUnchecked(c) == IF c < 96 THEN c - 64 ELSE c - 96

(* The control character: 96 below the letter, 64 below anything lower. *)
Control(c) ==
  LET x == IF c < 96 THEN c - 64 ELSE c - 96
  IN  IF x < 0 THEN NUL ELSE x

Outcomes(keymap, chars) == {[keymap |-> keymap, char |-> c] : c \in chars}

(* MUTANT: a release leaves the flags up. *)
ReleaseKeeps(keymap, scan) == Outcomes(keymap, {NUL})

Release(keymap, scan) ==
  Outcomes({}, IF keymap \cap Shift # {}
               THEN Lookup(SCAN_SET_1_SHIFT, scan - 128)
               ELSE {NUL})

Press(keymap, scan) ==
  LET flags == keymap \cup MakeFlag(scan)
      ctrl  == flags \cup (IF CtrlBits(scan) THEN {"CTRL"} ELSE {})
      plain == IF scan > Limit THEN {NUL} ELSE Lookup(SCAN_SET_1, scan)
  IN  IF flags \cap Shift # {}
      THEN Outcomes(flags, IF scan < Limit THEN {NUL}
                           ELSE Lookup(SCAN_SET_1_SHIFT, scan))
      ELSE IF "CTRL" \in ctrl
      THEN Outcomes(ctrl, IF scan > Limit THEN {NUL}
                          ELSE {Control(c) : c \in plain})
      ELSE Outcomes(ctrl, plain)

scan2char(keymap, scan) ==
  IF scan >= 128 THEN Release(keymap, scan) ELSE Press(keymap, scan)
=============================================================================
