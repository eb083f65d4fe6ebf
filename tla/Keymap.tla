------------------------------- MODULE Keymap -------------------------------
(***************************************************************************)
(* A person at the keyboard and scan2char() at the other end of the wire   *)
(* (klib/Stdin.d).  The keyboard sends a make code when a key goes down or *)
(* repeats and a break code when it comes up; keys that were added to the  *)
(* original layout send 0xE0 before each, which scan2char() does not know. *)
(* The handler takes the bytes one at a time and in order.                 *)
(***************************************************************************)
EXTENDS ScanCode

CONSTANTS Keys,         \* the keys used, [code |-> make code, gray |-> sends E0]
          WireSize      \* BOUND: bytes sent and not yet handled

ASSUME KeymapAssumption ==
  /\ Keys \subseteq [code : 1 .. 127, gray : BOOLEAN]
  /\ WireSize \in Nat

VARIABLES
  KB_KEYMAP,
  char,         \* what scan2char() returned last
  down,         \* the keys held down
  wire          \* bytes on their way to the handler

vars == << KB_KEYMAP, char, down, wire >>

Prefix(key) == IF key.gray THEN << 224 >> ELSE << >>
Make(key)   == Prefix(key) \o << key.code >>
Break(key)  == Prefix(key) \o << key.code + 128 >>

Init ==
  /\ KB_KEYMAP = {}
  /\ char = NUL
  /\ down = {}
  /\ wire = << >>

Send(bytes) ==
  /\ Len(wire) + Len(bytes) <= WireSize
  /\ wire' = wire \o bytes

(* A key goes down, or one that is down repeats. *)
Strike(key) ==
  /\ Send(Make(key))
  /\ down' = down \cup {key}
  /\ UNCHANGED << KB_KEYMAP, char >>

Lift(key) ==
  /\ key \in down
  /\ Send(Break(key))
  /\ down' = down \ {key}
  /\ UNCHANGED << KB_KEYMAP, char >>

(* read_KB(): one byte of the wire. *)
read_KB ==
  /\ wire # << >>
  /\ \E o \in scan2char(KB_KEYMAP, Head(wire)) :
       KB_KEYMAP' = o.keymap /\ char' = o.char
  /\ wire' = Tail(wire)
  /\ UNCHANGED down

Next ==
  \/ \E key \in Keys : Strike(key) \/ Lift(key)
  \/ read_KB

Spec == Init /\ [][Next]_vars

-----------------------------------------------------------------------------
TypeOK ==
  /\ KB_KEYMAP \subseteq Flags
  /\ char \in 0 .. 255
  /\ down \subseteq Keys
  /\ wire \in Seq(0 .. 255)

(* Does the key raise the flag? *)
Raises(key, flag) ==
  flag \in MakeFlag(key.code) \/ (flag = "CTRL" /\ CtrlBits(key.code))

(* No flag sticks: once everything sent is handled, each flag that is up   *)
(* belongs to a key that is down, whatever order keys were pressed and     *)
(* lifted in.                                                              *)
NoStuckFlag ==
  wire = << >> => \A f \in KB_KEYMAP : \E key \in down : Raises(key, f)

(* A key that is pressed alone types what SCAN_SET_1 has for it, whatever  *)
(* was typed before; except for the keys that scan2char() takes for Ctrl.  *)
AloneTypesItself ==
  [][\A key \in Keys :
       (/\ read_KB
        /\ down = {key} /\ wire = Make(key) /\ ~key.gray
        /\ ~CtrlBits(key.code) /\ key.code < Len(SCAN_SET_1))
       => char' = SCAN_SET_1[key.code + 1]]_vars
=============================================================================
