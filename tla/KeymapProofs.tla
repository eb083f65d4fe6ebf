---------------------------- MODULE KeymapProofs ----------------------------
(***************************************************************************)
(* Keymap proved for every set of keys and wire of any length.             *)
(*                                                                         *)
(* The argument: a break code puts every flag down, so that a flag that is *)
(* up, or that a byte on the wire will raise, belongs to a key that is     *)
(* down unless a break code follows (IInv).                                *)
(***************************************************************************)
EXTENDS Keymap, SequenceTheorems, TLAPS

(* A break code, or a prefix. *)
Released(byte) == byte >= 128

Belongs(flag) == \E key \in down : Raises(key, flag)

IInv ==
  /\ TypeOK
  /\ \A f \in KB_KEYMAP : Belongs(f) \/ \E i \in DOMAIN wire : Released(wire[i])
  /\ \A i \in DOMAIN wire :
       \/ Released(wire[i])
       \/ \E key \in down : key.code = wire[i]
       \/ \E j \in DOMAIN wire : i < j /\ Released(wire[j])

-----------------------------------------------------------------------------
(* The tables. *)

LEMMA TableLengths ==
  /\ Len(SCAN_SET_1) = 58 /\ Len(SCAN_SET_1_SHIFT) = 54 /\ Limit = 60
BY DEF SCAN_SET_1, SCAN_SET_1_SHIFT, Limit

LEMMA TableTypes ==
  SCAN_SET_1 \in Seq(0 .. 255) /\ SCAN_SET_1_SHIFT \in Seq(0 .. 255)
<1>1. SCAN_SET_1 \in Seq(0 .. 255)
  BY DEF SCAN_SET_1, NoInit, ESC, NUL, BS, TAB, LF
<1>2. SCAN_SET_1_SHIFT \in Seq(0 .. 255)
  BY DEF SCAN_SET_1_SHIFT, NoInit, NUL
<1> QED  BY <1>1, <1>2

LEMMA Member ==
  ASSUME NEW S, NEW s \in Seq(S), NEW i \in 1 .. Len(s)
  PROVE  s[i] \in S
OBVIOUS

LEMMA LookupType ==
  ASSUME NEW i \in Nat
  PROVE  /\ Lookup(SCAN_SET_1, i) \subseteq 0 .. 255
         /\ Lookup(SCAN_SET_1_SHIFT, i) \subseteq 0 .. 255
<1>1. ASSUME NEW table \in Seq(0 .. 255), i < Len(table)
      PROVE  table[i + 1] \in 0 .. 255
  <2>1. i + 1 \in 1 .. Len(table)
    BY <1>1
  <2> QED  BY <2>1, Member
<1> QED  BY <1>1, TableTypes, GarbageAssumption DEF Lookup

LEMMA ControlType ==
  ASSUME NEW c \in 0 .. 255
  PROVE  Control(c) \in 0 .. 255
BY DEF Control, NUL

(* What scan2char() does to the flags: a byte from 128 on puts all down, a *)
(* make code raises no other than its own.                                 *)
LEMMA Scanned ==
  ASSUME NEW keymap \in SUBSET Flags, NEW scan \in 0 .. 255,
         NEW o \in scan2char(keymap, scan)
  PROVE  /\ o.keymap \in SUBSET Flags /\ o.char \in 0 .. 255
         /\ scan >= 128 => o.keymap = {}
         /\ scan < 128 =>
              o.keymap \subseteq keymap \cup MakeFlag(scan)
                                 \cup (IF CtrlBits(scan) THEN {"CTRL"} ELSE {})
<1>1. /\ Lookup(SCAN_SET_1, scan) \subseteq 0 .. 255
      /\ Lookup(SCAN_SET_1_SHIFT, scan) \subseteq 0 .. 255
      /\ scan >= 128 => Lookup(SCAN_SET_1_SHIFT, scan - 128) \subseteq 0 .. 255
  BY LookupType
<1>2. NUL \in 0 .. 255
  BY DEF NUL
<1>3. MakeFlag(scan) \subseteq Flags /\ "CTRL" \in Flags
  BY DEF MakeFlag, Flags
<1>4. CASE scan >= 128
  BY <1>1, <1>2, <1>4 DEF scan2char, Release, Outcomes
<1>5. CASE ~(scan >= 128)
  <2> DEFINE flags == keymap \cup MakeFlag(scan)
             ctrl  == flags \cup (IF CtrlBits(scan) THEN {"CTRL"} ELSE {})
             plain == IF scan > Limit THEN {NUL} ELSE Lookup(SCAN_SET_1, scan)
  <2>1. plain \subseteq 0 .. 255
    BY <1>1, <1>2
  <2>2. \A c \in plain : Control(c) \in 0 .. 255
    BY <2>1, ControlType
  <2>3. o \in Press(keymap, scan)
    BY <1>5 DEF scan2char
  <2>4. \/ o.keymap = flags /\ o.char \in {NUL} \cup Lookup(SCAN_SET_1_SHIFT, scan)
        \/ o.keymap = ctrl /\ o.char \in {NUL} \cup {Control(c) : c \in plain} \cup plain
    BY <2>3 DEF Press, Outcomes
  <2>5. flags \in SUBSET Flags /\ ctrl \in SUBSET Flags /\ flags \subseteq ctrl
    BY <1>3
  <2>6. o.char \in 0 .. 255
    BY <1>1, <1>2, <2>1, <2>2, <2>4
  <2>7. o.keymap \in SUBSET Flags /\ o.keymap \subseteq ctrl
    BY <2>4, <2>5
  <2> QED  BY <1>5, <2>6, <2>7
<1> QED  BY <1>4, <1>5

-----------------------------------------------------------------------------
(* The wire. *)

LEMMA Codes ==
  ASSUME NEW key \in Keys
  PROVE  /\ key.code \in 1 .. 127
         /\ key.code \in 0 .. 255 /\ ~Released(key.code)
         /\ key.code + 128 \in 0 .. 255 /\ Released(key.code + 128)
BY KeymapAssumption DEF Released

(* A code sent, with its prefix or without, is the last byte of the wire,  *)
(* behind those that were there.                                           *)
LEMMA Sent ==
  ASSUME NEW S, 224 \in S, wire \in Seq(S), NEW key \in Keys, NEW code \in S,
         wire' = wire \o (Prefix(key) \o << code >>)
  PROVE  /\ wire' \in Seq(S) /\ Len(wire') \in Nat /\ Len(wire) < Len(wire')
         /\ wire'[Len(wire')] = code
         /\ \A i \in DOMAIN wire : wire'[i] = wire[i]
         /\ \A i \in DOMAIN wire' : i \in DOMAIN wire \/ i = Len(wire') \/ Released(wire'[i])
<1> DEFINE p == Prefix(key)
           m == p \o << code >>
<1>1. /\ p \in Seq(S) /\ << code >> \in Seq(S)
      /\ \A i \in DOMAIN p : Released(p[i])
  <2>1. << 224 >> \in Seq(S) /\ << >> \in Seq(S)
    OBVIOUS
  <2>2. /\ \A i \in DOMAIN << 224 >> : Released(<< 224 >>[i])
        /\ \A i \in DOMAIN << >> : Released(<< >>[i])
    BY DEF Released
  <2>3. << code >> \in Seq(S)
    OBVIOUS
  <2> QED  BY <2>1, <2>2, <2>3 DEF Prefix
<1>2. << code >>[1] = code /\ Len(<< code >>) = 1
  OBVIOUS
<1> HIDE DEF p
<1>3. /\ m \in Seq(S) /\ Len(p) \in Nat /\ Len(m) = Len(p) + 1
      /\ m[Len(m)] = code
  BY <1>1, <1>2
<1>4. \A i \in 1 .. Len(m) : i = Len(m) \/ Released(m[i])
  <2>1. ASSUME NEW i \in 1 .. Len(p)
        PROVE  m[i] = p[i] /\ i \in DOMAIN p
    BY <1>1
  <2> QED  BY <1>1, <1>3, <2>1
<1> HIDE DEF m
<1>5. wire' = wire \o m
  BY DEF m, p
<1>6. /\ wire' \in Seq(S) /\ Len(wire) \in Nat /\ Len(m) \in Nat
      /\ Len(wire') = Len(wire) + Len(m)
      /\ DOMAIN wire = 1 .. Len(wire) /\ DOMAIN wire' = 1 .. Len(wire')
  <2>1. wire' \in Seq(S)
    BY <1>3, <1>5, ConcatProperties
  <2>2. Len(wire) \in Nat /\ Len(m) \in Nat /\ Len(wire') = Len(wire) + Len(m)
    BY <1>3, <1>5
  <2> QED  BY <2>1, <2>2
<1>7. /\ \A i \in 1 .. Len(wire) : wire'[i] = wire[i]
      /\ \A i \in 1 .. Len(m) : wire'[Len(wire) + i] = m[i]
  BY <1>3, <1>5
<1>8. wire'[Len(wire')] = code
  BY <1>3, <1>6, <1>7
<1>9. ASSUME NEW i \in DOMAIN wire', i > Len(wire)
      PROVE  i = Len(wire') \/ Released(wire'[i])
  <2>1. i - Len(wire) \in 1 .. Len(m) /\ i = Len(wire) + (i - Len(wire))
    BY <1>6, <1>9
  <2>2. wire'[i] = m[i - Len(wire)]
    BY <1>7, <2>1
  <2> QED  BY <1>4, <1>6, <2>1, <2>2
<1>10. Len(wire') \in Nat /\ Len(wire) < Len(wire')
  BY <1>3, <1>6
<1>11. \A i \in DOMAIN wire' : i \in DOMAIN wire \/ i = Len(wire') \/ Released(wire'[i])
  <2>1. \A i \in DOMAIN wire' : i \in 1 .. Len(wire) \/ i > Len(wire)
    BY <1>6
  <2> QED  BY <1>6, <1>9, <2>1
<1> QED  BY <1>6, <1>7, <1>8, <1>10, <1>11

LEMMA Prefixed == 224 \in 0 .. 255
OBVIOUS

LEMMA StrikeStep ==
  ASSUME IInv, NEW key \in Keys, Strike(key)
  PROVE  IInv'
<1>1. /\ wire' = wire \o (Prefix(key) \o << key.code >>)
      /\ down' = down \cup {key} /\ UNCHANGED << KB_KEYMAP, char >>
  BY DEF Strike, Send, Make
<1>2. wire \in Seq(0 .. 255) /\ key.code \in 0 .. 255
  BY Codes DEF IInv, TypeOK
<1>3. /\ wire' \in Seq(0 .. 255) /\ Len(wire') \in Nat /\ Len(wire) < Len(wire')
      /\ wire'[Len(wire')] = key.code
      /\ \A i \in DOMAIN wire : wire'[i] = wire[i]
      /\ \A i \in DOMAIN wire' : i \in DOMAIN wire \/ i = Len(wire') \/ Released(wire'[i])
  BY <1>1, <1>2, Sent, Prefixed
<1>4. DOMAIN wire = 1 .. Len(wire) /\ DOMAIN wire' = 1 .. Len(wire') /\ Len(wire) \in Nat
  BY <1>2, <1>3
<1>5. TypeOK'
  BY <1>1, <1>3 DEF IInv, TypeOK
<1>6. ASSUME NEW f \in KB_KEYMAP'
      PROVE  Belongs(f)' \/ \E i \in DOMAIN wire' : Released(wire'[i])
  <2>1. Belongs(f) \/ \E i \in DOMAIN wire : Released(wire[i])
    BY <1>1, <1>6 DEF IInv
  <2>2. Belongs(f) => Belongs(f)'
    BY <1>1 DEF Belongs
  <2> QED  BY <1>3, <1>4, <2>1, <2>2
<1>7. ASSUME NEW i \in DOMAIN wire'
      PROVE  \/ Released(wire'[i])
             \/ \E k \in down' : k.code = wire'[i]
             \/ \E j \in DOMAIN wire' : i < j /\ Released(wire'[j])
  <2>1. CASE i \in DOMAIN wire
    BY <1>1, <1>3, <1>4, <2>1 DEF IInv
  <2>2. CASE i = Len(wire')
    BY <1>1, <1>3, <2>2
  <2> QED  BY <1>3, <1>7, <2>1, <2>2
<1> QED  BY <1>5, <1>6, <1>7 DEF IInv

LEMMA LiftStep ==
  ASSUME IInv, NEW key \in Keys, Lift(key)
  PROVE  IInv'
<1>1. /\ wire' = wire \o (Prefix(key) \o << key.code + 128 >>)
      /\ down' = down \ {key} /\ UNCHANGED << KB_KEYMAP, char >>
  BY DEF Lift, Send, Break
<1>2. wire \in Seq(0 .. 255) /\ key.code + 128 \in 0 .. 255
  BY Codes DEF IInv, TypeOK
<1>3. /\ wire' \in Seq(0 .. 255) /\ Len(wire') \in Nat /\ Len(wire) < Len(wire')
      /\ wire'[Len(wire')] = key.code + 128
      /\ \A i \in DOMAIN wire' : i \in DOMAIN wire \/ i = Len(wire') \/ Released(wire'[i])
  <2> DEFINE code == key.code + 128
             S == 0 .. 255
  <2>1. wire \in Seq(S) /\ code \in S /\ 224 \in S /\ wire' = wire \o (Prefix(key) \o << code >>)
    BY <1>1, <1>2, Prefixed
  <2> HIDE DEF code, S
  <2>2. /\ wire' \in Seq(S) /\ Len(wire') \in Nat /\ Len(wire) < Len(wire')
        /\ wire'[Len(wire')] = code
        /\ \A i \in DOMAIN wire' : i \in DOMAIN wire \/ i = Len(wire') \/ Released(wire'[i])
    BY <2>1, Sent
  <2> QED  BY <2>2 DEF code, S
<1>4. /\ DOMAIN wire = 1 .. Len(wire) /\ DOMAIN wire' = 1 .. Len(wire')
      /\ Len(wire) \in Nat
  BY <1>2, <1>3
<1>5. Len(wire') \in DOMAIN wire' /\ Released(wire'[Len(wire')])
  BY <1>3, <1>4, Codes
<1>6. TypeOK'
  BY <1>1, <1>3 DEF IInv, TypeOK
<1>7. \A i \in DOMAIN wire' : i < Len(wire') \/ Released(wire'[i])
  BY <1>4, <1>5
<1> QED  BY <1>5, <1>6, <1>7 DEF IInv

LEMMA ReadStep ==
  ASSUME IInv, read_KB
  PROVE  IInv'
<1>1. PICK o \in scan2char(KB_KEYMAP, Head(wire)) : KB_KEYMAP' = o.keymap /\ char' = o.char
  BY DEF read_KB
<1>2. /\ wire \in Seq(0 .. 255) /\ wire # << >> /\ wire' = Tail(wire)
      /\ KB_KEYMAP \in SUBSET Flags /\ UNCHANGED down
  BY DEF read_KB, IInv, TypeOK
<1>3. /\ Head(wire) \in 0 .. 255 /\ Head(wire) = wire[1] /\ 1 \in DOMAIN wire
      /\ wire' \in Seq(0 .. 255)
      /\ \A i \in DOMAIN wire' : i + 1 \in DOMAIN wire /\ wire'[i] = wire[i + 1]
      /\ \A i \in DOMAIN wire : i > 1 => i - 1 \in DOMAIN wire' /\ wire'[i - 1] = wire[i]
      /\ DOMAIN wire \subseteq Nat \ {0} /\ DOMAIN wire' \subseteq Nat
  BY <1>2
<1>4. /\ o.keymap \in SUBSET Flags /\ o.char \in 0 .. 255
      /\ Released(wire[1]) => o.keymap = {}
      /\ ~Released(wire[1]) =>
           o.keymap \subseteq KB_KEYMAP \cup MakeFlag(wire[1])
                              \cup (IF CtrlBits(wire[1]) THEN {"CTRL"} ELSE {})
  <2>1. \A b \in 0 .. 255 : b >= 128 \/ b < 128
    OBVIOUS
  <2>2. wire[1] >= 128 \/ wire[1] < 128
    BY <1>3, <2>1, Zenon
  <2>3. o \in scan2char(KB_KEYMAP, wire[1]) /\ wire[1] \in 0 .. 255
    BY <1>1, <1>3, Zenon
  <2> QED  BY <1>2, <2>2, <2>3, Scanned, Zenon DEF Released
<1>5. TypeOK'
  BY <1>1, <1>2, <1>3, <1>4 DEF IInv, TypeOK
<1>6. ASSUME NEW f \in KB_KEYMAP'
      PROVE  Belongs(f)' \/ \E i \in DOMAIN wire' : Released(wire'[i])
  <2>1. ~Released(wire[1])
    BY <1>1, <1>4, <1>6
  <2>2. (\E i \in DOMAIN wire : Released(wire[i])) => \E i \in DOMAIN wire' : Released(wire'[i])
    <3>1. ASSUME NEW i \in DOMAIN wire, Released(wire[i])
          PROVE  i > 1
      BY <1>3, <2>1, <3>1
    <3> QED  BY <1>3, <3>1
  <2>3. CASE f \in KB_KEYMAP
    <3>1. Belongs(f) => Belongs(f)'
      BY <1>2 DEF Belongs
    <3> QED  BY <2>2, <2>3, <3>1 DEF IInv
  <2>4. CASE f \notin KB_KEYMAP
    <3>1. f \in MakeFlag(wire[1]) \/ (f = "CTRL" /\ CtrlBits(wire[1]))
      BY <1>1, <1>4, <1>6, <2>1, <2>4
    <3>2. (\E key \in down : key.code = wire[1]) \/ \E j \in DOMAIN wire : Released(wire[j])
      BY <1>3, <2>1 DEF IInv
    <3>3. (\E key \in down : key.code = wire[1]) => Belongs(f)'
      BY <1>2, <3>1 DEF Belongs, Raises
    <3> QED  BY <2>2, <3>2, <3>3
  <2> QED  BY <2>3, <2>4
<1>7. ASSUME NEW i \in DOMAIN wire'
      PROVE  \/ Released(wire'[i])
             \/ \E k \in down' : k.code = wire'[i]
             \/ \E j \in DOMAIN wire' : i < j /\ Released(wire'[j])
  <2>1. \/ Released(wire[i + 1])
        \/ \E k \in down : k.code = wire[i + 1]
        \/ \E j \in DOMAIN wire : i + 1 < j /\ Released(wire[j])
    BY <1>3 DEF IInv
  <2>2. ASSUME NEW j \in DOMAIN wire, i + 1 < j, Released(wire[j])
        PROVE  j - 1 \in DOMAIN wire' /\ i < j - 1 /\ Released(wire'[j - 1])
    BY <1>3, <2>2
  <2> QED  BY <1>2, <1>3, <2>1, <2>2
<1> QED  BY <1>5, <1>6, <1>7 DEF IInv

LEMMA Initially == Init => IInv
<1> SUFFICES ASSUME Init PROVE IInv
  OBVIOUS
<1>1. NUL \in 0 .. 255 /\ << >> \in Seq(0 .. 255) /\ DOMAIN << >> = {}
  BY DEF NUL
<1> QED  BY <1>1 DEF Init, IInv, TypeOK

LEMMA Inductive == IInv /\ [Next]_vars => IInv'
<1> SUFFICES ASSUME IInv, [Next]_vars PROVE IInv'
  OBVIOUS
<1>1. ASSUME NEW key \in Keys, Strike(key) \/ Lift(key)
      PROVE  IInv'
  BY <1>1, StrikeStep, LiftStep
<1>2. CASE read_KB
  BY <1>2, ReadStep
<1>3. CASE UNCHANGED vars
  BY <1>3 DEF vars, IInv, TypeOK, Belongs
<1> QED  BY <1>1, <1>2, <1>3 DEF Next

THEOREM Invariant == Spec => []IInv
BY Initially, Inductive, PTL DEF Spec

-----------------------------------------------------------------------------
(* No byte of the wire, of a table or behind it takes char or a flag out   *)
(* of its type, the negative results of the Ctrl branch included.          *)
THEOREM TypeCorrect == Spec => []TypeOK
BY Invariant, PTL DEF IInv

(* No flag sticks, however many keys are used, in whatever order.          *)
THEOREM NeverStuck == Spec => []NoStuckFlag
<1>1. IInv => NoStuckFlag
  <2> SUFFICES ASSUME IInv, wire = << >>, NEW f \in KB_KEYMAP
               PROVE  \E key \in down : Raises(key, f)
    BY DEF NoStuckFlag
  <2>1. DOMAIN wire = {}
    OBVIOUS
  <2> QED  BY <2>1 DEF IInv, Belongs
<1> QED  BY <1>1, Invariant, PTL

(* A key that is pressed alone: no other's flag is up, and its own cannot  *)
(* take it to another table, as the table has NUL for both shift keys.     *)
LEMMA Alone ==
  ASSUME IInv, NEW key \in Keys, read_KB, down = {key}, wire = Make(key),
         ~key.gray, ~CtrlBits(key.code), key.code < Len(SCAN_SET_1)
  PROVE  char' = SCAN_SET_1[key.code + 1]
<1> DEFINE c == key.code
<1>1. c \in 1 .. 57 /\ ~Released(c)
  BY Codes, TableLengths
<1>2. wire = << >> \o << c >>
  BY DEF Make, Prefix
<1>3. Head(wire) = c /\ DOMAIN wire = {1} /\ wire[1] = c
  BY <1>2
<1>4. \A f \in KB_KEYMAP : f \in MakeFlag(c)
  BY <1>1, <1>3 DEF IInv, Belongs, Raises
<1>5. PICK o \in scan2char(KB_KEYMAP, c) : char' = o.char
  BY <1>3 DEF read_KB
<1>6. ~(c >= 128) /\ ~(c > Limit) /\ c < Limit
  BY <1>1, TableLengths
<1>7. Lookup(SCAN_SET_1, c) = {SCAN_SET_1[c + 1]}
  BY DEF Lookup
<1>8. KB_KEYMAP \cup MakeFlag(c) = MakeFlag(c) /\ "CTRL" \notin MakeFlag(c)
  BY <1>4 DEF MakeFlag
<1>9. CASE MakeFlag(c) \cap Shift = {}
  <2>1. o \in Outcomes(MakeFlag(c) \cup {}, {SCAN_SET_1[c + 1]})
    BY <1>5, <1>6, <1>7, <1>8, <1>9 DEF scan2char, Press
  <2> QED  BY <1>5, <2>1 DEF Outcomes
<1>10. CASE MakeFlag(c) \cap Shift # {}
  <2>1. o \in Outcomes(MakeFlag(c), {NUL})
    BY <1>5, <1>6, <1>8, <1>10 DEF scan2char, Press
  <2>2. c = 42 \/ c = 54
    BY <1>1, <1>10 DEF MakeFlag, Shift
  <2>3. SCAN_SET_1[42 + 1] = NUL /\ SCAN_SET_1[54 + 1] = NUL
    BY DEF SCAN_SET_1
  <2> QED  BY <1>5, <2>1, <2>2, <2>3 DEF Outcomes
<1> QED  BY <1>9, <1>10

(* It types what SCAN_SET_1 has for it, whatever was typed before.         *)
THEOREM TypesItself == Spec => AloneTypesItself
<1>1. IInv /\ [Next]_vars =>
        [\A key \in Keys :
           (/\ read_KB
            /\ down = {key} /\ wire = Make(key) /\ ~key.gray
            /\ ~CtrlBits(key.code) /\ key.code < Len(SCAN_SET_1))
           => char' = SCAN_SET_1[key.code + 1]]_vars
  BY Alone
<1> QED  BY <1>1, Invariant, PTL DEF Spec, AloneTypesItself
=============================================================================
