----------------------------- MODULE TermProofs -----------------------------
(***************************************************************************)
(* Lemmas about scan2char() and the operations of the console.             *)
(***************************************************************************)
EXTENDS Term, TLAPS

(* The tables hold characters. *)
LEMMA TableType ==
  /\ \A k \in 1 .. Len(SCAN_SET_1) : SCAN_SET_1[k] \in 0 .. 255
  /\ \A k \in 1 .. Len(SCAN_SET_1_SHIFT) : SCAN_SET_1_SHIFT[k] \in 0 .. 255
  /\ Len(SCAN_SET_1) = 58
  /\ Len(SCAN_SET_1_SHIFT) = 54
<1>1. \A k \in 1 .. Len(SCAN_SET_1) : SCAN_SET_1[k] \in 0 .. 255
  BY SMTT(60) DEF SCAN_SET_1, NUL, BS, TAB, LF, ESC, NoInit
<1>2. \A k \in 1 .. Len(SCAN_SET_1_SHIFT) : SCAN_SET_1_SHIFT[k] \in 0 .. 255
  BY SMTT(60) DEF SCAN_SET_1_SHIFT, NUL, NoInit
<1>3. Len(SCAN_SET_1) = 58
  BY DEF SCAN_SET_1
<1>4. Len(SCAN_SET_1_SHIFT) = 54
  BY DEF SCAN_SET_1_SHIFT
<1> QED  BY <1>1, <1>2, <1>3, <1>4

(* Whatever scan code comes, scan2char() gives a character and flags. *)
LEMMA Scan2CharType ==
  ASSUME NEW keymap \in SUBSET Flags, NEW scan \in 0 .. 255,
         NEW o \in scan2char(keymap, scan)
  PROVE  o.keymap \in SUBSET Flags /\ o.char \in 0 .. 255
<1>1. ASSUME NEW k \in Nat
      PROVE  Lookup(SCAN_SET_1, k) \subseteq 0 .. 255
  <2>1. CASE k < 58
    <3>1. k + 1 \in 1 .. Len(SCAN_SET_1)
      BY <2>1, TableType
    <3>2. SCAN_SET_1[k + 1] \in 0 .. 255
      BY <3>1, TableType
    <3>3. Lookup(SCAN_SET_1, k) = {SCAN_SET_1[k + 1]}
      BY <2>1, TableType DEF Lookup
    <3> QED  BY <3>2, <3>3
  <2>2. CASE ~(k < 58)
    BY <2>2, TableType, GarbageAssumption DEF Lookup
  <2> QED  BY <2>1, <2>2
<1>2. ASSUME NEW k \in Nat
      PROVE  Lookup(SCAN_SET_1_SHIFT, k) \subseteq 0 .. 255
  <2>1. CASE k < 54
    <3>1. k + 1 \in 1 .. Len(SCAN_SET_1_SHIFT)
      BY <2>1, TableType
    <3>2. SCAN_SET_1_SHIFT[k + 1] \in 0 .. 255
      BY <3>1, TableType
    <3>3. Lookup(SCAN_SET_1_SHIFT, k) = {SCAN_SET_1_SHIFT[k + 1]}
      BY <2>1, TableType DEF Lookup
    <3> QED  BY <3>2, <3>3
  <2>2. CASE ~(k < 54)
    BY <2>2, TableType, GarbageAssumption DEF Lookup
  <2> QED  BY <2>1, <2>2
<1>3. \A c \in 0 .. 255 : Control(c) \in 0 .. 255
  BY DEF Control, NUL
<1>4. MakeFlag(scan) \subseteq Flags
  BY DEF MakeFlag, Flags
<1>5. ASSUME NEW km \in SUBSET Flags, NEW chars \in SUBSET (0 .. 255),
             o \in Outcomes(km, chars)
      PROVE  o.keymap \in SUBSET Flags /\ o.char \in 0 .. 255
  BY <1>5 DEF Outcomes
<1>6. CASE scan >= 128
  <2> DEFINE chars == IF keymap \cap Shift # {}
                      THEN Lookup(SCAN_SET_1_SHIFT, scan - 128) ELSE {NUL}
  <2>1. o \in Outcomes({}, chars)
    BY <1>6 DEF scan2char, Release
  <2>2. scan - 128 \in Nat
    BY <1>6
  <2>3. chars \in SUBSET (0 .. 255)
    BY <1>2, <2>2 DEF NUL
  <2> HIDE DEF chars
  <2> QED  BY <1>5, <2>1, <2>3
<1>7. CASE ~(scan >= 128)
  <2> DEFINE flags == keymap \cup MakeFlag(scan)
             ctrl  == flags \cup (IF CtrlBits(scan) THEN {"CTRL"} ELSE {})
             plain == IF scan > Limit THEN {NUL} ELSE Lookup(SCAN_SET_1, scan)
             shifted == IF scan < Limit THEN {NUL}
                                        ELSE Lookup(SCAN_SET_1_SHIFT, scan)
             control == IF scan > Limit THEN {NUL}
                                        ELSE {Control(c) : c \in plain}
  <2>1. \/ o \in Outcomes(flags, shifted)
        \/ o \in Outcomes(ctrl, control)
        \/ o \in Outcomes(ctrl, plain)
    BY <1>7 DEF scan2char, Press
  <2>2. flags \in SUBSET Flags /\ ctrl \in SUBSET Flags
    BY <1>4 DEF Flags
  <2>3. plain \in SUBSET (0 .. 255) /\ shifted \in SUBSET (0 .. 255)
    <3>1. /\ Lookup(SCAN_SET_1, scan) \subseteq 0 .. 255
          /\ Lookup(SCAN_SET_1_SHIFT, scan) \subseteq 0 .. 255
          /\ {NUL} \subseteq 0 .. 255
      <4>1. scan \in Nat
        OBVIOUS
      <4>2. {NUL} \subseteq 0 .. 255
        BY DEF NUL
      <4> HIDE DEF Lookup
      <4> QED  BY <1>1, <1>2, <4>1, <4>2
    <3> QED  BY <3>1
  <2>4. control \in SUBSET (0 .. 255)
    <3> HIDE DEF plain
    <3>1. \A c \in plain : Control(c) \in 0 .. 255
      BY <1>3, <2>3
    <3>2. {Control(c) : c \in plain} \subseteq 0 .. 255
      BY <3>1
    <3>3. {NUL} \subseteq 0 .. 255
      BY DEF NUL
    <3> QED  BY <3>2, <3>3
  <2> HIDE DEF flags, ctrl, plain, shifted, control
  <2> QED  BY <1>5, <2>1, <2>2, <2>3, <2>4
<1> QED  BY <1>6, <1>7

-----------------------------------------------------------------------------
(* A position of the page is a position of the address space. *)
LEMMA PageFits ==
  ASSUME NEW x \in Nat, NEW y \in Nat, InPage(x, y)
  PROVE  /\ Width * y + x \in 0 .. Word - 1
         /\ Width * y + x < Width * (y + 1)
         /\ Width * (y + 1) <= Width * Height
<1>1. Width \in Nat /\ Height \in Nat /\ Word \in Nat /\ Width > 0
  BY TermAssumption
<1>2. x < Width /\ y + 1 <= Height
  BY <1>1 DEF InPage
<1>3. Width * (y + 1) = Width * y + Width
  BY <1>1
<1>4. PICK d \in Nat : Height = (y + 1) + d
  <2>1. Height - (y + 1) \in Nat
    BY <1>1, <1>2
  <2>2. Height = (y + 1) + (Height - (y + 1))
    BY <1>1
  <2> QED  BY <2>1, <2>2
<1>5. Width * Height = Width * (y + 1) + Width * d /\ Width * d >= 0
  BY <1>1, <1>4
<1>6. (Width + 9) * (Height + 3) = Width * Height + 3 * Width + 9 * Height + 27
  BY <1>1
<1>7. Width * Height < Word
  BY <1>1, <1>6, TermAssumption
<1>8. Width * y \in Nat
  BY <1>1
<1> QED  BY <1>1, <1>2, <1>3, <1>5, <1>7, <1>8

LEMMA ModType ==
  ASSUME NEW n \in Nat
  PROVE  n % Word \in 0 .. Word - 1
BY TermAssumption

LEMMA NewLineType ==
  ASSUME NEW t \in Consoles
  PROVE  newLine(t) \in Consoles
<1>1. (t.y + 1) % Word \in 0 .. Word - 1
  BY ModType DEF Consoles
<1>2. 0 \in 0 .. Word - 1
  BY TermAssumption
<1> DEFINE down == [t EXCEPT !.x = 0, !.y = (t.y + 1) % Word]
<1>3. down \in Consoles /\ \A h \in BOOLEAN : [down EXCEPT !.hung = h] \in Consoles
  BY <1>1, <1>2 DEF Consoles
<1>4. scrollDown(down, down.y - Height) \in Consoles
  BY <1>3 DEF scrollDown, Unless
<1> QED  BY <1>3, <1>4 DEF newLine, Unless

LEMMA GlyphType ==
  ASSUME NEW t \in Consoles
  PROVE  glyph(t) \in Consoles /\ back(t) \in Consoles /\ tab(t) \in Consoles
<1>1. /\ (t.index + 1) % Word \in 0 .. Word - 1
      /\ (t.x + 1) % Word \in 0 .. Word - 1
      /\ (t.x + Word - 1) % Word \in 0 .. Word - 1
      /\ (t.x + 8) % Word \in 0 .. Word - 1
  <2>1. t.index + 1 \in Nat /\ t.x + 1 \in Nat /\ t.x + 8 \in Nat
        /\ t.x + Word - 1 \in Nat
    BY TermAssumption DEF Consoles
  <2> QED  BY <2>1, ModType
<1>2. glyph(t) \in Consoles
  BY <1>1 DEF glyph, Unless, Consoles
<1>3. back(t) \in Consoles
  BY <1>1 DEF back, Unless, Consoles
<1>4. tab(t) \in Consoles
  BY <1>1 DEF tab, Unless, Consoles
<1> QED  BY <1>2, <1>3, <1>4

LEMMA GotoType ==
  ASSUME NEW t \in Consoles, NEW x \in Nat, NEW y \in Nat
  PROVE  gotoPosition(t, x, y) \in Consoles
<1>1. CASE InPage(x, y)
  <2>1. Width * y + x \in 0 .. Word - 1
    BY <1>1, PageFits
  <2>2. x + y * Width = Width * y + x
    BY TermAssumption
  <2>3. x \in 0 .. Word - 1 /\ y \in 0 .. Word - 1
    <3>1. Width * y >= y
      BY TermAssumption
    <3> QED  BY <3>1, <2>1, TermAssumption
  <2> QED  BY <2>1, <2>2, <2>3 DEF gotoPosition, Unless, Consoles
<1>2. CASE ~InPage(x, y)
  BY <1>2 DEF gotoPosition, Unless
<1> QED  BY <1>1, <1>2

LEMMA SettleType ==
  ASSUME NEW t \in Consoles
  PROVE  settle(t) \in Consoles
<1> DEFINE w == IF t.x >= Width THEN newLine(t) ELSE t
<1>1. w \in Consoles
  BY NewLineType
<1>2. w.x \in Nat /\ w.y \in Nat
  BY <1>1, TermAssumption DEF Consoles
<1>3. gotoPosition(w, w.x, w.y) \in Consoles
  <2> HIDE DEF w
  <2> QED  BY <1>1, <1>2, GotoType
<1> QED  BY <1>3 DEF settle

(* putChar() keeps the fields of a console in the range of a uint. *)
LEMMA PutCharType ==
  ASSUME NEW t \in Consoles, NEW c
  PROVE  putChar(t, c) \in Consoles
<1>1. newLine(newLine(t)) \in Consoles
  BY NewLineType
<1>2. glyph(newLine(t)) \in Consoles
  BY NewLineType, GlyphType
<1>3. back(settle(glyph(back(t)))) \in Consoles
  BY SettleType, GlyphType
<1>4. tab(t) \in Consoles /\ glyph(t) \in Consoles
  BY GlyphType
<1> QED  BY <1>1, <1>2, <1>3, <1>4, SettleType DEF putChar
=============================================================================
