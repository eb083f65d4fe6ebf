--------------------------- MODULE ConsoleProofs ----------------------------
(***************************************************************************)
(* Console proved for a page of any size.                                  *)
(*                                                                         *)
(* The argument: before settle(), the end of putChar(), only the row is    *)
(* known to be in or just below the page (RowOK); settle() restores the    *)
(* agreement of the cursors from that alone (Agree).  So every putChar()   *)
(* does, whatever index was.                                               *)
(***************************************************************************)
EXTENDS Console, TermProofs

RowOK(t) == t \in Consoles /\ (~t.hung => t.y <= Height)

Agree(t) ==
  /\ t \in Consoles
  /\ ~t.hung => /\ t.x < Width /\ t.y <= Height
                /\ t.y < Height => /\ t.index = Width * t.y + t.x
                                   /\ t.hw = t.index

LEMMA Sizes ==
  /\ Width \in Nat /\ Height \in Nat /\ Word \in Nat
  /\ Width > 0 /\ Height > 0
  /\ Height + 2 < Word /\ Width + 9 < Word
  /\ Width * Height \in Nat /\ Width * (Height + 1) = Width * Height + Width
  /\ Width * (Height + 1) + 1 < Word
<1>1. Width \in Nat /\ Height \in Nat /\ Word \in Nat /\ Width > 0 /\ Height > 0
  BY TermAssumption
<1>2. (Width + 9) * (Height + 3) = Width * Height + 3 * Width + 9 * Height + 27
  BY <1>1
<1>3. Width * Height \in Nat
  BY <1>1
<1>4. Width * (Height + 1) = Width * Height + Width
  BY <1>1
<1> QED  BY <1>1, <1>2, <1>3, <1>4, TermAssumption

LEMMA NewLineRow ==
  ASSUME NEW t, RowOK(t), ~t.hung
  PROVE  /\ newLine(t).x = 0
         /\ newLine(t).index = t.index
         /\ newLine(t).y = t.y + 1
         /\ newLine(t).hung <=> t.y = Height
<1>1. t \in Consoles /\ t.y \in Nat /\ t.y <= Height
  BY Sizes DEF RowOK, Consoles
<1>2. (t.y + 1) % Word = t.y + 1
  BY <1>1, Sizes
<1> DEFINE down == [t EXCEPT !.x = 0, !.y = (t.y + 1) % Word]
<1>3. /\ down.x = 0 /\ down.index = t.index /\ down.y = t.y + 1
      /\ down.hung = FALSE /\ \A h : [down EXCEPT !.hung = h].x = 0
      /\ \A h : [down EXCEPT !.hung = h].index = t.index
      /\ \A h : [down EXCEPT !.hung = h].y = t.y + 1
      /\ \A h : [down EXCEPT !.hung = h].hung = h
  BY <1>1, <1>2 DEF Consoles
<1>4. newLine(t) = IF down.y >= Height THEN scrollDown(down, down.y - Height)
                                       ELSE down
  BY DEF newLine, Unless
<1>5. scrollDown(down, down.y - Height)
        = [down EXCEPT !.hung = (down.y - Height) # 0]
  <2> HIDE DEF down
  <2> QED  BY <1>3 DEF scrollDown, Unless
<1> HIDE DEF down
<1>7. CASE t.y = Height
  <2>1. down.y >= Height /\ (down.y - Height) # 0
    BY <1>1, <1>3, <1>7, Sizes
  <2>2. newLine(t) = [down EXCEPT !.hung = TRUE]
    BY <1>4, <1>5, <2>1
  <2> QED  BY <1>3, <1>7, <2>2
<1>8. CASE t.y + 1 = Height
  <2>1. down.y >= Height /\ ~((down.y - Height) # 0)
    BY <1>1, <1>3, <1>8, Sizes
  <2>2. newLine(t) = [down EXCEPT !.hung = FALSE]
    BY <1>4, <1>5, <2>1
  <2> QED  BY <1>1, <1>3, <1>8, <2>2, Sizes
<1>9. CASE t.y + 1 < Height
  <2>1. newLine(t) = down
    BY <1>1, <1>3, <1>4, <1>9, Sizes
  <2> QED  BY <1>1, <1>3, <1>9, <2>1, Sizes
<1> QED  BY <1>1, <1>7, <1>8, <1>9, Sizes

LEMMA NewLineRowOK ==
  ASSUME NEW t, RowOK(t)
  PROVE  RowOK(newLine(t))
<1>1. newLine(t) \in Consoles
  BY NewLineType DEF RowOK
<1>2. CASE t.hung
  BY <1>2 DEF newLine, Unless, RowOK
<1>3. CASE ~t.hung
  BY <1>1, <1>3, NewLineRow, Sizes DEF RowOK, Consoles
<1> QED  BY <1>2, <1>3

LEMMA GlyphRowOK ==
  ASSUME NEW t, RowOK(t)
  PROVE  RowOK(glyph(t)) /\ RowOK(back(t)) /\ RowOK(tab(t))
<1>1. glyph(t) \in Consoles /\ back(t) \in Consoles /\ tab(t) \in Consoles
  BY GlyphType DEF RowOK
<1> QED  BY <1>1 DEF RowOK, glyph, back, tab, Unless, Consoles

LEMMA GotoAgree ==
  ASSUME NEW t \in Consoles, NEW x \in Nat, NEW y \in Nat,
         InPage(x, y) \/ Agree(t)
  PROVE  Agree(gotoPosition(t, x, y))
<1>1. gotoPosition(t, x, y) \in Consoles
  BY GotoType
<1>2. CASE t.hung
  BY <1>1, <1>2 DEF gotoPosition, Unless, Agree
<1>3. CASE ~t.hung /\ InPage(x, y)
  <2>1. gotoPosition(t, x, y) = [t EXCEPT !.x = x, !.y = y,
                                  !.index = Width * y + x, !.hw = x + y * Width]
    BY <1>3 DEF gotoPosition, Unless
  <2>2. x < Width /\ y < Height /\ x + y * Width = Width * y + x
    BY <1>3, Sizes DEF InPage
  <2> QED  BY <1>1, <2>1, <2>2, Sizes DEF Agree, Consoles
<1>4. CASE ~t.hung /\ ~InPage(x, y)
  BY <1>4 DEF gotoPosition, Unless
<1> QED  BY <1>2, <1>3, <1>4

(* settle() makes the cursors agree, whatever column and index it is given.*)
LEMMA SettleAgree ==
  ASSUME NEW t, RowOK(t)
  PROVE  Agree(settle(t))
<1> DEFINE w == IF t.x >= Width THEN newLine(t) ELSE t
<1>1. RowOK(w)
  BY NewLineRowOK
<1>2. w \in Consoles /\ w.x \in Nat /\ w.y \in Nat
  BY <1>1, Sizes DEF RowOK, Consoles
<1>3. CASE w.hung
  <2> HIDE DEF w
  <2>1. gotoPosition(w, w.x, w.y) = w
    BY <1>3 DEF gotoPosition, Unless
  <2> QED  BY <1>2, <1>3, <2>1 DEF Agree, settle, w
<1>4. CASE ~w.hung
  <2>1. w.x < Width
    <3>1. CASE t.x >= Width
      <4>1. ~t.hung
        BY <1>4, <3>1 DEF newLine, Unless
      <4> QED  BY <3>1, <4>1, NewLineRow, Sizes
    <3>2. CASE ~(t.x >= Width)
      BY <1>2, <3>2, Sizes
    <3> QED  BY <3>1, <3>2
  <2>2. w.y <= Height
    BY <1>1, <1>4 DEF RowOK
  <2> HIDE DEF w
  <2>3. Agree(gotoPosition(w, w.x, w.y))
    <3>1. CASE w.y < Height
      BY <1>2, <2>1, <3>1, GotoAgree DEF InPage
    <3>2. CASE ~(w.y < Height)
      <4>1. Agree(w)
        BY <1>2, <2>1, <2>2, <3>2 DEF Agree
      <4> QED  BY <1>2, <4>1, GotoAgree
    <3> QED  BY <3>1, <3>2
  <2> QED  BY <2>3 DEF settle, w
<1> QED  BY <1>3, <1>4

LEMMA AgreeRowOK ==
  ASSUME NEW t, Agree(t)
  PROVE  RowOK(t)
BY DEF Agree, RowOK

(* So does every putChar(). *)
LEMMA PutCharAgree ==
  ASSUME NEW t, RowOK(t), NEW c
  PROVE  Agree(putChar(t, c))
<1>1. RowOK(newLine(newLine(t))) /\ RowOK(glyph(newLine(t)))
  BY NewLineRowOK, GlyphRowOK
<1>2. RowOK(back(settle(glyph(back(t)))))
  <2>1. RowOK(settle(glyph(back(t))))
    BY GlyphRowOK, SettleAgree, AgreeRowOK
  <2> QED  BY <2>1, GlyphRowOK
<1>3. RowOK(tab(t)) /\ RowOK(glyph(t))
  BY GlyphRowOK
<1> QED  BY <1>1, <1>2, <1>3, SettleAgree DEF putChar

LEMMA PutcAgree ==
  ASSUME NEW t, Agree(t), NEW c
  PROVE  Agree(putc(t, c))
<1>1. RowOK(t)
  BY AgreeRowOK
<1>2. RowOK(scrollDown(t, 1))
  BY <1>1 DEF RowOK, scrollDown, Unless, Consoles
<1> QED  BY <1>1, <1>2, PutCharAgree DEF putc

-----------------------------------------------------------------------------
(* Where index can be, on the page and on the row below it, if nothing has *)
(* moved the cursor back: not ahead of the cursor, nor of the row's end.   *)
Low(t) ==
  /\ RowOK(t)
  /\ t.hung => t.index <= Width * (Height + 1)
  /\ ~t.hung => /\ t.index <= Width * t.y + t.x
                /\ t.index <= Width * t.y + Width

LEMMA Rows ==
  ASSUME NEW y \in Nat, y <= Height
  PROVE  /\ Width * y \in Nat /\ Width * (y + 1) = Width * y + Width
         /\ Width * y + Width <= Width * (Height + 1)
         /\ Width * y + Width + 1 < Word
<1>1. Width \in Nat /\ Height \in Nat /\ Width * y \in Nat
  BY Sizes
<1>2. Width * y <= Width * Height
  BY <1>1
<1>3. Width * (y + 1) = Width * y + Width
  BY <1>1
<1> QED  BY <1>1, <1>2, <1>3, Sizes

LEMMA LowFields ==
  ASSUME NEW t, Low(t)
  PROVE  /\ t \in Consoles /\ t.index \in Nat /\ t.x \in Nat /\ t.y \in Nat
         /\ ~t.hung => t.y <= Height
BY Sizes DEF Low, RowOK, Consoles

LEMMA NewLineLow ==
  ASSUME NEW t, Low(t)
  PROVE  Low(newLine(t))
<1>1. RowOK(t) /\ RowOK(newLine(t))
  BY NewLineRowOK DEF Low
<1>2. CASE t.hung
  BY <1>2 DEF newLine, Unless, Low
<1>3. CASE ~t.hung
  <2>1. /\ newLine(t).x = 0 /\ newLine(t).index = t.index
        /\ newLine(t).y = t.y + 1 /\ (newLine(t).hung <=> t.y = Height)
    BY <1>1, <1>3, NewLineRow
  <2>2. /\ t.index <= Width * t.y + Width /\ t.y \in Nat /\ t.y <= Height
        /\ t.index \in Nat
    BY <1>3, LowFields DEF Low
  <2>3. /\ Width * (t.y + 1) = Width * t.y + Width
        /\ Width * t.y + Width <= Width * (Height + 1)
        /\ Width * t.y \in Nat
    BY <2>2, Rows
  <2>4. newLine(t).hung => newLine(t).index <= Width * (Height + 1)
    BY <2>1, <2>2, <2>3, Sizes
  <2>5. /\ newLine(t).index <= Width * newLine(t).y + newLine(t).x
        /\ newLine(t).index <= Width * newLine(t).y + Width
    BY <2>1, <2>2, <2>3, Sizes
  <2> QED  BY <1>1, <2>4, <2>5 DEF Low
<1> QED  BY <1>2, <1>3

LEMMA GlyphLow ==
  ASSUME NEW t, Low(t), ~t.hung => t.x < Width
  PROVE  Low(glyph(t)) /\ Low(tab(t))
<1>1. RowOK(t) /\ RowOK(glyph(t)) /\ RowOK(tab(t))
  BY GlyphRowOK DEF Low
<1>2. CASE t.hung
  BY <1>2 DEF glyph, tab, Unless, Low
<1>3. CASE ~t.hung
  <2>1. /\ t.index <= Width * t.y + t.x /\ t.x < Width
        /\ t.y \in Nat /\ t.y <= Height /\ t.x \in Nat /\ t.index \in Nat
        /\ t \in Consoles
    BY <1>3, LowFields DEF Low
  <2>2. Width * t.y \in Nat /\ Width * t.y + Width + 1 < Word
    BY <2>1, Rows
  <2>3. /\ (t.index + 1) % Word = t.index + 1
        /\ (t.x + 1) % Word = t.x + 1 /\ (t.x + 8) % Word = t.x + 8
    BY <2>1, <2>2, Sizes
  <2>4. /\ glyph(t) = [t EXCEPT !.index = t.index + 1, !.x = t.x + 1]
        /\ tab(t) = [t EXCEPT !.x = t.x + 8]
    BY <1>3, <2>3 DEF glyph, tab, Unless
  <2>5. /\ glyph(t).index = t.index + 1 /\ glyph(t).x = t.x + 1
        /\ glyph(t).y = t.y /\ glyph(t).hung = t.hung
        /\ tab(t).index = t.index /\ tab(t).x = t.x + 8
        /\ tab(t).y = t.y /\ tab(t).hung = t.hung
    BY <2>1, <2>4 DEF Consoles
  <2>6. /\ t.index + 1 <= Width * t.y + (t.x + 1)
        /\ t.index + 1 <= Width * t.y + Width
        /\ t.index <= Width * t.y + (t.x + 8)
        /\ t.index <= Width * t.y + Width
    BY <2>1, <2>2, Sizes
  <2> QED  BY <1>1, <1>3, <2>5, <2>6 DEF Low
<1> QED  BY <1>2, <1>3

LEMMA GotoLow ==
  ASSUME NEW t, Low(t), NEW x \in Nat, NEW y \in Nat
  PROVE  Low(gotoPosition(t, x, y))
<1>1. CASE t.hung \/ ~InPage(x, y)
  BY <1>1 DEF gotoPosition, Unless
<1>2. CASE ~t.hung /\ InPage(x, y)
  <2>1. Agree(gotoPosition(t, x, y)) /\ gotoPosition(t, x, y) \in Consoles
    BY <1>2, LowFields, GotoAgree, GotoType
  <2>2. gotoPosition(t, x, y) = [t EXCEPT !.x = x, !.y = y,
                                  !.index = Width * y + x, !.hw = x + y * Width]
    BY <1>2 DEF gotoPosition, Unless
  <2>3. /\ gotoPosition(t, x, y).x = x /\ gotoPosition(t, x, y).y = y
        /\ gotoPosition(t, x, y).index = Width * y + x
        /\ gotoPosition(t, x, y).hung = t.hung
    BY <2>2, LowFields DEF Consoles
  <2>4. x < Width /\ Width * y \in Nat
    BY <1>2, Sizes DEF InPage
  <2>5. Width * y + x <= Width * y + x /\ Width * y + x <= Width * y + Width
    BY <2>4, Sizes
  <2> QED  BY <1>2, <2>1, <2>3, <2>5, AgreeRowOK DEF Low
<1> QED  BY <1>1, <1>2

LEMMA PutCharLow ==
  ASSUME NEW t, Low(t), Agree(t), NEW c, c # BS
  PROVE  Low(putChar(t, c))
<1>1. ASSUME NEW u, Low(u) PROVE Low(settle(u))
  <2> DEFINE w == IF u.x >= Width THEN newLine(u) ELSE u
  <2>1. Low(w)
    BY <1>1, NewLineLow
  <2>2. w.x \in Nat /\ w.y \in Nat
    BY <2>1, LowFields
  <2> HIDE DEF w
  <2>3. Low(gotoPosition(w, w.x, w.y))
    BY <2>1, <2>2, GotoLow
  <2> QED  BY <2>3 DEF settle, w
<1>2. Low(newLine(t)) /\ Low(newLine(newLine(t)))
  BY NewLineLow
<1>3. ~newLine(t).hung => newLine(t).x < Width
  <2>1. CASE t.hung
    BY <2>1 DEF newLine, Unless
  <2>2. CASE ~t.hung
    BY <2>2, NewLineRow, Sizes DEF Low
  <2> QED  BY <2>1, <2>2
<1>4. Low(glyph(newLine(t)))
  BY <1>2, <1>3, GlyphLow
<1>5. Low(glyph(t)) /\ Low(tab(t))
  BY GlyphLow DEF Agree
<1> QED  BY <1>1, <1>2, <1>4, <1>5 DEF putChar

LEMMA PutcLow ==
  ASSUME NEW t, Low(t), Agree(t), NEW c, c # BS
  PROVE  Low(putc(t, c))
<1> DEFINE s == scrollDown(t, 1)
<1>1. CASE t.hung
  BY <1>1, PutCharLow DEF putc, scrollDown, Unless
<1>2. CASE ~t.hung
  <2>1. s = [t EXCEPT !.hung = TRUE] /\ t \in Consoles
    <3>1. s = [t EXCEPT !.hung = 1 # 0]
      BY <1>2 DEF scrollDown, Unless
    <3>2. (1 # 0) = TRUE
      OBVIOUS
    <3> QED  BY <3>1, <3>2, LowFields
  <2>2. s.hung /\ s.index = t.index /\ s \in Consoles
    BY <2>1 DEF Consoles
  <2>3. /\ t.index <= Width * t.y + Width /\ t.y \in Nat /\ t.y <= Height
        /\ t.index \in Nat
    BY <1>2, LowFields DEF Low
  <2>4. Width * t.y + Width <= Width * (Height + 1) /\ Width * t.y \in Nat
    BY <2>3, Rows
  <2>5. t.index <= Width * (Height + 1)
    BY <2>3, <2>4, Sizes
  <2> HIDE DEF s
  <2>6. Low(s) /\ Agree(s)
    BY <2>2, <2>5 DEF Low, RowOK, Agree
  <2>7. Low(putChar(s, c)) /\ Low(putChar(t, c))
    BY <2>6, PutCharLow
  <2> QED  BY <2>7 DEF putc, s
<1> QED  BY <1>1, <1>2

-----------------------------------------------------------------------------
(* While clearScreen() runs, index counts what it has written: it fills    *)
(* the page row by row.                                                    *)
Filling ==
  pc = "clear" => /\ ~Stdout.hung
                  /\ i = Width * Stdout.y + Stdout.x
                  /\ Stdout.index = i
                  /\ blanks = 0 .. i - 1

NotErased == ~erased => Low(Stdout)

Inv == TypeOK /\ Agree(Stdout) /\ Filling /\ NotErased

LEMMA InitInv == Init => Inv
<1> SUFFICES ASSUME Init PROVE Inv
  OBVIOUS
<1>1. Stdout = [index |-> 0, x |-> 0, y |-> 0, hw |-> 0, hung |-> FALSE]
  BY DEF Init, InitialConsole
<1>2. Stdout \in Consoles
  BY <1>1, Sizes DEF Consoles
<1>3. Width * 0 + 0 = 0
  BY Sizes
<1>4. Agree(Stdout)
  BY <1>1, <1>2, <1>3, Sizes DEF Agree
<1>5. pc = "idle" /\ i = 0 /\ blanks = {} /\ erased = FALSE
  BY DEF Init
<1>6. 0 \in 0 .. Width * Height
  BY Sizes
<1>7. TypeOK /\ Filling
  BY <1>2, <1>5, <1>6 DEF TypeOK, Filling
<1>8. Low(Stdout)
  BY <1>1, <1>2, <1>3, Sizes DEF Low, RowOK
<1> QED  BY <1>4, <1>7, <1>8 DEF Inv, NotErased

(* A turn of the loop: one more blank, and one step right or to the next   *)
(* row, which exists or is the row below the page.                         *)
LEMMA TurnFills ==
  ASSUME Inv, pc = "clear", i < Width * Height
  PROVE  LET t == putChar(Stdout, Space)
         IN  /\ ~t.hung
             /\ i + 1 = Width * t.y + t.x
             /\ t.index = i + 1
<1> DEFINE s == Stdout
           g == glyph(s)
           t == putChar(s, Space)
<1>1. /\ s \in Consoles /\ ~s.hung /\ s.index = i /\ i = Width * s.y + s.x
      /\ s.x \in Nat /\ s.y \in Nat /\ i \in Nat /\ s.x < Width /\ s.y <= Height
  BY Sizes DEF Inv, TypeOK, Agree, Filling, Consoles
<1>2. s.y < Height
  <2>1. CASE s.y = Height
    BY <1>1, <2>1, Sizes
  <2> QED  BY <1>1, <2>1, Sizes
<1>3. (s.index + 1) % Word = i + 1 /\ (s.x + 1) % Word = s.x + 1
  BY <1>1, Sizes
<1>4. /\ g \in Consoles /\ ~g.hung /\ g.y = s.y /\ g.x = s.x + 1
      /\ g.index = i + 1
  <2>1. g = [s EXCEPT !.index = i + 1, !.x = s.x + 1]
    BY <1>1, <1>3 DEF glyph, Unless
  <2> QED  BY <1>1, <2>1, GlyphType DEF Consoles
<1>5. t = settle(g)
  BY DEF putChar, Space, LF, CR, TAB, NUL, BS
<1>6. RowOK(g)
  BY <1>2, <1>4, <1>1, Sizes DEF RowOK
<1> HIDE DEF g, t, s
<1>7. CASE g.x < Width
  <2>1. InPage(g.x, g.y)
    BY <1>1, <1>2, <1>4, <1>7 DEF InPage
  <2>2. t = [g EXCEPT !.x = g.x, !.y = g.y, !.index = Width * g.y + g.x,
                      !.hw = g.x + g.y * Width]
    <3>1. ~(g.x >= Width)
      BY <1>1, <1>4, <1>7, Sizes
    <3> QED  BY <1>4, <1>5, <2>1, <3>1 DEF settle, gotoPosition, Unless
  <2>3. Width * g.y + g.x = i + 1
    BY <1>1, <1>4, Sizes
  <2>4. ~t.hung /\ t.x = g.x /\ t.y = g.y /\ t.index = Width * g.y + g.x
    BY <1>4, <2>2 DEF Consoles
  <2> QED  BY <2>3, <2>4 DEF t, s
<1>8. CASE ~(g.x < Width)
  <2> DEFINE n == newLine(g)
  <2>1. g.x >= Width /\ s.x + 1 = Width
    BY <1>1, <1>4, <1>8, Sizes
  <2>2. n.x = 0 /\ n.index = i + 1 /\ n.y = s.y + 1 /\ ~n.hung
    BY <1>1, <1>2, <1>4, <1>6, NewLineRow, Sizes
  <2>3. t = gotoPosition(n, n.x, n.y)
    BY <1>5, <2>1 DEF settle
  <2>4. Width * (s.y + 1) + 0 = i + 1
    BY <1>1, <2>1, Sizes
  <2>5. n \in Consoles
    BY <1>4, NewLineType
  <2> HIDE DEF n
  <2>6. CASE InPage(n.x, n.y)
    <3>1. t = [n EXCEPT !.x = n.x, !.y = n.y, !.index = Width * n.y + n.x,
                        !.hw = n.x + n.y * Width]
      BY <2>2, <2>3, <2>6 DEF gotoPosition, Unless
    <3>2. ~t.hung /\ t.x = 0 /\ t.y = s.y + 1
          /\ t.index = Width * (s.y + 1) + 0
      BY <2>2, <2>5, <3>1 DEF Consoles
    <3> QED  BY <2>4, <3>2 DEF t, s
  <2>7. CASE ~InPage(n.x, n.y)
    <3>1. t = n
      BY <2>2, <2>3, <2>7 DEF gotoPosition, Unless
    <3> QED  BY <2>2, <2>4, <3>1 DEF t, s
  <2> QED  BY <2>6, <2>7
<1> QED  BY <1>1, <1>4, <1>7, <1>8, Sizes

(* gotoPosition(0, 0): the console is at the top, unless it hangs.         *)
LEMMA HomeTop ==
  ASSUME Agree(Stdout), ~Stdout.hung
  PROVE  LET t == gotoPosition(Stdout, 0, 0)
         IN  Agree(t) /\ ~t.hung /\ t.x = 0 /\ t.y = 0 /\ t.index = 0
<1> DEFINE t == gotoPosition(Stdout, 0, 0)
<1>1. InPage(0, 0) /\ Width * 0 + 0 = 0
  BY Sizes DEF InPage
<1>2. Agree(t)
  BY <1>1, GotoAgree DEF Agree
<1>3. t = [Stdout EXCEPT !.x = 0, !.y = 0, !.index = Width * 0 + 0,
                         !.hw = 0 + 0 * Width]
  BY <1>1 DEF gotoPosition, Unless
<1> HIDE DEF t
<1>4. ~t.hung /\ t.x = 0 /\ t.y = 0 /\ t.index = 0
  BY <1>1, <1>3 DEF Agree, Consoles
<1> QED  BY <1>2, <1>4 DEF t

LEMMA NextInv == Inv /\ [Next]_vars => Inv'
<1> SUFFICES ASSUME Inv, [Next]_vars PROVE Inv'
  OBVIOUS
<1>1. TypeOK /\ Agree(Stdout) /\ Filling /\ NotErased
  BY DEF Inv
<1>2. ASSUME NEW c \in Chars, Put(c) PROVE Inv'
  <2>1. Agree(Stdout')
    BY <1>1, <1>2, PutcAgree DEF Put
  <2>2. Stdout' = putc(Stdout, c) /\ erased' = (erased \/ c = BS)
        /\ pc = "idle" /\ pc' = pc /\ i' = i /\ blanks' = blanks
    BY <1>2 DEF Put, Idle
  <2>3. erased' \in BOOLEAN
    BY <2>2
  <2>4. TypeOK'
    BY <1>1, <2>1, <2>2, <2>3 DEF TypeOK, Agree
  <2>5. Filling'
    BY <2>2 DEF Filling
  <2>6. NotErased'
    <3>1. CASE ~erased /\ c # BS
      <4>1. Low(putc(Stdout, c))
        BY <1>1, <3>1, PutcLow DEF NotErased
      <4> QED  BY <2>2, <4>1 DEF NotErased
    <3>2. CASE erased \/ c = BS
      BY <2>2, <3>2 DEF NotErased
    <3> QED  BY <3>1, <3>2
  <2> QED  BY <2>1, <2>4, <2>5, <2>6 DEF Inv, Agree
<1>3. ASSUME NEW x \in 0 .. Width, NEW y \in 0 .. Height, Goto(x, y) PROVE Inv'
  <2>1. Agree(Stdout')
    <3>1. x \in Nat /\ y \in Nat
      BY Sizes
    <3> QED  BY <1>1, <1>3, <3>1, GotoAgree DEF Goto, Agree
  <2>2. TypeOK'
    BY <1>1, <1>3, <2>1 DEF Goto, TypeOK, Agree
  <2>3. Filling'
    BY <1>3 DEF Goto, Idle, Filling
  <2>4. NotErased'
    <3>1. x \in Nat /\ y \in Nat
      BY Sizes
    <3>2. Low(Stdout) => Low(gotoPosition(Stdout, x, y))
      BY <3>1, GotoLow
    <3> QED  BY <1>1, <1>3, <3>2 DEF Goto, NotErased
  <2> QED  BY <2>1, <2>2, <2>3, <2>4 DEF Inv, Agree
<1>4. CASE ClearBegin
  <2>1. Agree(Stdout') /\ ~Stdout'.hung /\ Stdout'.index = 0
        /\ Stdout'.x = 0 /\ Stdout'.y = 0
    BY <1>1, <1>4, HomeTop DEF ClearBegin, Idle
  <2>2. TypeOK'
    BY <1>1, <1>4, <2>1, Sizes DEF ClearBegin, TypeOK, Agree
  <2>3. Filling'
    <3>1. Width * 0 + 0 = 0 /\ 0 .. 0 - 1 = {}
      BY Sizes
    <3> QED  BY <1>4, <2>1, <3>1 DEF ClearBegin, Filling
  <2>4. NotErased'
    <3>1. Low(Stdout) => Low(gotoPosition(Stdout, 0, 0))
      BY GotoLow
    <3> QED  BY <1>1, <1>4, <3>1 DEF ClearBegin, NotErased
  <2> QED  BY <2>1, <2>2, <2>3, <2>4 DEF Inv, Agree
<1>5. CASE ClearTurn
  <2>1. /\ pc = "clear" /\ pc' = "clear" /\ i < Width * Height /\ i' = i + 1
        /\ Stdout' = putChar(Stdout, Space) /\ blanks' = blanks \cup {i}
        /\ erased' = erased
    BY <1>1, <1>5 DEF ClearTurn, Filling
  <2>2. i \in Nat
    BY <1>1, Sizes DEF TypeOK
  <2>3. Agree(Stdout')
    BY <1>1, <2>1, AgreeRowOK, PutCharAgree
  <2>4. TypeOK'
    <3>1. i \in 0 .. Word - 1
      BY <2>1, <2>2, Sizes
    <3> QED  BY <1>1, <2>1, <2>2, <2>3, <3>1, Sizes DEF TypeOK, Agree
  <2>5. Filling'
    <3>1. /\ ~Stdout'.hung /\ i' = Width * Stdout'.y + Stdout'.x
          /\ Stdout'.index = i'
      BY <2>1, TurnFills
    <3>2. blanks' = 0 .. i' - 1
      <4>1. blanks' = (0 .. i - 1) \cup {i}
        BY <1>1, <2>1 DEF Filling
      <4>2. i' - 1 = i
        BY <2>1, <2>2
      <4> QED  BY <2>2, <4>1, <4>2
    <3> QED  BY <3>1, <3>2 DEF Filling
  <2>6. NotErased'
    <3>1. Space # BS
      BY DEF Space, BS
    <3>2. Low(Stdout) => Low(putChar(Stdout, Space))
      BY <1>1, <3>1, PutCharLow
    <3> QED  BY <1>1, <2>1, <3>2 DEF NotErased
  <2> QED  BY <2>3, <2>4, <2>5, <2>6 DEF Inv, Agree
<1>6. CASE ClearEnd
  <2>1. Agree(Stdout')
    BY <1>1, <1>6, HomeTop DEF ClearEnd
  <2>2. TypeOK'
    BY <1>1, <1>6, <2>1 DEF ClearEnd, TypeOK, Agree
  <2>3. Filling'
    BY <1>6 DEF ClearEnd, Filling
  <2>4. NotErased'
    <3>1. Low(Stdout) => Low(gotoPosition(Stdout, 0, 0))
      BY GotoLow
    <3> QED  BY <1>1, <1>6, <3>1 DEF ClearEnd, NotErased
  <2> QED  BY <2>1, <2>2, <2>3, <2>4 DEF Inv, Agree
<1>7. CASE UNCHANGED vars
  BY <1>1, <1>7 DEF vars, Inv, TypeOK, Agree, Filling, NotErased
<1> QED  BY <1>2, <1>3, <1>4, <1>5, <1>6, <1>7 DEF Next, clearScreen

LEMMA Invariance == Spec => []Inv
BY InitInv, NextInv, PTL DEF Spec

(* The fields of struct Term keep their types. *)
THEOREM TypeCorrect == Spec => []TypeOK
<1>1. Inv => TypeOK
  BY DEF Inv
<1> QED  BY <1>1, Invariance, PTL

(* Between two calls index, the cursor and the hardware cursor agree: no   *)
(* sequence of characters, backspaces among them, separates them on the    *)
(* page.                                                                   *)
THEOREM CursorsAgreeAlways == Spec => []CursorsAgree
<1>1. Inv => CursorsAgree
  BY DEF Inv, Agree, CursorsAgree
<1> QED  BY <1>1, Invariance, PTL

(* index stays within a row behind the page as long as no backspace is     *)
(* written.                                                                *)
THEOREM IndexStaysBounded == Spec => []IndexBounded
<1>1. Inv => IndexBounded
  <2> SUFFICES ASSUME Inv, ~erased PROVE Stdout.index <= Width * (Height + 1)
    BY DEF IndexBounded
  <2>1. Low(Stdout) /\ Stdout.index \in Nat
    BY LowFields DEF Inv, NotErased
  <2>2. CASE Stdout.hung
    BY <2>1, <2>2 DEF Low
  <2>3. CASE ~Stdout.hung
    <3>1. /\ Stdout.index <= Width * Stdout.y + Width
          /\ Stdout.y \in Nat /\ Stdout.y <= Height
      BY <2>1, <2>3, LowFields DEF Low
    <3>2. /\ Width * Stdout.y + Width <= Width * (Height + 1)
          /\ Width * Stdout.y \in Nat
      BY <3>1, Rows
    <3> QED  BY <2>1, <3>1, <3>2, Sizes
  <2> QED  BY <2>2, <2>3
<1> QED  BY <1>1, Invariance, PTL

(* clearScreen() blanks every cell of the page, none outside, and returns  *)
(* with the cursor at the top, on a page of any size.                      *)
THEOREM ClearsThePage == Spec => ClearsPage
<1> DEFINE Cleared == ClearEnd => /\ blanks = Cells
                                  /\ Stdout'.index = 0 /\ Stdout'.x = 0
                                  /\ Stdout'.y = 0
<1>1. Inv /\ [Next]_vars => [Cleared]_vars
  <2> SUFFICES ASSUME Inv, ClearEnd PROVE Cleared
    BY DEF vars
  <2>1. blanks = Cells
    BY DEF Inv, Filling, ClearEnd, Cells
  <2>2. Stdout'.index = 0 /\ Stdout'.x = 0 /\ Stdout'.y = 0
    BY HomeTop DEF Inv, ClearEnd
  <2> QED  BY <2>1, <2>2
<1> QED  BY <1>1, Invariance, PTL DEF Spec, ClearsPage

(* clearScreen() never scrolls: it does not hang, wherever it is called    *)
(* (but for fairness, that it returns).                                    *)
THEOREM ClearNeverHangs == Spec => [](pc = "clear" => ~Stdout.hung)
<1>1. Inv => (pc = "clear" => ~Stdout.hung)
  BY DEF Inv, Filling
<1> QED  BY <1>1, Invariance, PTL
=============================================================================
