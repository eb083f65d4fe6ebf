-------------------------------- MODULE Term --------------------------------
(***************************************************************************)
(* The console of klib/Stdout.d: struct Term and its operations, as        *)
(* functions from a console to the console after the call.                 *)
(*                                                                         *)
(* A console is a record with the fields of struct Term that control it:   *)
(*   index  where in the text page the next character goes                 *)
(*   x, y   the cursor                                                     *)
(* and two more:                                                           *)
(*   hw     the position the CRT controller was last given                 *)
(*   hung   scrollDown() was entered with lines > 0: its loop never counts *)
(*          lines down, so the call, and its caller, never return          *)
(* Every operation leaves a hung console as it is.  What is on the screen  *)
(* is abstracted to the index at which it is written; so are colours.      *)
(***************************************************************************)
EXTENDS ScanCode

CONSTANTS Width, Height,    \* size: 80 x 25
          Word              \* a uint is a number modulo Word: 2^32

ASSUME TermAssumption ==
  /\ Width \in Nat /\ Height \in Nat /\ Word \in Nat
  /\ Width > 0 /\ Height > 0
  /\ Word > (Width + 9) * (Height + 3)

Consoles == [index : 0 .. Word - 1, x : 0 .. Word - 1, y : 0 .. Word - 1,
             hw : 0 .. Word - 1, hung : BOOLEAN]

(* initStdout *)
InitialConsole == [index |-> 0, x |-> 0, y |-> 0, hw |-> 0, hung |-> FALSE]

InPage(x, y) == x < Width /\ y < Height

(* The console after a call that sets the fields of c, unless it hangs. *)
Unless(t, c) == IF t.hung THEN t ELSE c

(* MUTANT: moves the cursor and forgets index. *)
gotoPositionKeepsIndex(t, x, y) ==
  Unless(t, IF InPage(x, y)
            THEN [t EXCEPT !.x = x, !.y = y, !.hw = x + y * Width] ELSE t)

gotoPosition(t, x, y) ==
  Unless(t, IF InPage(x, y)
            THEN [t EXCEPT !.x = x, !.y = y,
                           !.index = Width * y + x, !.hw = x + y * Width]
            ELSE t)

(* MUTANT: counts its lines down, and returns. *)
scrollDownReturns(t, lines) == t

scrollDown(t, lines) == Unless(t, [t EXCEPT !.hung = lines # 0])

(* MUTANT: scrolls a row early. *)
newLineEarly(t) ==
  LET down == [t EXCEPT !.x = 0, !.y = (t.y + 1) % Word]
  IN  Unless(t, IF down.y + 1 >= Height THEN scrollDown(down, 1) ELSE down)

newLine(t) ==
  LET down == [t EXCEPT !.x = 0, !.y = (t.y + 1) % Word]
  IN  Unless(t, IF down.y >= Height THEN scrollDown(down, down.y - Height)
                                    ELSE down)

(* buffer[index++] = Character(c, attribute);  cursor.x++; *)
glyph(t) == Unless(t, [t EXCEPT !.index = (t.index + 1) % Word,
                                !.x = (t.x + 1) % Word])

(* MUTANT: a signed column. *)
backSigned(t) == Unless(t, [t EXCEPT !.x = t.x - 1])

(* cursor.x--; at column 0 a uint wraps around. *)
back(t) == Unless(t, [t EXCEPT !.x = (t.x + Word - 1) % Word])

tab(t) == Unless(t, [t EXCEPT !.x = (t.x + 8) % Word])

(* The end of putChar(): wrap at the right edge, then let index and the    *)
(* hardware cursor follow the cursor.                                      *)
settle(t) ==
  LET wrapped == IF t.x >= Width THEN newLine(t) ELSE t
  IN  gotoPosition(wrapped, wrapped.x, wrapped.y)

(* putChar, without what it does to KB_BUFFLEN for a backspace (LenChange).*)
putChar(t, c) ==
  settle(CASE c = LF  -> newLine(newLine(t))
           [] c = CR  -> glyph(newLine(t))
           [] c = TAB -> tab(t)
           [] c = NUL -> t
           [] c = BS  -> back(settle(glyph(back(t))))
           [] OTHER   -> glyph(t))

(* MUTANT: takes the character before the backspace off as well. *)
LenChangeErases(c) == IF c = BS THEN 2 ELSE 0

(* putChar('\b') also executes Stdin.KB_BUFFLEN--. *)
LenChange(c) == IF c = BS THEN 1 ELSE 0

(* std.stdio.putc: scrolls first in a corner that its test, with the       *)
(* columns and the rows exchanged, puts outside the page.                  *)
putc(t, c) ==
  putChar(IF t.x >= 25 /\ t.y >= 80 THEN scrollDown(t, 1) ELSE t, c)
=============================================================================
