------------------------------ MODULE Console -------------------------------
(***************************************************************************)
(* The console Stdout of klib/Stdout.d and a program that calls it, with   *)
(* interrupts off: putc(), gotoPosition() and clearScreen() in any order.  *)
(* (Keyboard adds the interrupt handler, which calls putChar() itself.)    *)
(*                                                                         *)
(* clearScreen() takes a step per turn of its loop.                        *)
(***************************************************************************)
EXTENDS Term

CONSTANTS Chars         \* the characters the program writes

ASSUME ConsoleAssumption == Chars \subseteq 0 .. 255

VARIABLES
  Stdout,
  pc,           \* "idle", or "clear" and "home" in clearScreen()
  i,            \* the loop counter of clearScreen()
  blanks,       \* HISTORY: where the latest clearScreen() wrote a blank
  erased        \* HISTORY: a backspace was written

vars == << Stdout, pc, i, blanks, erased >>

Cells == 0 .. Width * Height - 1
Space == 32

Init ==
  /\ Stdout = InitialConsole
  /\ pc = "idle"
  /\ i = 0
  /\ blanks = {}
  /\ erased = FALSE

Idle == pc = "idle" /\ ~Stdout.hung

Put(c) ==
  /\ Idle
  /\ Stdout' = putc(Stdout, c)
  /\ erased' = (erased \/ c = BS)
  /\ UNCHANGED << pc, i, blanks >>

(* A position outside the page is refused. *)
Goto(x, y) ==
  /\ Idle
  /\ Stdout' = gotoPosition(Stdout, x, y)
  /\ UNCHANGED << pc, i, blanks, erased >>

(* MUTANT: begins where the cursor is. *)
ClearBeginHere ==
  /\ Idle
  /\ i' = 0 /\ blanks' = {}
  /\ pc' = "clear"
  /\ UNCHANGED << Stdout, erased >>

ClearBegin ==
  /\ Idle
  /\ Stdout' = gotoPosition(Stdout, 0, 0)
  /\ i' = 0 /\ blanks' = {}
  /\ pc' = "clear"
  /\ UNCHANGED erased

ClearTurn ==
  /\ pc = "clear" /\ ~Stdout.hung
  /\ i < Width * Height
  /\ Stdout' = putChar(Stdout, Space)
  /\ blanks' = blanks \cup {Stdout.index}
  /\ i' = i + 1
  /\ UNCHANGED << pc, erased >>

ClearEnd ==
  /\ pc = "clear" /\ ~Stdout.hung
  /\ i = Width * Height
  /\ Stdout' = gotoPosition(Stdout, 0, 0)
  /\ pc' = "idle"
  /\ UNCHANGED << i, blanks, erased >>

clearScreen == ClearBegin \/ ClearTurn \/ ClearEnd

Next ==
  \/ \E c \in Chars : Put(c)
  \/ \E x \in 0 .. Width, y \in 0 .. Height : Goto(x, y)
  \/ clearScreen

(* A call that was begun goes on. *)
Spec == Init /\ [][Next]_vars /\ WF_vars(ClearTurn \/ ClearEnd)

-----------------------------------------------------------------------------
TypeOK ==
  /\ Stdout \in Consoles
  /\ pc \in {"idle", "clear"}
  /\ i \in 0 .. Width * Height
  /\ blanks \subseteq 0 .. Word - 1
  /\ erased \in BOOLEAN

(* Between two calls the three copies of the cursor agree: the next        *)
(* character goes where the cursor is, and the hardware shows it there.    *)
(* Only on the row below the page, where gotoPosition() refuses, they may  *)
(* differ.                                                                 *)
CursorsAgree ==
  ~Stdout.hung /\ Stdout.y < Height
    => /\ Stdout.index = Width * Stdout.y + Stdout.x
       /\ Stdout.hw = Stdout.index
       /\ Stdout.x < Width

(* No character is written more than a row behind the page, although       *)
(* index is no longer tied to the cursor there; it takes a backspace to    *)
(* stay on that row and let index run on.                                  *)
IndexBounded == ~erased => Stdout.index <= Width * (Height + 1)

(* clearScreen() blanks the whole page and nothing else, from wherever the *)
(* cursor was, and is back at the top when it returns.                     *)
ClearsPage ==
  [][ClearEnd => /\ blanks = Cells
                 /\ Stdout'.index = 0 /\ Stdout'.x = 0 /\ Stdout'.y = 0]_vars

(* clearScreen() returns: its own characters fill the page and wrap below  *)
(* it, and do not scroll.                                                  *)
ClearReturns == pc = "clear" ~> pc = "idle"
=============================================================================
