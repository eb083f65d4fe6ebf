------------------------------ MODULE Keyboard ------------------------------
(***************************************************************************)
(* The keyboard of klib/Stdin.d: the buffer the interrupt handler fills    *)
(* and KB_read() empties, with no lock between the two.                    *)
(*                                                                         *)
(* There is one processor.  The interrupt gate clears IF, so KB_handle()   *)
(* is one step; it may come between any two machine instructions of the    *)
(* main program, which therefore takes one step per access to a variable   *)
(* the handler writes.  In the compiled kernel (DNUCLEUS.ELF in fd0.img)   *)
(* the slice copy of KB_read() is an inline rep movsb, interruptible       *)
(* between two bytes, whose count was read from KB_BUFFLEN before it, and  *)
(* KB_BUFFLEN-=1 is one dec.                                               *)
(*                                                                         *)
(* A slot of KB_BUFFER holds the number of the interrupt that wrote it,    *)
(* counting from 1; typed[n] is the character of interrupt n, and 0 stands *)
(* for the char.init that D puts in every slot.                            *)
(***************************************************************************)
EXTENDS Term

CONSTANTS BufSize,      \* slots of KB_BUFFER: 1024
          Scans,        \* bytes port 0x60 may deliver
          MaxKeys       \* BOUND: interrupts in a behaviour

ASSUME KeyboardAssumption ==
  /\ BufSize \in Nat \ {0, 1}
  /\ Scans \subseteq 0..255
  /\ MaxKeys \in Nat

VARIABLES
  KB_BUFFER, KB_BUFFLEN, KB_KEYMAP, key_waiting,
  Stdout,       \* the console the handler echoes to
  pc,           \* where the main program is
  temp,         \* KB_read's local
  di, cx,       \* rep movsb: the index it writes next, the bytes left
  ret,          \* the number of the character getc() returned last
  typed,        \* HISTORY: the characters stored, by interrupt
  late,         \* HISTORY: the last interrupt that came between the test of
                \* KB_BUFFLEN and the clearing of key_waiting, or 0
  last,         \* HISTORY: the number a read returned last
  fault         \* what has destroyed the kernel's memory, or "none"

shared == << KB_BUFFER, KB_BUFFLEN, key_waiting >>
device == << KB_KEYMAP, Stdout, typed, late >>
local  == << pc, temp, di, cx, ret, last >>
vars   == << shared, device, local, fault >>

Slots == 0 .. BufSize - 1

(* What getc() returned, apart from a slot's number: '\0' because no key   *)
(* was waiting, or nothing since the processor was last woken.             *)
Nothing == -1
Fresh   == -2

(* The character that stands for a returned number. *)
Char(r) == CASE r = Nothing -> NUL
             [] r = 0       -> NoInit
             [] OTHER       -> typed[r]

(* kmain sets IF after init_KB(); the console may be anywhere by then. *)
Init ==
  /\ KB_BUFFER = [i \in Slots |-> 0]
  /\ KB_BUFFLEN = 0
  /\ KB_KEYMAP = {}
  /\ key_waiting = FALSE
  /\ Stdout \in {gotoPosition(InitialConsole, 0, y) : y \in 0 .. Height - 1}
  /\ pc = "main"
  /\ temp = 0 /\ di = 0 /\ cx = 0
  /\ ret = Fresh
  /\ typed = << >>
  /\ late = 0
  /\ last = 0
  /\ fault = "none"

Running == fault = "none" /\ ~Stdout.hung

-----------------------------------------------------------------------------
(* The interrupt handler.  With the buffer full the store goes past it;    *)
(* nothing is said of what follows.  When the echo hangs, key_waiting is   *)
(* not set, IF stays clear and the processor never leaves the handler.     *)
(* Otherwise iret resumes the main program, or ends its hlt.               *)
Received(key) ==
  LET slot == KB_BUFFLEN + 1
      echo == putChar(Stdout, key.char)
  IN  /\ typed' = Append(typed, key.char)
      /\ late' = IF pc = "clear" THEN Len(typed) + 1 ELSE late
      /\ KB_KEYMAP' = key.keymap
      /\ IF slot \notin Slots
         THEN /\ fault' = "overrun"
              /\ UNCHANGED << shared, Stdout >>
         ELSE /\ KB_BUFFER' = [KB_BUFFER EXCEPT ![slot] = Len(typed) + 1]
              /\ KB_BUFFLEN' = slot - LenChange(key.char)
              /\ Stdout' = echo
              /\ key_waiting' = (key_waiting \/ ~echo.hung)
              /\ UNCHANGED fault
      /\ IF pc = "hlt" /\ ~echo.hung
         THEN pc' = "main" /\ ret' = Fresh
         ELSE UNCHANGED << pc, ret >>
      /\ UNCHANGED << temp, di, cx, last >>

KB_handle ==
  /\ Running
  /\ Len(typed) < MaxKeys
  /\ \E scan \in Scans : \E key \in scan2char(KB_KEYMAP, scan) : Received(key)

-----------------------------------------------------------------------------
(* KB_read(), called by getc().  Every step starts from a label of pc.     *)

At(label) == Running /\ pc = label

(* if (key_waiting) *)
Enter ==
  /\ At("main")
  /\ IF key_waiting THEN pc' = "load" /\ ret' = Fresh
                    ELSE pc' = "main" /\ ret' = Nothing
  /\ UNCHANGED << shared, device, temp, di, cx, last, fault >>

(* MUTANT: reads the newest character. *)
LoadNewest ==
  /\ At("load")
  /\ temp' = KB_BUFFER[KB_BUFFLEN]
  /\ pc' = "count"
  /\ UNCHANGED << shared, device, di, cx, ret, last, fault >>

(* char temp = KB_BUFFER[0]; *)
Load ==
  /\ At("load")
  /\ temp' = KB_BUFFER[0]
  /\ pc' = "count"
  /\ UNCHANGED << shared, device, di, cx, ret, last, fault >>

(* The length of the slices, KB_BUFFLEN-1.  Of an empty buffer it is the   *)
(* largest uint, and the copy shifts all of memory down.                   *)
Count ==
  /\ At("count")
  /\ IF KB_BUFFLEN = 0
     THEN fault' = "underrun" /\ UNCHANGED << pc, di, cx >>
     ELSE /\ di' = 0 /\ cx' = KB_BUFFLEN - 1
          /\ pc' = "copy"
          /\ UNCHANGED fault
  /\ UNCHANGED << shared, device, temp, ret, last >>

(* MUTANT: blanks what it has copied. *)
CopyBlanks ==
  /\ At("copy")
  /\ IF cx = 0
     THEN pc' = "dec" /\ UNCHANGED << KB_BUFFER, di, cx >>
     ELSE /\ KB_BUFFER' = [KB_BUFFER EXCEPT ![di] = KB_BUFFER[di + 1],
                                           ![di + 1] = 0]
          /\ di' = di + 1 /\ cx' = cx - 1
          /\ UNCHANGED pc
  /\ UNCHANGED << KB_BUFFLEN, key_waiting, device, temp, ret, last, fault >>

(* KB_BUFFER[0 .. KB_BUFFLEN-1] = KB_BUFFER[1 .. KB_BUFFLEN];  a byte. *)
Copy ==
  /\ At("copy")
  /\ IF cx = 0
     THEN pc' = "dec" /\ UNCHANGED << KB_BUFFER, di, cx >>
     ELSE /\ KB_BUFFER' = [KB_BUFFER EXCEPT ![di] = KB_BUFFER[di + 1]]
          /\ di' = di + 1 /\ cx' = cx - 1
          /\ UNCHANGED pc
  /\ UNCHANGED << KB_BUFFLEN, key_waiting, device, temp, ret, last, fault >>

(* KB_BUFFLEN -= 1; *)
Dec ==
  /\ At("dec")
  /\ KB_BUFFLEN' = KB_BUFFLEN - 1
  /\ pc' = "cmp"
  /\ UNCHANGED << KB_BUFFER, key_waiting, device, temp, di, cx, ret, last,
                  fault >>

Return ==
  /\ pc' = "main" /\ ret' = temp /\ last' = temp

(* MUTANT: clears key_waiting without the test. *)
CompareNot ==
  /\ At("cmp")
  /\ pc' = "clear"
  /\ UNCHANGED << shared, device, temp, di, cx, ret, last, fault >>

(* if (KB_BUFFLEN == 0) *)
Compare ==
  /\ At("cmp")
  /\ IF KB_BUFFLEN = 0 THEN pc' = "clear" /\ UNCHANGED << ret, last >>
                       ELSE Return
  /\ UNCHANGED << shared, device, temp, di, cx, fault >>

(* MUTANT: leaves key_waiting up. *)
ClearForgets ==
  /\ At("clear")
  /\ Return
  /\ UNCHANGED << shared, device, temp, di, cx, fault >>

(* key_waiting = 0; *)
Clear ==
  /\ At("clear")
  /\ key_waiting' = FALSE
  /\ Return
  /\ UNCHANGED << KB_BUFFER, KB_BUFFLEN, device, temp, di, cx, fault >>

(* hlt: the processor sleeps until an interrupt. *)
Halt ==
  /\ At("main")
  /\ pc' = "hlt"
  /\ UNCHANGED << shared, device, temp, di, cx, ret, last, fault >>

KB_read == Enter \/ Load \/ Count \/ Copy \/ Dec \/ Compare \/ Clear

Next == KB_handle \/ KB_read \/ Halt

(* Any program that calls getc() and halts, in any order. *)
Spec == Init /\ [][Next]_vars

(* The processor executes getc() whenever it is not halted or in the       *)
(* handler.                                                                *)
FairSpec == Spec /\ WF_vars(KB_read)

(* A program that calls getc() again and again, as gets() and getln() do.  *)
PollSpec == Init /\ [][KB_handle \/ KB_read]_vars /\ WF_vars(KB_read)

-----------------------------------------------------------------------------
Labels == {"main", "hlt", "load", "count", "copy", "dec", "cmp", "clear"}

(* Types.  The history of what was typed bounds every number of the model. *)
TypeOK ==
  /\ KB_BUFFER \in [Slots -> 0 .. Len(typed)]
  /\ KB_BUFFLEN \in Slots
  /\ KB_KEYMAP \subseteq Flags
  /\ key_waiting \in BOOLEAN
  /\ Stdout \in Consoles
  /\ pc \in Labels
  /\ temp \in 0 .. Len(typed)
  /\ di \in Slots /\ cx \in Slots
  /\ ret \in {Nothing, Fresh} \cup 0 .. Len(typed)
  /\ typed \in Seq(0 .. 255)
  /\ late \in 0 .. Len(typed)
  /\ last \in 0 .. Len(typed)
  /\ fault \in {"none", "overrun", "underrun"}

(* Every read of KB_BUFFER and every write of the copy stays within what   *)
(* the handler has filled: nothing shrinks KB_BUFFLEN under a read.        *)
CopyFits ==
  /\ pc = "copy" => di + cx < KB_BUFFLEN
  /\ pc = "dec" => KB_BUFFLEN > 0

(* The slots up to KB_BUFFLEN hold characters in the order they were       *)
(* typed, with repetitions, whatever point of the copy the handler         *)
(* interrupts (KB_handle against KB_read).                                 *)
Sorted ==
  \A i, j \in 0 .. KB_BUFFLEN : i <= j => KB_BUFFER[i] <= KB_BUFFER[j]

(* What the reader gets: the characters typed, in order.  It may miss some *)
(* and get some twice, but never an older one after a newer one, and never *)
(* one that was not typed once it got one that was.                        *)
Stream == INSTANCE KeyStream
ReadsInOrder == Stream!Spec

(* What was returned last, what a read holds and what the next one finds   *)
(* are in the order they were typed.                                       *)
ReadOrder ==
  /\ last <= KB_BUFFER[0]
  /\ pc \in {"count", "copy", "dec", "cmp", "clear"}
       => last <= temp /\ temp <= KB_BUFFER[0]

(* The last key pressed typed a backspace, which the echo takes off the    *)
(* buffer again (LenChange) and for which key_waiting goes up all the same.*)
Erasing == typed # << >> /\ typed[Len(typed)] = BS

(* The copy of KB_read() has something to copy, whatever point of the      *)
(* reader the handler interrupts: key_waiting, which KB_read() takes for a *)
(* sign of it, lies to a program in one case only, that the last key was a *)
(* backspace.  Then the copy has the length 2^32-1.                        *)
NoUnderrun == fault = "underrun" => Erasing

(* A read that was begun finds what made it begin. *)
ReadHasKey == pc \in {"load", "count"} => KB_BUFFLEN > 0 \/ Erasing

(* key_waiting is trustworthy except between the dec and the end of the    *)
(* call that emptied the buffer, and except that a backspace raises it     *)
(* for an empty buffer, until the next key.                                *)
WaitingHasKey ==
  key_waiting /\ pc \notin {"cmp", "clear"} => KB_BUFFLEN > 0 \/ Erasing

(* Characters are left in the buffer that no call of KB_read() sees: the   *)
(* last key came between the test of KB_BUFFLEN and the clearing of        *)
(* key_waiting, which took its flag away.  The next key gives it back.     *)
Stranded == KB_BUFFLEN > 0 /\ ~key_waiting /\ late = Len(typed)

(* A program that does not stop reading empties the buffer, except of what *)
(* is stranded, unless the kernel is brought down on the way; however the  *)
(* handler interrupts it, for each read takes one off before the test.     *)
Drains == <>[](KB_BUFFLEN = 0 \/ Stranded \/ pc = "hlt" \/ ~Running)

-----------------------------------------------------------------------------
(* What the documentation says, and the program does not do.               *)

(* KB_read() "reads 1 char from the KB_BUFFER, takes it off, and returns   *)
(* it" (documentation/src/klib/Stdin.d.txt): the next character each time. *)
TakesItOff ==
  [][(pc \in {"cmp", "clear"} /\ pc' = "main") => ret' = last + 1]_vars

(* getc() is to "Read one char from the keyboard buffer and return it"     *)
(* (documentation/src/std/stdio.d.txt): a program that calls it again and  *)
(* again comes to the end of the buffer.                                   *)
ReadsAll == <>[](KB_BUFFLEN = 0 \/ ~Running)
=============================================================================
