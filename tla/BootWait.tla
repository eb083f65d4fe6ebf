------------------------------ MODULE BootWait ------------------------------
(***************************************************************************)
(* The end of kmain()'s boot (nucleus/nucleus.d): with the prompt "Press   *)
(* any key to start the AILETA interface" on the screen,                   *)
(*     while(getc()=='\0') { asm{hlt;} }                                   *)
(* runs against the keyboard interrupt.  AILETA is started when it ends.   *)
(***************************************************************************)
EXTENDS Keyboard

(* getc() *)
Poll == ret = Fresh /\ Enter

InRead == Load \/ Count \/ Copy \/ Dec \/ Compare \/ Clear

(* == '\0', so hlt.  Between the two the handler may run, and what it       *)
(* stores does not wake the processor, which is not asleep yet.            *)
Sleep == ret # Fresh /\ Char(ret) = NUL /\ Halt

Main == Poll \/ InRead \/ Sleep

BootNext == KB_handle \/ Main

(* The processor executes the loop unless it sleeps or is in the handler;  *)
(* that keys are pressed is not assumed.                                   *)
BootSpec == Init /\ [][BootNext]_vars /\ WF_vars(Main)

(* The loop has ended. *)
Started == pc = "main" /\ ret # Fresh /\ Char(ret) # NUL

-----------------------------------------------------------------------------
(* What a key may do instead of starting AILETA.  The echo of a key may    *)
(* hang (Enter at the foot of the page); a Backspace, as the last key,     *)
(* makes KB_read() copy 2^32-1 bytes from an empty buffer; and a full      *)
(* buffer overruns.                                                        *)
Broken == \/ Stdout.hung
          \/ fault = "underrun" /\ Erasing
          \/ fault = "overrun"

(* A key that comes when the loop is about to call getc(), because it has  *)
(* not begun or because the key has ended its hlt, starts AILETA, whatever *)
(* key it is and whatever comes meanwhile, or breaks the kernel in one of  *)
(* these three ways.  Even the release of a key does, whose character is   *)
(* '\0'.                                                                   *)
KeyStarts ==
  (pc = "main" /\ ret = Fresh /\ typed # << >>) ~> (Started \/ Broken)

(* "Press any key to start the AILETA interface" (nucleus.d): once a key   *)
(* was pressed and released, it starts.                                    *)
AnyKeyStarts == Len(typed) >= 2 ~> Started
=============================================================================
