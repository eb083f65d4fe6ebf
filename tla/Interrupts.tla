----------------------------- MODULE Interrupts -----------------------------
(***************************************************************************)
(* How the kernel comes to take interrupts: klib/pic.d (two 8259           *)
(* controllers), klib/idt.d (the descriptor table), Multithread.d and      *)
(* init_KB(), in the order kmain() calls them, against devices that        *)
(* request interrupts at any time.                                         *)
(*                                                                         *)
(* The main program is a sequence `code' of what is left to execute, an    *)
(* element per access to a controller, to the table or to IF.  The         *)
(* controllers and the keyboard port are hardware: they are modelled by    *)
(* what the port accesses of the code do to them.                          *)
(*                                                                         *)
(* Interrupt request lines are 0 .. 15, the slave's from 8.                *)
(***************************************************************************)
EXTENDS Integers, Sequences

CONSTANTS Devices,      \* lines other than the keyboard's that may request
          Drivers       \* lines a driver may use

ASSUME InterruptsAssumption ==
  /\ Devices \subseteq 0 .. 15 \ {1, 2}
  /\ Drivers \subseteq 0 .. 15

VARIABLES
  code,         \* what the main program has yet to do
  chip,         \* the controllers: mask, first vector, ICW awaited (0: none)
  irr, isr,     \* lines latched as requesting; lines in service
  gates,        \* what was set to handle a vector
  IFlag,        \* the interrupt flag of the processor
  handler,      \* where IRQ1, the keyboard handler, is; or "none"
  stray,        \* an interrupt was taken that no handler returns from
  full,         \* port 0x60 has a byte: the keyboard holds line 1 up
  early         \* HISTORY: the byte was there when the master was reset

vars == << code, chip, irr, isr, gates, IFlag, handler, stray, full, early >>
hardware == << irr, isr, full, early >>

Chips == {"master", "slave"}
ChipOf(line) == IF line < 8 THEN "master" ELSE "slave"
LinesOf(c)   == IF c = "master" THEN 0 .. 7 ELSE 8 .. 15

IRQ(line) == 32 + line          \* enum IRQs
Vectors   == 0 .. 255           \* as many as limit = 0x7ff has room for

Bits(byte) == {b \in 0 .. 7 : (byte \div 2^b) % 2 = 1}

-----------------------------------------------------------------------------
(* What the code consists of.                                              *)

Command(c, byte) == [op |-> "command", chip |-> c, byte |-> byte]
Data(c, byte)    == [op |-> "data", chip |-> c, byte |-> byte]
Gate(v, isr_)    == [op |-> "gate", vector |-> v, isr |-> isr_]
Call(name, v)    == [op |-> name, vector |-> v]

(* MUTANT: masks the lines of the slave. *)
disableSlave == << Data("slave", 255) >>

disableAll == << Data("master", 255) >>

(* MUTANT: the slave's vectors overflow. *)
remapTimes(start) ==
  << Command("master", 17), Command("slave", 17),
     Data("master", start), Data("master", 4), Data("master", 1),
     Command("slave", 17),
     Data("slave", start * 8), Data("slave", 2), Data("slave", 1) >>
  \o disableAll

remap(start) ==
  << Command("master", 17), Command("slave", 17),
     Data("master", start), Data("master", 4), Data("master", 1),
     Command("slave", 17),
     Data("slave", start + 8), Data("slave", 2), Data("slave", 1) >>
  \o disableAll

(* MUTANT: enables the line before its gate is set. *)
setEnablesFirst(v, isr_) ==
  (IF v > IRQ(0) /\ v < IRQ(15) THEN << Call("enable", v) >> ELSE << >>)
  \o << Gate(v, isr_) >>

(* IDT.set *)
set(v, isr_) ==
  << Gate(v, isr_) >>
  \o (IF v > IRQ(0) /\ v < IRQ(15) THEN << Call("enable", v) >> ELSE << >>)

(* IDT.opCall; the two loops over descriptors take a step each.  Nothing   *)
(* depends on when lidt is executed.                                       *)
Idt ==
  remap(IRQ(0)) \o disableAll
  \o << [op |-> "clear"], [op |-> "registerAllExceptions"] >>

kmain ==
  Idt \o set(IRQ(0), "irq0_handler") \o set(IRQ(1), "IRQ1")
  \o << [op |-> "sti"] >>

(* GRUB enters with the controllers as the BIOS has set them, masks of its *)
(* own, and perhaps a byte in the keyboard port; entry.asm has cleared IF. *)
Init ==
  /\ code = kmain
  /\ \E m, s \in {{}, 0 .. 7} :
       chip = [master |-> [mask |-> m, base |-> 8, icw |-> 0],
               slave  |-> [mask |-> s, base |-> 112, icw |-> 0]]
  /\ full \in BOOLEAN
  /\ irr = IF full THEN {1} ELSE {}
  /\ isr = {}
  /\ gates = [v \in Vectors |-> "init"]
  /\ IFlag = FALSE
  /\ handler = "none"
  /\ stray = FALSE
  /\ early = FALSE

Live == ~stray
Main == Live /\ handler = "none" /\ code # << >>

Doing(op) == Main /\ Head(code).op = op /\ code' = Tail(code)

-----------------------------------------------------------------------------
(* The controllers.  0x11 (ICW1) begins an initialisation: it unmasks      *)
(* every line and forgets the requests it has latched; a line that stays   *)
(* up has to go down and up again to request once more.  Three data bytes  *)
(* complete it; a later data byte is the mask.                             *)

Reset(c) ==
  /\ chip' = [chip EXCEPT ![c] = [@ EXCEPT !.mask = {}, !.icw = 2]]
  /\ irr' = irr \ LinesOf(c)
  /\ isr' = isr \ LinesOf(c)
  /\ early' = (early \/ (c = "master" /\ full))

SendCommand ==
  /\ Doing("command") /\ Head(code).byte = 17
  /\ Reset(Head(code).chip)
  /\ UNCHANGED << gates, IFlag, handler, stray, full >>

Takes(controller, byte) ==
  CASE controller.icw = 2 -> [controller EXCEPT !.base = byte, !.icw = 3]
    [] controller.icw = 3 -> [controller EXCEPT !.icw = 4]
    [] controller.icw = 4 -> [controller EXCEPT !.icw = 0]
    [] OTHER              -> [controller EXCEPT !.mask = Bits(byte)]

Received(c, byte) == [chip EXCEPT ![c] = Takes(@, byte)]

SendData ==
  /\ Doing("data")
  /\ chip' = Received(Head(code).chip, Head(code).byte)
  /\ UNCHANGED << hardware, gates, IFlag, handler, stray >>

(* The bit that `1 << n' has in a byte: the processor shifts by n % 32, so *)
(* that IRQ8 and up have none.                                             *)
Bit(v) == {v % 32} \cap 0 .. 7

ChipFor(v) == IF v > IRQ(7) THEN "slave" ELSE "master"

(* b &= ~(1 << n) *)
enable ==
  /\ Doing("enable")
  /\ LET v == Head(code).vector
     IN  chip' = [chip EXCEPT ![ChipFor(v)].mask = @ \ Bit(v)]
  /\ UNCHANGED << hardware, gates, IFlag, handler, stray >>

(* b |= ~(1 << n) *)
disable ==
  /\ Doing("disable")
  /\ LET v == Head(code).vector
     IN  chip' = [chip EXCEPT ![ChipFor(v)].mask = @ \cup (0 .. 7 \ Bit(v))]
  /\ UNCHANGED << hardware, gates, IFlag, handler, stray >>

-----------------------------------------------------------------------------
(* The table.  Every descriptor has the presence flag from the start.      *)

(* Descriptor.clear(), from 20 on: memcpy() takes the source first and     *)
(* this.sizeof is that of a pointer, so bytes from address 0 overwrite     *)
(* the offset and the selector, and the presence flag stays.               *)
clear ==
  /\ Doing("clear")
  /\ gates' = [v \in Vectors |-> IF v >= 20 THEN "low memory" ELSE gates[v]]
  /\ UNCHANGED << chip, hardware, IFlag, handler, stray >>

Exceptions == 0 .. 19 \ {1, 15}

registerAllExceptions ==
  /\ Doing("registerAllExceptions")
  /\ gates' = [v \in Vectors |-> IF v \in Exceptions THEN "exception"
                                                     ELSE gates[v]]
  /\ UNCHANGED << chip, hardware, IFlag, handler, stray >>

SetGate ==
  /\ Doing("gate")
  /\ gates' = [gates EXCEPT ![Head(code).vector] = Head(code).isr]
  /\ UNCHANGED << chip, hardware, IFlag, handler, stray >>

sti ==
  /\ Doing("sti")
  /\ IFlag' = TRUE
  /\ UNCHANGED << chip, hardware, gates, handler, stray >>

-----------------------------------------------------------------------------
(* Devices. *)

Request(line) ==
  /\ Live /\ line \in Devices
  /\ irr' = irr \cup {line}
  /\ UNCHANGED << code, chip, isr, gates, IFlag, handler, stray, full, early >>

(* The keyboard has a byte for the port, which it gives once it is empty.  *)
Key ==
  /\ Live /\ ~full
  /\ full' = TRUE
  /\ irr' = irr \cup {1}
  /\ UNCHANGED << code, chip, isr, gates, IFlag, handler, stray, early >>

Masked(line) ==
  \/ line % 8 \in chip[ChipOf(line)].mask
  \/ line >= 8 /\ 2 \in chip["master"].mask

(* The slave requests through line 2 of the master.  A controller passes   *)
(* on what has a smaller number than all it has in service.                *)
Cascade(line) == IF line < 8 THEN line ELSE 2

Passes(c, line) ==
  chip[c].icw = 0 /\ \A s \in isr \cap LinesOf(c) : line < s

Requests(line) ==
  /\ line \in irr /\ ~Masked(line)
  /\ Passes("master", Cascade(line)) /\ Passes(ChipOf(line), line)

(* The order in which requests are taken: 0, 1, the slave's, 3 to 7. *)
Before(a, b) ==
  \/ Cascade(a) < Cascade(b)
  \/ Cascade(a) = Cascade(b) /\ a < b

VectorOf(line) == chip[ChipOf(line)].base + (line % 8)

(* Between two instructions of the main program, with IF up, the processor *)
(* takes the first request through its gate.  It does not come back but    *)
(* from IRQ1 and a driver's handler (irq0_handler executes iret with EBP   *)
(* on top of the stack).                                                   *)
Interrupt(line) ==
  /\ Live /\ IFlag /\ handler = "none"
  /\ Requests(line)
  /\ \A other \in irr : Requests(other) => ~Before(other, line)
  /\ irr' = irr \ {line}
  /\ isr' = isr \cup {line, Cascade(line)}
  /\ IFlag' = FALSE
  /\ LET isr_ == gates[VectorOf(line)]
     IN  /\ handler' = CASE isr_ = "IRQ1"   -> "read"
                         [] isr_ = "driver" -> "EOI"
                         [] OTHER           -> "none"
         /\ stray' = (isr_ \notin {"IRQ1", "driver"})
  /\ UNCHANGED << code, chip, gates, full, early >>

(* MUTANT: does not read the port. *)
ReadPortNot ==
  /\ Live /\ handler = "read"
  /\ handler' = "echo"
  /\ UNCHANGED << code, chip, irr, isr, gates, IFlag, stray, full, early >>

(* KB_handle: read_KB() empties the port, *)
ReadPort ==
  /\ Live /\ handler = "read"
  /\ full' = FALSE /\ early' = FALSE
  /\ handler' = "echo"
  /\ UNCHANGED << code, chip, irr, isr, gates, IFlag, stray >>

(* the echo putChar() comes before the end of interrupt, and may never     *)
(* return: it depends on the console (Term), which is not in this module,  *)
Echo ==
  /\ Live /\ handler = "echo"
  /\ handler' \in {"EOI", "hung"}
  /\ UNCHANGED << code, chip, irr, isr, gates, IFlag, stray, full, early >>

(* MUTANT: tells the slave, and not the master. *)
EOISlave ==
  /\ Live /\ handler = "EOI"
  /\ isr' = {s \in isr : s < 8 \/ \E t \in isr : t >= 8 /\ t < s}
  /\ handler' = "iret"
  /\ UNCHANGED << code, chip, irr, gates, IFlag, stray, full, early >>

(* and EOI() ends the first line in service at the master; the slave is   *)
(* never told.                                                             *)
EOI ==
  /\ Live /\ handler = "EOI"
  /\ isr' = {s \in isr : s >= 8 \/ \E t \in isr : t < s}
  /\ handler' = "iret"
  /\ UNCHANGED << code, chip, irr, gates, IFlag, stray, full, early >>

iret ==
  /\ Live /\ handler = "iret"
  /\ IFlag' = TRUE
  /\ handler' = "none"
  /\ UNCHANGED << code, chip, irr, isr, gates, stray, full, early >>

-----------------------------------------------------------------------------
Execute ==
  \/ SendCommand \/ SendData \/ enable \/ disable
  \/ clear \/ registerAllExceptions \/ SetGate \/ sti

Handle == ReadPort \/ Echo \/ EOI \/ iret

Interrupted == \E line \in 0 .. 15 : Interrupt(line)

(* Once the kernel is up, drivers use the interface of pic.d and idt.d:    *)
(* what they call is executed with interrupts on.                          *)
Drive(line) ==
  /\ Live /\ IFlag /\ code = << >> /\ handler = "none"
  /\ code' \in {set(IRQ(line), "driver"), << Call("disable", IRQ(line)) >>,
                disableAll}
  /\ UNCHANGED << chip, hardware, gates, IFlag, handler, stray >>

Next ==
  \/ Execute \/ Handle \/ Interrupted
  \/ Key
  \/ \E line \in Devices : Request(line)
  \/ \E line \in Drivers : Drive(line)

(* The processor goes on, in the handlers too unless an echo hangs, and    *)
(* looks for a request after every instruction.  Nothing is assumed of     *)
(* devices and drivers.                                                    *)
Fairness ==
  WF_vars(Execute) /\ WF_vars(Handle) /\ WF_vars(Interrupted)

Spec == Init /\ [][Next]_vars /\ Fairness

-----------------------------------------------------------------------------
TypeOK ==
  /\ chip \in [Chips -> [mask : SUBSET (0 .. 7), base : 0 .. 255, icw : 0 .. 4]]
  /\ irr \subseteq 0 .. 15 /\ isr \subseteq 0 .. 15
  /\ gates \in [Vectors -> {"init", "low memory", "exception", "irq0_handler",
                            "IRQ1", "driver"}]
  /\ IFlag \in BOOLEAN /\ stray \in BOOLEAN
  /\ full \in BOOLEAN /\ early \in BOOLEAN
  /\ handler \in {"none", "read", "echo", "hung", "EOI", "iret"}

(* "so they don't start firing as we enable interrupts" (idt.d): none is   *)
(* taken before the controllers are initialised and the gates set, and     *)
(* afterwards only from lines with a handler, whatever drivers do (unless  *)
(* one opens line 2: remap() leaves all of the slave unmasked behind it).  *)
NoStray == ~stray

(* The keyboard is heard: a byte in its port is on its way to the          *)
(* processor, unless it was there before the controllers were initialised. *)
Heard == full /\ ~early => 1 \in irr \/ handler = "read"

Remapped == chip["master"].base = IRQ(0)

(* Such a byte is read, whatever else requests interrupts, unless a driver *)
(* masks the keyboard or the echo of a key before it never returned: then  *)
(* its interrupt is not ended and IF stays down, for every device.         *)
KeyServed ==
  (Remapped /\ full /\ ~early) ~> (~full \/ Masked(1) \/ handler = "hung")
=============================================================================
